SPECIFICATION ShutdownSpec
CONSTANTS
  p1 = p1
  p2 = p2
  c1 = c1
  c2 = c2
  weather = weather
  x = x
  NoPeer = NoPeer
  NoPtr = NoPtr
  NoStream = NoStream
  NoTask = NoTask
  NULL = NULL
  Peer <- TwoPeers
  Ptr <- TwoPtrs
  Stream <- OneStream
  Subject <- OneSubject
  Pattern <- OnePattern
  Commands <- Publishing
  PipeLimit = 9
  MaxOpens = 3
  MaxReads = 1
  MaxCancels = 0
  MaxSends = 1
INVARIANTS
  TablesExact
  FreedAtEnd
PROPERTIES
  ShutdownEnds
\* The counters are bounded, so every behaviour comes to an end.
CHECK_DEADLOCK FALSE
