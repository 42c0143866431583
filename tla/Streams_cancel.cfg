SPECIFICATION Spec
CONSTANTS
  p1 = p1
  p2 = p2
  c1 = c1
  c2 = c2
  weather = weather
  traffic = traffic
  x = x
  y = y
  NoPeer = NoPeer
  NoPtr = NoPtr
  NoStream = NoStream
  NoTask = NoTask
  Peer <- TwoPeers
  Ptr <- TwoPtrs
  Stream <- TwoStreams
  Subject <- OneSubject
  Pattern <- OnePattern
  Commands <- AllCommands
  PipeLimit = 9
  MaxOpens = 3
  MaxReads = 2
  MaxCancels = 1
  MaxSends = 2
INVARIANTS
  NoDangling
\* The counters are bounded, so every behaviour comes to an end.
CHECK_DEADLOCK FALSE
