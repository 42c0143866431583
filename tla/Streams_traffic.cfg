SPECIFICATION Spec
CONSTANTS
  p1 = p1
  p2 = p2
  c1 = c1
  c2 = c2
  weather = weather
  traffic = traffic
  x = x
  y = y
  NoPeer = NoPeer
  NoPtr = NoPtr
  NoStream = NoStream
  NoTask = NoTask
  Peer <- TwoPeers
  Ptr <- TwoPtrs
  Stream <- OneStream
  Subject <- TwoSubjects
  Pattern <- OnePattern
  Commands <- AllCommands
  PipeLimit = 2
  MaxOpens = 2
  MaxReads = 1
  MaxCancels = 1
  MaxSends = 3
SYMMETRY Symmetric
INVARIANTS
  DeliveredAsAsked
  NoneMissed
  StreamInOrder
  LinksExact
\* The counters are bounded, so every behaviour comes to an end.
CHECK_DEADLOCK FALSE
