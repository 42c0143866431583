SPECIFICATION FairSpec
CONSTANTS
  p1 = p1
  p2 = p2
  alice = alice
  echo = echo
  x = x
  y = y
  Anonymous = Anonymous
  NoPeer = NoPeer
  NoAddress = NoAddress
  NoService = NoService
  Peer <- TwoPeers
  Address <- AliceOrNone
  Service <- OneService
  Subject <- TwoSubjects
  Pattern <- OverlappingPatterns
  Commands <- AllCommands
  MailboxLimit = 2
  QueueLimit = 2
  MaxSends = 3
  MaxOffers = 2
INVARIANTS
  TypeOK
  RegistryExact
  MailboxDrained
  MailInOrder
  Accounted
  OffersLive
  NoIdleWorker
  RequestsInOrder
  FairTurn
PROPERTIES
  DispatchEnds
  DeliveredToRightClient
