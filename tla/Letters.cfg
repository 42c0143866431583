SPECIFICATION Spec
CONSTANTS
  NULL = NULL
  alice = alice
  bob = bob
  Client <- TwoClients
  AddressOf <- Initials
  StreamName <- Weather
  ServiceName <- Printer
  EmptyPattern <- Everything
  Letter <- TwoLetters
  MaxCommands = 4
INVARIANTS
  RoundTrip
  ExactFit
  LetterKept
\* The counters are bounded, so every behaviour comes to an end.
CHECK_DEADLOCK FALSE
