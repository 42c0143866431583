SPECIFICATION FairSpec
CONSTANTS
  Setup <- ReadAndCancel
  Sends = {}
  ConnectTimeout = TRUE
  MaxCalls = 3
  MaxPings = 1
  MaxBreaks = 1
  MaxLate = 0
  MaxMails = 0
PROPERTIES
  Reconnects
\* The counters are bounded, so every behaviour comes to an end.
CHECK_DEADLOCK FALSE
