SPECIFICATION FairSpec
CONSTANTS
  Setup <- WriterAndReader
  Sends = {"STREAM SEND", "MAILBOX SEND"}
  ConnectTimeout = TRUE
  MaxCalls = 3
  MaxPings = 1
  MaxBreaks = 1
  MaxLate = 1
  MaxMails = 2
INVARIANTS
  SuccessHolds
  SubscriptionsKept
  MailsInOrder
  LostOnlyInTrouble
PROPERTIES
  NoticesDeath
  ConfirmationEnds
\* The counters are bounded, so every behaviour comes to an end.
CHECK_DEADLOCK FALSE
