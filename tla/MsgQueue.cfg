SPECIFICATION MailboxSpec
CONSTANTS
  Size <- Sizes
  Setting <- Settings
  Unlimited = Unlimited
  MaxMessages = 4
  MaxReloads = 2
INVARIANTS
  WalkComplete
PROPERTIES
  IsBoundedQueue
  WarnedOnce
  ActorIsTransparent
  ServerGoesOn
\* The counters are bounded, so every behaviour comes to an end.
CHECK_DEADLOCK FALSE
