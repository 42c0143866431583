SPECIFICATION Spec
CONSTANTS
  malamute = malamute
  other = other
  NoFile = NoFile
  Missing = Missing
  Unset = Unset
  NoLimit = NoLimit
  File <- TwoFiles
  Elsewhere <- InWorkdir
  Content <- Contents
  Default <- ByDefault
  Setting <- Settings
  MaxCommands = 3
  MaxEdits = 2
INVARIANTS
  OneConfiguration
PROPERTIES
  FileApplied
\* The counters are bounded, so every behaviour comes to an end.
CHECK_DEADLOCK FALSE
