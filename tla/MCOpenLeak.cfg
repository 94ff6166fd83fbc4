CONSTANTS
  Profiles <- MCRealms
  Flags <- MCNoFlags
  TestModes = {FALSE}
  FdLimit = 3
  Attentions = {0}
  MaxLost = 2
  Faults = TRUE
SPECIFICATION Spec
INVARIANT NoLeakAtAll
CHECK_DEADLOCK FALSE
