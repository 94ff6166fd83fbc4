CONSTANTS
  MaxDev = 3
  Timer = TRUE
  MaxOpens = 3
  MaxCmds = 3
SPECIFICATION FairSpec
INVARIANTS DevicesReachable ThreadsInside
PROPERTIES CommandEnds
CHECK_DEADLOCK FALSE
