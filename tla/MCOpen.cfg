CONSTANTS
  Profiles <- MCProfiles
  Flags <- MCFlags
  TestModes = {TRUE, FALSE}
  FdLimit = 2
  Attentions = {0, 4, 5}
  MaxLost = 2
  Faults = TRUE
SPECIFICATION FairSpec
INVARIANTS NoLeak DetectsZoned HandleIsDevice
PROPERTY CallReturns
CHECK_DEADLOCK FALSE
