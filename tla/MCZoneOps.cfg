CONSTANTS
  NrZones = 5
  Start <- MCStart
  Length <- MCLength
  MaxOpen = 2
  FromSectors = {0, 4, 5, 8, 10, 17}
  Counts = {0, 2, 3}
  CountSupport = {TRUE, FALSE}
  CountMod = 4
  LBlock = 2
  UnsetLengths = {0, 4}
  OtherOps = {"finish", "reset"}
  TestModes = {TRUE, FALSE}
SPECIFICATION Spec
INVARIANTS GroupComplete PrefixOnly GroupEffect
PROPERTY OnlyGroupChanges
CHECK_DEADLOCK FALSE
