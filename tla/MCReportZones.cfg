CONSTANTS
  NrZones = 5
  Start <- MCStart
  Length <- MCLength
  MaxOpen = 2
  Filters <- MCFilters
  ArraySizes = {0, 1, 2, 4, 6}
  FromSectors = {0, 3, 9}
  OtherOps = {"finish", "reset"}
  RwSlots = 4
  BufUnit = 2
  UIntSlots = 6
  TestModes = {TRUE, FALSE}
SPECIFICATION FairSpec
INVARIANTS ReportInOrder NoZoneLost ListExact ErrorsSurface
PROPERTY CallReturns
CHECK_DEADLOCK FALSE
