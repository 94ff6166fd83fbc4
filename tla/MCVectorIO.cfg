CONSTANTS
  Requests <- MCRequests
  Sectors = 6
  SectorSize = 2
  PageSectors = 2
  MaxRwSectors = 8
  CountMax = 7
  LBlock = 2
  PBlock = 2
  NativeMax = 5
  Lens = {0, 1, 3}
  Bases = {0, 1, 2}
  MaxVecs = 3
  Offsets = {0, 1, 4, 6}
  TestLens = {0, 2, 4}
  TestOffsets = {0, 4, 6}
SPECIFICATION FairSpec
INVARIANTS PageBudget WithinCapacity FailsOnlyWithDevice
PROPERTIES TransferSpec CallReturns
CHECK_DEADLOCK FALSE
