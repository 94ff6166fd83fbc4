CONSTANTS
  ZoneType <- MCZoneType
  ZoneLen = 4
  PBlock = 2
  InitWps <- Wps
  Jobs <- MCJobs
  MaxOthers = 0
SPECIFICATION ZoneIOSpec
INVARIANT WritesFromWp
CHECK_DEADLOCK FALSE
