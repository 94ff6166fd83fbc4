CONSTANTS
  ZoneType <- MCZoneType
  ZoneLen = 4
  PBlock = 2
  InitWps <- Wps
  Jobs <- MCJobs
  MaxOthers = 1
SPECIFICATION ZoneIOFairSpec
INVARIANTS WritesInOrder FileInOrder ReadBelowWp FileIsZone
PROPERTIES ToolsEnd
CHECK_DEADLOCK FALSE
