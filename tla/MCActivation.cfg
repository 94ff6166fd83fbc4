CONSTANTS
  Progs = {"act", "ctl"}
  ActProg = "act"
  CtlProg = "ctl"
  Ones <- McOnes
  Settings <- McSettings
  Asks <- McAsks
  Devices <- McDevices
  NrRealms = 3
  Lens <- McLens
  SeqDomain = 2
  CdbMax = 3
  Jobs <- McJobs
  MaxChanges = 1
SPECIFICATION FairSpec
INVARIANTS ActivatesAsked ControlHonest RecordsFromReply
PROPERTIES ForeignSettingsKept ResetConfined ProgramsEnd
