CONSTANTS
  Threads <- MCTwo
  Ata = TRUE
  MaxCalls = 2
  HostErrors = FALSE
SPECIFICATION ErrnoSpec
INVARIANT ReportOfLastCall
CHECK_DEADLOCK FALSE
