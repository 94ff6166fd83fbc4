CONSTANTS
  Threads <- MCTwo
  Ata = TRUE
  MaxCalls = 3
  HostErrors = TRUE
SPECIFICATION ErrnoSpec
INVARIANTS SuccessClears OneCommand
CHECK_DEADLOCK FALSE
