\* The code reported for a command that exits by itself.
SPECIFICATION Spec
CONSTANTS
  ExitCodes <- MCExitCodes
  Ends <- MCPtyEnds
  StdinFd = 5
  Reuse = FALSE
  MaxCalls = 0
INVARIANT ExitCodeReported
CHECK_DEADLOCK FALSE
