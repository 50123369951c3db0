\* One command: calls in any order, and reuse of pids and descriptors, under
\* fairness.
SPECIFICATION FairSpec
CONSTANTS
  ExitCodes <- MCExitCodes
  Ends <- MCPipeEnds
  StdinFd = 5
  Reuse = TRUE
  MaxCalls = 2
INVARIANTS TypeOK ReportOnce ClosesOnlyOwn
PROPERTIES EndReported EndsWhenAsked CleanedUp
CHECK_DEADLOCK FALSE
