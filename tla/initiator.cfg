\* The initiator with two bytes of input and two messages of output.
SPECIFICATION FairSpec
CONSTANTS
  Window = 1
  MaxData = 2
  MaxWinch = 1
INVARIANTS TypeOK ExecuteAfterVersion
PROPERTIES StdinKept OutputKept LoopEnds EofDelivered
CHECK_DEADLOCK FALSE
