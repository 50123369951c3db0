\* Three sessions that come and go under the listener's loops.
SPECIFICATION FairSpec
CONSTANTS
  a = a
  b = b
  c = c
  Links <- MCLinks
INVARIANTS TypeOK ShutdownReachesAll
PROPERTIES PumpedAgain DeadPruned ShutdownEnds
CHECK_DEADLOCK FALSE
