\* The command lines of three sessions with -A.
SPECIFICATION Spec
CONSTANTS
  l1 = l1
  l2 = l2
  l3 = l3
  start = start
  alice = alice
  bob = bob
  program = program
  x = x
  Start = start
  Links <- MCLinks
  Identities <- MCIdentities
  Listed <- MCListed
  Words <- MCWords
  Command <- MCCommand
  CommandLines <- MCCommandLines
  MaxEdits = 0
INVARIANT OwnArguments
CHECK_DEADLOCK FALSE
