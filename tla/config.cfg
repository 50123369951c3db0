\* Allow file and command line of three links.
SPECIFICATION Spec
CONSTANTS
  l1 = l1
  l2 = l2
  l3 = l3
  start = start
  alice = alice
  bob = bob
  program = program
  x = x
  Start = start
  Links <- MCLinks
  Identities <- MCIdentities
  Listed <- MCListed
  Words <- MCWords
  Command <- MCCommand
  CommandLines <- MCCommandLines
  MaxEdits = 1
SYMMETRY MCSymmetry
INVARIANTS TypeOK OnlyListed AlwaysListed CommandLine
CHECK_DEADLOCK FALSE
