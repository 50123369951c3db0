\* Every six keys in reads of one or two.
SPECIFICATION Spec
CONSTANTS
  MaxKeys = 6
  MaxRead = 2
INVARIANTS TypeOK KeysKept ScreenMatches
CHECK_DEADLOCK FALSE
