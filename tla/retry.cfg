\* Three calls of begin() with two tags, and two tries for each.
SPECIFICATION FairSpec
CONSTANTS
  t1 = t1
  t2 = t2
  NoTag = NoTag
  MaxBegins = 3
  Tags <- MCTags
  TryLimit = 2
INVARIANTS TypeOK OnePerTag
PROPERTIES LeavesOver EveryStatusEnds
CHECK_DEADLOCK FALSE
