SPECIFICATION FairSpec
CONSTANTS
  Procs = {p1, p2}
  Sets <- TwoSets
  Strings = {1, 2}
  DiffPairs <- OneWay
  Free = free
INVARIANTS
  StringSetTypeOK
  DiffTellsTruth
PROPERTIES
  EqualsIsExact
  CallsReturn
CHECK_DEADLOCK FALSE
