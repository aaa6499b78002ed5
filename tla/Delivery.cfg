SPECIFICATION FairSpec
CONSTANTS
  MaxSeq = 3
  MaxDrops = 1
  MaxOpens = 2
INVARIANTS
  ViewSafety
PROPERTIES
  Converges
CHECK_DEADLOCK FALSE
