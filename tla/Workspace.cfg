SPECIFICATION PartsSpec
CONSTANTS
  MaxChanges = 2
  MaxPasses = 4
  MaxOverlap = 2
  MaxFaults = 1
  Tasks = {t1, t2}
  None = None
  MaxRequests = 3
  MaxTroubles = 1
  MaxFailures = 1
  Ids = {i1, i2, i3}
  Started = {"link"}
  Torn = Torn
  MaxProjectRequests = 3
  MaxCrashes = 1
  MaxPushed = 3
  MaxSwitches = 3
  BranchNames <- TestNames
  MaxCommits = 3
INVARIANTS
  WorktreeSafety
  WorkingTreesFollow
  LandingSafety
PROPERTIES
  SnapshotsCatchUp
  NothingGoesBack
  IdsSurvive
CHECK_DEADLOCK FALSE
