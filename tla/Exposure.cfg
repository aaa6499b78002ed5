SPECIFICATION PartsSpec
CONSTANTS
  Clients = {c1, c2}
  Grace = 1
  MaxChanges = 1
  MaxMoves = 3
  MaxFailures = 1
  Retries = 2
  Pids = {1, 2, 3}
  MaxAncestorDepth = 2
  MaxListeners = 2
  Places <- TestPlaces
  Worktrees <- TestWorktrees
  Devices = {d1, d2, d3}
  Ports = {p1, p2, p3}
  MaxLiveGrants = 2
  Paths <- TestPaths
  Excludes <- TestExcludes
  DocNames = {"README.md", "a.md", "b.html", "c.md", "d.md"}
  DotNames = {".x"}
  ExcludedDirs = {"build"}
  DefaultDocDirs <- TestDirs
  NoRoots = NoRoots
  Sockets = {s1, s2}
  Codes = {k1, k2}
  MaxGrants = 1
  MaxRestarts = 1
INVARIANTS
  PortsSafety
  PublishingSafety
  LookupsAgree
  PairingSafety
PROPERTIES
  WatchersSeeTheEnd
CHECK_DEADLOCK FALSE
