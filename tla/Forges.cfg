SPECIFICATION PartsSpec
CONSTANTS
  broadcast = broadcast
  picker = picker
  Reserve = 1
  Crawl = 2
  MaxRemaining = 3
  MaxBurn = 0
  Lookups = {l1, l2}
  Pollers = {p1}
  Snapshots = {broadcast}
  Users = {picker}
  Casts <- TestCasts
  Normal = 2
  Limited = 1
  Measurements = {0, 3}
  MaxReads = 1
  MaxMutations = 1
  UsersPause = TRUE
  Callers = {c1, c2}
  Requests = {q1, q2}
  MaxForgejo = 1
  Routes = {r1, r2}
  MaxChoices = 1
  MaxForgets = 1
INVARIANTS
  GatewaySafety
  StaleOnlyIfOverlapped
  RoutingSafety
CHECK_DEADLOCK FALSE
