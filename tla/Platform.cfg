SPECIFICATION PartsSpec
CONSTANTS
  Procs = {p1, p2, p3}
  None = None
  MaxCommands = 3
  Ids = {i1, i2, i3}
  MaxCancels = 3
  ForWhats = {"any", "idle", "approval", "input"}
  MaxEvents = 4
  MaxFrameBytes = 2
  MaxLength = 4
  MaxFrames = 3
  MaxChunk = 6
  Pids = {1, 2, 3}
  Root = 1
  Comms = {"sh", "rg"}
  MaxCpu = 2
  MaxSpawns = 3
  Clients = {c1, c2}
  MaxSamples = 3
  MaxToggles = 5
  MaxSessions = 4
  MaxDepth = 2
  MaxLive = 1
  MaxRoots = 1
  MaxClosed = 1
  MaxReopens = 1
  MaxKills = 1
  MaxRestarts = 1
  Messages = {"message"}
  Tools = {"tool"}
  MaxRows = 5
  MaxCompactions = 1
  MaxVersion = 3
  MaxCrashes = 1
  Foreign = {c2}
  MaxTokens = 2
INVARIANTS
  ReportedIsNamed
  NoWatchLeaks
  ZeroMeansATurnEnded
  LinesArriveWhole
  PanelSafety
  SpawnsStayBounded
  KeptAnswersAreTrue
PROPERTIES
  NothingLostOrMisplaced
  GoneIsNoticed
CHECK_DEADLOCK FALSE
