SPECIFICATION FairSpec
CONSTANTS
  Messages = {m1, m2, m3}
  Agent = "codex"
  MaxQueued = 2
  AttachmentsFail = TRUE
  CompactFails = FALSE
  MaxGates = 1
  MaxSignals = 2
INVARIANTS
  QueueSafety
PROPERTIES
  QueueDrains
CHECK_DEADLOCK FALSE
