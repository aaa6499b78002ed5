SPECIFICATION FairSpec
CONSTANTS
  Messages = {m1, m2, m3}
  Agent = "acp"
  MaxQueued = 2
  AttachmentsFail = FALSE
  CompactFails = TRUE
  MaxGates = 2
  MaxSignals = 2
INVARIANTS
  QueueSafety
PROPERTIES
  OrderKept
  QueueDrains
CHECK_DEADLOCK FALSE
