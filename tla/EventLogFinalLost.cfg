SPECIFICATION Spec
CONSTANTS
  Messages = {m1}
  Tools = {t1}
  SEQ_BLOCK = 2
  MEMORY_EVENT_CAP = 1
  HasStore = TRUE
  MaxFailures = 1
  MaxSeq = 6
  MaxCrashes = 1
PROPERTIES DroppedDeltaIsWritten
CHECK_DEADLOCK FALSE
