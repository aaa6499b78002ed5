SPECIFICATION Spec
CONSTANTS
  Messages = {m1}
  Tools = {t1}
  SEQ_BLOCK = 2
  MEMORY_EVENT_CAP = 1
  HasStore = TRUE
  MaxFailures = 1
  MaxSeq = 5
  MaxCrashes = 2
INVARIANTS
  LogKeyed
  ReplayIsWhole
PROPERTIES
  SeqNeverReissued
  ImplementsTranscript
CHECK_DEADLOCK FALSE
