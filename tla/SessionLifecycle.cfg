SPECIFICATION FairSpec
CONSTANTS
  Sends = {m1, m2}
  Reopens = {r1}
  AgentsFail = TRUE
  UsersClose = TRUE
  MaxAdapters = 3
  MaxCloses = 2
INVARIANTS
  EveryAgentHasItsSession
  InputMeetsAStartedAgent
  CloseSafety
PROPERTIES
  SendsSettle
CHECK_DEADLOCK FALSE
