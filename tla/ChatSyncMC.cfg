SPECIFICATION FairSpec
CONSTANTS
  MaxMessages = 3
  Scenarios <- SomeScenarios
INVARIANTS
  AgentOnce
  ParentsFirst
  SendingIsSent
PROPERTIES
  NothingForgotten
  Converges
CHECK_DEADLOCK FALSE
