SPECIFICATION FairSpec
CONSTANTS
  d1 = d1
  d2 = d2
  Desktops = {d1, d2}
  MaxPeers = 2
  Scenarios <- SomeScenarios
INVARIANTS
  ApprovalKept
  RemovedStaysRemoved
  NoOrphan
PROPERTIES
  Settles
CHECK_DEADLOCK FALSE
