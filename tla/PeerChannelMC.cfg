SPECIFICATION FairSpec
CONSTANTS
  MaxPeers = 3
  MaxOffers = 3
  MaxTheirs = 1
  MaxIce = 1
  MaxFaults = 1
INVARIANTS
  ReadyIsMutual
  NoLeakedConnection

  
CHECK_DEADLOCK FALSE
