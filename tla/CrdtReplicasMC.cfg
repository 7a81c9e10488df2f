SPECIFICATION LiveSpec
CONSTANTS
  phone = phone
  desk = desk
  Devices = {phone, desk}
  Rank <- DeviceRank
  MaxSeq = 2
  MaxOps = 3
  MaxTime = 1
INVARIANTS
  BatchComplete
  BatchKeepsCausality
PROPERTY
  ReplicasConverge
