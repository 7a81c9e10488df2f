SPECIFICATION LiveSpec
CONSTANTS
  Faults = {"clean"}
  MaxOpens = 1
  MaxCloses = 0
  MaxGen = 4
  MaxLinkFaults = 1
PROPERTIES
  Retries
CHECK_DEADLOCK FALSE
