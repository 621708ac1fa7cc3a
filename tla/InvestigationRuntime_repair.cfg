SPECIFICATION FairSpec
CONSTANTS
  Worker <- MCWorker
  Direct = {}
  Probes = {}
  MaxEdits = 1
  None = None
PROPERTY RepairEndsWaits
CHECK_DEADLOCK FALSE
