CONSTANTS
  MaxSteps = 1
  BatchSize = 2
  Needs <- MCNeeds
  CloudRun = TRUE
SPECIFICATION FairSpec
INVARIANTS TypeOK RanOnlyAsGranted NoOrphanPause  
PROPERTIES DecidedOnce HumanGatesHold RunEnds
CHECK_DEADLOCK FALSE
