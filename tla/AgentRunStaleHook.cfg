CONSTANTS
  MaxSteps = 2
  BatchSize = 2
  Needs <- MCNeeds
  CloudRun = FALSE
SPECIFICATION Spec
INVARIANT StaleHookDecision
CHECK_DEADLOCK FALSE
