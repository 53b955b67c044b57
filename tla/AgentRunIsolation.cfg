CONSTANTS
  MaxSteps = 1
  BatchSize = 1
  Needs <- MCFewNeeds
  CloudRun = FALSE
SPECIFICATION Spec
PROPERTY TerminalStateIsolation
CHECK_DEADLOCK FALSE
