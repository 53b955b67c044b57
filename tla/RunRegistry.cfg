CONSTANTS
  Clients = {c1, c2}
  MaxRuns = 3
  MaxConcurrent = 1
  MaxStored = 2
  MaxDepth = 1
SPECIFICATION Spec
INVARIANTS TypeOK WorkingRunsAreListed WorkIsBounded
 
CHECK_DEADLOCK FALSE
