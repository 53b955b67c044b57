CONSTANTS
  Starters = {a, b}
  Stoppers = {x}
  Observers = {}
  Waiters = {}
  MaxSpawns = 2
SPECIFICATION Spec
INVARIANT NoDoubleSpawn
CHECK_DEADLOCK FALSE
