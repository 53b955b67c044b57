CONSTANTS
  Starters = {a}
  Stoppers = {x}
  Observers = {o}
  Waiters = {}
  MaxSpawns = 1
SPECIFICATION EventsSpec
INVARIANT StoppedMeansDown
CHECK_DEADLOCK FALSE
