CONSTANTS
  Starters = {a}
  Stoppers = {x}
  Observers = {o}
  Waiters = {w}
  MaxSpawns = 1
SPECIFICATION FairSpec
PROPERTIES StartSettles StopSettles 
CHECK_DEADLOCK FALSE
