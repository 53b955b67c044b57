CONSTANTS
  Starters = {a, b}
  Stoppers = {x, y}
  Observers = {}
  Waiters = {}
  MaxSpawns = 2
SYMMETRY ClientSymmetry
SPECIFICATION ClientsSpec
INVARIANTS TypeOK StartingIsSupervised StoppingIsOwned 
PROPERTY VerdictsOfThisEpoch
CHECK_DEADLOCK FALSE
