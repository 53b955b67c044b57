------------------------- MODULE MCEngineSupervisor -------------------------
EXTENDS EngineSupervisor, TLC
ClientSymmetry == Permutations(Starters) \cup Permutations(Stoppers)
=============================================================================
