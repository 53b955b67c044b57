-------------------------- MODULE MCEngineClients ---------------------------
(***************************************************************************)
(* The engine supervisor with three clients: two that start an engine and  *)
(* one that stops it, with an engine of another owner that comes and goes; *)
(* or one and two, without it (it is past).                                *)
(***************************************************************************)
EXTENDS MCEngineSupervisor

Companies ==
  {h \in SUBSET (Starters \cup Stoppers) :
     Cardinality(h) = 3 /\ h \cap Starters # {} /\ h \cap Stoppers # {}}

Asks(here, c, idle) == IF c \in here THEN idle ELSE [idle EXCEPT !.pc = "absent"]

ClientsInit ==
  /\ eng = [state |-> "stopped", epoch |-> 0, deadline |-> "none"]
  /\ child = Nobody
  /\ \E here \in Companies :
       /\ start = [s \in Starters |-> Asks(here, s, IdleStart)]
       /\ stop = [t \in Stoppers |-> Asks(here, t, IdleStop)]
       /\ \E f \in IF Starters \subseteq here THEN {"none", "serving"} ELSE {"exited"} :
            proc = [p \in Procs |-> IF p = Foreign THEN f ELSE "none"]
  /\ reaper = [e \in Spawned |-> "none"]
  /\ poller = [e \in Spawned |-> "none"]
  /\ status = [o \in Observers |-> IdleStatus]
  /\ waiter = [w \in Waiters |-> "idle"]

ClientsSpec == ClientsInit /\ [][Next]_vars
=============================================================================
