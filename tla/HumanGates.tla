----------------------------- MODULE HumanGates -----------------------------
(***************************************************************************)
(* What the human gates of an agent run promise, without the locks, the    *)
(* timeouts and the stops they are built from: a pause is asked once and   *)
(* decided at most once, a client's decision grants one pause, and a call  *)
(* takes effect only when every gate it needs stands granted.              *)
(***************************************************************************)
EXTENDS Naturals, FiniteSets

CONSTANTS
  Pause,      \* the pauses a run can make, records with turn, call and kind
  Effect      \* the effects calls can have, records with turn, call and need

VARIABLES
  gate,        \* the state of each pause
  remembered,  \* calls whose risky command was approved for the whole run
  done         \* the effects that took place

vars == <<gate, remembered, done>>

GateState == {"shut", "open", "granted", "refused"}

Init ==
  /\ gate = [p \in Pause |-> "shut"]
  /\ remembered = {}
  /\ done = {}

NewlyGranted == {p \in Pause : gate[p] # "granted" /\ gate'[p] = "granted"}

(* Pauses open, are refused (by a client, a timeout, a stop, a lost        *)
(* sender), and at most one of them is granted.                            *)
Decide ==
  /\ gate' \in [Pause -> GateState]
  /\ \A p \in Pause :
       \/ gate'[p] = gate[p]
       \/ gate[p] = "shut" /\ gate'[p] = "open"
       \/ gate[p] = "open" /\ gate'[p] \in {"granted", "refused"}
  /\ \A p, q \in NewlyGranted : p = q
  /\ \/ remembered' = remembered
     \/ \E p \in NewlyGranted : p.kind = "risky" /\ remembered' = remembered \cup {p.call}
  /\ UNCHANGED done

Passed(e, k) ==
  \/ \E p \in Pause : p = [turn |-> e.turn, call |-> e.call, kind |-> k] /\ gate[p] = "granted"
  \/ k = "risky" /\ e.call \in remembered

Act ==
  /\ \E e \in Effect :
       /\ \A k \in e.need : Passed(e, k)
       /\ done' = done \cup {e}
  /\ UNCHANGED <<gate, remembered>>

Next == Decide \/ Act

Spec == Init /\ [][Next]_vars
-----------------------------------------------------------------------------
(* No effect without its grants.                                           *)
DoneOnlyAsGranted == \A e \in done : \A k \in e.need : Passed(e, k)
=============================================================================
