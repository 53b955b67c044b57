---------------------------- MODULE EngineEvents ----------------------------
(***************************************************************************)
(* What the desktop shell is told of the engine: the AppEvents of the      *)
(* supervisor (engine/status.rs, engine/launch.rs) and the tray indicator  *)
(* that app/main.rs keeps from them. The supervisor's steps are those of   *)
(* EngineSupervisor; each is joined by what it emits.                      *)
(***************************************************************************)
EXTENDS EngineSupervisor

VARIABLES
  prev,   \* the state each status request began with (prev_state)
  tray    \* EngineRunning: the desktop shell's indicator

eventVars == <<vars, prev, tray>>

(* The event of a state, for the states that have one. *)
StateEvent(s) ==
  CASE s = "running" -> <<"ready">> [] s = "failed" -> <<"failed">>
    [] s = "stopped" -> <<"stopped">> [] OTHER -> << >>

(* The events of one refresh, in order: one where the child, the deadline  *)
(* and the adoption each change the state, and one for the net change.     *)
Announced(e, f, before) ==
  LET c == AfterChild(e, f)
      d == AfterDeadline(c)
      a == AfterAdoption(d, f)
  IN  (IF c.state = e.state THEN << >> ELSE IF f.hasChild THEN <<"ready">> ELSE <<"stopped">>)
        \o (IF d.state = c.state THEN << >> ELSE <<"failed">>)
        \o (IF a.state = d.state THEN << >> ELSE StateEvent(a.state))
        \o (IF a.state = before THEN << >> ELSE StateEvent(a.state))

(* handle_event, for the events of a step. *)
Shown(news) == IF news = << >> THEN tray ELSE news[Len(news)] = "ready"

EventsInit == Init /\ prev = [o \in Observers |-> "stopped"] /\ tray = FALSE

RefreshEmits(o) ==
  \/ StatusRead(o) /\ prev' = [prev EXCEPT ![o] = eng.state] /\ UNCHANGED tray
  \/ StatusProbe(o) /\ UNCHANGED <<prev, tray>>
  \/ StatusApply(o) /\ tray' = Shown(Announced(eng, status[o], prev[o])) /\ UNCHANGED prev

EventsNext ==
  \/ FailAndEmit /\ tray' = Shown(<<"failed">>) /\ UNCHANGED prev
  \/ \E o \in Observers : RefreshEmits(o)
  \/ Silent /\ UNCHANGED <<prev, tray>>

EventsSpec == EventsInit /\ [][EventsNext]_eventVars

(* types/state.rs on EngineStopped: "Engine was stopped (by the user or    *)
(* externally)". A refresh that found the engine answering does not tell   *)
(* the user that it stopped.                                               *)
StoppedMeansDown ==
  \A o \in Observers : status[o].pc = "gathered" /\ status[o].healthy =>
    LET news == Announced(eng, status[o], prev[o])
    IN  \A i \in DOMAIN news : news[i] # "stopped"
=============================================================================
