-------------------------- MODULE EngineSupervisor --------------------------
(***************************************************************************)
(* The control plane's supervision of the inference engine: starting,      *)
(* watching, adopting and stopping the ninfer-serve process                *)
(* (engine/launch.rs, engine/status.rs, types/state.rs).                   *)
(*                                                                         *)
(* Everything is asynchronous over three shared things: `eng`, the record  *)
(* behind an RwLock; `child`, the process slot behind a mutex; and the     *)
(* processes of the operating system. No lock is held from one of them to  *)
(* another, so a step of this module is one critical section, one probe or *)
(* one system call. All requests use the configured port.                  *)
(***************************************************************************)
EXTENDS Naturals, Sequences, FiniteSets

CONSTANTS
  Starters,    \* clients that may post /api/engine/start
  Stoppers,    \* clients that may post /api/engine/stop
  Observers,   \* clients that may get /api/status
  Waiters,     \* proxied requests that may wait for a starting engine
  MaxSpawns    \* bound on spawn_epoch

ASSUME SupervisorAssumption == MaxSpawns \in Nat \ {0}

(* The process spawned under epoch e has the name e; Foreign is an engine  *)
(* that Studio did not spawn.                                              *)
Spawned == 1..MaxSpawns
Foreign == 0
Procs == Spawned \cup {Foreign}
Nobody == MaxSpawns + 1
Epochs == 0..MaxSpawns

EngineState == {"stopped", "starting", "running", "stopping", "failed", "external"}

VARIABLES
  eng,       \* state.engine: state, spawn_epoch and deadline
  child,     \* state.child: the slot of the process Studio supervises
  proc,      \* the processes: "none", "booting", "serving", "exited"
  start,     \* start requests in flight
  stop,      \* stop requests in flight
  reaper,    \* the reaper task of each spawn
  poller,    \* the health poller task of each spawn
  status,    \* status requests in flight: what each has gathered
  waiter     \* where each waiting request is

tasks == <<start, stop, reaper, poller, status, waiter>>
vars == <<eng, child, proc, tasks>>

Live == {p \in Procs : proc[p] \in {"booting", "serving"}}
Serving == \E p \in Procs : proc[p] = "serving"
Supervised == {"starting", "running"}   \* the states a watcher may leave

-----------------------------------------------------------------------------
(* EngineInner *)

ResetStopped(e) == [e EXCEPT !.state = "stopped", !.deadline = "none"]

MarkFailed(e) == [e EXCEPT !.state = "failed"]

MarkExited(e) == MarkFailed(e)

AdoptExternal(e) == [e EXCEPT !.state = "external", !.deadline = "none"]

(* engine_health gives up after 1.5 s: it may miss an engine that serves,  *)
(* and it never sees one that does not.                                    *)
Probe == {seen \in BOOLEAN : seen => Serving}

-----------------------------------------------------------------------------
(* POST /api/engine/start *)

MoveStart(s, from, to) ==
  /\ start[s].pc = from
  /\ start' = [start EXCEPT ![s].pc = to]

IdleStart == [pc |-> "idle", epoch |-> 0]

StartRequest(s) ==
  /\ MoveStart(s, "idle", "resolving")
  /\ UNCHANGED <<eng, child, proc, stop, reaper, poller, status, waiter>>

(* validate_launch: an unusable configuration fails the engine's record,   *)
(* whatever it shows.                                                      *)
StartInvalid(s) ==
  /\ start[s].pc = "idle"
  /\ eng' = MarkFailed(eng)
  /\ UNCHANGED <<child, proc, tasks>>

(* resolve_artifact: an engine that answers on the port is adopted. *)
StartProbe(s) ==
  /\ \/ /\ TRUE \in Probe
        /\ MoveStart(s, "resolving", "idle")
        /\ eng' = AdoptExternal(eng)
     \/ /\ FALSE \in Probe
        /\ MoveStart(s, "resolving", "guarding")
        /\ UNCHANGED eng
  /\ UNCHANGED <<child, proc, stop, reaper, poller, status, waiter>>

(* A process in the slot refuses the start; so may the artifact or the log *)
(* file.                                                                   *)
StartGuard(s) ==
  /\ \/ MoveStart(s, "guarding", "idle")
     \/ child = Nobody /\ MoveStart(s, "guarding", "declaring")
  /\ UNCHANGED <<eng, child, proc, stop, reaper, poller, status, waiter>>

(* A bug to notice: the start sets no deadline. *)
DeclareNoDeadline(s) ==
  /\ start[s].pc = "declaring"
  /\ eng.epoch < MaxSpawns
  /\ eng' = [eng EXCEPT !.epoch = @ + 1, !.state = "starting"]
  /\ start' = [start EXCEPT ![s] = [pc |-> "spawning", epoch |-> eng.epoch + 1]]
  /\ UNCHANGED <<child, proc, stop, reaper, poller, status, waiter>>

(* The first lock of spawn_and_attach. Bounded by MaxSpawns. *)
Declare(s) ==
  /\ start[s].pc = "declaring"
  /\ eng.epoch < MaxSpawns
  /\ eng' = [eng EXCEPT !.epoch = @ + 1, !.state = "starting", !.deadline = "ahead"]
  /\ start' = [start EXCEPT ![s] = [pc |-> "spawning", epoch |-> eng.epoch + 1]]
  /\ UNCHANGED <<child, proc, stop, reaper, poller, status, waiter>>

SpawnProcess(s) ==
  /\ MoveStart(s, "spawning", "attaching")
  /\ proc' = [proc EXCEPT ![start[s].epoch] = "booting"]
  /\ UNCHANGED <<eng, child, stop, reaper, poller, status, waiter>>

SpawnFails(s) ==
  /\ start[s].pc = "spawning"
  /\ start' = [start EXCEPT ![s] = IdleStart]
  /\ eng' = MarkFailed(eng)
  /\ UNCHANGED <<child, proc, stop, reaper, poller, status, waiter>>

Attach(s) ==
  /\ MoveStart(s, "attaching", "watching")
  /\ child' = start[s].epoch
  /\ UNCHANGED <<eng, proc, stop, reaper, poller, status, waiter>>

Watch(s) ==
  LET e == start[s].epoch IN
  /\ start[s].pc = "watching"
  /\ start' = [start EXCEPT ![s] = IdleStart]
  /\ reaper' = [reaper EXCEPT ![e] = "sleeping"]
  /\ poller' = [poller EXCEPT ![e] = "sleeping"]
  /\ UNCHANGED <<eng, child, proc, stop, status, waiter>>

StartStep(s) ==
  \/ StartRequest(s) \/ StartProbe(s) \/ StartGuard(s) \/ Declare(s)
  \/ SpawnProcess(s) \/ Attach(s) \/ Watch(s)

-----------------------------------------------------------------------------
(* spawn_reaper *)

MoveReaper(e, from, to) ==
  /\ reaper[e] = from
  /\ reaper' = [reaper EXCEPT ![e] = to]

(* The epoch is read under one lock and the slot under another. *)
ReaperWake(e) ==
  /\ MoveReaper(e, "sleeping", IF eng.epoch = e THEN "looking" ELSE "gone")
  /\ UNCHANGED <<eng, child, proc, start, stop, poller, status, waiter>>

ReaperLook(e) ==
  /\ MoveReaper(e, "looking", IF child = Nobody THEN "gone"
                              ELSE IF proc[child] = "exited" THEN "exited"
                              ELSE "sleeping")
  /\ UNCHANGED <<eng, child, proc, start, stop, poller, status, waiter>>

(* A bug to notice: the epoch is not read again. *)
ReaperMarkUnchecked(e) ==
  /\ MoveReaper(e, "exited", "clearing")
  /\ eng' = IF eng.state \in Supervised THEN MarkExited(eng) ELSE eng
  /\ UNCHANGED <<child, proc, start, stop, poller, status, waiter>>

ReaperMark(e) ==
  /\ MoveReaper(e, "exited", "clearing")
  /\ eng' = IF eng.epoch = e /\ eng.state \in Supervised THEN MarkExited(eng) ELSE eng
  /\ UNCHANGED <<child, proc, start, stop, poller, status, waiter>>

(* A bug to notice: the slot keeps the dead process. *)
ReaperClearNothing(e) ==
  /\ MoveReaper(e, "clearing", "gone")
  /\ UNCHANGED <<eng, child, proc, start, stop, poller, status, waiter>>

ReaperClear(e) ==
  /\ MoveReaper(e, "clearing", "gone")
  /\ child' = Nobody
  /\ UNCHANGED <<eng, proc, start, stop, poller, status, waiter>>

ReaperStep(e) == ReaperWake(e) \/ ReaperLook(e) \/ ReaperMark(e) \/ ReaperClear(e)

-----------------------------------------------------------------------------
(* spawn_health_poller *)

MovePoller(e, from, to) ==
  /\ poller[e] = from
  /\ poller' = [poller EXCEPT ![e] = to]

PollerProbe(e) ==
  /\ \/ /\ eng.epoch # e
        /\ MovePoller(e, "sleeping", "gone")
     \/ /\ eng.epoch = e
        /\ \E seen \in Probe :
             MovePoller(e, "sleeping", IF seen THEN "healthy" ELSE "missed")
  /\ UNCHANGED <<eng, child, proc, start, stop, reaper, status, waiter>>

PollerReady(e) ==
  /\ MovePoller(e, "healthy", "gone")
  /\ eng' = IF eng.epoch = e /\ eng.state \in Supervised
              THEN [eng EXCEPT !.state = "running"] ELSE eng
  /\ UNCHANGED <<child, proc, start, stop, reaper, status, waiter>>

TooLate(e) == eng.epoch = e /\ eng.deadline = "past"

(* A bug to notice: the poller gives up at the first missed probe. *)
PollerMissedOnce(e) ==
  /\ ~TooLate(e)
  /\ MovePoller(e, "missed", "gone")
  /\ UNCHANGED <<eng, child, proc, start, stop, reaper, status, waiter>>

PollerMissed(e) ==
  /\ ~TooLate(e)
  /\ MovePoller(e, "missed", "sleeping")
  /\ UNCHANGED <<eng, child, proc, start, stop, reaper, status, waiter>>

(* The deadline counts whatever the state has become meanwhile. *)
PollerExpires(e) ==
  /\ TooLate(e)
  /\ MovePoller(e, "missed", "killing")
  /\ eng' = MarkFailed(eng)
  /\ UNCHANGED <<child, proc, start, stop, reaper, status, waiter>>

(* start_kill on whatever the slot holds by now. *)
PollerKill(e) ==
  /\ MovePoller(e, "killing", "gone")
  /\ proc' = IF child = Nobody THEN proc ELSE [proc EXCEPT ![child] = "exited"]
  /\ UNCHANGED <<eng, child, start, stop, reaper, status, waiter>>

PollerStep(e) == PollerProbe(e) \/ PollerReady(e) \/ PollerMissed(e) \/ PollerKill(e)

-----------------------------------------------------------------------------
(* POST /api/engine/stop *)

MoveStop(t, from, to) ==
  /\ stop[t].pc = from
  /\ stop' = [stop EXCEPT ![t].pc = to]

IdleStop == [pc |-> "idle", proc |-> Nobody]

(* A bug to notice: the process is looked at and not taken. *)
StopTakePeek(t) ==
  /\ stop[t].pc = "idle"
  /\ stop' = [stop EXCEPT ![t] = IF child = Nobody THEN [@ EXCEPT !.pc = "targeting"]
                                 ELSE [pc |-> "taken", proc |-> child]]
  /\ UNCHANGED <<eng, child, proc, start, reaper, poller, status, waiter>>

(* A bug to notice: an empty slot is taken for a process. *)
StopTakeAnything(t) ==
  /\ stop[t].pc = "idle"
  /\ stop' = [stop EXCEPT ![t] = [pc |-> "taken", proc |-> child]]
  /\ child' = Nobody
  /\ UNCHANGED <<eng, proc, start, reaper, poller, status, waiter>>

StopTake(t) ==
  /\ stop[t].pc = "idle"
  /\ stop' = [stop EXCEPT ![t] = IF child = Nobody THEN [@ EXCEPT !.pc = "targeting"]
                                 ELSE [pc |-> "taken", proc |-> child]]
  /\ child' = Nobody
  /\ UNCHANGED <<eng, proc, start, reaper, poller, status, waiter>>

StopBegin(t) ==
  /\ MoveStop(t, "taken", "grace")
  /\ eng' = [eng EXCEPT !.state = "stopping"]
  /\ UNCHANGED <<child, proc, start, reaper, poller, status, waiter>>

(* graceful_kill_child: SIGTERM, 8 s, SIGKILL; it returns on the exit. *)
StopKill(t) ==
  /\ MoveStop(t, "grace", "signalled")
  /\ proc' = [proc EXCEPT ![stop[t].proc] = "exited"]
  /\ UNCHANGED <<eng, child, start, reaper, poller, status, waiter>>

(* Not our child: the pid the client names, the recorded one, or the one   *)
(* that discovery resolves for an external engine. A target discovery does *)
(* not list is refused.                                                    *)
StopTarget(t) ==
  /\ \/ MoveStop(t, "targeting", "idle") /\ UNCHANGED eng
     \/ /\ MoveStop(t, "targeting", "signalled")
        /\ Live # {}
        /\ \/ eng' = [eng EXCEPT !.state = "stopping"]
           \/ eng.state = "external" /\ UNCHANGED eng
  /\ UNCHANGED <<child, proc, start, reaper, poller, status, waiter>>

(* A bug to notice: the handler returns without the reset. *)
StopForgetsReset(t) ==
  /\ stop[t].pc = "signalled"
  /\ stop' = [stop EXCEPT ![t] = IdleStop]
  /\ UNCHANGED <<eng, child, proc, start, reaper, poller, status, waiter>>

StopReset(t) ==
  /\ stop[t].pc = "signalled"
  /\ stop' = [stop EXCEPT ![t] = IdleStop]
  /\ eng' = ResetStopped(eng)
  /\ UNCHANGED <<child, proc, start, reaper, poller, status, waiter>>

StopStep(t) == StopTake(t) \/ StopBegin(t) \/ StopKill(t) \/ StopTarget(t) \/ StopReset(t)

-----------------------------------------------------------------------------
(* GET /api/status: refresh_engine_status *)

AfterChild(e, f) ==
  IF f.hasChild
    THEN IF f.healthy THEN [e EXCEPT !.state = "running"]
         ELSE IF e.state = "starting" /\ e.deadline = "none"
           THEN [e EXCEPT !.deadline = "ahead"] ELSE e
    ELSE IF e.state \in Supervised THEN MarkExited(e) ELSE e

AfterDeadline(e) ==
  IF e.state = "starting" /\ e.deadline = "past" THEN MarkFailed(e) ELSE e

(* An engine that answers while ours is stopped or failed is adopted, and  *)
(* set to running at once.                                                 *)
Adopts(e, f) ==
  f.healthy /\ (e.state = "stopped" \/ (e.state = "failed" /\ ~f.hasChild))

AfterAdoption(e, f) ==
  IF Adopts(e, f) THEN [AdoptExternal(e) EXCEPT !.state = "running"]
  ELSE IF e.state = "external" /\ ~f.healthy THEN ResetStopped(e)
  ELSE e

Reconcile(e, f) == AfterAdoption(AfterDeadline(AfterChild(e, f)), f)

(* try_lock: a slot that somebody holds counts as occupied. *)
StatusRead(o) ==
  /\ status[o].pc = "idle"
  /\ \E contended \in BOOLEAN :
       status' = [status EXCEPT ![o].pc = "probing",
                                ![o].hasChild = contended \/ child # Nobody]
  /\ UNCHANGED <<eng, child, proc, start, stop, reaper, poller, waiter>>

StatusProbe(o) ==
  /\ status[o].pc = "probing"
  /\ \E seen \in Probe :
       status' = [status EXCEPT ![o].pc = "gathered", ![o].healthy = seen]
  /\ UNCHANGED <<eng, child, proc, start, stop, reaper, poller, waiter>>

IdleStatus == [pc |-> "idle", hasChild |-> FALSE, healthy |-> FALSE]

StatusApply(o) ==
  /\ status[o].pc = "gathered"
  /\ eng' = Reconcile(eng, status[o])
  /\ status' = [status EXCEPT ![o] = IdleStatus]
  /\ UNCHANGED <<child, proc, start, stop, reaper, poller, waiter>>

StatusStep(o) == StatusRead(o) \/ StatusProbe(o) \/ StatusApply(o)

-----------------------------------------------------------------------------
(* proxy.rs, wait_for_engine_ready: a request that finds the engine        *)
(* starting may be the first to see it healthy.                            *)

WaiterProbe(w) ==
  /\ waiter[w] = "idle"
  /\ eng.state = "starting" /\ TRUE \in Probe
  /\ waiter' = [waiter EXCEPT ![w] = "healthy"]
  /\ UNCHANGED <<eng, child, proc, start, stop, reaper, poller, status>>

WaiterReady(w) ==
  /\ waiter[w] = "healthy"
  /\ waiter' = [waiter EXCEPT ![w] = "idle"]
  /\ eng' = IF eng.state = "starting" THEN [eng EXCEPT !.state = "running"] ELSE eng
  /\ UNCHANGED <<child, proc, start, stop, reaper, poller, status>>

-----------------------------------------------------------------------------
(* The processes, which live outside the code, and the clock. The port     *)
(* belongs to one process at a time.                                       *)

Serve(p) ==
  /\ proc[p] = IF p = Foreign THEN "none" ELSE "booting"
  /\ ~Serving
  /\ proc' = [proc EXCEPT ![p] = "serving"]
  /\ UNCHANGED <<eng, child, tasks>>

Exit(p) ==
  /\ proc[p] \in {"booting", "serving"}
  /\ proc' = [proc EXCEPT ![p] = IF p = Foreign THEN "none" ELSE "exited"]
  /\ UNCHANGED <<eng, child, tasks>>

DeadlinePasses ==
  /\ eng.deadline = "ahead"
  /\ eng' = [eng EXCEPT !.deadline = "past"]
  /\ UNCHANGED <<child, proc, tasks>>

-----------------------------------------------------------------------------
(* init_state and boot_adopt: nothing is known of an engine that an        *)
(* earlier Studio, or the user, left on the port.                          *)
Init ==
  /\ eng = [state |-> "stopped", epoch |-> 0, deadline |-> "none"]
  /\ child = Nobody
  /\ \E f \in {"none", "serving"} :
       proc = [p \in Procs |-> IF p = Foreign THEN f ELSE "none"]
  /\ start = [s \in Starters |-> IdleStart]
  /\ stop = [t \in Stoppers |-> IdleStop]
  /\ reaper = [e \in Spawned |-> "none"]
  /\ poller = [e \in Spawned |-> "none"]
  /\ status = [o \in Observers |-> IdleStatus]
  /\ waiter = [w \in Waiters |-> "idle"]

(* The steps that tell the desktop shell of a failure, those of a status   *)
(* request, which may have news for it, and all the others.                *)
FailAndEmit ==
  \/ \E s \in Starters : StartInvalid(s) \/ SpawnFails(s)
  \/ \E e \in Spawned : PollerExpires(e)

Refresh == \E o \in Observers : StatusStep(o)

Silent ==
  \/ \E s \in Starters : StartStep(s)
  \/ \E e \in Spawned : ReaperStep(e) \/ PollerStep(e)
  \/ \E t \in Stoppers : StopStep(t)
  \/ \E w \in Waiters : WaiterProbe(w) \/ WaiterReady(w)
  \/ \E p \in Procs : Serve(p) \/ Exit(p)
  \/ DeadlinePasses

Next == FailAndEmit \/ Refresh \/ Silent

Spec == Init /\ [][Next]_vars

(* Tasks and handlers that have begun go on; time passes. Nothing makes a  *)
(* client send a request or a process boot or exit.                        *)
Fairness ==
  /\ \A s \in Starters : WF_vars(start[s].pc # "idle" /\ (StartStep(s) \/ SpawnFails(s)))
  /\ \A e \in Spawned : /\ WF_vars(ReaperStep(e))
                        /\ WF_vars(PollerStep(e) \/ PollerExpires(e))
  /\ \A t \in Stoppers : WF_vars(stop[t].pc # "idle" /\ StopStep(t))
  /\ \A o \in Observers : WF_vars(status[o].pc # "idle" /\ StatusStep(o))
  /\ \A w \in Waiters : WF_vars(WaiterReady(w))
  /\ WF_vars(DeadlinePasses)

FairSpec == Spec /\ Fairness

-----------------------------------------------------------------------------
(* The type invariant. (A client of an instance that never asks is absent.) *)
TypeOK ==
  /\ eng \in [state : EngineState, epoch : Epochs, deadline : {"none", "ahead", "past"}]
  /\ child \in Spawned \cup {Nobody}
  /\ proc \in [Procs -> {"none", "booting", "serving", "exited"}]
  /\ start \in [Starters ->
       [pc : {"absent", "idle", "resolving", "guarding", "declaring"}, epoch : {0}]
         \cup [pc : {"spawning", "attaching", "watching"}, epoch : Spawned]]
  /\ stop \in [Stoppers ->
       [pc : {"absent", "idle", "targeting", "signalled"}, proc : {Nobody}]
         \cup [pc : {"taken", "grace", "signalled"}, proc : Spawned]]
  /\ reaper \in [Spawned -> {"none", "sleeping", "looking", "exited", "clearing", "gone"}]
  /\ poller \in [Spawned -> {"none", "sleeping", "healthy", "missed", "killing", "gone"}]
  /\ status \in [Observers -> [pc : {"idle", "probing", "gathered"},
                              hasChild : BOOLEAN, healthy : BOOLEAN]]
  /\ waiter \in [Waiters -> {"idle", "healthy"}]

(* An engine shown as starting is on its way: it has a deadline, and       *)
(* either the request that declared it is still at work or the poller of   *)
(* its very epoch is alive to judge it. No interleaving of requests, stops *)
(* and refreshes leaves "starting" with nobody to end it.                  *)
StartingIsSupervised ==
  eng.state = "starting" =>
    /\ eng.deadline # "none"
    /\ \/ \E s \in Starters : /\ start[s].epoch = eng.epoch
                               /\ start[s].pc \in {"spawning", "attaching", "watching"}
       \/ poller[eng.epoch] \in {"sleeping", "healthy", "missed"}

(* "stopping" is shown only while some stop request is going to reset it.  *)
StoppingIsOwned ==
  eng.state = "stopping" => \E t \in Stoppers : stop[t].pc \in {"grace", "signalled"}

(* A stop takes the process out of the slot for itself: no other stop, and *)
(* no watcher through the slot, works on the process it terminates.        *)
StopIsExclusive ==
  \A t \in Stoppers : stop[t].proc # Nobody =>
    /\ child # stop[t].proc
    /\ \A u \in Stoppers \ {t} : stop[u].proc # stop[t].proc

(* The reaper and the poller of a spawn pass no verdict on a later one:    *)
(* what they read before an await is checked again when they write.        *)
VerdictsOfThisEpoch ==
  [][\A e \in Spawned :
       (\/ reaper[e] # "none" /\ reaper'[e] # reaper[e]
        \/ poller[e] # "none" /\ poller'[e] # poller[e])
       => eng' = eng \/ eng.epoch = e]_vars

(* A start comes to an end: running, failed, stopped or adopted.           *)
StartSettles == eng.state = "starting" ~> eng.state # "starting"

(* A stop comes to an end.                                                 *)
StopSettles == eng.state = "stopping" ~> eng.state # "stopping"

(* The slot does not keep a dead process: it would refuse every start.     *)
ExitIsNoticed == \A p \in Spawned : (child = p /\ proc[p] = "exited") ~> child # p

(* launch.rs, resolve_artifact: "refuses a second concurrent spawn". At    *)
(* most one process that Studio spawned lives, those being stopped apart.  *)
NoDoubleSpawn ==
  Cardinality({p \in Live \ {Foreign} : \A t \in Stoppers : stop[t].proc # p}) <= 1

=============================================================================
