----------------------- MODULE EngineSupervisorProofs -----------------------
(***************************************************************************)
(* Proofs about the engine supervisor, for any number of clients, status   *)
(* requests and spawns, with its events and without.                       *)
(***************************************************************************)
EXTENDS EngineEvents, MCEngineClients, TLAPS

EarlyPc == {"absent", "idle", "resolving", "guarding", "declaring"}
LatePc == {"spawning", "attaching", "watching"}
StartRec == [pc : EarlyPc, epoch : {0}] \cup [pc : LatePc, epoch : Spawned]

FreePc == {"absent", "idle", "targeting", "signalled"}
TakenPc == {"taken", "grace", "signalled"}
StopRec == [pc : FreePc, proc : {Nobody}] \cup [pc : TakenPc, proc : Spawned]

EngRec == [state : EngineState, epoch : Epochs, deadline : {"none", "ahead", "past"}]
ReaperPc == {"none", "sleeping", "looking", "exited", "clearing", "gone"}
PollerPc == {"none", "sleeping", "healthy", "missed", "killing", "gone"}
ProcState == {"none", "booting", "serving", "exited"}
StatusRec == [pc : {"idle", "probing", "gathered"}, hasChild : BOOLEAN, healthy : BOOLEAN]

Types ==
  /\ eng \in EngRec /\ child \in Spawned \cup {Nobody} /\ proc \in [Procs -> ProcState]
  /\ start \in [Starters -> StartRec] /\ stop \in [Stoppers -> StopRec]
  /\ reaper \in [Spawned -> ReaperPc] /\ poller \in [Spawned -> PollerPc]
  /\ status \in [Observers -> StatusRec] /\ waiter \in [Waiters -> {"idle", "healthy"}]

LEMMA Typed == (TypeOK <=> Types) /\ (TypeOK' <=> Types')
  BY DEF TypeOK, Types, EarlyPc, LatePc, StartRec, FreePc, TakenPc, StopRec, EngRec,
         ReaperPc, PollerPc, ProcState, StatusRec

LEMMA Numbers ==
  /\ Spawned \subseteq Procs /\ Spawned \subseteq Epochs /\ 0 \in Epochs
  /\ Nobody \notin Spawned /\ Epochs \subseteq Nat
  /\ \A e \in Epochs : e < MaxSpawns => e + 1 \in Spawned
  BY SupervisorAssumption DEF Spawned, Procs, Epochs, Nobody

-----------------------------------------------------------------------------
(* Records of requests as they move on.                                    *)

LEMMA StartMoves ==
  ASSUME NEW r \in StartRec, NEW to,
         \/ r.pc \in EarlyPc /\ to \in EarlyPc
         \/ r.pc \in LatePc /\ to \in LatePc
  PROVE  /\ [r EXCEPT !.pc = to] \in StartRec
         /\ [r EXCEPT !.pc = to].pc = to /\ [r EXCEPT !.pc = to].epoch = r.epoch
  BY DEF StartRec, EarlyPc, LatePc

LEMMA StartFacts ==
  /\ IdleStart \in StartRec /\ IdleStart.pc = "idle"
  /\ \A e \in Spawned : [pc |-> "spawning", epoch |-> e] \in StartRec
  /\ \A r \in StartRec : r.pc \in LatePc => r.epoch \in Spawned
  BY DEF StartRec, IdleStart, EarlyPc, LatePc

LEMMA StopMoves ==
  ASSUME NEW r \in StopRec, NEW to,
         \/ r.pc \in {"absent", "idle", "targeting"} /\ to \in FreePc
         \/ r.pc \in {"taken", "grace"} /\ to \in TakenPc
  PROVE  /\ [r EXCEPT !.pc = to] \in StopRec
         /\ [r EXCEPT !.pc = to].pc = to /\ [r EXCEPT !.pc = to].proc = r.proc
  BY DEF StopRec, FreePc, TakenPc

LEMMA StopFacts ==
  /\ IdleStop \in StopRec /\ IdleStop.pc = "idle" /\ IdleStop.proc = Nobody
  /\ \A p \in Spawned : [pc |-> "taken", proc |-> p] \in StopRec
  /\ \A r \in StopRec : /\ r.pc \in {"taken", "grace"} => r.proc \in Spawned
                        /\ r.pc \in {"idle", "targeting"} => r.proc = Nobody
                        /\ r.proc \in Spawned \cup {Nobody}
  BY DEF StopRec, IdleStop, FreePc, TakenPc

(* The engine's record as it moves on keeps its epoch.                     *)
LEMMA EngMoves ==
  ASSUME NEW e \in EngRec, NEW s \in EngineState, NEW d \in {"none", "ahead", "past"}
  PROVE  /\ [e EXCEPT !.state = s] \in EngRec /\ [e EXCEPT !.state = s].epoch = e.epoch
         /\ [e EXCEPT !.deadline = d] \in EngRec /\ [e EXCEPT !.deadline = d].epoch = e.epoch
         /\ [e EXCEPT !.state = s, !.deadline = d] \in EngRec
         /\ [e EXCEPT !.state = s, !.deadline = d].epoch = e.epoch
  BY DEF EngRec

LEMMA EngHelpers ==
  ASSUME NEW e \in EngRec
  PROVE  /\ ResetStopped(e) \in EngRec /\ ResetStopped(e).epoch = e.epoch
         /\ MarkFailed(e) \in EngRec /\ MarkFailed(e).epoch = e.epoch
         /\ AdoptExternal(e) \in EngRec /\ AdoptExternal(e).epoch = e.epoch
  BY EngMoves DEF ResetStopped, MarkFailed, AdoptExternal, EngineState

LEMMA ReconcileKeeps ==
  ASSUME NEW e \in EngRec, NEW f
  PROVE  Reconcile(e, f) \in EngRec /\ Reconcile(e, f).epoch = e.epoch
<1>1. ASSUME NEW x \in EngRec PROVE AfterChild(x, f) \in EngRec /\ AfterChild(x, f).epoch = x.epoch
  <2>1. /\ [x EXCEPT !.state = "running"] \in EngRec /\ [x EXCEPT !.state = "running"].epoch = x.epoch
        /\ [x EXCEPT !.deadline = "ahead"] \in EngRec /\ [x EXCEPT !.deadline = "ahead"].epoch = x.epoch
    BY EngMoves DEF EngineState
  <2>2. MarkExited(x) \in EngRec /\ MarkExited(x).epoch = x.epoch
    BY EngHelpers DEF MarkExited
  <2>. QED  BY <2>1, <2>2 DEF AfterChild
<1>2. \A x \in EngRec : AfterDeadline(x) \in EngRec /\ AfterDeadline(x).epoch = x.epoch
  BY EngHelpers DEF AfterDeadline
<1>3. ASSUME NEW x \in EngRec
      PROVE  AfterAdoption(x, f) \in EngRec /\ AfterAdoption(x, f).epoch = x.epoch
  <2>1. /\ AdoptExternal(x) \in EngRec /\ AdoptExternal(x).epoch = x.epoch
        /\ ResetStopped(x) \in EngRec /\ ResetStopped(x).epoch = x.epoch
    BY EngHelpers
  <2>2. PICK a : a = AdoptExternal(x)
    OBVIOUS
  <2>3. [a EXCEPT !.state = "running"] \in EngRec /\ [a EXCEPT !.state = "running"].epoch = a.epoch
    BY <2>1, <2>2 DEF EngRec, EngineState
  <2>. QED  BY <2>1, <2>2, <2>3 DEF AfterAdoption
<1>. QED  BY <1>1, <1>2, <1>3 DEF Reconcile

-----------------------------------------------------------------------------
(* The invariant. An epoch names a process. It is given to one start,      *)
(* which holds it until the process is in the slot; from there one stop    *)
(* may take it. StopIsExclusive alone is not inductive: a start that is    *)
(* still attaching must not hold what a stop has already taken.            *)
Holds(s) == start[s].pc \in {"spawning", "attaching"}
Given == 1..eng.epoch

NamesAreGiven ==
  /\ child # Nobody => child \in Given
  /\ \A t \in Stoppers : stop[t].proc # Nobody => stop[t].proc \in Given
  /\ \A s \in Starters : Holds(s) => start[s].epoch \in Given

HeldOnce ==
  \A s \in Starters : Holds(s) =>
    /\ child # start[s].epoch
    /\ \A t \in Stoppers : stop[t].proc # start[s].epoch
    /\ \A r \in Starters \ {s} : Holds(r) => start[r].epoch # start[s].epoch

SlotInv == Types /\ NamesAreGiven /\ HeldOnce /\ StopIsExclusive

(* What a step of a watcher may do to the engine's record.                 *)
Verdicts ==
  \A e \in Spawned :
    (\/ reaper[e] # "none" /\ reaper'[e] # reaper[e]
     \/ poller[e] # "none" /\ poller'[e] # poller[e])
    => eng' = eng \/ eng.epoch = e

(* Most steps leave the names where they are.                              *)
LEMMA NamesStay ==
  ASSUME SlotInv, eng'.epoch = eng.epoch, UNCHANGED child,
         \A t \in Stoppers : stop'[t].proc = stop[t].proc \/ stop'[t].proc = Nobody,
         \A s \in Starters : start'[s].pc \in {"spawning", "attaching"} =>
           Holds(s) /\ start'[s].epoch = start[s].epoch
  PROVE  NamesAreGiven' /\ HeldOnce' /\ StopIsExclusive'
<1>1. NamesAreGiven'
  BY DEF SlotInv, NamesAreGiven, Holds, Given
<1>2. \A t \in Stoppers : stop[t].proc \in Spawned \cup {Nobody}
  BY StopFacts DEF SlotInv, Types
<1>3. \A s \in Starters : Holds(s) => start[s].epoch # Nobody
  BY StartFacts, Numbers DEF SlotInv, Types, Holds, LatePc
<1>4. HeldOnce'
  BY <1>3 DEF SlotInv, HeldOnce, Holds
<1>5. StopIsExclusive'
  BY DEF SlotInv, StopIsExclusive
<1>. QED  BY <1>1, <1>4, <1>5

(* A request of a client that starts moves on, keeping its epoch.          *)
LEMMA StartKeeps ==
  ASSUME SlotInv, NEW s \in Starters, NEW r \in StartRec, start' = [start EXCEPT ![s] = r],
         r.pc \in {"spawning", "attaching"} => Holds(s) /\ r.epoch = start[s].epoch,
         eng' \in EngRec, eng'.epoch = eng.epoch, UNCHANGED <<child, stop>>
  PROVE  /\ start' \in [Starters -> StartRec]
         /\ NamesAreGiven' /\ HeldOnce' /\ StopIsExclusive'
<1>1. start \in [Starters -> StartRec]
  BY DEF SlotInv, Types
<1>2. \A q \in Starters : start'[q] = IF q = s THEN r ELSE start[q]
  BY <1>1
<1>3. \A q \in Starters : start'[q].pc \in {"spawning", "attaching"} =>
           Holds(q) /\ start'[q].epoch = start[q].epoch
  BY <1>2 DEF Holds
<1>4. start' \in [Starters -> StartRec]
  BY <1>1
<1>. QED  BY <1>3, <1>4, NamesStay

LEMMA StartTypes ==
  ASSUME SlotInv, NEW s \in Starters
  PROVE  start[s] \in StartRec /\ eng \in EngRec
  BY DEF SlotInv, Types

LEMMA StartActions ==
  ASSUME SlotInv, NEW s \in Starters,
         StartStep(s) \/ StartInvalid(s) \/ SpawnFails(s)
  PROVE  SlotInv' /\ Verdicts
<1>. USE StartTypes
<1>. DEFINE Moved(to) == [start[s] EXCEPT !.pc = to]
<1>1. CASE StartRequest(s)
  <2>1. Moved("resolving") \in StartRec /\ Moved("resolving").pc = "resolving"
    BY <1>1, StartMoves DEF StartRequest, MoveStart, EarlyPc
  <2>. QED
    BY <1>1, <2>1, StartKeeps DEF Types, StartRequest, MoveStart, SlotInv, Verdicts
<1>2. CASE StartInvalid(s)
  <2>1. eng' \in EngRec /\ eng'.epoch = eng.epoch
    BY <1>2, EngHelpers DEF StartInvalid
  <2>. QED  BY <1>2, <2>1, NamesStay DEF Types, StartInvalid, tasks, SlotInv, Verdicts, Holds
<1>3. CASE StartProbe(s)
  <2>1. \A to \in {"idle", "guarding"} :
          start[s].pc = "resolving" => Moved(to) \in StartRec /\ Moved(to).pc = to
    BY StartMoves DEF EarlyPc
  <2>2. eng' \in EngRec /\ eng'.epoch = eng.epoch
    BY <1>3, EngHelpers DEF StartProbe
  <2>. QED
    BY <1>3, <2>1, <2>2, StartKeeps DEF Types, StartProbe, MoveStart, SlotInv, Verdicts
<1>4. CASE StartGuard(s)
  <2>1. \A to \in {"idle", "declaring"} :
          start[s].pc = "guarding" => Moved(to) \in StartRec /\ Moved(to).pc = to
    BY StartMoves DEF EarlyPc
  <2>. QED  BY <1>4, <2>1, StartKeeps DEF Types, StartGuard, MoveStart, SlotInv, Verdicts
<1>5. CASE Declare(s)
  <2>. DEFINE e == eng.epoch + 1
  <2>1. eng.epoch \in Epochs /\ eng.epoch \in Nat /\ e \in Spawned /\ e \in Epochs
    BY <1>5, Numbers DEF Declare, EngRec
  <2>2. eng' \in EngRec /\ eng'.epoch = e
    BY <1>5, <2>1 DEF Declare, EngRec, EngineState
  <2>3. start' \in [Starters -> StartRec]
    BY <1>5, <2>1, StartFacts DEF Types, Declare, SlotInv
  <2>4. \A q \in Starters :
          start'[q] = IF q = s THEN [pc |-> "spawning", epoch |-> e] ELSE start[q]
    BY <1>5 DEF Types, Declare, SlotInv
  <2>5. UNCHANGED <<child, proc, stop, reaper, poller, status, waiter>>
    BY <1>5 DEF Declare
  <2>6. e \notin Given /\ e \in Given' /\ Given \subseteq Given'
    BY <2>1, <2>2 DEF Given
  <2>7. NamesAreGiven'
    BY <2>4, <2>5, <2>6 DEF SlotInv, NamesAreGiven, Holds
  <2>8. HeldOnce'
    <3>1. child # e /\ \A t \in Stoppers : stop[t].proc # e
      BY <2>1, <2>6, Numbers DEF SlotInv, NamesAreGiven
    <3>2. \A q \in Starters : Holds(q) => start[q].epoch # e
      BY <2>6 DEF SlotInv, NamesAreGiven
    <3>. QED  BY <2>4, <2>5, <3>1, <3>2 DEF SlotInv, HeldOnce, Holds
  <2>9. StopIsExclusive'
    BY <2>5 DEF SlotInv, StopIsExclusive
  <2>. QED  BY <2>2, <2>3, <2>5, <2>7, <2>8, <2>9 DEF Types, SlotInv, Verdicts
<1>6. CASE SpawnProcess(s)
  <2>1. /\ Moved("attaching") \in StartRec /\ Moved("attaching").pc = "attaching"
        /\ Moved("attaching").epoch = start[s].epoch /\ Holds(s)
    BY <1>6, StartMoves DEF SpawnProcess, MoveStart, LatePc, Holds
  <2>2. proc' \in [Procs -> ProcState]
    BY <1>6 DEF Types, SpawnProcess, SlotInv, ProcState
  <2>. QED
    BY <1>6, <2>1, <2>2, StartKeeps DEF Types, SpawnProcess, MoveStart, SlotInv, Verdicts
<1>7. CASE SpawnFails(s)
  <2>1. eng' \in EngRec /\ eng'.epoch = eng.epoch
    BY <1>7, EngHelpers DEF SpawnFails
  <2>. QED
    BY <1>7, <2>1, StartKeeps, StartFacts DEF Types, SpawnFails, SlotInv, Verdicts
<1>8. CASE Attach(s)
  <2>. DEFINE e == start[s].epoch
  <2>1. Holds(s) /\ e \in Spawned
    BY <1>8, StartFacts DEF Attach, MoveStart, Holds, LatePc
  <2>2. Moved("watching") \in StartRec /\ Moved("watching").pc = "watching"
    BY <1>8, StartMoves DEF Attach, MoveStart, LatePc
  <2>3. /\ start' \in [Starters -> StartRec]
        /\ \A q \in Starters : start'[q] = IF q = s THEN Moved("watching") ELSE start[q]
    BY <1>8, <2>2 DEF Types, Attach, MoveStart, SlotInv
  <2>4. child' = e /\ UNCHANGED <<eng, proc, stop, reaper, poller, status, waiter>>
    BY <1>8 DEF Attach
  <2>5. NamesAreGiven'
    BY <2>1, <2>2, <2>3, <2>4 DEF SlotInv, NamesAreGiven, Holds, Given
  <2>6. HeldOnce'
    <3>1. ASSUME NEW q \in Starters, Holds(q)' PROVE q # s /\ Holds(q) /\ start'[q] = start[q]
      BY <2>2, <2>3, <3>1 DEF Holds
    <3>2. ASSUME NEW q \in Starters, Holds(q)' PROVE start'[q].epoch # e
      BY <2>1, <3>1, <3>2 DEF SlotInv, HeldOnce
    <3>. QED  BY <2>4, <3>1, <3>2 DEF SlotInv, HeldOnce, Holds
  <2>7. StopIsExclusive'
    BY <2>1, <2>4 DEF SlotInv, StopIsExclusive, HeldOnce
  <2>. QED  BY <2>1, <2>3, <2>4, <2>5, <2>6, <2>7 DEF Types, SlotInv, Verdicts
<1>9. CASE Watch(s)
  <2>1. reaper' \in [Spawned -> ReaperPc] /\ poller' \in [Spawned -> PollerPc]
    BY <1>9 DEF Types, Watch, SlotInv, ReaperPc, PollerPc
  <2>. QED  BY <1>9, <2>1, StartKeeps, StartFacts DEF Types, Watch, SlotInv, Verdicts
<1>. QED
  BY <1>1, <1>2, <1>3, <1>4, <1>5, <1>6, <1>7, <1>8, <1>9 DEF StartStep

-----------------------------------------------------------------------------
(* The watchers, and what else leaves the slot's names alone.              *)
LEMMA QuietSlot ==
  ASSUME SlotInv, UNCHANGED <<child, start, stop>>, eng'.epoch = eng.epoch
  PROVE  NamesAreGiven' /\ HeldOnce' /\ StopIsExclusive'
  BY NamesStay DEF Holds

LEMMA WatcherActions ==
  ASSUME SlotInv, NEW e \in Spawned, ReaperStep(e) \/ PollerStep(e) \/ PollerExpires(e)
  PROVE  SlotInv' /\ Verdicts
<1>0. eng \in EngRec
  BY DEF SlotInv, Types
<1>1. CASE ReaperWake(e)
  BY <1>1, QuietSlot DEF ReaperWake, MoveReaper, SlotInv, Types, ReaperPc, Verdicts
<1>2. CASE ReaperLook(e)
  BY <1>2, QuietSlot DEF ReaperLook, MoveReaper, SlotInv, Types, ReaperPc, Verdicts
<1>3. CASE ReaperMark(e)
  <2>1. eng' \in EngRec /\ eng'.epoch = eng.epoch /\ (eng' = eng \/ eng.epoch = e)
    BY <1>0, <1>3, EngHelpers DEF ReaperMark, MarkExited
  <2>. QED
    BY <1>3, <2>1, QuietSlot DEF ReaperMark, MoveReaper, SlotInv, Types, ReaperPc, Verdicts
<1>4. CASE ReaperClear(e)
  <2>1. NamesAreGiven' /\ HeldOnce' /\ StopIsExclusive'
    <3>1. \A s \in Starters : Holds(s) => start[s].epoch # Nobody
      BY StartFacts, Numbers DEF SlotInv, Types, Holds, LatePc
    <3>. QED
      BY <1>4, <3>1 DEF ReaperClear, SlotInv, NamesAreGiven, HeldOnce, StopIsExclusive,
           Holds, Given
  <2>. QED  BY <1>4, <2>1 DEF ReaperClear, MoveReaper, SlotInv, Types, ReaperPc, Verdicts
<1>5. CASE PollerProbe(e)
  BY <1>5, QuietSlot DEF PollerProbe, MovePoller, SlotInv, Types, PollerPc, Verdicts
<1>6. CASE PollerReady(e)
  <2>1. eng' \in EngRec /\ eng'.epoch = eng.epoch /\ (eng' = eng \/ eng.epoch = e)
    BY <1>0, <1>6, EngMoves DEF PollerReady, EngineState
  <2>. QED
    BY <1>6, <2>1, QuietSlot DEF PollerReady, MovePoller, SlotInv, Types, PollerPc, Verdicts
<1>7. CASE PollerMissed(e)
  BY <1>7, QuietSlot DEF PollerMissed, MovePoller, SlotInv, Types, PollerPc, Verdicts
<1>8. CASE PollerKill(e)
  <2>1. proc' \in [Procs -> ProcState]
    BY <1>8 DEF PollerKill, SlotInv, Types, ProcState
  <2>. QED
    BY <1>8, <2>1, QuietSlot DEF PollerKill, MovePoller, SlotInv, Types, PollerPc, Verdicts
<1>9. CASE PollerExpires(e)
  <2>1. eng' \in EngRec /\ eng'.epoch = eng.epoch /\ eng.epoch = e
    BY <1>0, <1>9, EngHelpers DEF PollerExpires, TooLate
  <2>. QED
    BY <1>9, <2>1, QuietSlot DEF PollerExpires, MovePoller, SlotInv, Types, PollerPc, Verdicts
<1>. QED
  BY <1>1, <1>2, <1>3, <1>4, <1>5, <1>6, <1>7, <1>8, <1>9 DEF ReaperStep, PollerStep

(* A stop keeps the process it has, and gives it up at its end.            *)
LEMMA StopKeeps ==
  ASSUME SlotInv, NEW t \in Stoppers, NEW r \in StopRec, stop' = [stop EXCEPT ![t] = r],
         r.proc = stop[t].proc \/ r.proc = Nobody,
         eng' \in EngRec, eng'.epoch = eng.epoch, UNCHANGED <<child, start>>
  PROVE  /\ stop' \in [Stoppers -> StopRec]
         /\ NamesAreGiven' /\ HeldOnce' /\ StopIsExclusive'
<1>1. stop \in [Stoppers -> StopRec]
  BY DEF SlotInv, Types
<1>2. /\ stop' \in [Stoppers -> StopRec]
      /\ \A u \in Stoppers : stop'[u].proc = stop[u].proc \/ stop'[u].proc = Nobody
  BY <1>1
<1>. QED  BY <1>2, NamesStay DEF Holds

LEMMA StopActions ==
  ASSUME SlotInv, NEW t \in Stoppers, StopStep(t)
  PROVE  SlotInv' /\ Verdicts
<1>0. stop[t] \in StopRec /\ eng \in EngRec
  BY DEF SlotInv, Types
<1>. DEFINE Moved(to) == [stop[t] EXCEPT !.pc = to]
<1>1. CASE StopTake(t)
  <2>. DEFINE r == IF child = Nobody THEN Moved("targeting") ELSE [pc |-> "taken", proc |-> child]
  <2>1. r \in StopRec /\ r.proc = child
    <3>1. CASE child = Nobody
      <4>1. stop[t].pc = "idle" /\ stop[t].proc = Nobody
        BY <1>0, <1>1, StopFacts DEF StopTake
      <4>2. PICK u : u = stop[t]
        OBVIOUS
      <4>3. u \in StopRec /\ u.pc = "idle" /\ u.proc = Nobody
        BY <1>0, <4>1, <4>2
      <4>4. [u EXCEPT !.pc = "targeting"] \in StopRec /\ [u EXCEPT !.pc = "targeting"].proc = u.proc
        BY <4>3, StopMoves DEF FreePc
      <4>. QED  BY <3>1, <4>2, <4>3, <4>4
    <3>2. CASE child # Nobody
      <4>1. child \in Spawned
        BY <3>2 DEF SlotInv, Types
      <4>. QED  BY <3>2, <4>1, StopFacts
    <3>. QED  BY <3>1, <3>2
  <2>2. /\ stop' \in [Stoppers -> StopRec] /\ child' = Nobody
        /\ \A u \in Stoppers : stop'[u] = IF u = t THEN r ELSE stop[u]
        /\ UNCHANGED <<eng, proc, start, reaper, poller, status, waiter>>
    BY <1>1, <2>1 DEF StopTake, SlotInv, Types
  <2>3. NamesAreGiven'
    BY <2>1, <2>2 DEF SlotInv, NamesAreGiven, Holds, Given
  <2>4. HeldOnce'
    <3>1. \A s \in Starters : Holds(s) => start[s].epoch # Nobody
      BY StartFacts, Numbers DEF SlotInv, Types, Holds, LatePc
    <3>. QED  BY <2>1, <2>2, <3>1 DEF SlotInv, HeldOnce, Holds
  <2>5. StopIsExclusive'
    BY <2>1, <2>2 DEF SlotInv, StopIsExclusive
  <2>. QED  BY <2>2, <2>3, <2>4, <2>5 DEF SlotInv, Types, Verdicts
<1>2. CASE StopBegin(t)
  <2>1. Moved("grace") \in StopRec /\ Moved("grace").proc = stop[t].proc
    BY <1>0, <1>2, StopMoves DEF StopBegin, MoveStop, TakenPc
  <2>2. eng' \in EngRec /\ eng'.epoch = eng.epoch
    BY <1>0, <1>2, EngMoves DEF StopBegin, EngineState
  <2>. QED
    BY <1>2, <2>1, <2>2, StopKeeps DEF StopBegin, MoveStop, SlotInv, Types, Verdicts
<1>3. CASE StopKill(t)
  <2>1. Moved("signalled") \in StopRec /\ Moved("signalled").proc = stop[t].proc
    BY <1>0, <1>3, StopMoves DEF StopKill, MoveStop, TakenPc
  <2>2. proc' \in [Procs -> ProcState]
    BY <1>3 DEF StopKill, SlotInv, Types, ProcState
  <2>. QED
    BY <1>0, <1>3, <2>1, <2>2, StopKeeps DEF StopKill, MoveStop, SlotInv, Types, Verdicts
<1>4. CASE StopTarget(t)
  <2>1. \A to \in {"idle", "signalled"} : stop[t].pc = "targeting" =>
          Moved(to) \in StopRec /\ Moved(to).proc = stop[t].proc
    BY <1>0, StopMoves DEF FreePc
  <2>2. eng' \in EngRec /\ eng'.epoch = eng.epoch
    BY <1>0, <1>4, EngMoves DEF StopTarget, EngineState
  <2>. QED
    BY <1>4, <2>1, <2>2, StopKeeps DEF StopTarget, MoveStop, SlotInv, Types, Verdicts
<1>5. CASE StopReset(t)
  <2>1. eng' \in EngRec /\ eng'.epoch = eng.epoch
    BY <1>0, <1>5, EngHelpers DEF StopReset
  <2>. QED
    BY <1>5, <2>1, StopKeeps, StopFacts DEF StopReset, SlotInv, Types, Verdicts
<1>. QED  BY <1>1, <1>2, <1>3, <1>4, <1>5 DEF StopStep

LEMMA OtherActions ==
  ASSUME SlotInv,
         \/ \E o \in Observers : StatusStep(o)
         \/ \E w \in Waiters : WaiterProbe(w) \/ WaiterReady(w)
         \/ \E p \in Procs : Serve(p) \/ Exit(p)
         \/ DeadlinePasses \/ UNCHANGED vars
  PROVE  SlotInv' /\ Verdicts
<1>0. eng \in EngRec
  BY DEF SlotInv, Types
<1>1. ASSUME NEW o \in Observers, StatusStep(o) PROVE SlotInv' /\ Verdicts
  <2>1. eng' \in EngRec /\ eng'.epoch = eng.epoch
    BY <1>0, <1>1, ReconcileKeeps DEF StatusStep, StatusRead, StatusProbe, StatusApply
  <2>2. UNCHANGED <<child, proc, start, stop, reaper, poller, waiter>>
    BY <1>1 DEF StatusStep, StatusRead, StatusProbe, StatusApply
  <2>3. status' \in [Observers -> StatusRec]
    <3>0. status \in [Observers -> StatusRec]
      BY DEF SlotInv, Types
    <3>1. CASE StatusRead(o)
      <4>1. PICK c \in BOOLEAN : status' = [status EXCEPT ![o].pc = "probing",
                                                          ![o].hasChild = c \/ child # Nobody]
        BY <3>1 DEF StatusRead
      <4>. DEFINE some == c \/ child # Nobody
      <4>2. some \in BOOLEAN
        OBVIOUS
      <4>. HIDE DEF some
      <4>3. status' = [status EXCEPT ![o].pc = "probing", ![o].hasChild = some]
        BY <4>1 DEF some
      <4>. QED  BY <3>0, <4>2, <4>3 DEF StatusRec
    <3>2. CASE StatusProbe(o)
      <4>1. PICK seen \in Probe : status' = [status EXCEPT ![o].pc = "gathered",
                                                           ![o].healthy = seen]
        BY <3>2 DEF StatusProbe
      <4>2. seen \in BOOLEAN
        BY DEF Probe
      <4>. QED  BY <3>0, <4>1, <4>2 DEF StatusRec
    <3>3. CASE StatusApply(o)
      BY <3>0, <3>3 DEF StatusApply, IdleStatus, StatusRec
    <3>. QED  BY <1>1, <3>1, <3>2, <3>3 DEF StatusStep
  <2>. QED  BY <2>1, <2>2, <2>3, QuietSlot DEF SlotInv, Types, Verdicts
<1>2. ASSUME NEW w \in Waiters, WaiterProbe(w) \/ WaiterReady(w) PROVE SlotInv' /\ Verdicts
  <2>1. eng' \in EngRec /\ eng'.epoch = eng.epoch
    <3>1. [eng EXCEPT !.state = "running"] \in EngRec /\ [eng EXCEPT !.state = "running"].epoch = eng.epoch
      BY <1>0, EngMoves DEF EngineState
    <3>2. eng' = eng \/ eng' = [eng EXCEPT !.state = "running"]
      BY <1>2 DEF WaiterProbe, WaiterReady
    <3>. QED  BY <1>0, <3>1, <3>2
  <2>. QED
    BY <1>2, <2>1, QuietSlot DEF WaiterProbe, WaiterReady, SlotInv, Types, Verdicts
<1>3. ASSUME NEW p \in Procs, Serve(p) \/ Exit(p) PROVE SlotInv' /\ Verdicts
  BY <1>3, QuietSlot DEF Serve, Exit, tasks, SlotInv, Types, ProcState, Verdicts
<1>4. CASE DeadlinePasses
  <2>1. eng' \in EngRec /\ eng'.epoch = eng.epoch
    BY <1>0, <1>4 DEF DeadlinePasses, EngRec
  <2>. QED  BY <1>4, <2>1, QuietSlot DEF DeadlinePasses, tasks, SlotInv, Types, Verdicts
<1>5. CASE UNCHANGED vars
  BY <1>5, QuietSlot DEF vars, tasks, SlotInv, Types, Verdicts
<1>. QED  BY <1>1, <1>2, <1>3, <1>4, <1>5

LEMMA SlotInit == Init => SlotInv
<1>. SUFFICES ASSUME Init PROVE SlotInv
  OBVIOUS
<1>1. Types
  BY StartFacts, StopFacts, Numbers
  DEF Init, Types, EngRec, EngineState, ProcState, ReaperPc, PollerPc, StatusRec, IdleStatus
<1>2. NamesAreGiven /\ HeldOnce /\ StopIsExclusive
  BY StartFacts, StopFacts DEF Init, NamesAreGiven, HeldOnce, StopIsExclusive, Holds
<1>. QED  BY <1>1, <1>2 DEF SlotInv

LEMMA SlotStep == SlotInv /\ [Next]_vars => SlotInv' /\ Verdicts
<1>. SUFFICES ASSUME SlotInv, [Next]_vars PROVE SlotInv' /\ Verdicts
  OBVIOUS
<1>. QED
  BY StartActions, WatcherActions, StopActions, OtherActions
  DEF Next, FailAndEmit, Refresh, Silent

-----------------------------------------------------------------------------
(* What is shown as in progress is in somebody's hands. A step that leaves *)
(* the state as it is, or leaves it for one that needs nobody, cannot      *)
(* break that, unless it takes the hands away.                             *)
LEMMA ReconcileBegins ==
  ASSUME NEW e \in EngRec, NEW f
  PROVE  /\ Reconcile(e, f).state = "stopping" => e.state = "stopping"
         /\ Reconcile(e, f).state = "starting" =>
              e.state = "starting" /\ (e.deadline # "none" => Reconcile(e, f).deadline # "none")
<1>. DEFINE Later(x, y) ==
       /\ y \in EngRec
       /\ y.state = "stopping" => x.state = "stopping"
       /\ y.state = "starting" => x.state = "starting" /\ (x.deadline # "none" => y.deadline # "none")
<1>1. ASSUME NEW x \in EngRec PROVE Later(x, AfterChild(x, f))
  <2>1. CASE f.hasChild /\ f.healthy
    BY <2>1 DEF AfterChild, EngRec, EngineState
  <2>2. CASE f.hasChild /\ ~f.healthy
    BY <2>2 DEF AfterChild, EngRec, EngineState
  <2>3. CASE ~f.hasChild
    BY <2>3 DEF AfterChild, MarkExited, MarkFailed, EngRec, EngineState
  <2>. QED  BY <2>1, <2>2, <2>3
<1>2. \A x \in EngRec : Later(x, AfterDeadline(x))
  BY DEF AfterDeadline, MarkFailed, EngRec, EngineState
<1>3. ASSUME NEW x \in EngRec PROVE Later(x, AfterAdoption(x, f))
  <2>1. CASE Adopts(x, f)
    BY <2>1 DEF AfterAdoption, AdoptExternal, EngRec, EngineState
  <2>2. CASE ~Adopts(x, f) /\ x.state = "external" /\ ~f.healthy
    BY <2>2 DEF AfterAdoption, ResetStopped, EngRec, EngineState
  <2>3. CASE ~Adopts(x, f) /\ ~(x.state = "external" /\ ~f.healthy)
    BY <2>3 DEF AfterAdoption
  <2>. QED  BY <2>1, <2>2, <2>3
<1>. QED  BY <1>1, <1>2, <1>3 DEF Reconcile

(* The steps that do not begin a start or a stop.                          *)
LEMMA OthersBeginNothing ==
  ASSUME SlotInv, [Next]_vars,
         \A s \in Starters : ~Declare(s),
         \A t \in Stoppers : ~StopBegin(t) /\ ~StopTarget(t)
  PROVE  /\ eng'.state = "stopping" => eng.state = "stopping"
         /\ eng'.state = "starting" =>
              /\ eng.state = "starting" /\ eng'.epoch = eng.epoch
              /\ eng.deadline # "none" => eng'.deadline # "none"
<1>. eng \in EngRec
  BY DEF SlotInv, Types
<1>1. CASE UNCHANGED eng
  BY <1>1
<1>2. ASSUME NEW s \in Starters, StartInvalid(s) \/ SpawnFails(s) \/ StartStep(s)
      PROVE  eng' = eng \/ eng' = MarkFailed(eng) \/ eng' = AdoptExternal(eng)
  BY <1>2 DEF StartInvalid, SpawnFails, StartStep, StartRequest, StartProbe, StartGuard,
     SpawnProcess, Attach, Watch
<1>3. ASSUME NEW e \in Spawned, PollerExpires(e) \/ ReaperStep(e) \/ PollerStep(e)
      PROVE  eng' = eng \/ eng' = MarkFailed(eng) \/ eng' = [eng EXCEPT !.state = "running"]
  BY <1>3 DEF PollerExpires, ReaperStep, PollerStep, ReaperWake, ReaperLook, ReaperMark,
     ReaperClear, PollerProbe, PollerReady, PollerMissed, PollerKill, MarkExited
<1>4. ASSUME NEW o \in Observers, StatusStep(o)
      PROVE  eng' = eng \/ eng' = Reconcile(eng, status[o])
  BY <1>4 DEF StatusStep, StatusRead, StatusProbe, StatusApply
<1>5. ASSUME NEW t \in Stoppers, StopStep(t) PROVE eng' = eng \/ eng' = ResetStopped(eng)
  BY <1>5 DEF StopStep, StopTake, StopKill, StopReset
<1>6. CASE \/ \E w \in Waiters : WaiterProbe(w) \/ WaiterReady(w)
           \/ \E p \in Procs : Serve(p) \/ Exit(p)
           \/ DeadlinePasses \/ UNCHANGED vars
  <2>1. \/ eng' = eng \/ eng' = [eng EXCEPT !.state = "running"]
        \/ eng' = [eng EXCEPT !.deadline = "past"]
    BY <1>6 DEF WaiterProbe, WaiterReady, Serve, Exit, DeadlinePasses, vars
  <2>. QED  BY <2>1 DEF EngRec
<1>7. CASE \/ eng' = MarkFailed(eng) \/ eng' = AdoptExternal(eng) \/ eng' = ResetStopped(eng)
           \/ eng' = [eng EXCEPT !.state = "running"]
  BY <1>7 DEF MarkFailed, AdoptExternal, ResetStopped, EngRec
<1>8. ASSUME NEW o \in Observers, eng' = Reconcile(eng, status[o])
      PROVE  /\ eng'.state = "stopping" => eng.state = "stopping"
             /\ eng'.state = "starting" =>
                  /\ eng.state = "starting" /\ eng'.epoch = eng.epoch
                  /\ eng.deadline # "none" => eng'.deadline # "none"
  BY <1>8, ReconcileBegins, ReconcileKeeps
<1>. QED  BY <1>1, <1>2, <1>3, <1>4, <1>5, <1>6, <1>7, <1>8 DEF Next, FailAndEmit, Refresh, Silent

LEMMA OwnedStep ==
  ASSUME SlotInv, StoppingIsOwned, [Next]_vars
  PROVE  StoppingIsOwned'
<1>. stop \in [Stoppers -> StopRec] /\ eng \in EngRec
  BY DEF SlotInv, Types
<1>1. ASSUME NEW t \in Stoppers, StopBegin(t) \/ StopTarget(t)
      PROVE  StoppingIsOwned'
  <2>1. stop' = [stop EXCEPT ![t].pc = "grace"] \/ stop' = [stop EXCEPT ![t].pc = "signalled"]
        \/ (UNCHANGED eng /\ stop[t].pc = "targeting" /\ stop' = [stop EXCEPT ![t].pc = "idle"])
    BY <1>1 DEF StopBegin, StopTarget, MoveStop
  <2>2. \/ stop'[t].pc \in {"grace", "signalled"}
        \/ UNCHANGED eng /\ \A u \in Stoppers : stop[u].pc \in {"grace", "signalled"} => stop'[u] = stop[u]
    BY <2>1 DEF StopRec
  <2>. QED  BY <2>2 DEF StoppingIsOwned
<1>2. ASSUME NEW t \in Stoppers, StopReset(t) PROVE StoppingIsOwned'
  BY <1>2 DEF StopReset, ResetStopped, StoppingIsOwned, EngRec
<1>3. ASSUME \A t \in Stoppers : ~StopBegin(t) /\ ~StopTarget(t) /\ ~StopReset(t)
      PROVE  StoppingIsOwned'
  <2>1. eng'.state = "stopping" => eng.state = "stopping"
    <3>1. ASSUME NEW s \in Starters, Declare(s) PROVE eng'.state = "starting"
      BY <3>1 DEF Declare, EngRec
    <3>. QED  BY <1>3, <3>1, OthersBeginNothing
  <2>2. ASSUME NEW t \in Stoppers, StopStep(t)
        PROVE  \A u \in Stoppers : stop[u].pc \in {"grace", "signalled"}
                                     => stop'[u].pc \in {"grace", "signalled"}
    BY <1>3, <2>2 DEF StopStep, StopTake, StopKill, MoveStop, StopRec
  <2>3. UNCHANGED stop \/ \E t \in Stoppers : StopStep(t)
    BY DEF Next, FailAndEmit, Refresh, Silent, StartInvalid, SpawnFails, StartStep, StartRequest,
       StartProbe, StartGuard, Declare, SpawnProcess, Attach, Watch, PollerExpires, ReaperStep,
       PollerStep, ReaperWake, ReaperLook, ReaperMark, ReaperClear, PollerProbe, PollerReady,
       PollerMissed, PollerKill, StatusStep, StatusRead, StatusProbe, StatusApply, WaiterProbe,
       WaiterReady, Serve, Exit, DeadlinePasses, vars, tasks
  <2>. QED  BY <2>1, <2>2, <2>3 DEF StoppingIsOwned
<1>. QED  BY <1>1, <1>2, <1>3

(* A process whose spawn is not over has its poller, or a start that will  *)
(* give it one.                                                            *)
Beginning(e) ==
  \/ \E s \in Starters : start[s].epoch = e /\ start[s].pc \in {"spawning", "attaching", "watching"}
  \/ poller[e] \in {"sleeping", "healthy", "missed"}

LEMMA BeginningStays ==
  ASSUME SlotInv, [Next]_vars, NEW e \in Spawned, Beginning(e),
         eng.epoch = e, eng.state = "starting", eng'.epoch = e, eng'.state = "starting"
  PROVE  Beginning(e)'
<1>. /\ start \in [Starters -> StartRec] /\ poller \in [Spawned -> PollerPc] /\ eng \in EngRec
     /\ Epochs \subseteq Nat
  BY Numbers DEF SlotInv, Types
<1>1. CASE UNCHANGED <<start, poller>>
  BY <1>1 DEF Beginning
<1>2. ASSUME NEW s \in Starters, StartInvalid(s) \/ SpawnFails(s) \/ StartStep(s)
      PROVE  Beginning(e)'
  <2>1. CASE StartInvalid(s) \/ SpawnFails(s) \/ Declare(s)
    <3>1. ~StartInvalid(s) /\ ~SpawnFails(s)
      BY DEF StartInvalid, SpawnFails, MarkFailed, EngRec
    <3>2. e + 1 # e
      BY DEF Spawned
    <3>3. Declare(s) => eng'.epoch = eng.epoch + 1
      BY DEF Declare, EngRec
    <3>. QED  BY <2>1, <3>1, <3>2, <3>3
  <2>2. CASE StartRequest(s) \/ StartProbe(s) \/ StartGuard(s)
    <3>1. /\ start[s].pc \in {"idle", "resolving", "guarding"}
          /\ UNCHANGED poller
          /\ \E to : start' = [start EXCEPT ![s].pc = to]
      BY <2>2 DEF StartRequest, StartProbe, StartGuard, MoveStart
    <3>2. \A r \in Starters : start[r].pc \in {"spawning", "attaching", "watching"} => start'[r] = start[r]
      BY <3>1
    <3>. QED  BY <3>1, <3>2 DEF Beginning
  <2>3. CASE SpawnProcess(s) \/ Attach(s)
    <3>1. /\ UNCHANGED poller
          /\ \E to \in {"attaching", "watching"} : start' = [start EXCEPT ![s].pc = to]
      BY <2>3 DEF SpawnProcess, Attach, MoveStart
    <3>2. \A r \in Starters :
            /\ start'[r].epoch = start[r].epoch
            /\ start[r].pc \in {"spawning", "attaching", "watching"} =>
                 start'[r].pc \in {"spawning", "attaching", "watching"}
      BY <3>1 DEF StartRec
    <3>. QED  BY <3>1, <3>2 DEF Beginning
  <2>4. CASE Watch(s)
    <3>1. start[s].epoch \in Spawned
      BY <2>4, StartFacts DEF Watch, LatePc
    <3>2. /\ start' = [start EXCEPT ![s] = IdleStart]
          /\ poller' = [poller EXCEPT ![start[s].epoch] = "sleeping"]
      BY <2>4 DEF Watch
    <3>3. CASE start[s].epoch = e
      BY <3>2, <3>3 DEF Beginning
    <3>4. CASE start[s].epoch # e
      BY <3>1, <3>2, <3>4 DEF Beginning
    <3>. QED  BY <3>3, <3>4
  <2>. QED  BY <1>2, <2>1, <2>2, <2>3, <2>4 DEF StartStep
<1>3. ASSUME NEW f \in Spawned, PollerExpires(f) \/ PollerStep(f) PROVE Beginning(e)'
  <2>1. CASE f # e
    <3>1. poller'[e] = poller[e] /\ UNCHANGED start
      BY <1>3, <2>1 DEF PollerExpires, PollerStep, PollerProbe, PollerReady, PollerMissed,
         PollerKill, MovePoller
    <3>. QED  BY <3>1 DEF Beginning
  <2>2. CASE f = e
    <3>1. UNCHANGED start
      BY <1>3 DEF PollerExpires, PollerStep, PollerProbe, PollerReady, PollerMissed, PollerKill
    <3>2. CASE PollerExpires(e) \/ PollerReady(e)
      BY <3>2 DEF PollerExpires, PollerReady, MarkFailed, EngRec, Supervised
    <3>3. CASE PollerProbe(e) \/ PollerMissed(e)
      BY <3>3 DEF PollerProbe, PollerMissed, MovePoller, Beginning
    <3>4. CASE PollerKill(e)
      BY <3>1, <3>4 DEF PollerKill, MovePoller, Beginning
    <3>. QED  BY <1>3, <2>2, <3>2, <3>3, <3>4 DEF PollerStep
  <2>. QED  BY <2>1, <2>2
<1>. QED
  BY <1>1, <1>2, <1>3
  DEF Next, FailAndEmit, Refresh, Silent, ReaperStep, ReaperWake, ReaperLook, ReaperMark,
      ReaperClear, StatusStep, StatusRead, StatusProbe, StatusApply, StopStep, StopTake, StopBegin,
      StopKill, StopTarget, StopReset, WaiterProbe, WaiterReady, Serve, Exit, DeadlinePasses,
      vars, tasks

(* StartingIsSupervised, and that a start in progress has an epoch.        *)
StartsInv ==
  eng.state = "starting" => eng.epoch \in Spawned /\ eng.deadline # "none" /\ Beginning(eng.epoch)

LEMMA StartsStep ==
  ASSUME SlotInv, StartsInv, [Next]_vars
  PROVE  StartsInv'
<1>. eng \in EngRec /\ start \in [Starters -> StartRec]
  BY DEF SlotInv, Types
<1>1. ASSUME NEW s \in Starters, Declare(s) PROVE StartsInv'
  <2>1. eng.epoch + 1 \in Spawned
    BY <1>1, Numbers DEF Declare, EngRec
  <2>2. eng'.epoch = eng.epoch + 1 /\ eng'.deadline = "ahead"
    BY <1>1 DEF Declare, EngRec
  <2>3. start'[s] = [pc |-> "spawning", epoch |-> eng.epoch + 1]
    BY <1>1 DEF Declare
  <2>. QED  BY <2>1, <2>2, <2>3 DEF StartsInv, Beginning
<1>2. ASSUME NEW t \in Stoppers, StopBegin(t) \/ StopTarget(t) PROVE StartsInv'
  <2>1. eng'.state = "stopping" \/ UNCHANGED <<eng, start, poller>>
    BY <1>2 DEF StopBegin, StopTarget, EngRec
  <2>2. UNCHANGED <<start, poller>>
    BY <1>2 DEF StopBegin, StopTarget
  <2>. QED  BY <2>1, <2>2 DEF StartsInv, Beginning
<1>3. ASSUME \A s \in Starters : ~Declare(s), \A t \in Stoppers : ~StopBegin(t) /\ ~StopTarget(t)
      PROVE  StartsInv'
  <2>. SUFFICES ASSUME eng'.state = "starting"
                PROVE  eng'.epoch \in Spawned /\ eng'.deadline # "none" /\ Beginning(eng.epoch)'
    BY <1>3, OthersBeginNothing DEF StartsInv, Beginning
  <2>1. /\ eng.state = "starting" /\ eng'.epoch = eng.epoch
        /\ eng.deadline # "none" => eng'.deadline # "none"
    BY <1>3, OthersBeginNothing
  <2>. QED  BY <2>1, BeginningStays DEF StartsInv
<1>. QED  BY <1>1, <1>2, <1>3

-----------------------------------------------------------------------------
(* The supervisor's state is well typed: no request moves on a process it  *)
(* has not, and every epoch is one that was given (types/state.rs).        *)
THEOREM SupervisorTypes == Spec => []TypeOK
<1>1. SlotInv => TypeOK
  BY Typed DEF SlotInv
<1>. QED  BY <1>1, SlotInit, SlotStep, PTL DEF Spec

(* However many requests stop and start the engine at once, each process   *)
(* is terminated by one stop, and is in no slot then (stop_engine).        *)
THEOREM StopsAreExclusive == Spec => []StopIsExclusive
<1>1. SlotInv => StopIsExclusive
  BY DEF SlotInv
<1>. QED  BY <1>1, SlotInit, SlotStep, PTL DEF Spec

(* A reaper or poller that slept while others stopped its engine and       *)
(* started another changes nothing (spawn_reaper, spawn_health_poller).    *)
THEOREM WatchersJudgeTheirOwn == Spec => VerdictsOfThisEpoch
<1>1. SlotInv /\ [Next]_vars => SlotInv' /\
        [\A e \in Spawned :
           (\/ reaper[e] # "none" /\ reaper'[e] # reaper[e]
            \/ poller[e] # "none" /\ poller'[e] # poller[e])
           => eng' = eng \/ eng.epoch = e]_vars
  BY SlotStep DEF Verdicts
<1>. QED  BY <1>1, SlotInit, PTL DEF Spec, VerdictsOfThisEpoch

(* While the engine is shown as starting, a deadline is set and a start or *)
(* a poller is there to end it, whatever stops, refreshes and other starts *)
(* do (spawn_and_attach, spawn_health_poller, refresh_engine_status).      *)
THEOREM StartsAreSupervised == Spec => []StartingIsSupervised
<1>1. Init => StartsInv
  BY DEF Init, StartsInv
<1>2. SlotInv /\ StartsInv /\ [Next]_vars => StartsInv'
  BY StartsStep
<1>3. StartsInv => StartingIsSupervised
  BY DEF StartsInv, StartingIsSupervised, Beginning
<1>. QED  BY <1>1, <1>2, <1>3, SlotInit, SlotStep, PTL DEF Spec

(* The state "stopping" is never left behind: a stop that will reset it is *)
(* still under way (stop_engine).                                          *)
THEOREM StopsAreOwned == Spec => []StoppingIsOwned
<1>1. Init => StoppingIsOwned
  BY DEF Init, StoppingIsOwned
<1>2. SlotInv /\ StoppingIsOwned /\ [Next]_vars => StoppingIsOwned'
  BY OwnedStep
<1>. QED  BY <1>1, <1>2, SlotInit, SlotStep, PTL DEF Spec

-----------------------------------------------------------------------------
(* Other starts of the model: some clients never ask, and an engine of     *)
(* another owner may be there, or have been.                               *)
LEMMA CompanyStarts == ClientsInit => SlotInv /\ StartsInv /\ StoppingIsOwned
<1>. SUFFICES ASSUME ClientsInit PROVE SlotInv /\ StartsInv /\ StoppingIsOwned
  OBVIOUS
<1>1. PICK here \in Companies, f \in {"none", "serving", "exited"} :
        /\ start = [s \in Starters |-> Asks(here, s, IdleStart)]
        /\ stop = [t \in Stoppers |-> Asks(here, t, IdleStop)]
        /\ proc = [p \in Procs |-> IF p = Foreign THEN f ELSE "none"]
  BY DEF ClientsInit
<1>2. /\ \A s : Asks(here, s, IdleStart) \in StartRec /\ Asks(here, s, IdleStart).pc \in EarlyPc
      /\ \A t : /\ Asks(here, t, IdleStop) \in StopRec /\ Asks(here, t, IdleStop).pc \in {"idle", "absent"}
               /\ Asks(here, t, IdleStop).proc = Nobody
  BY StartMoves, StopMoves, StartFacts, StopFacts DEF Asks, EarlyPc, FreePc
<1>3. Types
  BY <1>1, <1>2, Numbers
  DEF ClientsInit, Types, EngRec, EngineState, ProcState, ReaperPc, PollerPc, StatusRec, IdleStatus
<1>4. NamesAreGiven /\ HeldOnce /\ StopIsExclusive
  BY <1>1, <1>2 DEF ClientsInit, NamesAreGiven, HeldOnce, StopIsExclusive, Holds, EarlyPc
<1>5. eng.state = "stopped"
  BY DEF ClientsInit
<1>. QED  BY <1>3, <1>4, <1>5 DEF SlotInv, StartsInv, StoppingIsOwned

(* Whichever clients there are, and whatever engine of another owner, the  *)
(* state is well typed, stops exclude each other, a start has somebody to  *)
(* judge it and a stop somebody to end it.                                 *)
THEOREM CompaniesAreSafe ==
  ClientsSpec => [](TypeOK /\ StopIsExclusive /\ StartingIsSupervised /\ StoppingIsOwned)
<1>1. SlotInv /\ StartsInv /\ StoppingIsOwned =>
        TypeOK /\ StopIsExclusive /\ StartingIsSupervised /\ StoppingIsOwned
  BY Typed DEF SlotInv, StartsInv, StartingIsSupervised, Beginning
<1>. QED  BY <1>1, CompanyStarts, SlotStep, StartsStep, OwnedStep, PTL DEF ClientsSpec

(* Telling the shell changes nothing: with its events, the supervisor does *)
(* what it does without, so all of the above holds of it too (the emit     *)
(* calls of engine/status.rs and engine/launch.rs).                        *)
THEOREM EventsAddNothing == EventsSpec => Spec
<1>1. EventsInit => Init
  BY DEF EventsInit
<1>2. [EventsNext]_eventVars => [Next]_vars
  <2>. SUFFICES ASSUME [EventsNext]_eventVars PROVE [Next]_vars
    OBVIOUS
  <2>1. ASSUME NEW o \in Observers, RefreshEmits(o) PROVE Refresh
    BY <2>1 DEF RefreshEmits, Refresh, StatusStep
  <2>2. CASE UNCHANGED eventVars
    BY <2>2 DEF eventVars
  <2>. QED  BY <2>1, <2>2 DEF EventsNext, Next
<1>. QED  BY <1>1, <1>2, PTL DEF EventsSpec, Spec
=============================================================================
