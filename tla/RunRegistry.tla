---------------------------- MODULE RunRegistry ----------------------------
(***************************************************************************)
(* The registry of agent runs (agent/run.rs) and the child runs that tool  *)
(* calls spawn in it (agent/child_run.rs): admission, eviction, the depth  *)
(* of a family of runs, and how a parent gets its child's outcome. What a  *)
(* run does between pauses is in AgentRun; here its loop only works,       *)
(* pauses, delegates and ends.                                             *)
(*                                                                         *)
(* A step is one critical section of the registry mutex, or one section    *)
(* without await of a task; tasks run on several threads.                  *)
(***************************************************************************)
EXTENDS Naturals, Sequences, FiniteSets, SequencesExt

CONSTANTS
  Clients,         \* clients that post /api/agent/runs
  MaxRuns,         \* bound: runs started in a behaviour
  MaxConcurrent,   \* MAX_CONCURRENT_RUNS
  MaxStored,       \* MAX_STORED_RUNS
  MaxDepth         \* the depth at which a run may still delegate

ASSUME RegistryAssumption ==
  /\ IsFiniteSet(Clients)
  /\ MaxRuns \in Nat \ {0}
  /\ MaxConcurrent \in Nat \ {0}
  /\ MaxStored \in Nat \ {0}
  /\ MaxDepth \in Nat

Runs == 1..MaxRuns
NoRun == 0
Terminal == {"done", "stopped", "error"}

VARIABLES
  runs,        \* state.agent_runs: the ids that can be looked up
  ended,       \* the stored terminal runs, by updated_at, oldest first
  status,      \* RunLive.status; the awaiting states are one
  parent,      \* RunMeta.parent
  stopSent,    \* the stop watch channel
  loop,        \* the loop task of each run
  call,        \* spawn_child, in the parent's task, for each child run
  request      \* start requests in flight: the run each is setting up

vars == <<runs, ended, status, parent, stopSent, loop, call, request>>

Active == {r \in runs : status[r] \notin Terminal}
Unborn == {r \in Runs : status[r] = "unborn"}

-----------------------------------------------------------------------------
(* A bug to notice: the room the new run itself takes is forgotten. *)
ExcessOffByOne == IF Cardinality(runs) < MaxStored THEN 0 ELSE Cardinality(runs) - MaxStored

(* How many runs there are too many for one more. *)
Excess == IF Cardinality(runs) < MaxStored THEN 0 ELSE Cardinality(runs) + 1 - MaxStored

(* prune_terminal_runs: the runs evicted before an insertion are the       *)
(* excess, taken from the longest ended.                                   *)
Evicted == IF Excess < Len(ended) THEN Excess ELSE Len(ended)
Pruned == {ended[i] : i \in 1..Evicted}

(* A bug to notice: a full registry takes no new run, whose task is        *)
(* spawned all the same.                                                   *)
SpawnRunUnlisted(r, p) ==
  /\ r \in Unborn /\ \A q \in Unborn : r <= q
  /\ runs' = IF Cardinality(runs \ Pruned) < MaxStored THEN (runs \ Pruned) \cup {r} ELSE runs \ Pruned
  /\ ended' = SubSeq(ended, Evicted + 1, Len(ended))
  /\ status' = [status EXCEPT ![r] = "running"]
  /\ parent' = [parent EXCEPT ![r] = p]
  /\ loop' = [loop EXCEPT ![r] = "scheduled"]

(* spawn_run: the run is stored and its task spawned, in that order. Run   *)
(* ids are taken in order.                                                 *)
SpawnRun(r, p) ==
  /\ r \in Unborn /\ \A q \in Unborn : r <= q
  /\ runs' = (runs \ Pruned) \cup {r}
  /\ ended' = SubSeq(ended, Evicted + 1, Len(ended))
  /\ status' = [status EXCEPT ![r] = "running"]
  /\ parent' = [parent EXCEPT ![r] = p]
  /\ loop' = [loop EXCEPT ![r] = "scheduled"]

(* A bug to notice: a run that ended is stopped once more. *)
StopRunAgain(r) ==
  /\ stopSent' = [stopSent EXCEPT ![r] = TRUE]
  /\ status' = [status EXCEPT ![r] = "stopped"]
  /\ ended' = IF r \in runs THEN Append(ended, r) ELSE ended

(* stop_run and mark_terminal: a run that ended is left alone. *)
StopRun(r) ==
  IF status[r] \in Terminal THEN UNCHANGED <<stopSent, status, ended>>
  ELSE /\ stopSent' = [stopSent EXCEPT ![r] = TRUE]
       /\ status' = [status EXCEPT ![r] = "stopped"]
       /\ ended' = IF r \in runs THEN Append(ended, r) ELSE ended

-----------------------------------------------------------------------------
(* POST /api/agent/runs *)

(* A bug to notice: the ceiling itself is admitted. *)
StartAdmittedAtCeiling(c) ==
  /\ request[c].pc = "idle"
  /\ Cardinality(Active) <= MaxConcurrent
  /\ request' = [request EXCEPT ![c].pc = "admitted"]
  /\ UNCHANGED <<runs, ended, status, parent, stopSent, loop, call>>

(* The count is taken under the registry lock, which is then released. *)
StartAdmitted(c) ==
  /\ request[c].pc = "idle"
  /\ Cardinality(Active) < MaxConcurrent
  /\ request' = [request EXCEPT ![c].pc = "admitted"]
  /\ UNCHANGED <<runs, ended, status, parent, stopSent, loop, call>>

StartSpawn(c, r) ==
  /\ request[c].pc = "admitted"
  /\ SpawnRun(r, NoRun)
  /\ request' = [request EXCEPT ![c] = [pc |-> "spawned", run |-> r]]
  /\ UNCHANGED <<stopSent, call>>

(* Hook mode and gate options are set on the run already spawned. *)
StartConfigure(c) ==
  /\ request[c].pc = "spawned"
  /\ request' = [request EXCEPT ![c] = [pc |-> "idle", run |-> NoRun]]
  /\ UNCHANGED <<runs, ended, status, parent, stopSent, loop, call>>

(* POST /api/agent/runs/{id}/stop *)
Stop(r) ==
  /\ r \in Active
  /\ StopRun(r)
  /\ UNCHANGED <<runs, parent, loop, call, request>>

-----------------------------------------------------------------------------
(* The loop of a run. *)

Begin(r) ==
  /\ loop[r] = "scheduled"
  /\ loop' = [loop EXCEPT ![r] = "working"]
  /\ UNCHANGED <<runs, ended, status, parent, stopSent, call, request>>

Calling(r) == \E c \in Runs : parent[c] = r /\ call[c] \in {"spawned", "subscribed", "waiting"}

(* A pause for a human. set_status does not look at what it overwrites, so *)
(* a run that was just stopped shows as waiting again.                     *)
Pause(r) ==
  /\ loop[r] = "working" /\ ~Calling(r)
  /\ status[r] \in {"running", "stopped"}
  /\ status' = [status EXCEPT ![r] = "awaiting"]
  /\ \/ r \notin ToSet(ended) /\ UNCHANGED ended
     \/ \E i \in DOMAIN ended : ended[i] = r /\ ended' = RemoveAt(ended, i)
  /\ loop' = [loop EXCEPT ![r] = "paused"]
  /\ UNCHANGED <<runs, parent, stopSent, call, request>>

(* A decision or a timeout ends the pause. *)
Resume(r) ==
  /\ loop[r] = "paused"
  /\ loop' = [loop EXCEPT ![r] = "working"]
  /\ status' = IF status[r] = "awaiting" THEN [status EXCEPT ![r] = "running"] ELSE status
  /\ UNCHANGED <<runs, ended, parent, stopSent, call, request>>

(* The run ends by itself, or its task panics. *)
Finish(r, s) ==
  /\ loop[r] = "working" /\ ~Calling(r)
  /\ loop' = [loop EXCEPT ![r] = "gone"]
  /\ status' = IF status[r] \in Terminal THEN status ELSE [status EXCEPT ![r] = s]
  /\ ended' = IF status[r] \in Terminal \/ r \notin runs THEN ended ELSE Append(ended, r)
  /\ UNCHANGED <<runs, parent, stopSent, call, request>>

(* The loop sees the stop signal and returns; the status is as it stands. *)
Unwind(r) ==
  /\ loop[r] \in {"working", "paused"} /\ stopSent[r] /\ ~Calling(r)
  /\ loop' = [loop EXCEPT ![r] = "gone"]
  /\ UNCHANGED <<runs, ended, status, parent, stopSent, call, request>>

-----------------------------------------------------------------------------
(* delegate and subagent *)

(* run_depth: the chain of ancestors, as far as the registry knows them.   *)
(* The code's cut of the walk at 8 is beyond any answer that matters.      *)
RunDepth(r) ==
  LET depth[q \in Runs] ==
        IF parent[q] = NoRun THEN 0
        ELSE IF parent[q] \in runs THEN depth[parent[q]] + 1 ELSE 1
  IN  depth[r]

(* The first synchronous part of spawn_child. *)
SpawnChild(r, c) ==
  /\ loop[r] = "working"
  /\ RunDepth(r) <= MaxDepth
  /\ SpawnRun(c, r)
  /\ call' = [call EXCEPT ![c] = "spawned"]
  /\ UNCHANGED <<stopSent, request>>

(* The parent's gate options are copied to the child, and its events       *)
(* subscribed to.                                                          *)
Subscribe(c) ==
  /\ call[c] = "spawned"
  /\ call' = [call EXCEPT ![c] = "subscribed"]
  /\ UNCHANGED <<runs, ended, status, parent, stopSent, loop, request>>

Outcome(s) == IF s \in {"stopped", "error"} THEN "error" ELSE "ok"

(* Any first status but running is taken for the outcome. *)
ReadStatus(c) ==
  /\ call[c] = "subscribed"
  /\ call' = [call EXCEPT ![c] = IF status[c] = "running" THEN "waiting"
                                 ELSE Outcome(status[c])]
  /\ UNCHANGED <<runs, ended, status, parent, stopSent, loop, request>>

ChildDone(c) ==
  /\ call[c] = "waiting"
  /\ status[c] \in Terminal
  /\ call' = [call EXCEPT ![c] = Outcome(status[c])]
  /\ UNCHANGED <<runs, ended, status, parent, stopSent, loop, request>>

(* 1800 s are over: the child is stopped. *)
ChildTimeout(c) ==
  /\ call[c] = "waiting"
  /\ StopRun(c)
  /\ call' = [call EXCEPT ![c] = "error"]
  /\ UNCHANGED <<runs, parent, loop, request>>

(* The parent was stopped: its dispatch is dropped at the await, and the   *)
(* child is left to itself.                                                *)
CallDropped(c) ==
  /\ call[c] = "waiting"
  /\ stopSent[parent[c]]
  /\ call' = [call EXCEPT ![c] = "dropped"]
  /\ UNCHANGED <<runs, ended, status, parent, stopSent, loop, request>>

-----------------------------------------------------------------------------
Init ==
  /\ runs = {} /\ ended = << >>
  /\ status = [r \in Runs |-> "unborn"]
  /\ parent = [r \in Runs |-> NoRun]
  /\ stopSent = [r \in Runs |-> FALSE]
  /\ loop = [r \in Runs |-> "none"]
  /\ call = [r \in Runs |-> "none"]
  /\ request = [c \in Clients |-> [pc |-> "idle", run |-> NoRun]]

Loop(r) == Begin(r) \/ (\E s \in {"done", "error"} : Finish(r, s)) \/ Unwind(r)

Call(c) == Subscribe(c) \/ ReadStatus(c) \/ ChildDone(c) \/ ChildTimeout(c) \/ CallDropped(c)

Next ==
  \/ \E c \in Clients : \/ StartAdmitted(c) \/ StartConfigure(c)
                        \/ \E r \in Runs : StartSpawn(c, r)
  \/ \E r \in Runs : \/ Loop(r) \/ Pause(r) \/ Resume(r) \/ Stop(r)
                     \/ Call(r)
                     \/ \E c \in Runs : SpawnChild(r, c)

Spec == Init /\ [][Next]_vars

-----------------------------------------------------------------------------
(* The type invariant. *)
TypeOK ==
  /\ runs \subseteq Runs \ Unborn
  /\ ended \in Seq(Runs) /\ IsInjective(ended)
  /\ ToSet(ended) = {r \in runs : status[r] \in Terminal}
  /\ status \in [Runs -> Terminal \cup {"unborn", "running", "awaiting"}]
  /\ parent \in [Runs -> Runs \cup {NoRun}]
  /\ \A r \in Runs : parent[r] < r
  /\ stopSent \in [Runs -> BOOLEAN]
  /\ loop \in [Runs -> {"none", "scheduled", "working", "paused", "gone"}]
  /\ call \in [Runs -> {"none", "spawned", "subscribed", "waiting", "ok", "error", "dropped"}]
  /\ request \in [Clients -> [pc : {"idle", "admitted"}, run : {NoRun}]
                               \cup [pc : {"spawned"}, run : Runs]]

AtWork(r) == loop[r] \in {"scheduled", "working", "paused"} /\ ~stopSent[r]

(* A run that is at work and was not told to stop is in the registry: it   *)
(* can be watched and stopped. Eviction, however many runs come and go,    *)
(* takes only runs that have ended.                                        *)
WorkingRunsAreListed == \A r \in Runs : AtWork(r) => r \in runs

(* Admission counts first and inserts later, without the lock in between:  *)
(* the ceiling is exceeded by no more than the clients that start at once. *)
WorkIsBounded ==
  Cardinality({r \in Runs : AtWork(r) /\ parent[r] = NoRun})
    < MaxConcurrent + Cardinality(Clients)

(* A spawn leaves at most MaxStored runs stored, or none that could have   *)
(* been evicted; and it evicts the longest ended runs first.               *)
EvictsOldestTerminal ==
  [][/\ Cardinality(runs') > Cardinality(runs) =>
          Cardinality(runs') <= MaxStored \/ ended' = << >>
     /\ \A i, j \in DOMAIN ended :
          i < j /\ ended[j] \notin runs' => ended[i] \notin runs']_vars
=============================================================================
