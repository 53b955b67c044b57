----------------------------- MODULE RunAttach ------------------------------
(***************************************************************************)
(* A child run of the web client: runSubagentInner and runWorker           *)
(* (hooks/useCoderSubagents.ts) start a run of the control plane, follow   *)
(* it over a RunStream (lib/agentRuns.ts) that resynchronises after cuts,  *)
(* relay its approvals to the user's one dialog, and read its answer. An   *)
(* angle of a deep research (lib/deepResearch.ts) polls its run instead,   *)
(* and denies what it asks for.                                            *)
(*                                                                         *)
(* The control plane's side (agent/run.rs) is modelled as far as the       *)
(* client sees it: requests served late or never, event frames sent only   *)
(* to whom is subscribed, dropped from the front when a client lags,       *)
(* pauses that time out.                                                   *)
(***************************************************************************)
EXTENDS Naturals, Sequences, FiniteSets, SequencesExt

CONSTANTS
  MaxAsks,    \* bound on the pauses of one run (approvals and turn hooks)
  MaxFrames,  \* frames the control plane keeps for a client before it lags
  MaxCuts     \* bound on resynchronisations

ASSUME AttachAssumption == MaxAsks \in Nat /\ MaxFrames \in Nat \ {0, 1} /\ MaxCuts \in Nat

VARIABLES
  childKind,    \* "scout" (runSubagentInner), "worker" (runWorker), "research"
  childRun,     \* the run on the control plane
  childCall,    \* the client's call
  childFrames,  \* frames on their way to the subscribed stream
  childWire,    \* other requests on their way
  childDialog,  \* the approval on screen, 0 for none
  childTrouble  \* a request failed, or was aborted, on its way

attachVars == <<childKind, childRun, childCall, childFrames, childWire, childDialog,
                childTrouble>>

Ended == {"done", "steps", "stopped", "error"}
Following == {"get", "connect", "reading", "cut", "check"}

MoveChild(pc) == childCall' = [childCall EXCEPT !.pc = pc]

-----------------------------------------------------------------------------
(* The control plane *)

(* sse_pump: one frame per event; a client that lags loses the oldest and  *)
(* gets a state frame in their place.                                      *)
Emit(frame) ==
  childFrames' = IF childCall.pc # "reading" THEN childFrames
                 ELSE IF Len(childFrames) < MaxFrames THEN Append(childFrames, frame)
                 ELSE <<[type |-> "state", n |-> 0]>>
                      \o Append(SubSeq(childFrames, 3, Len(childFrames)), frame)

ServeStart ==
  /\ [type |-> "start", n |-> 0] \in childWire
  /\ childWire' = childWire \ {[type |-> "start", n |-> 0]}
  /\ childRun' = [childRun EXCEPT !.status = "live"]
  /\ UNCHANGED <<childKind, childCall, childFrames, childDialog, childTrouble>>

(* The run pauses for an approval or at the end of a turn. *)
ChildAsks ==
  /\ childRun.status = "live" /\ childRun.asking = 0 /\ childRun.asks < MaxAsks
  /\ \E type \in {"approval", "hook"} :
       /\ childRun' = [childRun EXCEPT !.asks = @ + 1, !.asking = childRun.asks + 1, !.form = type]
       /\ Emit([type |-> type, n |-> childRun.asks + 1])
  /\ UNCHANGED <<childKind, childCall, childWire, childDialog, childTrouble>>

(* A decision, or the five minutes of the pause, lets it go on. *)
PauseTimesOut ==
  /\ childRun.asking # 0
  /\ childRun' = [childRun EXCEPT !.asking = 0, !.form = "none"]
  /\ UNCHANGED <<childKind, childCall, childFrames, childWire, childDialog,
                 childTrouble>>

(* approve() refuses an approval without a token, and the client sends     *)
(* none (the refusal is swallowed): only denials and hook decisions count. *)
ServeDecision(m) ==
  /\ m \in childWire /\ m.type \in {"deny", "approve", "hook"}
  /\ childWire' = childWire \ {m}
  /\ childRun' = IF m.type # "approve" /\ childRun.asking = m.n
                 THEN [childRun EXCEPT !.asking = 0, !.form = "none"] ELSE childRun
  /\ UNCHANGED <<childKind, childCall, childFrames, childDialog, childTrouble>>

EndChild(status) ==
  /\ childRun' = [childRun EXCEPT !.status = status, !.asking = 0, !.form = "none"]
  /\ Emit([type |-> IF status = "error" THEN "error" ELSE "done", n |-> 0])

ChildEnds ==
  /\ childRun.status = "live" /\ childRun.asking = 0
  /\ \E status \in {"done", "steps", "error"} : EndChild(status)
  /\ UNCHANGED <<childKind, childCall, childWire, childDialog, childTrouble>>

ServeStop ==
  /\ [type |-> "stop", n |-> 0] \in childWire
  /\ childWire' = childWire \ {[type |-> "stop", n |-> 0]}
  /\ IF childRun.status = "live" THEN EndChild("stopped") ELSE UNCHANGED <<childRun,
                                                                           childFrames>>
  /\ UNCHANGED <<childKind, childCall, childDialog, childTrouble>>

(* A request that never arrives: its error is ignored by the client. *)
LoseRequest(m) ==
  /\ m \in childWire
  /\ childWire' = childWire \ {m} /\ childTrouble' = TRUE
  /\ UNCHANGED <<childKind, childRun, childCall, childFrames, childDialog>>

-----------------------------------------------------------------------------
(* The call *)

ReturnChild(result) == childCall' = [childCall EXCEPT !.pc = "over", !.result = result]
PostStop == childWire \cup IF childCall.id THEN {[type |-> "stop", n |-> 0]} ELSE {}

StartCall ==
  /\ childCall.pc = "idle"
  /\ MoveChild("starting")
  /\ childWire' = childWire \cup {[type |-> "start", n |-> 0]}
  /\ UNCHANGED <<childKind, childRun, childFrames, childDialog, childTrouble>>

(* The id arrives. An abort seen only now stops the run here. *)
Started ==
  /\ childCall.pc = "starting" /\ childRun.status # "none"
  /\ IF childCall.aborted
     THEN /\ childCall' = [childCall EXCEPT !.pc = "over", !.id = TRUE, !.result = "aborted"]
          /\ childWire' = childWire \cup {[type |-> "stop", n |-> 0]}
     ELSE /\ childCall' = [childCall EXCEPT !.pc = IF childKind = "research" THEN "poll" ELSE "get", !.id = TRUE]
          /\ UNCHANGED childWire
  /\ UNCHANGED <<childKind, childRun, childFrames, childDialog, childTrouble>>

(* An abort or a timeout of the POST: the run, if there is one, is unknown *)
(* to the client.                                                          *)
StartFails ==
  /\ childCall.pc = "starting"
  /\ ReturnChild("failed") /\ childTrouble' = TRUE
  /\ UNCHANGED <<childKind, childRun, childFrames, childWire, childDialog>>

(* RunStream.loop: the snapshot, or nothing to follow. *)
ChildSnapshot ==
  /\ childCall.pc \in {"get", "check"}
  /\ \/ /\ MoveChild(IF childCall.aborted \/ childRun.status \in Ended THEN "last"
                ELSE IF childCall.pc = "get" THEN "connect" ELSE "get")
        /\ UNCHANGED childTrouble
     \/ MoveChild("last") /\ childTrouble' = TRUE
  /\ UNCHANGED <<childKind, childRun, childFrames, childWire, childDialog>>

(* consume: the subscription starts here; earlier events are not sent. *)
Subscribe ==
  /\ childCall.pc = "connect"
  /\ MoveChild(IF childCall.aborted THEN "last" ELSE "reading")
  /\ childFrames' = <<[type |-> "state", n |-> 0]>>
  /\ UNCHANGED <<childKind, childRun, childWire, childDialog, childTrouble>>

(* A cut, or the idle timeout of three minutes, is followed by a resync. A *)
(* clean end is checked first.                                             *)
StreamEnds ==
  /\ childCall.pc \in {"connect", "reading"} /\ childCall.cuts < MaxCuts
  /\ \E clean \in BOOLEAN :
       /\ clean => childCall.pc = "reading" /\ childRun.status \in Ended
       /\ childCall' = [childCall EXCEPT !.pc = IF clean THEN "check" ELSE "cut", !.cuts = @ + 1]
  /\ childFrames' = <<>>
  /\ UNCHANGED <<childKind, childRun, childWire, childDialog, childTrouble>>

Resync ==
  /\ childCall.pc = "cut"
  /\ MoveChild(IF childCall.aborted THEN "last" ELSE "get")
  /\ UNCHANGED <<childKind, childRun, childFrames, childWire, childDialog,
                 childTrouble>>

(* RunStream.consume: the next frame; the last ends the stream.            *)
TakeFrame(f) ==
  /\ childFrames # <<>> /\ f = Head(childFrames) /\ childFrames' = Tail(childFrames)
  /\ MoveChild(IF f.type \in {"done", "error"} THEN "last" ELSE "reading")

(* One frame: later state frames are ignored, a hook is let through, an    *)
(* approval is put on the dialog (in place of an earlier one, whose        *)
(* handler then waits for ever).                                           *)
ChildFrame ==
  /\ childCall.pc = "reading"
  /\ \E f \in ToSet(childFrames) :
        /\ TakeFrame(f)
        /\ childWire' = IF f.type = "hook" /\ ~childCall.aborted
                   THEN childWire \cup {[type |-> "hook", n |-> f.n]} ELSE childWire
        /\ childDialog' = IF f.type = "approval" /\ ~childCall.aborted THEN f.n ELSE childDialog
  /\ UNCHANGED <<childKind, childRun, childTrouble>>

(* close() aborts the stream's requests. *)
StreamCloses ==
  /\ childCall.aborted /\ childCall.pc \in Following
  /\ MoveChild("last") /\ childFrames' = <<>>
  /\ UNCHANGED <<childKind, childRun, childWire, childDialog, childTrouble>>

ChildVerdict ==
  IF childRun.status = "stopped" \/ childCall.aborted THEN "aborted"
  ELSE IF childRun.status = "error" THEN "failed"
  ELSE IF childRun.status = "steps" /\ childKind = "scout" THEN "budget"
  ELSE "findings"

(* The last get, and the answer. When it fails a scout stops its run, a    *)
(* worker leaves it.                                                       *)
ReturnAnswer ==
  /\ childCall.pc = "last"
  /\ \/ ReturnChild(ChildVerdict) /\ UNCHANGED <<childWire, childTrouble>>
     \/ /\ ReturnChild("failed") /\ childTrouble' = TRUE
        /\ childWire' = IF childKind = "scout" THEN PostStop ELSE childWire
  /\ UNCHANGED <<childKind, childRun, childFrames, childDialog>>

(* runResearchAngle: a snapshot every 250 ms until the run has ended. An   *)
(* abort is seen before a snapshot is asked for; approvals are denied, but *)
(* not the hooks, although the run was started with a client's.            *)
AngleVerdict ==
  CASE childRun.status = "stopped" -> "aborted" [] childRun.status = "error" -> "failed" [] OTHER -> "findings"

PollAngle ==
  /\ childCall.pc = "poll"
  /\ \/ childCall.aborted /\ ReturnChild("aborted") /\ childWire' = PostStop
     \/ childRun.status \in Ended /\ ReturnChild(AngleVerdict) /\ UNCHANGED childWire
     \/ /\ childRun.form = "approval" /\ UNCHANGED childCall
        /\ childWire' = childWire \cup {[type |-> "deny", n |-> childRun.asking]}
  /\ UNCHANGED <<childKind, childRun, childFrames, childDialog, childTrouble>>

(* A snapshot that fails stops the run and the angle.                      *)
PollFails ==
  /\ childCall.pc = "poll"
  /\ ReturnChild("failed") /\ childWire' = PostStop /\ childTrouble' = TRUE
  /\ UNCHANGED <<childKind, childRun, childFrames, childDialog>>

-----------------------------------------------------------------------------
(* The user *)

DecideChild ==
  /\ childDialog # 0
  /\ \E type \in {"approve", "deny"} : childWire' = childWire \cup {[type |-> type, n |-> childDialog]}
  /\ childDialog' = 0
  /\ UNCHANGED <<childKind, childRun, childCall, childFrames, childTrouble>>

DenyDialog == IF childDialog = 0 THEN {} ELSE {[type |-> "deny", n |-> childDialog]}

(* A bug to notice: aborting only closes the stream. *)
AbortChildWithoutStop ==
  /\ childCall.pc \notin {"idle", "over"} /\ ~childCall.aborted
  /\ childCall' = [childCall EXCEPT !.aborted = TRUE]
  /\ childWire' = childWire \cup DenyDialog /\ childDialog' = 0
  /\ UNCHANGED <<childKind, childRun, childFrames, childTrouble>>

(* Stop: the signal's listener stops the run it knows of, and the dialog   *)
(* is denied.                                                              *)
AbortChild ==
  /\ childCall.pc \notin {"idle", "over"} /\ ~childCall.aborted
  /\ childCall' = [childCall EXCEPT !.aborted = TRUE]
  /\ childWire' = PostStop \cup DenyDialog /\ childDialog' = 0
  /\ UNCHANGED <<childKind, childRun, childFrames, childTrouble>>

AttachInit ==
  /\ childKind \in {"scout", "worker", "research"}
  /\ childRun = [status |-> "none", asks |-> 0, asking |-> 0, form |-> "none"]
  /\ childCall = [pc |-> "idle", id |-> FALSE, aborted |-> FALSE, cuts |-> 0, result |-> "none"]
  /\ childFrames = <<>> /\ childWire = {} /\ childDialog = 0 /\ childTrouble = FALSE

AttachNext ==
  \/ ServeStart \/ ChildAsks \/ PauseTimesOut \/ ChildEnds \/ ServeStop
  \/ \E m \in childWire : ServeDecision(m) \/ LoseRequest(m)
  \/ StartCall \/ Started \/ StartFails
  \/ ChildSnapshot \/ Subscribe \/ StreamEnds \/ Resync \/ ChildFrame \/ StreamCloses \/ ReturnAnswer
  \/ PollAngle \/ PollFails \/ DecideChild \/ AbortChild

AttachSpec == AttachInit /\ [][AttachNext]_attachVars

-----------------------------------------------------------------------------
(* The type invariant. *)
AttachTypeOK ==
  /\ childRun.status \in {"none", "live"} \cup Ended
  /\ childRun.asking \in 0..childRun.asks /\ childRun.asks \in 0..MaxAsks
  /\ childRun.form = "none" <=> childRun.asking = 0
  /\ childCall.pc \in {"idle", "starting", "poll", "last", "over"} \cup Following
  /\ childCall.result \in {"none", "aborted", "failed", "budget", "findings"}
  /\ Len(childFrames) <= MaxFrames
  /\ childDialog \in 0..MaxAsks

(* Unless a request got lost, a child's answer is that of a run that has   *)
(* ended, and a call that is over leaves no run behind: neither an abort   *)
(* during the start, nor one that meets a resync or the run's own end,     *)
(* nor frames lost to a cut or a lag leave one working unseen.             *)
(* (useCoderSubagents.ts:80, "an abort mid-flight must cancel")            *)
NoOrphanChild ==
  childCall.pc = "over" /\ ~childTrouble =>
    /\ childRun.status = "live" => [type |-> "stop", n |-> 0] \in childWire
    /\ childCall.result \in {"findings", "budget"} => childRun.status \in {"done", "steps"}
=============================================================================
