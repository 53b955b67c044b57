------------------------------ MODULE AgentRun ------------------------------
(***************************************************************************)
(* One agent run of the control plane: the engine loop                     *)
(* (agent/engine_loop.rs), the pauses its tool calls and turn ends wait on *)
(* (agent/gates.rs), and the HTTP handlers that resolve them (agent/run.rs)*)
(*                                                                         *)
(* The loop is one tokio task; the handlers run on other threads and are   *)
(* serialized by the registry mutex, which each of them holds to its end.  *)
(* A step of this module is one critical section: everything the code does *)
(* under one lock, or between two awaits where no other actor can tell.    *)
(***************************************************************************)
EXTENDS Naturals, FiniteSets

CONSTANTS
  MaxSteps,      \* max_steps: the run's turn budget
  BatchSize,     \* tool calls in one assistant turn
  Needs,         \* what a call may have to wait for: a set of sets of CallKind
  CloudRun       \* meta.base_url is set and allow_fallback is on

Calls == 1..BatchSize
Turns == 0..MaxSteps
CallKind == {"approval", "risky", "commit", "question"}
GateKinds == {"risky", "commit"}

ASSUME RunAssumption ==
  /\ MaxSteps \in Nat \ {0}
  /\ BatchSize \in Nat \ {0}
  /\ Needs \subseteq SUBSET CallKind
  /\ CloudRun \in BOOLEAN

(* A pause is named by the turn, the call and the gate it belongs to; the  *)
(* turn-end hook of a turn is its pause of call 0.                         *)
Pause == [turn : Turns, call : Calls, kind : CallKind]
           \cup [turn : Turns, call : {0}, kind : {"hook"}]
NoPause == [turn |-> 0, call |-> 0, kind |-> "none"]

Terminal == {"done", "stopped", "error"}
Status == Terminal \cup {"running", "awaiting_approval", "awaiting_user",
                         "awaiting_hook", "awaiting_gate"}

(* What the oneshot channel of a pause holds. "dropped": its sender is     *)
(* gone without a decision.                                                *)
Decision == {"grant", "deny", "done", "continue", "abort"}
Mail == {"unposted", "waiting", "dropped"} \cup Decision

VARIABLES
  status, turns,                                 \* RunLive
  pendingApprovals, userQuestion, pendingHook,   \* RunLive: what a client sees
  approvals, questionTx, gateSlot, hookWait,     \* RunShared: the senders
  approved,    \* GateOpts.approved: calls whose command was remembered
  hookMode,    \* "auto" or "client"
  stopSent,    \* the stop watch channel
  mail,        \* the oneshot channel of each pause
  loop,        \* the loop task: where it is, and its locals
  sequential, leg, ran,                          \* its tool batch
  misrouted,   \* the pauses that received a decision addressed to another
  handler      \* the HTTP handler in flight

live == <<status, turns, pendingApprovals, userQuestion, pendingHook>>
senders == <<approvals, questionTx, gateSlot, hookWait, mail>>
batch == <<sequential, leg, ran>>
client == <<misrouted, handler>>
config == <<approved, hookMode>>
vars == <<live, senders, batch, loop, client, config, stopSent>>

-----------------------------------------------------------------------------
(* Helpers                                                                 *)

(* A call being dispatched: the gate it is at, how far it got in it, the   *)
(* gates it has still to pass and those it needed from the start.          *)
Leg == [at : CallKind \cup {"ready", "exec", "over"},
        step : {"enter", "list", "announce", "poll", "wait", "none"},
        left : SUBSET CallKind, need : SUBSET CallKind]
Over == [at |-> "over", step |-> "none", left |-> {}, need |-> {}]
Ready == [Over EXCEPT !.at = "ready"]

PauseOf(c, k) == [turn |-> turns, call |-> c, kind |-> k]
HookPause == PauseOf(0, "hook")

(* The order dispatch() asks in: approval, risky gate, commit gate, and    *)
(* ask_user's question in the tool itself.                                 *)
FirstGate(S) ==
  CASE "approval" \in S -> "approval"
    [] "approval" \notin S /\ "risky" \in S -> "risky"
    [] S \cap {"approval", "risky"} = {} /\ "commit" \in S -> "commit"
    [] S = {"question"} -> "question"
    [] OTHER -> "exec"

Advance(need, left) ==
  LET k == FirstGate(left)
  IN [at |-> k, step |-> IF k = "exec" THEN "none" ELSE "enter",
      left |-> left \ {k}, need |-> need]

AwaitingStatus(k) ==
  CASE k = "approval" -> "awaiting_approval"
    [] k = "question" -> "awaiting_user"
    [] k = "hook" -> "awaiting_hook"
    [] OTHER -> "awaiting_gate"

(* What a call that took effect had needed.                                *)
Effect == [turn : Turns, call : Calls, need : SUBSET CallKind]

(* mail once the senders in S are dropped: an undecided receiver sees the  *)
(* channel close.                                                          *)
Dropped(S) ==
  [p \in Pause |-> IF p \in S /\ mail[p] = "waiting" THEN "dropped" ELSE mail[p]]

(* The loop's position and the locals in scope there: the attempt of the   *)
(* turn and whether it fell back to the local engine, whether the turn had *)
(* tool calls, the hook decision, the terminal status about to be marked.  *)
Position == {"top", "stream", "tools", "hook", "hook_announce", "hook_wait", "hook_apply",
             "finish", "mark", "drop", "exited"}
Loop == [at : Position, attempt : 1..3, local : BOOLEAN, had : BOOLEAN,
         decision : {"done", "continue", "abort"}, as : Terminal]
At(position) == [at |-> position, attempt |-> 1, local |-> FALSE, had |-> FALSE,
                 decision |-> "done", as |-> "done"]
Finishing(s) == [At("finish") EXCEPT !.as = s]
AtHook(position, had) == [At(position) EXCEPT !.had = had]

Handler == [op : {"none", "approve", "gate", "remember", "answer", "hook", "stop", "settle"},
            pause : Pause \cup {NoPause}, decision : Decision,
            at : {"idle", "check", "resolve", "unlist", "recheck", "running", "signal",
                  "mark", "drop"}]
NoHandler == [op |-> "none", pause |-> NoPause, decision |-> "grant", at |-> "idle"]

Init ==
  /\ status = "running" /\ turns = 0
  /\ pendingApprovals = {} /\ userQuestion = NoPause /\ pendingHook = NoPause
  /\ approvals = {} /\ questionTx = NoPause /\ gateSlot = NoPause /\ hookWait = NoPause
  /\ approved = {} /\ hookMode = "auto"
  /\ stopSent = FALSE
  /\ mail = [p \in Pause |-> "unposted"]
  /\ loop = At("top")
  /\ sequential = FALSE /\ leg = [c \in Calls |-> Over] /\ ran = {}
  /\ misrouted = {} /\ handler = NoHandler

-----------------------------------------------------------------------------
(* mark_terminal, in its two critical sections: the live record, then the  *)
(* channels, each of which drops its senders.                              *)

\* A bug to notice: a terminal run keeps its pending requests.
MarkLiveStatusOnly(s) ==
  /\ status' = s
  /\ UNCHANGED <<turns, pendingApprovals, userQuestion, pendingHook>>

MarkLive(s) ==
  /\ status' = s
  /\ pendingApprovals' = {}
  /\ userQuestion' = NoPause
  /\ pendingHook' = NoPause
  /\ UNCHANGED turns

DropSenders ==
  /\ mail' = Dropped(approvals \cup {questionTx, gateSlot, hookWait})
  /\ approvals' = {}
  /\ questionTx' = NoPause
  /\ gateSlot' = NoPause
  /\ hookWait' = NoPause

(* set_status writes the status whatever it was.                           *)
SetStatus(s) ==
  /\ status' = s
  /\ UNCHANGED <<turns, pendingApprovals, userQuestion, pendingHook>>

NextTurn ==
  /\ turns' = turns + 1
  /\ UNCHANGED <<status, pendingApprovals, userQuestion, pendingHook>>

-----------------------------------------------------------------------------
(* The engine loop                                                         *)

\* A bug to notice: the budget is tested one turn late.
LoopTopLate ==
  /\ loop.at = "top"
  /\ loop' = IF turns > MaxSteps \/ status \in Terminal THEN Finishing("done") ELSE At("stream")
  /\ UNCHANGED <<live, senders, batch, client, config, stopSent>>

LoopTop ==
  /\ loop.at = "top"
  /\ loop' = IF turns >= MaxSteps \/ status \in Terminal THEN Finishing("done") ELSE At("stream")
  /\ UNCHANGED <<live, senders, batch, client, config, stopSent>>

(* A stop won the race in stream_turn or in the backoff: the loop unwinds  *)
(* and leaves the status as it is.                                         *)
StreamStopped ==
  /\ loop.at = "stream"
  /\ stopSent
  /\ loop' = At("exited")
  /\ UNCHANGED <<live, senders, batch, client, config, stopSent>>

(* A failed attempt: a cloud run falls back to the local engine once on    *)
(* 429/5xx, any other failure backs off; the third failure ends the run.   *)
StreamFails ==
  /\ loop.at = "stream"
  /\ IF loop.attempt < 3
     THEN \E local \in {loop.local, CloudRun} :
            /\ loop.local => local
            /\ loop' = [loop EXCEPT !.attempt = @ + 1, !.local = local]
     ELSE loop' = Finishing("error")
  /\ UNCHANGED <<live, senders, batch, client, config, stopSent>>

(* A reply without tool calls goes to the turn hook; an empty one ends the *)
(* run with an error.                                                      *)
StreamReply ==
  /\ loop.at = "stream"
  /\ loop' \in {AtHook("hook", FALSE), Finishing("error")}
  /\ UNCHANGED <<live, senders, batch, client, config, stopSent>>

(* Every call named an undeclared tool: the model is told, the turn spent. *)
StreamDropped ==
  /\ loop.at = "stream"
  /\ loop' = At("top")
  /\ NextTurn
  /\ UNCHANGED <<senders, batch, client, config, stopSent>>

(* The turn has tool calls. A batch with a mutating tool is dispatched one *)
(* call at a time, any other all at once.                                  *)
StreamToolCalls ==
  /\ loop.at = "stream"
  /\ loop' = At("tools")
  /\ sequential' \in BOOLEAN
  /\ leg' = [c \in Calls |-> Ready]
  /\ UNCHANGED <<live, senders, ran, client, config, stopSent>>
-----------------------------------------------------------------------------
(* Tool dispatch: the calls of a batch are futures of one task, so a call  *)
(* runs until its next await before another one moves.                     *)

MidPoll(c) == leg[c].step \in {"enter", "list", "announce", "poll"}
Polled(c) == loop.at = "tools" /\ \A d \in Calls \ {c} : ~MidPoll(d)
Startable(c) == leg[c].at = "ready" /\ (sequential => \A d \in 1..(c - 1) : leg[d].at = "over")
SetLeg(c, l) == leg' = [leg EXCEPT ![c] = l]

StartCall(c) ==
  /\ Polled(c)
  /\ Startable(c)
  /\ \E need \in Needs : SetLeg(c, Advance(need, need))
  /\ UNCHANGED <<live, senders, sequential, ran, loop, client, config, stopSent>>

(* await_approval up to its select: register the sender, list the request, *)
(* set the status.                                                         *)
EnterApproval(c) ==
  /\ Polled(c)
  /\ leg[c].at = "approval" /\ leg[c].step = "enter"
  /\ approvals' = approvals \cup {PauseOf(c, "approval")}
  /\ mail' = [mail EXCEPT ![PauseOf(c, "approval")] = "waiting"]
  /\ SetLeg(c, [leg[c] EXCEPT !.step = "list"])
  /\ UNCHANGED <<live, questionTx, gateSlot, hookWait, sequential, ran, loop, client,
                 config, stopSent>>

\* A bug to notice: a request replaces the pending ones instead of joining them.
ListApprovalAlone(c) ==
  /\ Polled(c)
  /\ leg[c].at = "approval" /\ leg[c].step = "list"
  /\ pendingApprovals' = {PauseOf(c, "approval")}
  /\ SetLeg(c, [leg[c] EXCEPT !.step = "announce"])
  /\ UNCHANGED <<status, turns, userQuestion, pendingHook, senders, sequential, ran, loop,
                 client, config, stopSent>>

ListApproval(c) ==
  /\ Polled(c)
  /\ leg[c].at = "approval" /\ leg[c].step = "list"
  /\ pendingApprovals' = pendingApprovals \cup {PauseOf(c, "approval")}
  /\ SetLeg(c, [leg[c] EXCEPT !.step = "announce"])
  /\ UNCHANGED <<status, turns, userQuestion, pendingHook, senders, sequential, ran, loop,
                 client, config, stopSent>>

(* ask_user: refused while another question is pending.                    *)
EnterQuestion(c) ==
  /\ Polled(c)
  /\ leg[c].at = "question" /\ leg[c].step = "enter"
  /\ IF userQuestion # NoPause
     THEN /\ SetLeg(c, Over)
          /\ UNCHANGED <<questionTx, mail>>
     ELSE /\ SetLeg(c, [leg[c] EXCEPT !.step = "list"])
          /\ questionTx' = PauseOf(c, "question")
          /\ mail' = [Dropped({questionTx}) EXCEPT ![PauseOf(c, "question")] = "waiting"]
  /\ UNCHANGED <<live, approvals, gateSlot, hookWait, sequential, ran, loop, client,
                 config, stopSent>>

ListQuestion(c) ==
  /\ Polled(c)
  /\ leg[c].at = "question" /\ leg[c].step = "list"
  /\ userQuestion' = PauseOf(c, "question")
  /\ SetLeg(c, [leg[c] EXCEPT !.step = "announce"])
  /\ UNCHANGED <<status, turns, pendingApprovals, pendingHook, senders, sequential, ran,
                 loop, client, config, stopSent>>

(* The risky gate is skipped for a remembered command; await_gate denies   *)
(* at once while another gate holds the slot.                              *)
EnterGate(c) ==
  /\ Polled(c)
  /\ leg[c].at \in GateKinds /\ leg[c].step = "enter"
  /\ LET p == PauseOf(c, leg[c].at)
     IN \/ /\ leg[c].at = "risky" /\ c \in approved
           /\ SetLeg(c, Advance(leg[c].need, leg[c].left))
           /\ UNCHANGED <<gateSlot, mail>>
        \/ /\ ~(leg[c].at = "risky" /\ c \in approved)
           /\ gateSlot # NoPause
           /\ SetLeg(c, Over)
           /\ UNCHANGED <<gateSlot, mail>>
        \/ /\ ~(leg[c].at = "risky" /\ c \in approved)
           /\ gateSlot = NoPause
           /\ gateSlot' = p
           /\ mail' = [mail EXCEPT ![p] = "waiting"]
           /\ SetLeg(c, [leg[c] EXCEPT !.step = "announce"])
  /\ UNCHANGED <<live, approvals, questionTx, hookWait, sequential, ran, loop, client,
                 config, stopSent>>

Announce(c) ==
  /\ Polled(c)
  /\ leg[c].step = "announce"
  /\ SetStatus(AwaitingStatus(leg[c].at))
  /\ SetLeg(c, [leg[c] EXCEPT !.step = "poll"])
  /\ UNCHANGED <<senders, sequential, ran, loop, client, config, stopSent>>

(* The select goes to sleep: nothing is decided and no stop is signalled.  *)
Park(c) ==
  /\ Polled(c)
  /\ leg[c].step = "poll"
  /\ ~stopSent /\ mail[PauseOf(c, leg[c].at)] = "waiting"
  /\ SetLeg(c, [leg[c] EXCEPT !.step = "wait"])
  /\ UNCHANGED <<live, senders, sequential, ran, loop, client, config, stopSent>>

\* A bug to notice: everything but an explicit denial is taken for a grant.
ResumeUnlessDenied(c) ==
  /\ Polled(c)
  /\ leg[c].step \in {"poll", "wait"}
  /\ LET k == leg[c].at
         p == PauseOf(c, k)
     IN /\ mail[p] \notin {"unposted", "waiting"}
        /\ SetLeg(c, IF mail[p] # "deny" THEN Advance(leg[c].need, leg[c].left) ELSE Over)
        /\ pendingApprovals' = IF k = "approval" THEN pendingApprovals \ {p} ELSE pendingApprovals
        /\ userQuestion' = IF k = "question" THEN NoPause ELSE userQuestion
        /\ questionTx' = IF k = "question" THEN NoPause ELSE questionTx
        /\ mail' = IF k = "question" THEN Dropped({questionTx}) ELSE mail
  /\ UNCHANGED <<status, turns, pendingHook, approvals, gateSlot, hookWait, sequential, ran,
                 loop, client, config, stopSent>>

(* The decision arm: a closed channel reads as a denial (as an empty       *)
(* answer, for a question).                                                *)
Resume(c) ==
  /\ Polled(c)
  /\ leg[c].step \in {"poll", "wait"}
  /\ LET k == leg[c].at
         p == PauseOf(c, k)
     IN /\ mail[p] \notin {"unposted", "waiting"}
        /\ SetLeg(c, IF mail[p] = "grant" THEN Advance(leg[c].need, leg[c].left) ELSE Over)
        /\ pendingApprovals' = IF k = "approval" THEN pendingApprovals \ {p} ELSE pendingApprovals
        /\ userQuestion' = IF k = "question" THEN NoPause ELSE userQuestion
        /\ questionTx' = IF k = "question" THEN NoPause ELSE questionTx
        /\ mail' = IF k = "question" THEN Dropped({questionTx}) ELSE mail
  /\ UNCHANGED <<status, turns, pendingHook, approvals, gateSlot, hookWait, sequential, ran,
                 loop, client, config, stopSent>>

(* The timeout and the stop arm of the same select: both withdraw the      *)
(* pause, a gate by clearing the slot whoever holds it, and deny.          *)
GiveUp(c) ==
  /\ Polled(c)
  /\ leg[c].step = "wait" \/ (leg[c].step = "poll" /\ stopSent)
  /\ LET k == leg[c].at
         p == PauseOf(c, k)
     IN /\ approvals' = approvals \ {p}
        /\ pendingApprovals' = pendingApprovals \ {p}
        /\ userQuestion' = IF k = "question" THEN NoPause ELSE userQuestion
        /\ questionTx' = IF k = "question" THEN NoPause ELSE questionTx
        /\ gateSlot' = IF k \in GateKinds THEN NoPause ELSE gateSlot
        /\ mail' = Dropped({p} \cup (IF k = "question" THEN {questionTx} ELSE {})
                               \cup (IF k \in GateKinds THEN {gateSlot} ELSE {}))
  /\ SetLeg(c, Over)
  /\ UNCHANGED <<status, turns, pendingHook, hookWait, sequential, ran, loop, client,
                 config, stopSent>>

(* The stop arm of the select around dispatch(): the call's future is      *)
(* dropped where it stands and withdraws nothing.                          *)
AbortCall(c) ==
  /\ Polled(c)
  /\ stopSent
  /\ Startable(c) \/ leg[c].step = "wait" \/ leg[c].at = "exec"
  /\ SetLeg(c, Over)
  /\ UNCHANGED <<live, senders, sequential, ran, loop, client, config, stopSent>>

Execute(c) ==
  /\ Polled(c)
  /\ leg[c].at = "exec"
  /\ ran' = ran \cup {[turn |-> turns, call |-> c, need |-> leg[c].need]}
  /\ SetLeg(c, Over)
  /\ UNCHANGED <<live, senders, sequential, loop, client, config, stopSent>>

(* All results are in: append them, let the critic speak, go to the hook.  *)
BatchOver ==
  /\ loop.at = "tools"
  /\ \A c \in Calls : leg[c].at = "over"
  /\ loop' = AtHook("hook", TRUE)
  /\ sequential' = FALSE
  /\ UNCHANGED <<live, senders, leg, ran, client, config, stopSent>>
-----------------------------------------------------------------------------
(* The turn-end hook                                                       *)

HookAuto ==
  /\ loop.at = "hook" /\ hookMode = "auto"
  /\ \/ loop.had /\ loop' = At("top") /\ NextTurn
     \/ ~loop.had /\ loop' = Finishing("done") /\ UNCHANGED live
  /\ UNCHANGED <<senders, batch, client, config, stopSent>>

HookPost ==
  /\ loop.at = "hook" /\ hookMode = "client"
  /\ loop' = AtHook("hook_announce", loop.had)
  /\ pendingHook' = HookPause
  /\ hookWait' = HookPause
  /\ mail' = [mail EXCEPT ![HookPause] = "waiting"]
  /\ UNCHANGED <<status, turns, pendingApprovals, userQuestion, approvals, questionTx,
                 gateSlot, batch, client, config, stopSent>>

HookAnnounce ==
  /\ loop.at = "hook_announce"
  /\ loop' = AtHook("hook_wait", loop.had)
  /\ SetStatus("awaiting_hook")
  /\ UNCHANGED <<senders, batch, client, config, stopSent>>

\* A bug to notice: the hook waits for its client without a timeout.
HookWakeNoTimeout ==
  /\ loop.at = "hook_wait"
  /\ \E d \in {"done", "continue", "abort"} :
       /\ \/ mail[HookPause] = d
          \/ (stopSent \/ mail[HookPause] = "dropped") /\ d = "abort"
       /\ loop' = [At("hook_apply") EXCEPT !.decision = d]
  /\ mail' = Dropped({HookPause, hookWait})
  /\ hookWait' = NoPause
  /\ pendingHook' = NoPause
  /\ UNCHANGED <<status, turns, pendingApprovals, userQuestion, approvals, questionTx,
                 gateSlot, batch, client, config, stopSent>>

(* The select: a decision, a closed channel or a stop (both abort), or the *)
(* timeout's default: another turn after tool calls, else done.            *)
HookWake ==
  /\ loop.at = "hook_wait"
  /\ \E d \in {"done", "continue", "abort"} :
       /\ \/ mail[HookPause] = d
          \/ (stopSent \/ mail[HookPause] = "dropped") /\ d = "abort"
          \/ d = IF loop.had THEN "continue" ELSE "done"
       /\ loop' = [At("hook_apply") EXCEPT !.decision = d]
  /\ mail' = Dropped({HookPause, hookWait})
  /\ hookWait' = NoPause
  /\ pendingHook' = NoPause
  /\ UNCHANGED <<status, turns, pendingApprovals, userQuestion, approvals, questionTx,
                 gateSlot, batch, client, config, stopSent>>

HookApply ==
  /\ loop.at = "hook_apply"
  /\ \/ /\ loop.decision = "done"
        /\ loop' = Finishing("done")
        /\ SetStatus("running")
     \/ /\ loop.decision = "continue"
        /\ loop' = At("top")
        /\ status' = "running" /\ turns' = turns + 1
        /\ UNCHANGED <<pendingApprovals, userQuestion, pendingHook>>
     \/ /\ loop.decision = "abort"
        /\ loop' = Finishing("stopped")
        /\ UNCHANGED live
  /\ UNCHANGED <<senders, batch, client, config, stopSent>>

(* finish, finish_err and stop_run: nothing if the run is terminal, else   *)
(* mark it. The check and the mark are separate critical sections.         *)
Finish ==
  /\ loop.at = "finish"
  /\ loop' = IF status \in Terminal THEN At("exited") ELSE [loop EXCEPT !.at = "mark"]
  /\ UNCHANGED <<live, senders, batch, client, config, stopSent>>

LoopMark ==
  /\ loop.at = "mark"
  /\ loop' = At("drop")
  /\ MarkLive(loop.as)
  /\ stopSent' = (stopSent \/ loop.as = "stopped")
  /\ UNCHANGED <<senders, batch, client, config>>

LoopDrop ==
  /\ loop.at = "drop"
  /\ loop' = At("exited")
  /\ DropSenders
  /\ UNCHANGED <<live, batch, client, config, stopSent>>

(* The task panicked; spawn_run's catch_unwind marks the run as an error.  *)
(* A call that was posted under a signalled stop has left its select.      *)
LoopPanics ==
  /\ \/ loop.at = "stream"
     \/ /\ \E c \in Calls : leg[c].at = "exec" /\ Polled(c)
        /\ stopSent => \A c \in Calls : leg[c].step # "wait"
  /\ loop' = Finishing("error")
  /\ leg' = [c \in Calls |-> Over]
  /\ UNCHANGED <<live, senders, sequential, ran, client, config, stopSent>>
-----------------------------------------------------------------------------
(* The HTTP handlers                                                       *)

Step(at) == handler' = [handler EXCEPT !.at = at]
Settle(at) == handler' = [NoHandler EXCEPT !.op = "settle", !.at = at]
Reply == handler' = NoHandler

(* approve, gate_decide, answer, hook_decision and stop begin by refusing  *)
(* a terminal run; a refusal changes nothing. A client names a pause it    *)
(* sees pending: an id is never pending again, so a request that comes     *)
(* later than that is refused by the look-up and changes nothing either.   *)
Request(op, p, d, at) ==
  /\ handler = NoHandler
  /\ status \notin Terminal
  /\ handler' = [op |-> op, pause |-> p, decision |-> d, at |-> at]
  /\ UNCHANGED <<live, senders, batch, loop, config, misrouted, stopSent>>

RequestApprove ==
  \E p \in approvals \cap pendingApprovals, d \in {"grant", "deny"} :
    Request("approve", p, d, "resolve")
RequestGate ==
  /\ gateSlot # NoPause
  /\ \/ \E d \in {"grant", "deny"} : Request("gate", gateSlot, d, "resolve")
     \/ gateSlot.kind = "risky" /\ Request("remember", gateSlot, "grant", "resolve")
RequestAnswer ==
  userQuestion # NoPause /\ Request("answer", userQuestion, "grant", "check")
RequestHook ==
  /\ pendingHook # NoPause
  /\ \E d \in {"done", "continue", "abort"} : Request("hook", pendingHook, d, "check")
RequestStop == Request("stop", NoPause, "grant", "signal")

SetHookMode ==
  /\ handler = NoHandler
  /\ hookMode' \in {"auto", "client"}
  /\ UNCHANGED <<live, senders, batch, loop, client, approved, stopSent>>

(* answer and hook_decision: the id must be the pending one.               *)
CheckId ==
  /\ handler.at = "check"
  /\ IF handler.pause = (IF handler.op = "answer" THEN userQuestion ELSE pendingHook)
     THEN Step("resolve") ELSE Reply
  /\ UNCHANGED <<live, senders, batch, loop, misrouted, config, stopSent>>

Deliver(p, d) ==
  /\ mail' = [mail EXCEPT ![p] = d]
  /\ misrouted' = IF p = handler.pause THEN misrouted ELSE misrouted \cup {p}

\* A bug to notice: the sender is read, not taken, so that it can send again.
ResolveApprovalPeek ==
  /\ handler.op = "approve" /\ handler.at = "resolve"
  /\ IF handler.pause \in approvals
     THEN Deliver(handler.pause, handler.decision) /\ Settle("recheck")
     ELSE Reply /\ UNCHANGED <<mail, misrouted>>
  /\ UNCHANGED <<live, approvals, questionTx, gateSlot, hookWait, batch, loop, config, stopSent>>

\* A bug to notice: the command is remembered before the gate's id is compared.
ResolveGateRememberFirst ==
  /\ handler.op \in {"gate", "remember"} /\ handler.at = "resolve"
  /\ approved' = IF handler.op = "remember" THEN approved \cup {handler.pause.call} ELSE approved
  /\ IF handler.pause = gateSlot
     THEN /\ gateSlot' = NoPause
          /\ Deliver(handler.pause, handler.decision)
          /\ Settle("recheck")
     ELSE Reply /\ UNCHANGED <<gateSlot, mail, misrouted>>
  /\ UNCHANGED <<live, approvals, questionTx, hookWait, batch, loop, hookMode, stopSent>>

\* A bug to notice: the gate that is pending is decided, whatever the request names.
ResolveGateAnyId ==
  /\ handler.op \in {"gate", "remember"} /\ handler.at = "resolve"
  /\ IF gateSlot # NoPause
     THEN /\ gateSlot' = NoPause
          /\ Deliver(gateSlot, handler.decision)
          /\ UNCHANGED approved
          /\ Settle("recheck")
     ELSE Reply /\ UNCHANGED <<gateSlot, mail, misrouted, approved>>
  /\ UNCHANGED <<live, approvals, questionTx, hookWait, batch, loop, hookMode, stopSent>>

(* Take the sender and send. approve and gate_decide take it by its id,    *)
(* answer and hook_decision take whichever is there.                       *)
ResolveApproval ==
  /\ handler.op = "approve" /\ handler.at = "resolve"
  /\ IF handler.pause \in approvals
     THEN /\ approvals' = approvals \ {handler.pause}
          /\ Deliver(handler.pause, handler.decision)
          /\ Settle("recheck")
     ELSE Reply /\ UNCHANGED <<approvals, mail, misrouted>>
  /\ UNCHANGED <<live, questionTx, gateSlot, hookWait, batch, loop, config, stopSent>>

ResolveGate ==
  /\ handler.op \in {"gate", "remember"} /\ handler.at = "resolve"
  /\ IF handler.pause = gateSlot
     THEN /\ gateSlot' = NoPause
          /\ Deliver(handler.pause, handler.decision)
          /\ approved' = IF handler.op = "remember" THEN approved \cup {handler.pause.call}
                         ELSE approved
          /\ Settle("recheck")
     ELSE Reply /\ UNCHANGED <<gateSlot, mail, misrouted, approved>>
  /\ UNCHANGED <<live, approvals, questionTx, hookWait, batch, loop, hookMode, stopSent>>

ResolveQuestion ==
  /\ handler.op = "answer" /\ handler.at = "resolve"
  /\ IF questionTx # NoPause
     THEN /\ questionTx' = NoPause
          /\ Deliver(questionTx, "grant")
          /\ Settle("recheck")
     ELSE Reply /\ UNCHANGED <<questionTx, mail, misrouted>>
  /\ UNCHANGED <<live, approvals, gateSlot, hookWait, batch, loop, config, stopSent>>

ResolveHook ==
  /\ handler.op = "hook" /\ handler.at = "resolve"
  /\ IF hookWait # NoPause
     THEN /\ hookWait' = NoPause
          /\ Deliver(hookWait, handler.decision)
          /\ Settle("unlist")
     ELSE Reply /\ UNCHANGED <<hookWait, mail, misrouted>>
  /\ UNCHANGED <<live, approvals, questionTx, gateSlot, batch, loop, config, stopSent>>

UnlistHook ==
  /\ handler.at = "unlist"
  /\ pendingHook' = NoPause
  /\ Settle("recheck")
  /\ UNCHANGED <<status, turns, pendingApprovals, userQuestion, senders, batch, loop,
                 misrouted, config, stopSent>>

(* if !status.is_terminal() { set_status(Running) }, in two lock holds.    *)
Recheck ==
  /\ handler.at = "recheck"
  /\ IF status \in Terminal THEN Reply ELSE Settle("running")
  /\ UNCHANGED <<live, senders, batch, loop, misrouted, config, stopSent>>

SetRunning ==
  /\ handler.at = "running"
  /\ SetStatus("running")
  /\ Reply
  /\ UNCHANGED <<senders, batch, loop, misrouted, config, stopSent>>

StopSignal ==
  /\ handler.at = "signal"
  /\ stopSent' = TRUE
  /\ Step("mark")
  /\ UNCHANGED <<live, senders, batch, loop, misrouted, config>>

StopMark ==
  /\ handler.at = "mark"
  /\ MarkLive("stopped")
  /\ Step("drop")
  /\ UNCHANGED <<senders, batch, loop, misrouted, config, stopSent>>

StopDrop ==
  /\ handler.at = "drop"
  /\ DropSenders
  /\ Reply
  /\ UNCHANGED <<live, batch, loop, misrouted, config, stopSent>>
-----------------------------------------------------------------------------
LoopStep ==
  \/ LoopTop \/ StreamStopped \/ StreamFails \/ StreamReply \/ StreamDropped
  \/ StreamToolCalls \/ BatchOver
  \/ HookAuto \/ HookPost \/ HookAnnounce \/ HookWake \/ HookApply
  \/ Finish \/ LoopMark \/ LoopDrop \/ LoopPanics

CallStep(c) ==
  \/ StartCall(c) \/ EnterApproval(c) \/ ListApproval(c) \/ EnterQuestion(c)
  \/ ListQuestion(c) \/ EnterGate(c) \/ Announce(c) \/ Park(c) \/ Resume(c)
  \/ GiveUp(c) \/ AbortCall(c) \/ Execute(c)

ClientStep ==
  \/ RequestApprove \/ RequestGate \/ RequestAnswer \/ RequestHook \/ RequestStop
  \/ SetHookMode

HandlerStep ==
  \/ CheckId \/ ResolveApproval \/ ResolveGate \/ ResolveQuestion \/ ResolveHook
  \/ UnlistHook \/ Recheck \/ SetRunning \/ StopSignal \/ StopMark \/ StopDrop

Next == LoopStep \/ (\E c \in Calls : CallStep(c)) \/ ClientStep \/ HandlerStep

Spec == Init /\ [][Next]_vars

(* The runtime keeps polling the loop's task, its timers fire and a        *)
(* handler that began runs to its end. No client has to act.               *)
Fairness ==
  /\ WF_vars(LoopStep)
  /\ WF_vars(\E c \in Calls : CallStep(c))
  /\ WF_vars(HandlerStep)

FairSpec == Spec /\ Fairness
-----------------------------------------------------------------------------
(* Properties                                                              *)

LiveType ==
  /\ status \in Status
  /\ turns \in Turns
  /\ pendingApprovals \subseteq Pause
  /\ userQuestion \in Pause \cup {NoPause}
  /\ pendingHook \in Pause \cup {NoPause}
SendersType ==
  /\ approvals \subseteq Pause
  /\ questionTx \in Pause \cup {NoPause}
  /\ gateSlot \in Pause \cup {NoPause}
  /\ hookWait \in Pause \cup {NoPause}
  /\ mail \in [Pause -> Mail]
BatchType ==
  /\ sequential \in BOOLEAN
  /\ leg \in [Calls -> Leg]
  /\ ran \subseteq Effect
ClientType ==
  /\ misrouted \subseteq Pause
  /\ handler \in Handler
ConfigType ==
  /\ approved \subseteq Calls
  /\ hookMode \in {"auto", "client"}
  /\ stopSent \in BOOLEAN
TypeOK ==
  LiveType /\ SendersType /\ BatchType /\ loop \in Loop /\ ClientType /\ ConfigType

(* A call takes effect only after every gate it needed was granted to that *)
(* very call by a client, or its command was remembered for the run        *)
(* (gates.rs await_approval and await_gate: timeouts, stops, dropped       *)
(* senders and a taken slot must all read as a denial).                    *)
Granted(r, k) ==
  \/ mail[[turn |-> r.turn, call |-> r.call, kind |-> k]] = "grant"
  \/ k = "risky" /\ r.call \in approved
RanOnlyAsGranted == \A r \in ran : \A k \in r.need : Granted(r, k)

(* Once the loop is gone and no handler is in flight, nothing is left for  *)
(* a client to decide and no sender is left behind, whatever stops,        *)
(* timeouts and decisions raced (mark_terminal and the arms of each wait). *)
NoOrphanPause ==
  loop.at = "exited" /\ handler = NoHandler =>
    /\ approvals = {} /\ pendingApprovals = {}
    /\ {questionTx, gateSlot, hookWait, userQuestion, pendingHook} = {NoPause}

(* A call that sleeps on a pause can be resolved: until a decision is in,  *)
(* its sender is registered, and before a stop it is listed too.           *)
Registered(p) ==
  CASE p.kind = "approval" -> p \in approvals /\ (~stopSent => p \in pendingApprovals)
    [] p.kind = "question" -> p = questionTx /\ (~stopSent => p = userQuestion)
    [] p.kind = "hook" -> p = hookWait
    [] OTHER -> p = gateSlot
SleeperIsResolvable ==
  /\ \A c \in Calls : leg[c].step \in {"poll", "wait"} =>
       LET p == PauseOf(c, leg[c].at) IN mail[p] = "waiting" => Registered(p)
  /\ loop.at = "hook_wait" /\ mail[HookPause] = "waiting" => Registered(HookPause)

(* The run implements the abstract promise of the human gates.             *)
GateOf(p) ==
  CASE mail[p] = "unposted" -> "shut"
    [] mail[p] = "waiting" -> "open"
    [] mail[p] = "grant" -> "granted"
    [] OTHER -> "refused"
Gates == INSTANCE HumanGates
           WITH gate <- [p \in Pause |-> GateOf(p)], remembered <- approved, done <- ran
HumanGatesHold == Gates!Spec

(* A decided pause stays decided: no late, duplicate or timed-out decision *)
(* replaces what the channel carried.                                      *)
DecidedOnce ==
  [][\A p \in Pause : mail[p] \notin {"unposted", "waiting"} => mail'[p] = mail[p]]_mail

(* With no client acting at all, a run ends: every wait has a timeout and  *)
(* the turn budget is finite ("an absent client can never wedge a run").   *)
RunEnds == <>(loop.at = "exited")

(* An approval or gate decision reaches the pause it names and no other.   *)
DecisionsAreAddressed == \A p \in misrouted : p.kind \in {"question", "hook"}

(* mod.rs: gate and approval handlers never move a terminal run back to    *)
(* Running.                                                                *)
TerminalStateIsolation ==
  [][(status \in Terminal /\ handler.at = "running") => status' # "running"]_<<status, handler>>

(* run.rs: a stale decision must not resolve the current hook pause.       *)
StaleHookDecision == \A p \in misrouted : p.kind # "hook"
=============================================================================
