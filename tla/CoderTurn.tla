----------------------------- MODULE CoderTurn -----------------------------
(***************************************************************************)
(* One run of the coder agent in the web client: the loop of               *)
(* hooks/useCoderAgentLoop.ts (prepare, scout, compact, stream, dispatch,  *)
(* verify, review) and the dispatch of a reply's tool calls in             *)
(* hooks/useCoderToolDispatcher.ts (cache, permission, approval,           *)
(* checkpoint, command gates, the call itself, its answer).                *)
(*                                                                         *)
(* The user may press Stop, edit the task list and answer the dialogs      *)
(* between any two awaits. A call is its tool; there is one file. Of the   *)
(* history the model keeps what the model has been told of that file. The  *)
(* calls of a reply are chosen one at a time. Left out: the texts, the     *)
(* ledger, the repository map, the read streak and patch spiral notes, and *)
(* the packing and summarising of results, which change no decision.       *)
(***************************************************************************)
EXTENDS Naturals, FiniteSets, Sequences

CONSTANTS
  Toolkit,      \* the tools the model may name
  AskTier,      \* those set to "ask" in the workspace's permissions
  DenyTier,     \* those set to "deny"
  CommitGate,   \* commitApproval
  VerifyMode,   \* verifyMode
  CriticMode,   \* criticMode
  MaxSteps,     \* MAX_AGENT_STEPS
  MaxRepair,    \* MAX_REPAIR
  MaxCritic,    \* MAX_CRITIC
  MaxContinue,  \* MAX_CONTINUE
  MaxDrafts,    \* MAX_WORKER_CRIT
  MaxCalls,     \* bound on the calls of one reply
  MaxEdits,     \* bound on the user's edits of the task list
  MaxRuns,      \* bound on runs, the resumed ones included
  MaxLength     \* bound on the runs and the steps of the last of them

ASSUME TurnAssumption ==
  /\ {MaxSteps, MaxRepair, MaxCritic, MaxContinue, MaxDrafts, MaxCalls, MaxEdits,
      MaxRuns, MaxLength} \subseteq Nat
  /\ {CommitGate, VerifyMode, CriticMode} \subseteq BOOLEAN

VARIABLES
  turnAt,            \* where the run is, "idle" and "paused" between runs
  abortCtl,          \* abortRef and its signal: "none", "live", "aborted"
  planMode,          \* planMode
  tool,              \* the tool being dispatched
  callsDone,         \* calls of the reply dispatched so far
  turnCounts,        \* agentSteps, repairCount, criticBudget, continueCount, worker attempts
  overBudget,        \* the context is over budget
  reply,             \* autoCheckpointed, mutated and askRef of the reply
  fileRead,          \* readPathsRef: the file is in it
  writeWarned,       \* unreadWriteWarnedRef
  toolDedup,         \* toolDedupRef
  approvedCommands,  \* approvedCommands of the workspace
  approvedSeen,      \* the same, as the run's closure has it
  todos,             \* todosRef: <<"user" | "agent", n>>
  todosRev,          \* todosRevRef
  revAtReq,          \* todosRevAtReqStartRef
  todosSent,         \* the list the request carried
  fileThere,         \* the file exists
  fileTold,          \* the model's context tells of the file: "no", "exists", "content"
  owedCalls,         \* calls of the history left without an answer
  turnRuns

turnVars == <<turnAt, abortCtl, planMode, tool, callsDone, turnCounts, overBudget,
              reply, fileRead, writeWarned, toolDedup, approvedCommands,
              approvedSeen, todos, todosRev, revAtReq, todosSent, fileThere,
              fileTold, owedCalls, turnRuns>>
guardVars == <<fileRead, writeWarned, toolDedup>>
todoVars == <<todos, todosRev, revAtReq, todosSent>>
trustVars == <<approvedCommands, approvedSeen>>
worldVars == <<fileThere, fileTold, owedCalls>>
runVars == <<planMode, turnCounts, overBudget, turnRuns>>

Toolless == ""               \* no call is being dispatched
TurnIdle == {"idle", "paused"}
TurnDialogs == {"approval", "risky", "commit"}
Steps0 == [steps |-> 0, repairs |-> 0, reviews |-> 0, conts |-> 0, drafts |-> 0]
Turn0 == [checkpointed |-> FALSE, asked |-> FALSE]

(* coderTools.ts. "risky" and "commit" are bash calls that match a risky   *)
(* pattern and that commit; "look" is one plan mode lets through.          *)
BashTools == {"bash", "look", "risky", "commit"}
PureDedup == {"read", "search"}
Mutating == BashTools \cup {"write", "edit", "git_commit", "git_branch", "memory_update",
                       "subagent"}
LocalTools == {"ask_user", "todo_write"}
CommitTools == {"commit", "git_commit"}
RiskyTools == {"risky"}
Edits == {"write", "edit"}

-----------------------------------------------------------------------------
(* checkPerm *)
CheckPerm(c) ==
  IF planMode /\ c \in Mutating \cup {"mcp"} /\ c # "look" THEN "deny"
  ELSE IF c \in DenyTier THEN "deny"
  ELSE IF c \in AskTier THEN "ask" ELSE "null"

GoTo(place) == turnAt' = place

EndTurnRun ==
  GoTo("idle") /\ abortCtl' = "none" /\ tool' = Toolless /\ callsDone' = 0 /\ reply' = Turn0

(* runAgent is called by a submit, a drained queue item or an answer to    *)
(* the question of a paused run. It has no abort controller yet.           *)
RunTurn ==
  /\ turnAt \in TurnIdle /\ turnRuns < MaxRuns
  /\ \E p \in BOOLEAN : planMode' = p
  /\ GoTo("prepare") /\ turnRuns' = turnRuns + 1 /\ approvedSeen' = approvedCommands
  /\ turnCounts' = Steps0
  /\ UNCHANGED <<abortCtl, tool, callsDone, overBudget, reply, guardVars, todoVars,
                 approvedCommands, worldVars>>

Prepared ==
  /\ turnAt = "prepare"
  /\ GoTo("scout") /\ abortCtl' = "live"
  /\ fileRead' = FALSE /\ writeWarned' = FALSE /\ toolDedup' = {}
  /\ UNCHANGED <<tool, callsDone, runVars, reply, trustVars, todoVars, worldVars>>

(* The probes end, or there are none; then the early return.               *)
Scouted ==
  /\ turnAt = "scout"
  /\ IF abortCtl = "aborted" THEN EndTurnRun
     ELSE GoTo("top") /\ UNCHANGED <<abortCtl, tool, callsDone, reply>>
  /\ UNCHANGED <<runVars, guardVars, trustVars, todoVars, worldVars>>

-----------------------------------------------------------------------------
(* The top of the loop *)

StopLoop ==
  /\ turnAt = "top"
  /\ abortCtl = "aborted" \/ (~overBudget /\ turnCounts.steps = MaxSteps)
  /\ EndTurnRun
  /\ UNCHANGED <<runVars, guardVars, trustVars, todoVars, worldVars>>

(* The history becomes one summary, and the guards of the context restart. *)
ForgetContext ==
  /\ fileRead' = FALSE /\ writeWarned' = FALSE /\ fileTold' = "no" /\ owedCalls' = {}
  /\ UNCHANGED <<toolDedup, fileThere>>

Compacts ==
  /\ turnAt = "compact" /\ GoTo("top") /\ ForgetContext
  /\ overBudget' \in BOOLEAN
  /\ UNCHANGED <<abortCtl, planMode, turnCounts, turnRuns, tool, callsDone, reply,
                 trustVars, todoVars>>

CompactFails ==
  /\ turnAt = "compact" /\ EndTurnRun
  /\ UNCHANGED <<runVars, guardVars, trustVars, todoVars, worldVars>>

CompactFirst ==
  /\ turnAt = "top" /\ abortCtl # "aborted" /\ overBudget
  /\ GoTo("compact")
  /\ UNCHANGED <<abortCtl, tool, callsDone, reply, runVars, guardVars, trustVars,
                 todoVars, worldVars>>

(* The request carries the task list, and its revision is noted.           *)
SendRequest ==
  /\ turnAt = "top" /\ abortCtl # "aborted" /\ ~overBudget /\ turnCounts.steps < MaxSteps
  /\ turnRuns + turnCounts.steps < MaxLength
  /\ GoTo("stream") /\ turnCounts' = [turnCounts EXCEPT !.steps = @ + 1]
  /\ revAtReq' = todosRev /\ todosSent' = todos
  /\ UNCHANGED <<abortCtl, tool, callsDone, reply, planMode, overBudget, turnRuns,
                 guardVars, trustVars, todos, todosRev, worldVars>>

(* A reply with calls, one without, or nothing: an aborted stream ends with *)
(* what it had. streamChat reports its failures and never rejects, so the   *)
(* retries around it do not run.                                            *)
ModelReplies ==
  /\ turnAt = "stream"
  /\ overBudget' \in BOOLEAN
  /\ \/ GoTo("calls") /\ callsDone' = 0 /\ reply' = Turn0 /\ UNCHANGED <<abortCtl,
                                                                         tool,
                                                                         turnCounts>>
     \/ GoTo("verify") /\ UNCHANGED <<abortCtl, tool, callsDone, reply, turnCounts>>
     \/ /\ turnCounts.conts < MaxContinue                        \* finishReason "length"
        /\ turnCounts' = [turnCounts EXCEPT !.conts = @ + 1]
        /\ GoTo("top") /\ UNCHANGED <<abortCtl, tool, callsDone, reply>>
     \/ EndTurnRun /\ UNCHANGED turnCounts
  /\ UNCHANGED <<planMode, turnRuns, guardVars, trustVars, todoVars, worldVars>>

(* The gates of a reply without calls *)
ChecksRun ==
  /\ turnAt = "verify"
  /\ \/ GoTo("critic") /\ UNCHANGED <<abortCtl, tool, callsDone, reply, turnCounts>>
     \/ /\ VerifyMode /\ turnCounts.repairs < MaxRepair
        /\ turnCounts' = [turnCounts EXCEPT !.repairs = @ + 1]
        /\ GoTo("top") /\ UNCHANGED <<abortCtl, tool, callsDone, reply>>
     \/ VerifyMode /\ EndTurnRun /\ UNCHANGED turnCounts             \* the checks threw
  /\ UNCHANGED <<planMode, overBudget, turnRuns, guardVars, trustVars, todoVars,
                 worldVars>>

(* runCritic: whatever does not start with "APPROVED" sends the work back, *)
(* also the nothing of a critic that failed or was stopped; streamChat     *)
(* never rejects, so its catch, which would approve, does not run.         *)
SentBack(before, most) == CriticMode /\ before < most

CriticReviews ==
  /\ turnAt = "critic"
  /\ \/ EndTurnRun /\ UNCHANGED turnCounts
     \/ /\ SentBack(turnCounts.reviews, MaxCritic)
        /\ turnCounts' = [turnCounts EXCEPT !.reviews = @ + 1]
        /\ GoTo("top") /\ UNCHANGED <<abortCtl, tool, callsDone, reply>>
  /\ UNCHANGED <<planMode, overBudget, turnRuns, guardVars, trustVars, todoVars,
                 worldVars>>

-----------------------------------------------------------------------------
(* One call of a reply. Answer ends it with its tool message.              *)

AnswerCall == GoTo("calls") /\ callsDone' = callsDone + 1 /\ tool' = Toolless
              /\ toolDedup' = toolDedup \cup ({tool} \cap PureDedup)

(* git_commit's denial leaves the loop body by `continue`.                 *)
SkipCall == GoTo("calls") /\ callsDone' = callsDone + 1 /\ tool' = Toolless
            /\ owedCalls' = owedCalls \cup {tool} /\ UNCHANGED toolDedup

NextCall ==
  /\ turnAt = "calls" /\ callsDone < MaxCalls
  /\ \E c \in Toolkit :
       /\ tool' = c
       /\ IF c \in toolDedup
          THEN /\ GoTo("calls") /\ callsDone' = callsDone + 1          \* the cached answer
               /\ fileTold' = IF c = "read" THEN "content" ELSE fileTold
          ELSE GoTo("perm") /\ UNCHANGED <<callsDone, fileTold>>
  /\ turnCounts' = [turnCounts EXCEPT !.drafts = 0]
  /\ UNCHANGED <<abortCtl, reply, planMode, overBudget, turnRuns, guardVars,
                 trustVars, todoVars, fileThere, owedCalls>>

(* Several delegates and nothing else run side by side and are all answered. *)
Delegates ==
  /\ turnAt = "calls" /\ callsDone = 0 /\ MaxCalls > 1 /\ "delegate" \in Toolkit
  /\ callsDone' = MaxCalls
  /\ UNCHANGED <<turnAt, abortCtl, tool, reply, runVars, guardVars, trustVars,
                 todoVars, worldVars>>

PermittedOr(denied) ==
  /\ turnAt = "perm"
  /\ CASE CheckPerm(tool) = "deny" -> denied
       [] CheckPerm(tool) = "ask" -> GoTo("approval") /\ UNCHANGED <<callsDone, tool,
                                                                     toolDedup,
                                                                     owedCalls>>
       [] OTHER -> GoTo("checkpoint") /\ UNCHANGED <<callsDone, tool, toolDedup,
                                                     owedCalls>>
  /\ UNCHANGED <<abortCtl, reply, runVars, fileRead, writeWarned, trustVars,
                 todoVars, fileThere, fileTold>>
DeniedSilently == PermittedOr(SkipCall)
Permitted == PermittedOr(AnswerCall /\ UNCHANGED owedCalls)

(* The approval dialog; an approved call first asks for its token.         *)
DecideApproval(ok) ==
  /\ turnAt = "approval"
  /\ IF ok THEN GoTo("checkpoint") /\ UNCHANGED <<callsDone, tool,
                                                  toolDedup>> ELSE AnswerCall
  /\ UNCHANGED <<reply, runVars, fileRead, writeWarned, trustVars, todoVars, worldVars>>

(* What a command needs of the user: the closure that looks it up in the   *)
(* approved ones is the run's; the commit gate also catches a bash call.   *)
NeedsRiskApproval == tool \in RiskyTools /\ tool \notin approvedSeen
NeedsCommitApproval == tool \in CommitTools /\ CommitGate
RiskyVerdicts == {"deny", "once", "remember"}
NewlyApproved == approvedCommands \cup {tool}

(* The first mutating call of a reply makes a checkpoint, without a signal. *)
CheckpointTurnProbing(unread) ==
  /\ turnAt = "checkpoint"
  /\ reply' = [reply EXCEPT !.checkpointed = @ \/ tool \in Mutating]
  /\ GoTo(CASE NeedsRiskApproval -> "risky"
            [] NeedsCommitApproval -> "commit"
            [] tool = "write" /\ unread -> "probe"
            [] OTHER -> "send")
  /\ UNCHANGED <<abortCtl, tool, callsDone, runVars, guardVars, trustVars, todoVars,
                 worldVars>>
CheckpointUnprobed == CheckpointTurnProbing(FALSE)
CheckpointTurn == CheckpointTurnProbing(~fileRead /\ ~writeWarned)

DecideRisky ==
  /\ turnAt = "risky"
  /\ \E v \in RiskyVerdicts :
       /\ IF v = "deny" THEN AnswerCall ELSE GoTo("send") /\ UNCHANGED <<callsDone,
                                                                         tool,
                                                                         toolDedup>>
       /\ approvedCommands' = IF v = "remember" THEN NewlyApproved ELSE approvedCommands
  /\ UNCHANGED <<abortCtl, reply, runVars, fileRead, writeWarned, approvedSeen,
                 todoVars, worldVars>>

DecideCommit(ok) ==
  /\ turnAt = "commit"
  /\ CASE ok -> GoTo("send") /\ UNCHANGED <<callsDone, tool, toolDedup, owedCalls>>
       [] ~ok /\ tool = "git_commit" -> SkipCall
       [] OTHER -> AnswerCall /\ UNCHANGED owedCalls
  /\ UNCHANGED <<reply, runVars, fileRead, writeWarned, trustVars, todoVars,
                 fileThere, fileTold>>

(* write looks whether a file it has not read exists; anything but a 404   *)
(* counts as yes.                                                          *)
ProbeFile ==
  /\ turnAt = "probe"
  /\ \/ /\ AnswerCall /\ writeWarned' = TRUE
        /\ fileTold' = IF fileTold = "no" THEN "exists" ELSE fileTold
     \/ /\ abortCtl # "aborted" /\ ~fileThere
        /\ GoTo("send") /\ UNCHANGED <<callsDone, tool, toolDedup, writeWarned,
                                       fileTold>>
  /\ UNCHANGED <<abortCtl, reply, runVars, fileRead, trustVars, todoVars, fileThere,
                 owedCalls>>

(* ask_user and todo_write stay in the client. A list generated before the *)
(* user's last edit is discarded.                                          *)
WriteTodos(fresh) ==
  IF fresh THEN todos' = <<"agent", turnRuns, turnCounts.steps>> ELSE UNCHANGED todos

LocalCall(fresh) ==
  /\ turnAt = "send" /\ tool \in LocalTools
  /\ AnswerCall
  /\ IF tool = "ask_user"
     THEN reply' = [reply EXCEPT !.asked = TRUE] /\ UNCHANGED todos
     ELSE WriteTodos(fresh) /\ UNCHANGED reply
  /\ UNCHANGED <<abortCtl, runVars, fileRead, writeWarned, trustVars, todosRev,
                 revAtReq, todosSent, worldVars>>

AnswerLocallyAlways == LocalCall(TRUE)
AnswerLocally == LocalCall(todosRev <= revAtReq)

(* The request of a call. An aborted signal rejects it before it is sent.  *)
(* A command may create or remove the file.                                *)
ServeCall ==
  /\ fileThere' \in (CASE tool = "write" -> {TRUE}
                   [] tool \in (BashTools \ {"look"}) \cup {"subagent", "mcp"} -> BOOLEAN
                   [] OTHER -> {fileThere})
  /\ GoTo("reply")
  /\ UNCHANGED <<callsDone, tool, toolDedup>>

CallRequest(signal) ==
  /\ turnAt = "send" /\ tool \notin LocalTools
  /\ \/ signal # "aborted" /\ ServeCall
     \/ signal = "aborted" /\ AnswerCall /\ UNCHANGED fileThere
  /\ UNCHANGED <<abortCtl, reply, runVars, fileRead, writeWarned, trustVars,
                 todoVars, fileTold, owedCalls>>

SendCall == CallRequest(abortCtl)

(* Its answer, unless it failed or was aborted: what the guards and the    *)
(* model learn from it. A worker's diff may be sent back by the critic.    *)
Learns(c) == fileThere /\ c \in {"read"} \cup Edits

ToolAnswers ==
  /\ turnAt = "reply"
  /\ \/ /\ abortCtl # "aborted" /\ tool \notin Edits
        /\ AnswerCall
        /\ fileRead' = (fileRead \/ Learns(tool))
        /\ fileTold' = IF Learns(tool) THEN "content" ELSE fileTold
        /\ UNCHANGED turnCounts
     \/ AnswerCall /\ UNCHANGED <<fileRead, fileTold, turnCounts>>
     \/ /\ abortCtl # "aborted" /\ tool \in Edits /\ Learns(tool)
        /\ GoTo("checks") /\ fileRead' = TRUE
        /\ UNCHANGED <<callsDone, tool, toolDedup, fileTold, turnCounts>>
     \/ /\ tool = "subagent" /\ SentBack(turnCounts.drafts, MaxDrafts)
        /\ turnCounts' = [turnCounts EXCEPT !.drafts = @ + 1]
        /\ GoTo("send") /\ UNCHANGED <<callsDone, tool, toolDedup, fileRead, fileTold>>
  /\ UNCHANGED <<abortCtl, reply, planMode, overBudget, turnRuns, writeWarned,
                 trustVars, todoVars, fileThere, owedCalls>>

(* runPostEditChecks, after the diff of an edit that landed: the project's *)
(* commands, which may touch the file. When they are stopped or throw, the *)
(* call is answered by that error, though its edit is on disk.             *)
PostEditChecks ==
  /\ turnAt = "checks"
  /\ AnswerCall
  /\ fileThere' \in IF abortCtl = "aborted" THEN {fileThere} ELSE BOOLEAN
  /\ fileTold' = "content"
  /\ UNCHANGED <<abortCtl, reply, runVars, fileRead, writeWarned, trustVars, todoVars, owedCalls>>

(* After the last call: pause on a question, or go round again.            *)
CallsDone ==
  /\ turnAt = "calls" /\ callsDone > 0
  /\ IF reply.asked THEN GoTo("paused") /\ abortCtl' = "none"
     ELSE GoTo("top") /\ UNCHANGED abortCtl
  /\ tool' = Toolless /\ callsDone' = 0 /\ reply' = Turn0
  /\ UNCHANGED <<runVars, guardVars, trustVars, todoVars, worldVars>>

-----------------------------------------------------------------------------
(* The user *)

(* stop(): abort, and deny the two dialogs it knows.                       *)
StopTurn ==
  /\ turnAt \notin TurnIdle /\ abortCtl # "aborted"
  /\ abortCtl' = IF abortCtl = "live" THEN "aborted" ELSE abortCtl
  /\ IF turnAt = "approval" THEN DecideApproval(FALSE)
     ELSE IF turnAt = "commit" THEN DecideCommit(FALSE)
     ELSE UNCHANGED <<turnAt, tool, callsDone, reply, runVars, guardVars, trustVars,
                      todoVars, worldVars>>

ClickApproval == (\E ok \in BOOLEAN : DecideApproval(ok)) /\ UNCHANGED abortCtl
ClickCommit == (\E ok \in BOOLEAN : DecideCommit(ok)) /\ UNCHANGED abortCtl

MutateTodos ==
  /\ todosRev < MaxEdits
  /\ todosRev' = todosRev + 1 /\ todos' = <<"user", 0, todosRev + 1>>
  /\ UNCHANGED <<turnAt, abortCtl, tool, callsDone, reply, runVars, guardVars,
                 trustVars, revAtReq, todosSent, worldVars>>

-----------------------------------------------------------------------------
TurnInit ==
  /\ turnAt = "idle" /\ abortCtl = "none" /\ planMode = FALSE /\ tool = Toolless /\ callsDone = 0
  /\ turnCounts = Steps0 /\ overBudget = FALSE /\ reply = Turn0
  /\ fileRead = FALSE /\ writeWarned = FALSE /\ toolDedup = {}
  /\ approvedCommands = {} /\ approvedSeen = {}
  /\ todos = <<"user", 0, 0>> /\ todosRev = 0 /\ revAtReq = 0 /\ todosSent = <<"user", 0, 0>>
  /\ fileThere \in BOOLEAN /\ fileTold = "no" /\ owedCalls = {} /\ turnRuns = 0

TurnNext ==
  \/ RunTurn \/ Prepared \/ Scouted \/ StopLoop \/ CompactFirst \/ Compacts \/ CompactFails
  \/ SendRequest \/ ModelReplies \/ ChecksRun \/ CriticReviews
  \/ NextCall \/ Delegates \/ Permitted \/ CheckpointTurn \/ DecideRisky \/ ProbeFile
  \/ AnswerLocally \/ SendCall \/ ToolAnswers \/ PostEditChecks \/ CallsDone
  \/ StopTurn \/ ClickApproval \/ ClickCommit \/ MutateTodos

TurnSpec == TurnInit /\ [][TurnNext]_turnVars

-----------------------------------------------------------------------------
TurnTypeOK ==
  /\ turnAt \in TurnIdle \cup TurnDialogs \cup {"prepare", "scout", "top", "compact", "stream",
       "verify", "critic", "calls", "perm", "checkpoint", "probe", "send", "reply",
       "checks"}
  /\ abortCtl \in {"none", "live", "aborted"}
  /\ tool \in Toolkit \cup {Toolless} /\ callsDone \in 0..MaxCalls
  /\ turnCounts.steps \in 0..MaxSteps /\ turnCounts.drafts \in 0..MaxDrafts
  /\ toolDedup \subseteq PureDedup /\ approvedSeen \subseteq approvedCommands
  /\ revAtReq <= todosRev /\ fileTold \in {"no", "exists", "content"}

CallSent == turnAt = "send" /\ turnAt' = "reply"

(* write never replaces a file the model knows nothing of: its context     *)
(* holds the file's text, or the refusal that says the file exists. The    *)
(* context is cut by compaction, calls are answered from the cache, and a  *)
(* command may create the file in between.                                 *)
WritesAreInformed == [][CallSent /\ tool = "write" /\ fileThere => fileTold # "no"]_turnVars

(* todo_write replaces only the list its request carried. The user edits   *)
(* the list while the reply is generated, and while an earlier call of the *)
(* same reply waits in a dialog or for its answer.                         *)
UserTodosWin == [][todos' # todos /\ todos'[1] = "agent" => todos = todosSent]_turnVars

(* The history of a request holds an answer for every call in it, but for  *)
(* a git_commit the user denied.                                           *)
CallsAreAnswered == turnAt = "stream" => owedCalls \subseteq {"git_commit"}
=============================================================================
