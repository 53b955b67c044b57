------------------------------ MODULE CoderProofs ------------------------------
(***************************************************************************)
(* Proofs about the coder screen of the web client: the agent's run, for   *)
(* every toolkit, permission tier and budget; the panels beside it, for    *)
(* any workspaces and panels; the context of its prompt, for any           *)
(* workspaces and followable paths; the session's transcripts, for any     *)
(* number of conversations, messages and checkpoints; and the large tool   *)
(* outputs of its history, for any outputs, thresholds and pages. After    *)
(* these come the types of each.                                           *)
(***************************************************************************)
EXTENDS CoderTurn, CoderPanels, PromptContext, CoderSession, ToolOutput, SequenceTheorems,
        WellFoundedInduction, FiniteSetTheorems, TLAPS

-----------------------------------------------------------------------------
(* The task list of a run.                                                 *)

(* From the request of a reply to its last call.                           *)
ReplyAt == {"stream", "calls", "perm", "approval", "checkpoint", "risky", "commit",
            "probe", "send", "reply", "checks"}

AgentList == <<"agent", turnRuns, turnCounts.steps>>
Counters == {"steps", "repairs", "reviews", "conts", "drafts"}

(* While no edit of the user came after the request, the list is the one   *)
(* the request carried, or the one this very reply has put in its place.   *)
TodosInv ==
  /\ todosRev \in Nat /\ revAtReq \in Nat /\ revAtReq <= todosRev
  /\ DOMAIN turnCounts = Counters
  /\ turnAt \in ReplyAt /\ todosRev <= revAtReq => todos \in {todosSent, AgentList}

-----------------------------------------------------------------------------
(* Steps that leave the list, and what is known of it, alone.              *)
SameCounts ==
  DOMAIN turnCounts' = DOMAIN turnCounts /\ turnCounts'.steps = turnCounts.steps
QuietStep ==
  /\ UNCHANGED <<todos, todosRev, revAtReq, todosSent, turnRuns>> /\ SameCounts
  /\ turnAt' \in ReplyAt => turnAt \in ReplyAt

LEMMA QuietKeeps ==
  ASSUME TodosInv, QuietStep
  PROVE  TodosInv' /\ todos' = todos
  BY DEF TodosInv, QuietStep, SameCounts, AgentList

LEMMA CountsAreKept ==
  ASSUME TodosInv, NEW c \in {"repairs", "reviews", "conts", "drafts"}, NEW n,
         turnCounts' = [turnCounts EXCEPT ![c] = n]
  PROVE  SameCounts
  BY DEF TodosInv, SameCounts, Counters

(* The steps of a run between its requests.                                *)
LEMMA LoopIsQuiet ==
  ASSUME TodosInv,
         \/ Prepared \/ Scouted \/ StopLoop \/ CompactFirst \/ Compacts \/ CompactFails
         \/ ModelReplies \/ ChecksRun \/ CriticReviews \/ CallsDone
  PROVE  QuietStep
<1>. USE DEF QuietStep, SameCounts, todoVars, runVars, GoTo, EndTurnRun, ReplyAt
<1>1. CASE Prepared
  BY <1>1 DEF Prepared
<1>2. CASE Scouted
  BY <1>2 DEF Scouted
<1>3. CASE StopLoop
  BY <1>3 DEF StopLoop
<1>4. CASE CompactFirst
  BY <1>4 DEF CompactFirst
<1>5. CASE Compacts
  BY <1>5 DEF Compacts
<1>6. CASE CompactFails
  BY <1>6 DEF CompactFails
<1>7. CASE ModelReplies
  <2>1. SameCounts
    BY <1>7, CountsAreKept DEF ModelReplies
  <2>. QED  BY <1>7, <2>1 DEF ModelReplies
<1>8. CASE ChecksRun
  <2>1. SameCounts
    BY <1>8, CountsAreKept DEF ChecksRun
  <2>. QED  BY <1>8, <2>1 DEF ChecksRun
<1>9. CASE CriticReviews
  <2>1. SameCounts
    BY <1>9, CountsAreKept DEF CriticReviews
  <2>. QED  BY <1>9, <2>1 DEF CriticReviews
<1>10. CASE CallsDone
  BY <1>10 DEF CallsDone
<1>. QED  BY <1>1, <1>2, <1>3, <1>4, <1>5, <1>6, <1>7, <1>8, <1>9, <1>10

(* The steps of a call, but for its effect on the list.                    *)
LEMMA CallIsQuiet ==
  ASSUME TodosInv,
         \/ NextCall \/ Delegates \/ Permitted \/ CheckpointTurn \/ DecideRisky \/ ProbeFile
         \/ SendCall \/ ToolAnswers \/ PostEditChecks
         \/ (\E ok \in BOOLEAN : DecideApproval(ok)) \/ (\E ok \in BOOLEAN : DecideCommit(ok))
  PROVE  QuietStep
<1>. USE DEF QuietStep, SameCounts, todoVars, runVars, GoTo, AnswerCall, SkipCall, ReplyAt
<1>1. CASE NextCall
  <2>1. SameCounts
    BY <1>1, CountsAreKept DEF NextCall
  <2>. QED  BY <1>1, <2>1 DEF NextCall
<1>2. CASE Delegates
  BY <1>2 DEF Delegates
<1>3. CASE Permitted
  BY <1>3 DEF Permitted, PermittedOr
<1>4. CASE CheckpointTurn
  BY <1>4 DEF CheckpointTurn, CheckpointTurnProbing
<1>5. CASE DecideRisky
  BY <1>5 DEF DecideRisky
<1>6. CASE ProbeFile
  BY <1>6 DEF ProbeFile
<1>7. CASE SendCall
  BY <1>7 DEF SendCall, CallRequest
<1>8. CASE ToolAnswers
  <2>1. SameCounts
    BY <1>8, CountsAreKept DEF ToolAnswers
  <2>. QED  BY <1>8, <2>1 DEF ToolAnswers
<1>9. CASE PostEditChecks
  BY <1>9 DEF PostEditChecks
<1>10. ASSUME NEW ok \in BOOLEAN, DecideApproval(ok) PROVE QuietStep
  BY <1>10 DEF DecideApproval
<1>11. ASSUME NEW ok \in BOOLEAN, DecideCommit(ok) PROVE QuietStep
  BY <1>11 DEF DecideCommit
<1>. QED  BY <1>1, <1>2, <1>3, <1>4, <1>5, <1>6, <1>7, <1>8, <1>9, <1>10, <1>11

LEMMA StopIsQuiet == ASSUME TodosInv, StopTurn PROVE QuietStep
<1>1. CASE turnAt = "approval"
  BY <1>1, CallIsQuiet DEF StopTurn
<1>2. CASE turnAt = "commit"
  BY <1>2, CallIsQuiet DEF StopTurn
<1>3. CASE turnAt \notin {"approval", "commit"}
  BY <1>3 DEF StopTurn, QuietStep, SameCounts, todoVars, runVars
<1>. QED  BY <1>1, <1>2, <1>3

-----------------------------------------------------------------------------
(* A step keeps the invariant, and the agent replaces no list but the one  *)
(* its request carried.                                                    *)
AgentOverwrites == todos' # todos /\ todos'[1] = "agent"

LEMMA TodosStep ==
  ASSUME TodosInv, [TurnNext]_turnVars
  PROVE  TodosInv' /\ (AgentOverwrites => todos = todosSent)
<1>1. ASSUME QuietStep PROVE TodosInv' /\ ~AgentOverwrites
  BY <1>1, QuietKeeps DEF AgentOverwrites
<1>2. CASE RunTurn
  BY <1>2 DEF RunTurn, TodosInv, AgentOverwrites, GoTo, todoVars, ReplyAt, Steps0, Counters
<1>3. CASE SendRequest
  BY <1>3 DEF SendRequest, TodosInv, AgentOverwrites, Counters
<1>4. CASE MutateTodos
  <2>1. revAtReq' < todosRev' /\ todosRev' \in Nat /\ todos'[1] # "agent"
    BY <1>4 DEF MutateTodos, TodosInv
  <2>. QED  BY <1>4, <2>1 DEF MutateTodos, TodosInv, AgentOverwrites, runVars
<1>5. CASE AnswerLocally
  <2>1. /\ UNCHANGED <<todosRev, revAtReq, todosSent, turnCounts, turnRuns>>
        /\ turnAt \in ReplyAt
    BY <1>5 DEF AnswerLocally, LocalCall, runVars, ReplyAt
  <2>2. CASE todos' = todos
    BY <2>1, <2>2 DEF TodosInv, AgentList, AgentOverwrites
  <2>3. CASE todosRev <= revAtReq /\ todos' = AgentList
    BY <2>1, <2>3 DEF TodosInv, AgentList, AgentOverwrites
  <2>. QED  BY <1>5, <2>2, <2>3 DEF AnswerLocally, LocalCall, WriteTodos, AgentList
<1>6. CASE UNCHANGED turnVars
  BY <1>1, <1>6 DEF turnVars, QuietStep, SameCounts
<1>7. CASE ClickApproval \/ ClickCommit
  BY <1>1, <1>7, CallIsQuiet DEF ClickApproval, ClickCommit
<1>. QED
  BY <1>1, <1>2, <1>3, <1>4, <1>5, <1>6, <1>7, LoopIsQuiet, CallIsQuiet, StopIsQuiet
  DEF TurnNext

(* Whenever the user edits the task list, during the reply or while one of *)
(* its calls waits, no older list of the agent replaces the edit           *)
(* (todosRevRef, useCoderToolDispatcher.ts:647).                           *)
THEOREM EditsOfTodosStand == TurnSpec => UserTodosWin
<1>1. TurnInit => TodosInv
  <2>. SUFFICES ASSUME TurnInit PROVE TodosInv
    OBVIOUS
  <2>1. DOMAIN turnCounts = Counters
    BY DEF TurnInit, Steps0, Counters
  <2>2. turnAt \notin ReplyAt
    BY DEF TurnInit, ReplyAt
  <2>3. todosRev = 0 /\ revAtReq = 0
    BY DEF TurnInit
  <2>. QED  BY <2>1, <2>2, <2>3 DEF TodosInv
<1>2. TodosInv /\ [TurnNext]_turnVars =>
        TodosInv' /\ [todos' # todos /\ todos'[1] = "agent" => todos = todosSent]_turnVars
  BY TodosStep DEF AgentOverwrites
<1>. QED  BY <1>1, <1>2, PTL DEF TurnSpec, UserTodosWin

-----------------------------------------------------------------------------
(* What a run writes to, and what it leaves unanswered.                    *)

(* What the guards of write rest on: they count a file as read or warned   *)
(* of only when the context tells of it, but for an edit whose checks are  *)
(* still running; a write about to be sent has passed them; and no write   *)
(* waits in a dialog for commands.                                         *)
InformInv ==
  /\ (fileRead /\ turnAt # "checks") \/ writeWarned => fileTold # "no"
  /\ turnAt = "send" /\ tool = "write" => ~fileThere \/ fileTold # "no"
  /\ turnAt \in {"risky", "commit"} => tool # "write"

CallsInv == owedCalls \subseteq {"git_commit"}
TurnGuardInv == InformInv /\ CallsInv

(* Steps that touch neither the file nor what is known of it, and lead to  *)
(* no place where a write could be sent from.                              *)
UnawareStep ==
  /\ UNCHANGED <<fileRead, writeWarned, fileThere, fileTold, owedCalls>>
  /\ \/ turnAt' \notin {"send", "risky", "commit"} /\ turnAt # "checks"
     \/ UNCHANGED <<turnAt, tool>>

LEMMA UnawareKeeps == ASSUME TurnGuardInv, UnawareStep PROVE TurnGuardInv'
  BY DEF TurnGuardInv, InformInv, CallsInv, UnawareStep

LEMMA LoopIsUnaware ==
  ASSUME \/ RunTurn \/ Scouted \/ StopLoop \/ CompactFirst \/ CompactFails \/ SendRequest
         \/ ModelReplies \/ ChecksRun \/ CriticReviews \/ Delegates \/ CallsDone
         \/ MutateTodos \/ AnswerLocally \/ UNCHANGED turnVars
  PROVE  UnawareStep
<1>. USE DEF UnawareStep, guardVars, worldVars, GoTo, EndTurnRun, TurnIdle
<1>1. CASE RunTurn
  BY <1>1 DEF RunTurn
<1>2. CASE Scouted
  BY <1>2 DEF Scouted
<1>3. CASE StopLoop
  BY <1>3 DEF StopLoop
<1>4. CASE CompactFirst
  BY <1>4 DEF CompactFirst
<1>5. CASE CompactFails
  BY <1>5 DEF CompactFails
<1>6. CASE SendRequest
  BY <1>6 DEF SendRequest
<1>7. CASE ModelReplies
  BY <1>7 DEF ModelReplies
<1>8. CASE ChecksRun
  BY <1>8 DEF ChecksRun
<1>9. CASE CriticReviews
  BY <1>9 DEF CriticReviews
<1>10. CASE Delegates
  BY <1>10 DEF Delegates
<1>11. CASE CallsDone
  BY <1>11 DEF CallsDone
<1>12. CASE MutateTodos
  BY <1>12 DEF MutateTodos
<1>13. CASE AnswerLocally
  BY <1>13 DEF AnswerLocally, LocalCall, AnswerCall
<1>14. CASE UNCHANGED turnVars
  BY <1>14 DEF turnVars
<1>. QED  BY <1>1, <1>2, <1>3, <1>4, <1>5, <1>6, <1>7, <1>8, <1>9, <1>10, <1>11,
             <1>12, <1>13, <1>14

(* The dialogs of a call                                                   *)
LEMMA DialogsKeepGuards ==
  ASSUME TurnGuardInv,
         \/ DecideRisky
         \/ \E ok \in BOOLEAN : DecideApproval(ok)
         \/ \E ok \in BOOLEAN : DecideCommit(ok)
  PROVE  TurnGuardInv'
<1>. USE DEF TurnGuardInv, InformInv, CallsInv, worldVars, GoTo, AnswerCall, SkipCall
<1>1. CASE DecideRisky
  BY <1>1 DEF DecideRisky
<1>2. ASSUME NEW ok \in BOOLEAN, DecideApproval(ok) PROVE TurnGuardInv'
  BY <1>2 DEF DecideApproval
<1>3. ASSUME NEW ok \in BOOLEAN, DecideCommit(ok) PROVE TurnGuardInv'
  <2>1. owedCalls' \subseteq owedCalls \cup {"git_commit"}
    BY <1>3 DEF DecideCommit
  <2>2. UNCHANGED <<fileRead, writeWarned, fileThere, fileTold>> /\ turnAt = "commit"
    BY <1>3 DEF DecideCommit
  <2>3. (turnAt' = "send" /\ tool' = tool) \/ turnAt' = "calls"
    BY <1>3 DEF DecideCommit
  <2>. QED  BY <2>1, <2>2, <2>3
<1>. QED  BY <1>1, <1>2, <1>3

LEMMA CallKeepsGuards ==
  ASSUME TurnGuardInv,
         \/ Prepared \/ Compacts \/ NextCall \/ Permitted \/ CheckpointTurn \/ ProbeFile
         \/ SendCall \/ ToolAnswers \/ PostEditChecks
  PROVE  TurnGuardInv'
<1>. USE DEF TurnGuardInv, InformInv, CallsInv, guardVars, worldVars, GoTo, AnswerCall
<1>1. CASE Prepared
  BY <1>1 DEF Prepared
<1>2. CASE Compacts
  BY <1>2 DEF Compacts, ForgetContext
<1>3. CASE NextCall
  <2>1. /\ UNCHANGED <<fileRead, writeWarned, owedCalls, fileThere>>
        /\ fileTold' \in {"content", fileTold}
        /\ turnAt' \in {"calls", "perm"} /\ turnAt = "calls"
    BY <1>3 DEF NextCall
  <2>. QED  BY <2>1
<1>4. CASE Permitted
  <2>1. /\ UNCHANGED <<fileRead, writeWarned, owedCalls, fileThere, fileTold>>
        /\ turnAt' \in {"calls", "approval", "checkpoint"} /\ turnAt = "perm"
    BY <1>4 DEF Permitted, PermittedOr
  <2>. QED  BY <2>1
<1>5. CASE CheckpointTurn
  <2>1. /\ UNCHANGED <<fileRead, writeWarned, owedCalls, fileThere, fileTold, tool>>
        /\ turnAt = "checkpoint"
        /\ turnAt' = "risky" => NeedsRiskApproval
        /\ turnAt' = "commit" => NeedsCommitApproval
        /\ turnAt' = "send" /\ tool = "write" => fileRead \/ writeWarned
        /\ turnAt' # "checks"
    BY <1>5 DEF CheckpointTurn, CheckpointTurnProbing
  <2>. QED  BY <2>1 DEF NeedsRiskApproval, NeedsCommitApproval, RiskyTools, CommitTools
<1>6. CASE ProbeFile
  <2>1. CASE turnAt' = "calls" /\ fileTold' # "no"
    BY <2>1, <1>6 DEF ProbeFile
  <2>2. CASE /\ turnAt' = "send" /\ ~fileThere /\ turnAt = "probe"
             /\ UNCHANGED <<writeWarned, fileRead, fileTold, fileThere, owedCalls>>
    BY <2>2
  <2>. QED  BY <1>6, <2>1, <2>2 DEF ProbeFile
<1>7. CASE SendCall
  BY <1>7 DEF SendCall, CallRequest, ServeCall
<1>8. CASE ToolAnswers
  <2>1. turnAt = "reply" /\ UNCHANGED <<writeWarned, fileThere, owedCalls>>
    BY <1>8 DEF ToolAnswers
  <2>2. CASE turnAt' = "calls" /\ fileTold' = "content"
    BY <2>1, <2>2
  <2>3. CASE turnAt' = "calls" /\ UNCHANGED <<fileRead, fileTold>>
    BY <2>1, <2>3
  <2>4. CASE turnAt' = "checks" /\ UNCHANGED fileTold
    BY <2>1, <2>4
  <2>5. CASE tool = "subagent" /\ turnAt' = "send" /\ UNCHANGED <<tool, fileRead, fileTold>>
    BY <2>1, <2>5
  <2>6. \/ turnAt' = "calls" /\ (fileRead' <=> fileRead \/ Learns(tool))
           /\ fileTold' = (IF Learns(tool) THEN "content" ELSE fileTold)
        \/ turnAt' = "calls" /\ UNCHANGED <<fileRead, fileTold>>
        \/ turnAt' = "checks" /\ UNCHANGED fileTold
        \/ tool = "subagent" /\ turnAt' = "send" /\ UNCHANGED <<tool, fileRead, fileTold>>
    BY <1>8 DEF ToolAnswers
  <2>7. CASE Learns(tool)
    BY <2>2, <2>3, <2>4, <2>5, <2>6, <2>7
  <2>8. CASE ~Learns(tool) /\ turnAt' = "calls" /\ (fileRead' <=> fileRead)
             /\ fileTold' = fileTold
    BY <2>1, <2>8
  <2>. QED  BY <2>2, <2>3, <2>4, <2>5, <2>6, <2>7, <2>8
<1>9. CASE PostEditChecks
  BY <1>9 DEF PostEditChecks
<1>. QED  BY <1>1, <1>2, <1>3, <1>4, <1>5, <1>6, <1>7, <1>8, <1>9

LEMMA StopKeepsGuards == ASSUME TurnGuardInv, StopTurn PROVE TurnGuardInv'
<1>1. CASE turnAt = "approval"
  BY <1>1, DialogsKeepGuards DEF StopTurn
<1>2. CASE turnAt = "commit"
  BY <1>2, DialogsKeepGuards DEF StopTurn
<1>3. CASE turnAt \notin {"approval", "commit"}
  BY <1>3, UnawareKeeps DEF StopTurn, UnawareStep, guardVars, worldVars
<1>. QED  BY <1>1, <1>2, <1>3

LEMMA GuardsStep == ASSUME TurnGuardInv, [TurnNext]_turnVars PROVE TurnGuardInv'
<1>1. CASE ClickApproval \/ ClickCommit
  BY <1>1, DialogsKeepGuards DEF ClickApproval, ClickCommit
<1>. QED
  BY <1>1, UnawareKeeps, LoopIsUnaware, CallKeepsGuards, DialogsKeepGuards, StopKeepsGuards
  DEF TurnNext

LEMMA GuardsStart == TurnInit => TurnGuardInv
  BY DEF TurnInit, TurnGuardInv, InformInv, CallsInv

(* However often a denied commit leaves its call unanswered, no other call *)
(* of the history goes into a request without its answer                   *)
(* (useCoderToolDispatcher.ts:594).                                        *)
THEOREM EveryCallIsAnswered == TurnSpec => []CallsAreAnswered
<1>1. TurnGuardInv => CallsAreAnswered
  BY DEF TurnGuardInv, CallsInv, CallsAreAnswered
<1>. QED  BY <1>1, GuardsStart, GuardsStep, PTL DEF TurnSpec

(* No write leaves the client for a file the context tells nothing of:     *)
(* whatever compaction, cached answers, stops and commands did before, the *)
(* read guard or the probe has spoken (useCoderToolDispatcher.ts:320).     *)
THEOREM WritesKnowTheirFile == TurnSpec => WritesAreInformed
<1>1. TurnGuardInv => (CallSent /\ tool = "write" /\ fileThere => fileTold # "no")
  BY DEF TurnGuardInv, InformInv, CallSent
<1>. QED  BY <1>1, GuardsStart, GuardsStep, PTL DEF TurnSpec, WritesAreInformed

-----------------------------------------------------------------------------
(* The panels beside the transcript.                                       *)

PanelRecord == [seq : Nat, shows : Roots \cup {Nowhere}, failed : BOOLEAN]
GitFor == gitOp = NoOp \/ ("for" \in DOMAIN gitOp /\ gitOp.for \in Roots)

PanelTypes ==
  /\ {root, pointed, applied} \subseteq Roots /\ rules \subseteq Roots
  /\ panel \in [Panels -> PanelRecord]
  /\ fetches \subseteq [panel : Panels, seq : Nat, for : Roots]
  /\ \A f \in fetches : f.seq \in 1..panel[f.panel].seq
  /\ GitFor
PointTypes ==
  /\ {agentRuns, applying, treeOpen} \subseteq BOOLEAN
  /\ applySeq \in Nat /\ chain \in Seq([dir : Roots, seq : Nat])
  /\ \A i \in DOMAIN chain : chain[i].seq \in 1..applySeq

MemFetches == {f \in fetches : f.panel = "memory"}

(* The newest fetch of the memory is for the workspace on screen: whatever *)
(* brings another workspace there fetches again at once.                   *)
NewestIsHere == \A f \in MemFetches : f.seq = panel["memory"].seq => f.for = root

PanelsInv == PanelTypes /\ PointTypes /\ NewestIsHere /\ MemoryBelongsHere

(* A load gives every panel it names a newer fetch than any other, and     *)
(* leaves the others as they are.                                          *)
LEMMA LoadTypes ==
  ASSUME PanelTypes, NEW names, NEW w \in Roots, Load(names, w)
  PROVE  /\ panel' \in [Panels -> PanelRecord]
         /\ fetches' \subseteq [panel : Panels, seq : Nat, for : Roots]
         /\ \A f \in fetches' : f.seq \in 1..panel'[f.panel].seq
<1>1. panel' \in [Panels -> PanelRecord]
  BY DEF PanelTypes, Load, PanelRecord
<1>2. fetches' \subseteq [panel : Panels, seq : Nat, for : Roots]
  BY DEF PanelTypes, Load, PanelRecord
<1>3. ASSUME NEW f \in fetches' PROVE f.seq \in 1..panel'[f.panel].seq
  <2>1. CASE f \in fetches
    <3>1. f.panel \in Panels /\ f.seq \in 1..panel[f.panel].seq /\ panel[f.panel].seq \in Nat
      BY <2>1 DEF PanelTypes, PanelRecord
    <3>2. panel'[f.panel].seq \in {panel[f.panel].seq, panel[f.panel].seq + 1}
      BY <3>1 DEF PanelTypes, PanelRecord, Load
    <3>. QED  BY <3>1, <3>2
  <2>2. CASE f \notin fetches
    <3>1. PICK p \in names \cap Panels : f = [panel |-> p, seq |-> panel[p].seq + 1, for |-> w]
      BY <1>3, <2>2 DEF Load
    <3>2. panel'[p].seq = panel[p].seq + 1 /\ panel[p].seq \in Nat
      BY <3>1 DEF Load, PanelTypes, PanelRecord
    <3>. QED  BY <3>1, <3>2
  <2>. QED  BY <2>1, <2>2
<1>. QED  BY <1>1, <1>2, <1>3

(* Memory is fetched for the workspace on screen.                          *)
LEMMA LoadMemory ==
  ASSUME PanelTypes, NEW names, "memory" \in names, Load(names, root')
  PROVE  NewestIsHere' /\ MemoryBelongsHere'
<1>. DEFINE mem == panel["memory"]
            new == [panel |-> "memory", seq |-> mem.seq + 1, for |-> root']
<1>1. panel'["memory"].seq = mem.seq + 1 /\ mem.seq \in Nat
  BY PanelsAssumption DEF Load, PanelTypes, PanelRecord
<1>2. new \in fetches' /\ \A f \in fetches' \ fetches : f.for = root'
  BY PanelsAssumption DEF Load
<1>3. \A f \in MemFetches : f.seq # mem.seq + 1
  BY <1>1 DEF MemFetches, PanelTypes
<1>4. NewestIsHere'
  BY <1>1, <1>2, <1>3 DEF NewestIsHere, MemFetches
<1>5. MemoryBelongsHere'
  BY <1>1, <1>2 DEF MemoryBelongsHere
<1>. QED  BY <1>4, <1>5

(* Other panels are fetched, or none.                                      *)
LEMMA LoadOthers ==
  ASSUME PanelTypes, NewestIsHere, MemoryBelongsHere, UNCHANGED <<root, applied>>,
         NEW names, "memory" \notin names, NEW w,
         Load(names, w) \/ UNCHANGED <<panel, fetches>>
  PROVE  NewestIsHere' /\ MemoryBelongsHere'
<1>1. panel'["memory"] = panel["memory"]
  BY PanelsAssumption DEF Load, PanelTypes
<1>2. MemFetches' = MemFetches
  BY DEF Load, MemFetches
<1>3. (\E f \in fetches : f.panel = "memory" /\ f.seq = panel["memory"].seq)
        => \E f \in fetches' : f.panel = "memory" /\ f.seq = panel["memory"].seq
  BY DEF Load
<1>. QED  BY <1>1, <1>2, <1>3 DEF NewestIsHere, MemoryBelongsHere

(* An answer that is adopted is the workspace's that is confirmed.         *)
LEMMA AdoptKeeps ==
  ASSUME PanelTypes, NewestIsHere, MemoryBelongsHere, UNCHANGED <<root, applied>>,
         NEW w \in Roots, Adopt("memory", w, w),
         fetches' \subseteq fetches,
         \A f \in fetches \ fetches' : f.panel = "memory" => f.seq # panel["memory"].seq \/ w = root
  PROVE  /\ panel' \in [Panels -> PanelRecord] /\ \A p \in Panels : panel'[p].seq = panel[p].seq
         /\ NewestIsHere' /\ MemoryBelongsHere'
<1>1. CASE applied = w
  <2>1. panel' = [panel EXCEPT !["memory"].shows = w, !["memory"].failed = FALSE]
    BY <1>1 DEF Adopt, AdoptOr, Takes
  <2>2. panel' \in [Panels -> PanelRecord] /\ \A p \in Panels : panel'[p].seq = panel[p].seq
    BY <2>1 DEF PanelTypes, PanelRecord
  <2>3. panel'["memory"].shows = applied
    BY <1>1, <2>1, PanelsAssumption DEF PanelTypes, PanelRecord
  <2>. QED  BY <2>2, <2>3, PanelsAssumption DEF NewestIsHere, MemFetches, MemoryBelongsHere
<1>2. CASE applied # w
  <2>1. panel' = panel
    BY <1>2 DEF Adopt, AdoptOr
  <2>2. NewestIsHere'
    BY <2>1 DEF NewestIsHere, MemFetches
  <2>3. MemoryBelongsHere'
    BY <1>2, <2>1 DEF MemoryBelongsHere
  <2>. QED  BY <2>1, <2>2, <2>3 DEF PanelTypes
<1>. QED  BY <1>1, <1>2

LEMMA PanelsStart == PanelsInit => PanelsInv
<1>. SUFFICES ASSUME PanelsInit PROVE PanelsInv
  OBVIOUS
<1>1. root \in Roots
  BY PanelsAssumption DEF PanelsInit
<1>2. PanelTypes
  BY <1>1 DEF PanelsInit, PanelTypes, PanelRecord, GitFor
<1>3. PointTypes
  <2>1. chain \in Seq([dir : Roots, seq : Nat]) /\ DOMAIN chain = {}
    BY DEF PanelsInit
  <2>2. agentRuns = FALSE /\ applying = FALSE /\ treeOpen = TRUE /\ applySeq \in Nat
    BY DEF PanelsInit
  <2>. QED  BY <2>1, <2>2 DEF PointTypes
<1>4. NewestIsHere /\ MemoryBelongsHere
  BY PanelsAssumption DEF PanelsInit, NewestIsHere, MemFetches, MemoryBelongsHere
<1>. QED  BY <1>2, <1>3, <1>4 DEF PanelsInv

(* The queue of re-points.                                                 *)
LEMMA QueueApplyTypes ==
  ASSUME PointTypes, NEW w \in Roots, QueueApply(w) \/ UNCHANGED pointVars,
         {agentRuns', treeOpen'} \subseteq BOOLEAN
  PROVE  PointTypes' /\ UNCHANGED <<pointed, applied>>
<1>1. CASE UNCHANGED pointVars
  BY <1>1 DEF PointTypes, pointVars
<1>2. CASE /\ applySeq' = applySeq + 1 /\ applying' = TRUE
           /\ chain' = Append(chain, [dir |-> w, seq |-> applySeq + 1])
           /\ UNCHANGED <<pointed, applied>>
  <2>1. applySeq' \in Nat /\ applySeq' = applySeq + 1 /\ chain' \in Seq([dir : Roots, seq : Nat])
    BY <1>2 DEF PointTypes
  <2>2. ASSUME NEW i \in DOMAIN chain' PROVE chain'[i].seq \in 1..applySeq'
    <3>1. Len(chain) \in Nat /\ DOMAIN chain' = 1..(Len(chain) + 1) /\ DOMAIN chain = 1..Len(chain)
      BY <1>2 DEF PointTypes
    <3>2. CASE i \in DOMAIN chain
      <4>1. chain'[i] = chain[i] /\ chain[i].seq \in 1..applySeq
        BY <1>2, <3>1, <3>2 DEF PointTypes
      <4>. QED  BY <2>1, <4>1 DEF PointTypes
    <3>3. CASE i = Len(chain) + 1
      <4>1. chain'[i] = [dir |-> w, seq |-> applySeq + 1]
        BY <1>2, <3>1, <3>3 DEF PointTypes
      <4>. QED  BY <2>1, <4>1 DEF PointTypes
    <3>. QED  BY <3>1, <3>2, <3>3
  <2>. QED  BY <1>2, <2>1, <2>2 DEF PointTypes
<1>. QED  BY <1>1, <1>2 DEF QueueApply

(* A re-point is answered; the latest one loads what is shown.             *)
LEMMA AppliedKeeps == ASSUME PanelsInv, Applied PROVE PanelsInv'
<1>. PanelTypes /\ PointTypes /\ NewestIsHere /\ MemoryBelongsHere
  BY DEF PanelsInv
<1>1. Head(chain).dir \in Roots /\ chain' = Tail(chain) /\ chain' \in Seq([dir : Roots, seq : Nat])
  <2>1. chain \in Seq([dir : Roots, seq : Nat]) /\ chain # <<>> /\ chain' = Tail(chain)
    BY DEF Applied, PointTypes
  <2>2. Head(chain) \in [dir : Roots, seq : Nat] /\ chain' \in Seq([dir : Roots, seq : Nat])
    BY <2>1, HeadTailProperties
  <2>. QED  BY <2>1, <2>2
<1>2. PointTypes'
  <2>1. ASSUME NEW i \in DOMAIN chain' PROVE chain'[i].seq \in 1..applySeq
    <3>1. i \in 1..(Len(chain) - 1) /\ Len(chain) \in Nat /\ DOMAIN chain = 1..Len(chain)
      BY <1>1 DEF Applied, PointTypes
    <3>2. chain'[i] = chain[i + 1] /\ (i + 1) \in DOMAIN chain
      BY <1>1, <3>1 DEF Applied, PointTypes
    <3>. QED  BY <3>2 DEF PointTypes
  <2>. QED  BY <1>1, <2>1 DEF Applied, PointTypes
<1>3. CASE applied' = Head(chain).dir /\ Load(Shown, root)
  <2>1. "memory" \in Shown
    BY PanelsAssumption DEF Shown
  <2>2. root' = root /\ root \in Roots
    BY DEF Applied, PanelTypes, GitFor
  <2>3. NewestIsHere' /\ MemoryBelongsHere'
    BY <1>3, <2>1, <2>2, LoadMemory
  <2>4. /\ panel' \in [Panels -> PanelRecord]
        /\ fetches' \subseteq [panel : Panels, seq : Nat, for : Roots]
        /\ \A f \in fetches' : f.seq \in 1..panel'[f.panel].seq
    BY <1>3, <2>2, LoadTypes
  <2>5. PanelTypes'
    BY <1>1, <1>3, <2>2, <2>4 DEF Applied, PanelTypes, GitFor
  <2>. QED  BY <1>2, <2>3, <2>5 DEF PanelsInv
<1>4. CASE UNCHANGED <<applied, panel, fetches>>
  <2>1. PanelTypes' /\ NewestIsHere' /\ MemoryBelongsHere'
    BY <1>1, <1>4 DEF Applied, PanelTypes, GitFor, NewestIsHere, MemFetches, MemoryBelongsHere
  <2>. QED  BY <1>2, <2>1 DEF PanelsInv
<1>. QED  BY <1>3, <1>4 DEF Applied

(* Another workspace comes on screen.                                      *)
LEMMA PanelSwitchKeeps == ASSUME PanelsInv, SwitchRoot PROVE PanelsInv'
<1>. PanelTypes /\ PointTypes
  BY DEF PanelsInv
<1>1. PICK w \in Roots : /\ root' = w /\ Load(Shown, w)
                         /\ QueueApply(w) \/ UNCHANGED pointVars
  BY DEF SwitchRoot
<1>2. PointTypes' /\ UNCHANGED <<pointed, applied>>
  BY <1>1, QueueApplyTypes DEF SwitchRoot, PointTypes
<1>3. NewestIsHere' /\ MemoryBelongsHere'
  <2>1. "memory" \in Shown
    BY PanelsAssumption DEF Shown
  <2>. QED  BY <1>1, <2>1, LoadMemory
<1>4. PanelTypes'
  <2>1. /\ panel' \in [Panels -> PanelRecord]
        /\ fetches' \subseteq [panel : Panels, seq : Nat, for : Roots]
        /\ \A f \in fetches' : f.seq \in 1..panel'[f.panel].seq
    BY <1>1, LoadTypes
  <2>. QED  BY <1>1, <1>2, <2>1 DEF SwitchRoot, PanelTypes, GitFor
<1>. QED  BY <1>2, <1>3, <1>4 DEF PanelsInv

(* What a fetch or an added rule brings.                                   *)
LEMMA AnswersKeep ==
  ASSUME PanelsInv, FetchAnswered \/ FetchFails \/ LearningAdded
  PROVE  PanelsInv'
<1>. PanelTypes /\ PointTypes /\ NewestIsHere /\ MemoryBelongsHere
  BY DEF PanelsInv
<1>1. UNCHANGED <<root, pointed, applied, agentRuns, applying, treeOpen, applySeq, chain, gitOp>>
  BY DEF FetchAnswered, FetchFails, LearningAdded, pointVars
<1>2. PointTypes'
  BY <1>1 DEF PointTypes
<1>3. SUFFICES /\ NewestIsHere' /\ MemoryBelongsHere' /\ panel' \in [Panels -> PanelRecord]
               /\ \A p \in Panels : panel'[p].seq = panel[p].seq
               /\ fetches' \subseteq fetches
  <2>1. rules' \subseteq Roots
    BY DEF FetchAnswered, FetchFails, LearningAdded, PanelTypes, GitFor
  <2>2. PanelTypes'
    BY <1>1, <1>3, <2>1 DEF PanelTypes, GitFor
  <2>. QED  BY <1>2, <1>3, <2>2 DEF PanelsInv
<1>4. ASSUME NEW f \in fetches, fetches' = fetches \ {f}, UNCHANGED panel,
             f.seq # panel[f.panel].seq
      PROVE  /\ NewestIsHere' /\ MemoryBelongsHere' /\ panel' \in [Panels -> PanelRecord]
             /\ \A p \in Panels : panel'[p].seq = panel[p].seq
             /\ fetches' \subseteq fetches
  BY <1>1, <1>4 DEF PanelTypes, GitFor, NewestIsHere, MemFetches, MemoryBelongsHere
<1>5. ASSUME NEW f \in fetches, f.panel # "memory", fetches' = fetches \ {f},
             panel' \in [Panels -> PanelRecord], UNCHANGED panel["memory"],
             \A p \in Panels : panel'[p].seq = panel[p].seq
      PROVE  NewestIsHere' /\ MemoryBelongsHere'
  BY <1>1, <1>5 DEF NewestIsHere, MemFetches, MemoryBelongsHere
<1>6. CASE FetchAnswered
  <2>1. PICK f \in fetches :
          /\ fetches' = fetches \ {f}
          /\ IF f.seq # panel[f.panel].seq THEN UNCHANGED panel
             ELSE CASE f.panel = "memory" -> Adopt(f.panel, f.for, f.for)
                    [] f.panel = "tree" -> Adopt(f.panel, f.for, pointed)
                    [] OTHER -> panel' = Takes(f.panel, f.for)
    BY <1>6 DEF FetchAnswered
  <2>2. f.panel \in Panels /\ f.for \in Roots /\ pointed \in Roots
    BY DEF PanelTypes, GitFor
  <2>3. CASE f.seq # panel[f.panel].seq
    BY <1>4, <2>1, <2>3
  <2>4. CASE f.seq = panel[f.panel].seq /\ f.panel = "memory"
    <3>1. Adopt("memory", f.for, f.for) /\ f.for = root
      BY <2>1, <2>4 DEF NewestIsHere, MemFetches
    <3>2. \A g \in fetches \ fetches' : g = f
      BY <2>1
    <3>3. /\ panel' \in [Panels -> PanelRecord] /\ \A p \in Panels : panel'[p].seq = panel[p].seq
          /\ NewestIsHere' /\ MemoryBelongsHere'
      BY <1>1, <2>1, <2>2, <3>1, <3>2, AdoptKeeps
    <3>. QED  BY <2>1, <3>3
  <2>5. CASE f.seq = panel[f.panel].seq /\ f.panel # "memory"
    <3>1. panel' = panel \/ \E w \in Roots : panel' = Takes(f.panel, w)
      BY <2>1, <2>2, <2>5 DEF Adopt, AdoptOr
    <3>2. /\ panel' \in [Panels -> PanelRecord] /\ \A p \in Panels : panel'[p].seq = panel[p].seq
          /\ UNCHANGED panel["memory"]
      <4>1. ASSUME NEW w \in Roots, panel' = [panel EXCEPT ![f.panel].shows = w, ![f.panel].failed = FALSE]
            PROVE  /\ panel' \in [Panels -> PanelRecord] /\ UNCHANGED panel["memory"]
                   /\ \A p \in Panels : panel'[p].seq = panel[p].seq
        BY <2>2, <2>5, <4>1, PanelsAssumption DEF PanelTypes, GitFor, PanelRecord
      <4>2. CASE panel' = panel
        BY <4>2 DEF PanelTypes, GitFor
      <4>. QED  BY <3>1, <4>1, <4>2 DEF Takes
    <3>. QED  BY <1>5, <2>1, <2>5, <3>2
  <2>. QED  BY <2>3, <2>4, <2>5
<1>7. CASE FetchFails
  <2>1. PICK f \in fetches :
          /\ fetches' = fetches \ {f}
          /\ panel' = IF f.seq # panel[f.panel].seq THEN panel
                      ELSE [panel EXCEPT ![f.panel].failed = TRUE,
                                         ![f.panel].shows = IF f.panel = "tree" THEN Nowhere ELSE @]
    BY <1>7 DEF FetchFails
  <2>2. f.panel \in Panels
    BY DEF PanelTypes, GitFor
  <2>3. CASE f.seq # panel[f.panel].seq
    BY <1>4, <2>1, <2>3
  <2>4. CASE f.seq = panel[f.panel].seq
    <3>1. /\ panel' \in [Panels -> PanelRecord] /\ \A p \in Panels : panel'[p].seq = panel[p].seq
          /\ panel'[f.panel].failed
          /\ f.panel # "memory" => UNCHANGED panel["memory"]
      <4>1. panel \in [Panels -> PanelRecord] /\ panel[f.panel] \in PanelRecord /\ "memory" \in Panels
        BY <2>2, PanelsAssumption DEF PanelTypes
      <4>2. PICK shows : shows = IF f.panel = "tree" THEN Nowhere ELSE panel[f.panel].shows
        OBVIOUS
      <4>3. PICK new : new = [panel[f.panel] EXCEPT !.failed = TRUE, !.shows = shows]
        OBVIOUS
      <4>4. new \in PanelRecord /\ new.failed /\ new.seq = panel[f.panel].seq
        BY <4>1, <4>2, <4>3 DEF PanelRecord
      <4>5. panel' = [panel EXCEPT ![f.panel] = new]
        BY <2>1, <2>4, <4>2, <4>3
      <4>. QED  BY <2>2, <4>1, <4>4, <4>5
    <3>2. CASE f.panel = "memory"
      BY <1>1, <2>1, <3>1, <3>2, PanelsAssumption DEF NewestIsHere, MemFetches, MemoryBelongsHere
    <3>3. CASE f.panel # "memory"
      BY <1>5, <2>1, <3>1, <3>3
    <3>. QED  BY <2>1, <3>1, <3>2, <3>3
  <2>. QED  BY <2>3, <2>4
<1>8. CASE LearningAdded
  <2>1. PICK w \in rules : Adopt("memory", w, w) /\ fetches' = fetches
    BY <1>8 DEF LearningAdded
  <2>2. w \in Roots
    BY DEF PanelTypes, GitFor
  <2>3. /\ panel' \in [Panels -> PanelRecord] /\ \A p \in Panels : panel'[p].seq = panel[p].seq
        /\ NewestIsHere' /\ MemoryBelongsHere'
    BY <1>1, <2>1, <2>2, AdoptKeeps
  <2>. QED  BY <2>1, <2>3
<1>. QED  BY <1>6, <1>7, <1>8

(* Runs, rules and git commands fetch no memory.                           *)
LEMMA OtherPanelsKeep ==
  ASSUME PanelsInv,
         \/ RunStarts \/ RunIsOver \/ ToggleTree \/ AddLearning
         \/ GitBegins \/ GitGoesOn \/ GitEnds
  PROVE  PanelsInv'
<1>. PanelTypes /\ PointTypes /\ NewestIsHere /\ MemoryBelongsHere
  BY DEF PanelsInv
<1>1. root' = root /\ root \in Roots /\ rules' \subseteq Roots
  BY DEF RunStarts, RunIsOver, ToggleTree, AddLearning, GitBegins, GitGoesOn, GitEnds,
     PanelTypes, GitFor
<1>2. PointTypes' /\ UNCHANGED <<pointed, applied>>
  <2>1. {agentRuns', treeOpen'} \subseteq BOOLEAN
    BY DEF RunStarts, RunIsOver, ToggleTree, AddLearning, GitBegins, GitGoesOn, GitEnds, PointTypes
  <2>2. QueueApply(root) \/ UNCHANGED pointVars
    BY DEF RunStarts, RunIsOver, ToggleTree, AddLearning, GitBegins, GitGoesOn, GitEnds
  <2>. QED  BY <1>1, <2>1, <2>2, QueueApplyTypes
<1>3. GitFor'
  <2>1. CASE GitBegins
    <3>1. PICK kind \in DOMAIN Plans : gitOp' = [kind |-> kind, for |-> root, todo |-> Plans[kind]]
      BY <2>1 DEF GitBegins
    <3>. QED  BY <1>1, <3>1 DEF GitFor
  <2>2. CASE GitGoesOn
    <3>1. gitOp # NoOp
      BY <2>2 DEF GitGoesOn, NoOp
    <3>2. gitOp' = NoOp \/ gitOp' = [gitOp EXCEPT !.todo = Tail(@)]
      BY <2>2 DEF GitGoesOn
    <3>. QED  BY <3>1, <3>2 DEF GitFor, PanelTypes, GitFor
  <2>3. CASE GitEnds
    BY <2>3 DEF GitEnds, GitFor
  <2>4. CASE UNCHANGED gitOp
    BY <2>4 DEF GitFor, PanelTypes, GitFor
  <2>. QED  BY <2>1, <2>2, <2>3, <2>4 DEF RunStarts, RunIsOver, ToggleTree, AddLearning
<1>4. \/ UNCHANGED <<panel, fetches>>
      \/ \E names, w : "memory" \notin names /\ w \in Roots /\ Load(names, w)
  <2>1. CASE GitEnds
    <3>1. gitOp.for \in Roots
      <4>1. gitOp # NoOp
        BY <2>1 DEF GitEnds, NoOp
      <4>. QED  BY <4>1 DEF PanelTypes, GitFor
    <3>2. \A ok \in BOOLEAN : "memory" \notin {"branches", "commits"} \cup (IF ok THEN {"tree"} ELSE {})
      OBVIOUS
    <3>. QED  BY <2>1, <3>1, <3>2 DEF GitEnds
  <2>2. CASE ToggleTree
    BY <1>1, <2>2 DEF ToggleTree
  <2>. QED  BY <2>1, <2>2 DEF RunStarts, RunIsOver, AddLearning, GitBegins, GitGoesOn
<1>5. CASE UNCHANGED <<panel, fetches>>
  <2>1. NewestIsHere' /\ MemoryBelongsHere'
    BY <1>1, <1>2, <1>5 DEF NewestIsHere, MemFetches, MemoryBelongsHere
  <2>2. PanelTypes'
    BY <1>1, <1>2, <1>3, <1>5 DEF PanelTypes, GitFor
  <2>. QED  BY <1>2, <2>1, <2>2 DEF PanelsInv
<1>6. ASSUME NEW names, "memory" \notin names, NEW w \in Roots, Load(names, w) PROVE PanelsInv'
  <2>1. NewestIsHere' /\ MemoryBelongsHere'
    BY <1>1, <1>2, <1>6, LoadOthers
  <2>2. /\ panel' \in [Panels -> PanelRecord]
        /\ fetches' \subseteq [panel : Panels, seq : Nat, for : Roots]
        /\ \A f \in fetches' : f.seq \in 1..panel'[f.panel].seq
    BY <1>6, LoadTypes
  <2>3. PanelTypes'
    BY <1>1, <1>2, <1>3, <2>2 DEF PanelTypes, GitFor
  <2>. QED  BY <1>2, <2>1, <2>3 DEF PanelsInv
<1>. QED  BY <1>4, <1>5, <1>6

LEMMA PanelsStep == ASSUME PanelsInv, [PanelsNext]_panelVars PROVE PanelsInv'
<1>1. CASE PanelsNext
  BY <1>1, AppliedKeeps, PanelSwitchKeeps, AnswersKeep, OtherPanelsKeep DEF PanelsNext
<1>2. CASE UNCHANGED panelVars
  BY <1>2
     DEF panelVars, PanelsInv, PanelTypes, GitFor, PointTypes, NewestIsHere, MemFetches,
         MemoryBelongsHere
<1>. QED  BY <1>1, <1>2

LEMMA PanelsInvTypes == PanelsInv => PanelsTypeOK /\ MemoryBelongsHere
  BY DEF PanelsInv, PanelTypes, GitFor, PointTypes, PanelsTypeOK, PanelRecord

(* MemoryBelongsHere, with the types: the memory that every prompt carries *)
(* is the one of the workspace on screen, however answers of other         *)
(* workspaces overtake each other (the race guard of useCoderMemory).      *)
THEOREM PanelsInvariant == PanelsSpec => [](PanelsTypeOK /\ MemoryBelongsHere)
  BY PanelsStart, PanelsStep, PanelsInvTypes, PTL DEF PanelsSpec

-----------------------------------------------------------------------------
(* The context of a prompt.                                                *)

Entries == [dir : Chats, in : Chats]
Errands == [dir : Chats, seq : Nat]
Waits == {r \in refreshing : r.by # ByClick}

ContextParts == [dirs : SUBSET Chats, follows : Chats \cup {NoChat}]
Refreshes ==
  [by : Nat, click : Nat, at : {"map", "rules", "skills", "files"}, unread : SUBSET Followable,
   got : ContextParts]

ContextTypes ==
  /\ {viewed, served} \subseteq Chats /\ asked \in Chats \cup {NoChat}
  /\ repoint \in [applied : Chats, seq : Nat, pending : BOOLEAN]
  /\ repoints \in Seq(Errands)
  /\ commands \in Seq(Entries)
  /\ ctxRun \in [no : Nat, pin : Chats \cup {NoChat}, from : Chats \cup {NoChat},
                 at : {"queued", "detecting", "refreshing", "work", "over"}]
  /\ (ctxRun.at = "over" <=> Unpinned) /\ (~Unpinned => ctxRun.from \in Chats)
  /\ boundPaths \in [Chats -> SUBSET Followable] /\ ctxClicks \in Nat
  /\ refreshing \subseteq Refreshes

(* At most one refresh is waited for, by the last run, and only while that *)
(* run waits; the context names no run still to come.                      *)
WaitsInv ==
  /\ \A r \in refreshing : r.by \in {ByClick, ctxRun.no}
  /\ \A r, s \in Waits : r = s
  /\ Waits # {} => ctxRun.at = "refreshing"
  /\ ~Unpinned => ctxRun.no > 0
  /\ codebase.by \in 0..ctxRun.no
  /\ ctxRun.at \in {"queued", "detecting"} => codebase.by # ctxRun.no

(* Where the control plane will be once all re-points are answered, if     *)
(* none is refused or skipped: with the run, or with the user.             *)
Destination == IF repoints = <<>> THEN served ELSE repoints[Len(repoints)].dir
Goal == IF Unpinned THEN viewed ELSE ctxRun.pin
Settled == ctxRun.at \in {"detecting", "refreshing", "work"}
QueueInv ==
  /\ repoints = <<>> /\ astray = {} => repoint.applied = served
  /\ repoints # <<>> => repoints[Len(repoints)].seq = repoint.seq
  /\ astray = {} => Destination = Goal
  /\ Settled => repoints = <<>>

(* The conversation whose commands are known to be its own: the run's once *)
(* it has detected them, and after a question the one that waits.          *)
Origin ==
  IF Unpinned THEN asked
  ELSE IF ctxRun.from # ctxRun.pin \/ ctxRun.at \in {"refreshing", "work"} THEN ctxRun.pin
  ELSE NoChat
CommandsInv ==
  astray = {} => \A i \in DOMAIN commands : commands[i].dir = Origin => commands[i].in = Origin

(* What the run's refresh has collected so far is of the run's directory.  *)
PartsOf(r) ==
  /\ r.at = "files" => r.got.follows = ctxRun.pin
  /\ astray = {} => r.got.dirs \subseteq {ctxRun.pin}
RefreshInv == \A r \in Waits : PartsOf(r)

ContextInv ==
  ContextTypes /\ WaitsInv /\ QueueInv /\ CommandsInv /\ RefreshInv /\ ContextIsTheRuns

LEMMA ContextStart == ContextInit => ContextInv
<1>. SUFFICES ASSUME ContextInit PROVE ContextInv
  OBVIOUS
<1>1. viewed \in Chats
  BY ContextAssumption DEF ContextInit
<1>2. ContextTypes
  <2>1. repoints \in Seq(Errands) /\ commands \in Seq(Entries)
    BY DEF ContextInit
  <2>2. ctxRun \in [no : Nat, pin : Chats \cup {NoChat}, from : Chats \cup {NoChat},
                    at : {"queued", "detecting", "refreshing", "work", "over"}]
    BY DEF ContextInit
  <2>. QED  BY <1>1, <2>1, <2>2 DEF ContextInit, ContextTypes, Unpinned
<1>3. WaitsInv
  BY DEF ContextInit, WaitsInv, Waits, Unpinned, ByClick
<1>4. QueueInv
  BY DEF ContextInit, QueueInv, Destination, Goal, Settled, Unpinned
<1>5. CommandsInv
  BY DEF ContextInit, CommandsInv
<1>6. RefreshInv /\ ContextIsTheRuns
  BY DEF ContextInit, RefreshInv, Waits, ContextIsTheRuns, Unpinned
<1>. QED  BY <1>2, <1>3, <1>4, <1>5, <1>6 DEF ContextInv

-----------------------------------------------------------------------------
(* The re-points.                                                          *)

LEMMA LastAppended ==
  ASSUME NEW S, NEW s \in Seq(S), NEW e \in S
  PROVE  LET t == Append(s, e) IN t \in Seq(S) /\ t # <<>> /\ t[Len(t)] = e
<1>1. Append(s, e) \in Seq(S) /\ Len(Append(s, e)) = Len(s) + 1 /\ Append(s, e)[Len(s) + 1] = e
  BY AppendProperties
<1>2. Len(s) \in Nat
  BY LenProperties
<1>3. Append(s, e) # <<>>
  BY <1>1, <1>2, EmptySeq
<1>. QED  BY <1>1, <1>3

LEMMA LastOfTail ==
  ASSUME NEW S, NEW s \in Seq(S), s # <<>>
  PROVE  /\ Tail(s) \in Seq(S) /\ Head(s) \in S
         /\ Tail(s) = <<>> => Head(s) = s[Len(s)]
         /\ Tail(s) # <<>> => Tail(s)[Len(Tail(s))] = s[Len(s)]
<1>1. /\ Tail(s) \in Seq(S) /\ Head(s) \in S /\ Head(s) = s[1]
      /\ Len(Tail(s)) = Len(s) - 1 /\ \A i \in 1..Len(Tail(s)) : Tail(s)[i] = s[i + 1]
  BY HeadTailProperties
<1>2. Len(s) \in Nat /\ Len(Tail(s)) \in Nat /\ (Len(Tail(s)) = 0 <=> Tail(s) = <<>>)
  BY <1>1, LenProperties, EmptySeq
<1>3. CASE Tail(s) = <<>>
  BY <1>1, <1>2, <1>3
<1>4. CASE Tail(s) # <<>>
  <2>1. Len(Tail(s)) \in 1..Len(Tail(s)) /\ Len(Tail(s)) + 1 = Len(s)
    BY <1>1, <1>2, <1>4
  <2>. QED  BY <1>1, <1>4, <2>1
<1>. QED  BY <1>1, <1>3, <1>4

(* A re-point, or none where one is skipped, leads to its directory.       *)
LEMMA RepointLeads ==
  ASSUME ContextTypes, QueueInv, NEW dir \in Chats, Repoint(dir)
  PROVE  /\ served' = served
         /\ repoint' \in [applied : Chats, seq : Nat, pending : BOOLEAN] /\ repoints' \in Seq(Errands)
         /\ repoints' = <<>> /\ astray' = {} => repoint'.applied = served'
         /\ repoints' # <<>> => repoints'[Len(repoints')].seq = repoint'.seq
         /\ astray' = {} => astray = {} /\ Destination' = dir
<1>1. CASE repoint.applied = dir /\ ~repoint.pending
  BY <1>1 DEF Repoint, ContextTypes, QueueInv, Destination
<1>2. CASE ~(repoint.applied = dir /\ ~repoint.pending)
  <2>1. /\ repoint' = [repoint EXCEPT !.seq = @ + 1, !.pending = TRUE]
        /\ repoints' = Append(repoints, [dir |-> dir, seq |-> repoint.seq + 1])
        /\ UNCHANGED <<served, astray>>
    BY <1>2 DEF Repoint
  <2>2. repoint' \in [applied : Chats, seq : Nat, pending : BOOLEAN] /\ repoint'.seq = repoint.seq + 1
    <3>1. repoint.applied \in Chats /\ repoint.seq \in Nat /\ DOMAIN repoint = {"applied", "seq", "pending"}
      BY DEF ContextTypes
    <3>2. repoint' = [applied |-> repoint.applied, seq |-> repoint.seq + 1, pending |-> TRUE]
      BY <2>1, <3>1
    <3>. QED  BY <3>1, <3>2
  <2>. DEFINE e == [dir |-> dir, seq |-> repoint.seq + 1]
  <2>3. e \in Errands /\ repoints \in Seq(Errands)
    BY DEF ContextTypes, Errands
  <2>4. repoints' \in Seq(Errands) /\ repoints' # <<>> /\ repoints'[Len(repoints')] = e
    BY <2>1, <2>3, LastAppended
  <2>. QED  BY <2>1, <2>2, <2>4 DEF Destination
<1>. QED  BY <1>1, <1>2

LEMMA RepointedKeeps == ASSUME ContextInv, Repointed PROVE ContextInv'
<1>. ContextTypes /\ WaitsInv /\ QueueInv /\ CommandsInv /\ RefreshInv /\ ContextIsTheRuns
  BY DEF ContextInv
<1>. DEFINE last == repoints[Len(repoints)]
<1>1. /\ repoints \in Seq(Errands) /\ repoints # <<>> /\ repoints' = Tail(repoints)
      /\ UNCHANGED <<viewed, boundPaths, asked, ctxRun, commands, refreshing, codebase, ctxClicks>>
  BY DEF Repointed, ContextTypes
<1>2. /\ repoints' \in Seq(Errands) /\ Head(repoints) \in Errands
      /\ repoints' = <<>> => Head(repoints) = last
      /\ repoints' # <<>> => repoints'[Len(repoints')] = last
  BY <1>1, LastOfTail
<1>3. /\ served' \in Chats /\ repoint' \in [applied : Chats, seq : Nat, pending : BOOLEAN]
      /\ repoint'.seq = repoint.seq
      /\ Head(repoints).seq = repoint.seq => repoint'.applied = Head(repoints).dir
      /\ astray' = {} => astray = {} /\ served' = Head(repoints).dir
  BY <1>2 DEF Repointed, ContextTypes, Errands
<1>4. last.seq = repoint.seq
  BY <1>1 DEF QueueInv
<1>5. astray' = {} => Destination' = last.dir /\ Destination = last.dir
  BY <1>1, <1>2, <1>3 DEF Destination
<1>. HIDE DEF last
<1>6. ContextTypes'
  BY <1>1, <1>2, <1>3 DEF ContextTypes, Unpinned
<1>7. QueueInv'
  <2>1. repoints' = <<>> /\ astray' = {} => repoint'.applied = served'
    BY <1>2, <1>3, <1>4
  <2>2. repoints' # <<>> => repoints'[Len(repoints')].seq = repoint'.seq
    BY <1>2, <1>3, <1>4
  <2>3. astray' = {} => Destination' = Goal'
    BY <1>1, <1>3, <1>5 DEF QueueInv, Goal, Unpinned
  <2>4. ~Settled /\ Settled' = Settled
    BY <1>1 DEF QueueInv, Settled
  <2>. QED  BY <2>1, <2>2, <2>3, <2>4 DEF QueueInv
<1>8. CommandsInv' /\ RefreshInv' /\ ContextIsTheRuns' /\ WaitsInv'
  BY <1>1, <1>3 DEF CommandsInv, RefreshInv, ContextIsTheRuns, WaitsInv, PartsOf, Waits,
     Origin, Unpinned
<1>. QED  BY <1>6, <1>7, <1>8 DEF ContextInv

-----------------------------------------------------------------------------
(* What the user does, and how a run begins and ends.                      *)

LEMMA EntriesAre ==
  ASSUME ContextTypes
  PROVE  \A i \in DOMAIN commands : commands[i] \in Entries /\ commands[i].dir # NoChat
<1>1. \A i \in DOMAIN commands : commands[i] \in Entries
  BY LenProperties, ElementOfSeq DEF ContextTypes
<1>. QED  BY <1>1, ContextAssumption DEF Entries, NoChat

(* A run that has passed its wait is where its conversation works.         *)
LEMMA ServedIsThePin ==
  ASSUME ContextInv, Settled, astray = {}
  PROVE  served = ctxRun.pin /\ ctxRun.pin \in Chats
  BY DEF ContextInv, QueueInv, Settled, Destination, Goal, ContextTypes, Unpinned

LEMMA ViewKeeps == ASSUME ContextInv, ViewChat PROVE ContextInv'
<1>. ContextTypes /\ WaitsInv /\ QueueInv /\ CommandsInv /\ RefreshInv /\ ContextIsTheRuns
  BY DEF ContextInv
<1>1. PICK c \in Chats : viewed' = c /\ IF Unpinned THEN Repoint(c) ELSE UNCHANGED servedVars
  BY DEF ViewChat
<1>2. UNCHANGED <<boundPaths, asked, ctxRun, commands, refreshing, codebase, ctxClicks>>
  BY DEF ViewChat
<1>3. Unpinned' = Unpinned /\ Settled' = Settled /\ (Settled => ~Unpinned)
  BY <1>2 DEF Unpinned, Settled, ContextTypes
<1>4. /\ served' = served
      /\ repoint' \in [applied : Chats, seq : Nat, pending : BOOLEAN] /\ repoints' \in Seq(Errands)
      /\ repoints' = <<>> /\ astray' = {} => repoint'.applied = served'
      /\ repoints' # <<>> => repoints'[Len(repoints')].seq = repoint'.seq
      /\ astray' = {} => astray = {} /\ Destination' = Goal'
      /\ Settled => repoints' = <<>>
  <2>1. CASE Unpinned
    BY <1>1, <1>2, <1>3, <2>1, RepointLeads DEF Goal
  <2>2. CASE ~Unpinned
    <3>1. UNCHANGED <<served, repoint, repoints, astray>>
      BY <1>1, <2>2 DEF servedVars
    <3>. QED  BY <1>1, <1>2, <1>3, <2>2, <3>1 DEF Goal, Destination, QueueInv, ContextTypes
  <2>. QED  BY <2>1, <2>2
<1>5. ContextTypes'
  BY <1>1, <1>2, <1>3, <1>4 DEF ContextTypes
<1>6. QueueInv'
  BY <1>3, <1>4 DEF QueueInv
<1>7. CommandsInv' /\ RefreshInv' /\ ContextIsTheRuns' /\ WaitsInv'
  BY <1>2, <1>4 DEF CommandsInv, RefreshInv, ContextIsTheRuns, WaitsInv, PartsOf, Waits,
     Origin, Unpinned
<1>. QED  BY <1>5, <1>6, <1>7 DEF ContextInv

(* Refreshes that nobody waits for come and go unnoticed.                  *)
LEMMA ClickKeeps == ASSUME ContextInv, FollowPaths \/ RefreshAfterGit PROVE ContextInv'
<1>. ContextTypes /\ WaitsInv /\ QueueInv /\ CommandsInv /\ RefreshInv /\ ContextIsTheRuns
  BY DEF ContextInv
<1>1. /\ UNCHANGED <<viewed, served, repoint, repoints, astray, asked, ctxRun, commands, codebase>>
      /\ ctxClicks' = ctxClicks + 1 /\ BeginRefresh(ByClick, ctxClicks')
      /\ boundPaths' \in [Chats -> SUBSET Followable]
  BY DEF FollowPaths, RefreshAfterGit, servedVars, CtxClick, ContextTypes
<1>2. refreshing' = refreshing \cup
        {[by |-> ByClick, click |-> ctxClicks + 1, at |-> "map", unread |-> {}, got |-> NoParts]}
  BY <1>1 DEF BeginRefresh
<1>3. Waits' = Waits /\ refreshing' \subseteq Refreshes
  BY <1>2 DEF Waits, Refreshes, ContextParts, NoParts, ByClick, ContextTypes
<1>4. ContextTypes'
  BY <1>1, <1>3 DEF ContextTypes, Unpinned
<1>5. QueueInv' /\ CommandsInv' /\ ContextIsTheRuns'
  BY <1>1 DEF QueueInv, Destination, Goal, Settled, CommandsInv, ContextIsTheRuns, Origin, Unpinned
<1>6. RefreshInv'
  BY <1>1, <1>3 DEF RefreshInv, PartsOf
<1>7. WaitsInv'
  BY <1>1, <1>2, <1>3 DEF WaitsInv, Unpinned
<1>. QED  BY <1>4, <1>5, <1>6, <1>7 DEF ContextInv

LEMMA SubmitKeeps == ASSUME ContextInv, SubmitPrompt PROVE ContextInv'
<1>. ContextTypes /\ WaitsInv /\ QueueInv /\ CommandsInv /\ RefreshInv /\ ContextIsTheRuns
  BY DEF ContextInv
<1>1. /\ Unpinned /\ asked' = NoChat
      /\ UNCHANGED <<boundPaths, commands, refreshing, codebase, ctxClicks>>
  BY DEF SubmitPrompt
<1>2. PICK chat \in Chats :
        /\ ctxRun' = [no |-> ctxRun.no + 1, pin |-> chat, from |-> viewed, at |-> "queued"]
        /\ viewed' = chat
        /\ chat = viewed \/ chat = asked
        /\ (chat = viewed /\ UNCHANGED servedVars) \/ Repoint(chat)
  BY DEF SubmitPrompt, PinRun, ContextTypes
<1>3. /\ ~Unpinned' /\ ~Settled' /\ Goal' = chat /\ viewed \in Chats
      /\ chat # NoChat
  BY <1>2, ContextAssumption DEF Unpinned, Settled, Goal, ContextTypes, NoChat
<1>4. /\ served' = served
      /\ repoint' \in [applied : Chats, seq : Nat, pending : BOOLEAN] /\ repoints' \in Seq(Errands)
      /\ repoints' = <<>> /\ astray' = {} => repoint'.applied = served'
      /\ repoints' # <<>> => repoints'[Len(repoints')].seq = repoint'.seq
      /\ astray' = {} => astray = {} /\ Destination' = chat
  <2>1. CASE chat = viewed /\ UNCHANGED servedVars
    BY <1>1, <2>1 DEF servedVars, ContextTypes, QueueInv, Destination, Goal
  <2>2. CASE Repoint(chat)
    BY <2>2, RepointLeads
  <2>. QED  BY <1>2, <2>1, <2>2
<1>5. ContextTypes'
  <2>1. ctxRun' \in [no : Nat, pin : Chats \cup {NoChat}, from : Chats \cup {NoChat},
                     at : {"queued", "detecting", "refreshing", "work", "over"}]
    BY <1>2, <1>3 DEF ContextTypes
  <2>2. (ctxRun'.at = "over" <=> Unpinned') /\ ctxRun'.from \in Chats
    BY <1>2, <1>3
  <2>. QED  BY <1>1, <1>2, <1>4, <2>1, <2>2 DEF ContextTypes
<1>6. WaitsInv'
  <2>1. Waits = {} /\ Waits' = Waits
    BY <1>1 DEF WaitsInv, ContextTypes, Waits
  <2>2. /\ ctxRun'.no = ctxRun.no + 1 /\ ctxRun.no \in Nat /\ codebase'.by \in 0..ctxRun.no
        /\ codebase' = codebase
    BY <1>1, <1>2 DEF WaitsInv, ContextTypes
  <2>3. \A r \in refreshing' : r.by = ByClick
    BY <1>1, <2>1 DEF Waits
  <2>. QED  BY <2>1, <2>2, <2>3 DEF WaitsInv
<1>7. QueueInv'
  BY <1>3, <1>4 DEF QueueInv
<1>8. CommandsInv'
  <2>1. CASE chat = viewed
    <3>1. Origin' = NoChat
      BY <1>2, <1>3, <2>1 DEF Origin
    <3>2. \A i \in DOMAIN commands' : commands'[i].dir # NoChat
      BY <1>1, EntriesAre
    <3>. QED  BY <3>1, <3>2 DEF CommandsInv
  <2>2. CASE chat # viewed
    <3>1. Origin' = chat /\ Origin = chat
      BY <1>1, <1>2, <1>3, <2>2 DEF Origin
    <3>. QED  BY <1>1, <1>4, <3>1 DEF CommandsInv
  <2>. QED  BY <2>1, <2>2
<1>9. RefreshInv' /\ ContextIsTheRuns'
  <2>1. Waits' = {}
    BY <1>1 DEF WaitsInv, ContextTypes, Waits
  <2>2. codebase'.by # ctxRun'.no
    BY <1>1, <1>2 DEF WaitsInv, ContextTypes
  <2>. QED  BY <2>1, <2>2 DEF RefreshInv, ContextIsTheRuns
<1>. QED  BY <1>5, <1>6, <1>7, <1>8, <1>9 DEF ContextInv

LEMMA LeaveKeeps == ASSUME ContextInv, RunLeaves PROVE ContextInv'
<1>. ContextTypes /\ WaitsInv /\ QueueInv /\ CommandsInv /\ RefreshInv /\ ContextIsTheRuns
  BY DEF ContextInv
<1>1. /\ ctxRun.at = "work" /\ Settled /\ ~Unpinned
      /\ UNCHANGED <<viewed, boundPaths, commands, refreshing, codebase, ctxClicks>>
  BY DEF RunLeaves, Settled, ContextTypes
<1>2. Waits = {} /\ Waits' = {} /\ RefreshInv' /\ \A r \in refreshing' : r.by = ByClick
  BY <1>1 DEF WaitsInv, Waits, RefreshInv
<1>3. CASE /\ asked' \in {NoChat, ctxRun.pin} /\ Repoint(viewed)
           /\ ctxRun' = [ctxRun EXCEPT !.pin = NoChat, !.at = "over"]
  <2>1. /\ ctxRun' \in [no : Nat, pin : Chats \cup {NoChat}, from : Chats \cup {NoChat},
                        at : {"queued", "detecting", "refreshing", "work", "over"}]
        /\ ctxRun'.no = ctxRun.no /\ ctxRun'.pin = NoChat /\ ctxRun'.at = "over"
    BY <1>3 DEF ContextTypes
  <2>2. Unpinned' /\ ~Settled' /\ Goal' = viewed /\ viewed \in Chats
    BY <1>1, <2>1 DEF Unpinned, Settled, Goal, ContextTypes
  <2>3. /\ served' = served
        /\ repoint' \in [applied : Chats, seq : Nat, pending : BOOLEAN] /\ repoints' \in Seq(Errands)
        /\ repoints' = <<>> /\ astray' = {} => repoint'.applied = served'
        /\ repoints' # <<>> => repoints'[Len(repoints')].seq = repoint'.seq
        /\ astray' = {} => astray = {} /\ Destination' = viewed
    BY <1>3, <2>2, RepointLeads
  <2>4. ContextTypes'
    BY <1>1, <1>3, <2>1, <2>2, <2>3 DEF ContextTypes
  <2>5. WaitsInv'
    BY <1>1, <1>2, <2>1, <2>2 DEF WaitsInv
  <2>6. CommandsInv'
    <3>1. Origin' = asked' /\ Origin = ctxRun.pin
      BY <1>1, <2>2 DEF Origin
    <3>2. \A i \in DOMAIN commands' : commands'[i].dir # NoChat
      BY <1>1, EntriesAre
    <3>. QED  BY <1>1, <1>3, <2>3, <3>1, <3>2 DEF CommandsInv
  <2>7. QueueInv' /\ ContextIsTheRuns'
    BY <2>2, <2>3 DEF QueueInv, ContextIsTheRuns
  <2>. QED  BY <1>2, <2>4, <2>5, <2>6, <2>7 DEF ContextInv
<1>4. CASE PinRun(ctxRun.pin, ctxRun.from) /\ UNCHANGED <<asked, servedVars>>
  <2>1. /\ ctxRun' = [no |-> ctxRun.no + 1, pin |-> ctxRun.pin, from |-> ctxRun.from, at |-> "queued"]
        /\ UNCHANGED <<served, repoint, repoints, astray>>
    BY <1>4 DEF PinRun, servedVars
  <2>2. ~Unpinned' /\ ~Settled' /\ Goal' = Goal /\ Destination' = Destination
    BY <1>1, <2>1 DEF Unpinned, Settled, Goal, Destination
  <2>3. ContextTypes'
    <3>1. ctxRun' \in [no : Nat, pin : Chats \cup {NoChat}, from : Chats \cup {NoChat},
                       at : {"queued", "detecting", "refreshing", "work", "over"}]
      BY <2>1 DEF ContextTypes
    <3>2. (ctxRun'.at = "over" <=> Unpinned') /\ ctxRun'.from \in Chats
      BY <1>1, <2>1, <2>2 DEF ContextTypes
    <3>. QED  BY <1>1, <1>4, <2>1, <3>1, <3>2 DEF ContextTypes
  <2>4. WaitsInv' /\ ContextIsTheRuns'
    <3>1. /\ ctxRun'.no = ctxRun.no + 1 /\ ctxRun.no \in Nat /\ codebase'.by \in 0..ctxRun.no
          /\ codebase' = codebase
      BY <1>1, <2>1 DEF WaitsInv, ContextTypes
    <3>. QED  BY <1>2, <3>1 DEF WaitsInv, ContextIsTheRuns
  <2>5. QueueInv'
    BY <2>1, <2>2 DEF QueueInv
  <2>6. CommandsInv'
    <3>1. Origin' \in {NoChat, ctxRun.pin} /\ Origin = ctxRun.pin
      BY <1>1, <2>1, <2>2 DEF Origin
    <3>2. \A i \in DOMAIN commands' : commands'[i].dir # NoChat
      BY <1>1, EntriesAre
    <3>. QED  BY <1>1, <2>1, <3>1, <3>2 DEF CommandsInv
  <2>. QED  BY <1>2, <2>3, <2>4, <2>5, <2>6 DEF ContextInv
<1>. QED  BY <1>3, <1>4 DEF RunLeaves

-----------------------------------------------------------------------------
(* A run on its way to its context.                                        *)

(* The run goes on to another place, with the re-points as they are.       *)
LEMMA RunGoesOn ==
  ASSUME ContextInv, ~Unpinned,
         NEW place \in {"queued", "detecting", "refreshing", "work"},
         ctxRun' = [ctxRun EXCEPT !.at = place],
         UNCHANGED <<viewed, boundPaths, served, repoint, repoints, astray, asked, ctxClicks>>,
         place # "queued" => repoints = <<>>,
         commands' \in Seq(Entries), refreshing' \subseteq Refreshes
  PROVE  /\ ContextTypes' /\ QueueInv' /\ ~Unpinned'
         /\ ctxRun'.no = ctxRun.no /\ ctxRun'.pin = ctxRun.pin /\ ctxRun'.from = ctxRun.from
         /\ ctxRun'.at = place /\ ctxRun.no > 0
<1>. ContextTypes /\ WaitsInv /\ QueueInv
  BY DEF ContextInv
<1>1. /\ ctxRun' \in [no : Nat, pin : Chats \cup {NoChat}, from : Chats \cup {NoChat},
                      at : {"queued", "detecting", "refreshing", "work", "over"}]
      /\ ctxRun'.no = ctxRun.no /\ ctxRun'.pin = ctxRun.pin /\ ctxRun'.from = ctxRun.from
      /\ ctxRun'.at = place
  BY DEF ContextTypes
<1>2. ~Unpinned' /\ Goal' = Goal /\ Destination' = Destination
  BY <1>1 DEF Unpinned, Goal, Destination
<1>3. QueueInv'
  BY <1>1, <1>2 DEF QueueInv, Settled
<1>4. ContextTypes'
  BY <1>1, <1>2 DEF ContextTypes
<1>. QED  BY <1>1, <1>2, <1>3, <1>4 DEF WaitsInv

LEMMA AwaitedKeeps == ASSUME ContextInv, QueueAwaited PROVE ContextInv'
<1>. ContextTypes /\ WaitsInv /\ QueueInv /\ CommandsInv /\ RefreshInv /\ ContextIsTheRuns
  BY DEF ContextInv
<1>1. /\ ctxRun.at = "queued" /\ ~Unpinned /\ repoints = <<>>
      /\ ctxRun' = [ctxRun EXCEPT !.at = "detecting"]
      /\ UNCHANGED <<viewed, boundPaths, served, repoint, repoints, astray, asked, refreshing, codebase, ctxClicks>>
  BY DEF QueueAwaited, servedVars, ContextTypes
<1>2. commands' = commands \/ (commands # <<>> /\ commands' = Tail(commands))
  <2>1. CASE Len(commands) >= CommandsKept /\ \A i \in DOMAIN commands : commands[i].dir # ctxRun.from
    <3>1. CASE commands = <<>>
      BY <2>1, <3>1 DEF QueueAwaited
    <3>. QED  BY <2>1, <3>1 DEF QueueAwaited
  <2>. QED  BY <2>1 DEF QueueAwaited
<1>3. /\ commands' \in Seq(Entries)
      /\ \A i \in DOMAIN commands' : \E j \in DOMAIN commands : commands'[i] = commands[j]
  <2>1. CASE commands # <<>> /\ commands' = Tail(commands)
    <3>1. /\ commands' \in Seq(Entries) /\ Len(commands') = Len(commands) - 1
          /\ \A i \in 1..Len(commands') : commands'[i] = commands[i + 1]
      BY <2>1, HeadTailProperties DEF ContextTypes
    <3>2. Len(commands) \in Nat /\ DOMAIN commands = 1..Len(commands) /\ DOMAIN commands' = 1..Len(commands')
      BY <3>1, LenProperties DEF ContextTypes
    <3>3. \A i \in 1..Len(commands') : (i + 1) \in 1..Len(commands)
      BY <3>1, <3>2
    <3>. QED  BY <3>1, <3>2, <3>3
  <2>2. CASE commands' = commands
    BY <2>2 DEF ContextTypes
  <2>. QED  BY <1>2, <2>1, <2>2
<1>4. /\ ContextTypes' /\ QueueInv' /\ ~Unpinned'
      /\ ctxRun'.no = ctxRun.no /\ ctxRun'.pin = ctxRun.pin /\ ctxRun'.from = ctxRun.from
      /\ ctxRun'.at = "detecting"
  BY <1>1, <1>3, RunGoesOn DEF ContextTypes
<1>5. CommandsInv'
  <2>1. Origin' = Origin
    BY <1>1, <1>4 DEF Origin
  <2>. QED  BY <1>1, <1>3, <2>1 DEF CommandsInv
<1>6. Waits = {} /\ Waits' = {} /\ RefreshInv' /\ \A r \in refreshing' : r.by = ByClick
  BY <1>1 DEF WaitsInv, Waits, RefreshInv
<1>7. WaitsInv' /\ ContextIsTheRuns'
  BY <1>1, <1>4, <1>6 DEF WaitsInv, ContextIsTheRuns
<1>. QED  BY <1>4, <1>5, <1>6, <1>7 DEF ContextInv

(* A refresh that the run waits for begins with nothing collected.         *)
LEMMA RunRefreshes ==
  ASSUME ContextInv, ~Unpinned, ctxRun.at \in {"detecting", "work"}, BeginRefresh(ctxRun.no, ctxClicks),
         ctxRun' = [ctxRun EXCEPT !.at = "refreshing"],
         UNCHANGED <<viewed, boundPaths, served, repoint, repoints, astray, asked, codebase, ctxClicks>>,
         commands' \in Seq(Entries), CommandsInv'
  PROVE  ContextInv'
<1>. ContextTypes /\ WaitsInv /\ QueueInv /\ RefreshInv /\ ContextIsTheRuns
  BY DEF ContextInv
<1>. DEFINE new == [by |-> ctxRun.no, click |-> ctxClicks, at |-> "map", unread |-> {}, got |-> NoParts]
<1>1. refreshing' = refreshing \cup {new}
  BY DEF BeginRefresh
<1>2. /\ new \in Refreshes /\ new.by = ctxRun.no /\ ctxRun.no # ByClick
      /\ \A r \in {new} : PartsOf(r)'
  <2>1. NoParts \in ContextParts /\ ctxRun.no \in Nat /\ ctxRun.no > 0
    BY DEF NoParts, ContextParts, WaitsInv, ContextTypes
  <2>. QED  BY <2>1 DEF Refreshes, ContextTypes, PartsOf, NoParts, ByClick
<1>. HIDE DEF new
<1>3. /\ ContextTypes' /\ QueueInv' /\ ~Unpinned'
      /\ ctxRun'.no = ctxRun.no /\ ctxRun'.pin = ctxRun.pin /\ ctxRun'.from = ctxRun.from
      /\ ctxRun'.at = "refreshing"
  <2>1. repoints = <<>>
    BY DEF QueueInv, Settled
  <2>. QED  BY <1>1, <1>2, <2>1, RunGoesOn DEF ContextTypes
<1>4. Waits = {} /\ Waits' = {new} /\ \A r \in refreshing : r.by = ByClick
  BY <1>1, <1>2 DEF WaitsInv, Waits
<1>5. RefreshInv'
  BY <1>2, <1>4 DEF RefreshInv
<1>6. WaitsInv'
  BY <1>1, <1>2, <1>3, <1>4 DEF WaitsInv
<1>7. ContextIsTheRuns'
  <2>1. CASE ctxRun.at = "detecting"
    BY <1>3, <2>1 DEF WaitsInv, ContextIsTheRuns
  <2>2. CASE ctxRun.at = "work"
    BY <1>3, <2>2 DEF ContextIsTheRuns
  <2>. QED  BY <2>1, <2>2
<1>. QED  BY <1>3, <1>5, <1>6, <1>7 DEF ContextInv

LEMMA DetectedKeeps == ASSUME ContextInv, CommandsDetected PROVE ContextInv'
<1>. ContextTypes /\ WaitsInv /\ QueueInv /\ CommandsInv
  BY DEF ContextInv
<1>. DEFINE e == [dir |-> ctxRun.from, in |-> served]
<1>1. /\ ctxRun.at = "detecting" /\ ~Unpinned /\ BeginRefresh(ctxRun.no, ctxClicks)
      /\ ctxRun' = [ctxRun EXCEPT !.at = "refreshing"]
      /\ UNCHANGED <<viewed, boundPaths, served, repoint, repoints, astray, asked, codebase, ctxClicks>>
  BY DEF CommandsDetected, servedVars, ContextTypes
<1>2. ctxRun.from \in Chats /\ served \in Chats /\ e \in Entries /\ commands \in Seq(Entries)
  BY <1>1 DEF ContextTypes, Entries
<1>3. /\ commands' \in Seq(Entries)
      /\ \A i \in DOMAIN commands' : \/ commands'[i] = e
                                     \/ /\ commands'[i].dir # ctxRun.from
                                        /\ \E j \in DOMAIN commands : commands'[i] = commands[j]
  <2>1. DOMAIN commands = 1..Len(commands) /\ Len(commands) \in Nat
        /\ \A i \in DOMAIN commands : commands[i] \in Entries
    BY EntriesAre, LenProperties, <1>2
  <2>2. CASE \E i \in DOMAIN commands : commands[i].dir = ctxRun.from
    <3>1. commands' = [i \in DOMAIN commands |->
                         IF commands[i].dir = ctxRun.from THEN [commands[i] EXCEPT !.in = served]
                         ELSE commands[i]]
      BY <2>2 DEF CommandsDetected
    <3>2. ASSUME NEW i \in DOMAIN commands, commands[i].dir = ctxRun.from
          PROVE  [commands[i] EXCEPT !.in = served] = e
      BY <2>1, <3>2 DEF Entries
    <3>3. \A i \in DOMAIN commands :
             commands'[i] = IF commands[i].dir = ctxRun.from THEN e ELSE commands[i]
      BY <3>1, <3>2
    <3>4. DOMAIN commands' = 1..Len(commands)
      BY <2>1, <3>1
    <3>. HIDE DEF e
    <3>5. commands' \in [1..Len(commands) -> Entries]
      BY <1>2, <2>1, <3>1, <3>3, <3>4
    <3>6. commands' \in Seq(Entries)
      BY <2>1, <3>5, SeqDef
    <3>. QED  BY <2>1, <3>3, <3>4, <3>6
  <2>3. CASE ~\E i \in DOMAIN commands : commands[i].dir = ctxRun.from
    <3>1. commands' = Append(commands, e)
      BY <2>3 DEF CommandsDetected
    <3>. HIDE DEF e
    <3>2. /\ commands' \in Seq(Entries) /\ Len(commands') = Len(commands) + 1
          /\ commands'[Len(commands) + 1] = e /\ \A i \in 1..Len(commands) : commands'[i] = commands[i]
      BY <1>2, <3>1, AppendProperties
    <3>3. DOMAIN commands' = 1..(Len(commands) + 1)
      BY <3>2, LenProperties
    <3>4. \A i \in DOMAIN commands' : i = Len(commands) + 1 \/ i \in DOMAIN commands
      BY <2>1, <3>3
    <3>. QED  BY <2>1, <2>3, <3>2, <3>4
  <2>. QED  BY <2>2, <2>3
<1>4. CommandsInv'
  <2>1. ctxRun'.pin = ctxRun.pin /\ ctxRun'.from = ctxRun.from /\ ctxRun'.at = "refreshing"
    BY <1>1 DEF ContextTypes
  <2>2. Origin' = ctxRun.pin
    BY <1>1, <2>1 DEF Origin, Unpinned
  <2>3. ASSUME astray = {}, NEW i \in DOMAIN commands', commands'[i].dir = ctxRun.pin
        PROVE  commands'[i].in = ctxRun.pin
    <3>1. served = ctxRun.pin
      BY <1>1, <2>3, ServedIsThePin DEF Settled
    <3>2. CASE commands'[i] = e
      BY <3>1, <3>2
    <3>3. CASE /\ commands'[i].dir # ctxRun.from
               /\ \E j \in DOMAIN commands : commands'[i] = commands[j]
      <4>1. Origin = ctxRun.pin
        BY <1>1, <2>3, <3>3 DEF Origin
      <4>. QED  BY <2>3, <3>3, <4>1 DEF CommandsInv
    <3>. QED  BY <1>3, <3>2, <3>3
  <2>. QED  BY <1>1, <2>2, <2>3 DEF CommandsInv
<1>. QED  BY <1>1, <1>3, <1>4, RunRefreshes

LEMMA MutatesKeeps == ASSUME ContextInv, ToolMutates PROVE ContextInv'
<1>. ContextTypes /\ CommandsInv
  BY DEF ContextInv
<1>1. /\ ctxRun.at = "work" /\ ~Unpinned /\ BeginRefresh(ctxRun.no, ctxClicks)
      /\ ctxRun' = [ctxRun EXCEPT !.at = "refreshing"]
      /\ UNCHANGED <<viewed, boundPaths, served, repoint, repoints, astray, asked, commands, codebase, ctxClicks>>
  BY DEF ToolMutates, servedVars, ContextTypes
<1>2. ctxRun'.pin = ctxRun.pin /\ ctxRun'.at = "refreshing"
  BY <1>1 DEF ContextTypes
<1>3. Origin' = Origin
  BY <1>1, <1>2 DEF Origin, Unpinned
<1>4. CommandsInv' /\ commands' \in Seq(Entries)
  BY <1>1, <1>3 DEF CommandsInv, ContextTypes
<1>. QED  BY <1>1, <1>4, RunRefreshes

-----------------------------------------------------------------------------
(* The refresh itself, one await after the other.                          *)

LEMMA RefreshStepKeeps ==
  ASSUME ContextInv, NEW r \in refreshing, MapRead(r) \/ RulesRead(r) \/ SkillsRead(r) \/ FollowedRead(r),
         UNCHANGED <<viewed, boundPaths, servedVars, asked, commands, ctxViews, ctxClicks>>
  PROVE  ContextInv'
<1>. ContextTypes /\ WaitsInv /\ QueueInv /\ CommandsInv /\ RefreshInv /\ ContextIsTheRuns
  BY DEF ContextInv
<1>1. /\ r \in Refreshes /\ r.got \in ContextParts /\ served \in Chats
      /\ UNCHANGED <<viewed, boundPaths, served, repoint, repoints, astray, asked, commands, ctxClicks>>
  BY DEF ContextTypes, Refreshes, servedVars
(* Of a run's refresh: it is the only one, and reads where the run works.  *)
<1>2. r.by # ByClick => /\ r.by = ctxRun.no /\ Waits = {r} /\ ctxRun.at = "refreshing" /\ ~Unpinned
                        /\ RefreshTarget = ctxRun.pin /\ PartsOf(r)
                        /\ astray = {} => served = ctxRun.pin
  <2>. SUFFICES ASSUME r.by # ByClick
                PROVE  /\ r.by = ctxRun.no /\ Waits = {r} /\ ctxRun.at = "refreshing" /\ ~Unpinned
                       /\ RefreshTarget = ctxRun.pin /\ PartsOf(r)
                       /\ astray = {} => served = ctxRun.pin
    OBVIOUS
  <2>1. r \in Waits
    BY DEF Waits
  <2>2. Waits = {r} /\ ctxRun.at = "refreshing" /\ r.by = ctxRun.no
    BY <2>1 DEF WaitsInv
  <2>3. ~Unpinned /\ Settled
    BY <2>2 DEF ContextTypes, Settled
  <2>. QED  BY <2>1, <2>2, <2>3, ServedIsThePin DEF RefreshTarget, RefreshInv
<1>3. ASSUME NEW next \in Refreshes, Goes(r, next), next.by = r.by, r.by # ByClick => PartsOf(next)
      PROVE  ContextInv'
  <2>1. refreshing' = (refreshing \ {r}) \cup {next} /\ UNCHANGED <<ctxRun, codebase>>
    BY <1>3 DEF Goes
  <2>2. Waits' = IF r.by = ByClick THEN Waits ELSE {next}
    BY <1>2, <1>3, <2>1 DEF Waits
  <2>3. ContextTypes'
    BY <1>1, <1>3, <2>1 DEF ContextTypes, Unpinned
  <2>4. QueueInv' /\ CommandsInv' /\ ContextIsTheRuns'
    BY <1>1, <2>1 DEF QueueInv, Destination, Goal, Settled, CommandsInv, ContextIsTheRuns,
       Origin, Unpinned
  <2>5. RefreshInv'
    BY <1>1, <1>3, <2>1, <2>2 DEF RefreshInv, PartsOf
  <2>6. WaitsInv'
    BY <1>2, <1>3, <2>1, <2>2 DEF WaitsInv, Unpinned
  <2>. QED  BY <2>3, <2>4, <2>5, <2>6 DEF ContextInv
<1>4. ASSUME NEW got \in ContextParts, Collected(r, got),
             r.by # ByClick => got.follows = ctxRun.pin /\ (astray = {} => got.dirs \subseteq {ctxRun.pin})
      PROVE  ContextInv'
  <2>1. /\ refreshing' = refreshing \ {r} /\ codebase' = [by |-> r.by, parts |-> got]
        /\ ctxRun' = IF r.by = ByClick THEN ctxRun ELSE [ctxRun EXCEPT !.at = "work"]
    BY <1>4 DEF Collected
  <2>2. CASE r.by = ByClick
    <3>1. UNCHANGED ctxRun /\ Waits' = Waits
      BY <2>1, <2>2 DEF Waits
    <3>2. ContextTypes'
      BY <1>1, <2>1, <3>1 DEF ContextTypes, Unpinned
    <3>3. QueueInv' /\ CommandsInv' /\ RefreshInv'
      BY <1>1, <3>1 DEF QueueInv, Destination, Goal, Settled, CommandsInv, Origin, Unpinned,
         RefreshInv, PartsOf
    <3>4. codebase'.by = 0 /\ ctxRun.no \in Nat /\ (~Unpinned => ctxRun.no # 0)
      BY <2>1, <2>2 DEF ByClick, WaitsInv, ContextTypes
    <3>5. WaitsInv'
      <4>1. ctxRun.at \in {"queued", "detecting"} => ~Unpinned
        BY DEF ContextTypes
      <4>2. 0 \in 0..ctxRun.no
        BY <3>4
      <4>. QED  BY <2>1, <3>1, <3>4, <4>1, <4>2 DEF WaitsInv, Unpinned
    <3>6. ContextIsTheRuns'
      BY <3>1, <3>4 DEF ContextIsTheRuns, Unpinned
    <3>. QED  BY <3>2, <3>3, <3>5, <3>6 DEF ContextInv
  <2>3. CASE r.by # ByClick
    <3>1. ctxRun' = [ctxRun EXCEPT !.at = "work"] /\ repoints = <<>>
      BY <1>2, <2>1, <2>3 DEF QueueInv, Settled
    <3>2. /\ ContextTypes' /\ QueueInv' /\ ~Unpinned'
          /\ ctxRun'.no = ctxRun.no /\ ctxRun'.pin = ctxRun.pin /\ ctxRun'.from = ctxRun.from
          /\ ctxRun'.at = "work" /\ ctxRun.no > 0
      <4>1. commands' \in Seq(Entries) /\ refreshing' \subseteq Refreshes
        BY <1>1, <2>1 DEF ContextTypes
      <4>. QED  BY <1>1, <1>2, <2>3, <3>1, <4>1, RunGoesOn
    <3>3. CommandsInv'
      <4>1. Origin' = Origin
        BY <1>2, <2>3, <3>2 DEF Origin
      <4>. QED  BY <1>1, <4>1 DEF CommandsInv
    <3>4. Waits' = {} /\ RefreshInv' /\ \A q \in refreshing' : q.by = ByClick
      BY <1>2, <2>1, <2>3 DEF Waits, RefreshInv
    <3>5. WaitsInv'
      <4>1. ctxRun.no \in 0..ctxRun.no
        BY DEF ContextTypes
      <4>. QED  BY <1>2, <2>1, <2>3, <3>2, <3>4, <4>1 DEF WaitsInv
    <3>6. ContextIsTheRuns'
      BY <1>1, <1>4, <2>1, <2>3, <3>2 DEF ContextIsTheRuns
    <3>. QED  BY <3>2, <3>3, <3>4, <3>5, <3>6 DEF ContextInv
  <2>. QED  BY <2>2, <2>3
(* A part read in the directory that is served joins the others.           *)
<1>5. ASSUME NEW got \in Reads(r.got)
      PROVE  /\ got \in ContextParts /\ got.follows = r.got.follows
             /\ r.by # ByClick => (astray = {} => got.dirs \subseteq {ctxRun.pin})
  <2>1. got = r.got \/ got = [r.got EXCEPT !.dirs = r.got.dirs \cup {served}]
    BY <1>5 DEF Reads
  <2>2. /\ got \in ContextParts /\ got.follows = r.got.follows
        /\ got.dirs \subseteq r.got.dirs \cup {served}
    BY <1>1, <2>1 DEF ContextParts
  <2>. QED  BY <1>2, <2>2 DEF PartsOf
<1>6. CASE MapRead(r)
  <2>1. PICK got \in Reads(r.got) : Goes(r, [r EXCEPT !.at = "rules", !.got = got])
    BY <1>6 DEF MapRead
  <2>. DEFINE next == [r EXCEPT !.at = "rules", !.got = got]
  <2>2. next \in Refreshes /\ next.by = r.by /\ next.at = "rules" /\ next.got = got
    BY <1>1, <1>5 DEF Refreshes
  <2>. HIDE DEF next
  <2>3. r.by # ByClick => PartsOf(next)
    BY <1>5, <2>2 DEF PartsOf
  <2>4. Goes(r, next)
    BY <2>1 DEF next
  <2>. QED  BY <1>3, <2>2, <2>3, <2>4
<1>7. CASE RulesRead(r)
  <2>. DEFINE known == {commands[i].in : i \in {j \in DOMAIN commands : commands[j].dir = RefreshTarget}}
  <2>1. PICK got \in Reads(r.got), found \in {{}, known} :
          Goes(r, [r EXCEPT !.at = "skills", !.got = [got EXCEPT !.dirs = @ \cup found]])
    BY <1>7 DEF RulesRead
  <2>2. found \subseteq Chats
    BY EntriesAre DEF Entries
  <2>3. r.by # ByClick => (astray = {} => found \subseteq {ctxRun.pin})
    <3>1. r.by # ByClick => Origin = ctxRun.pin
      BY <1>2 DEF Origin
    <3>. QED  BY <1>2, <3>1 DEF CommandsInv
  <2>. HIDE DEF known
  <2>. DEFINE more == [got EXCEPT !.dirs = @ \cup found]
              next == [r EXCEPT !.at = "skills", !.got = more]
  <2>4. more \in ContextParts /\ more.dirs = got.dirs \cup found
    BY <1>5, <2>2 DEF ContextParts
  <2>5. Goes(r, next)
    BY <2>1
  <2>. HIDE DEF more
  <2>6. next \in Refreshes /\ next.by = r.by /\ next.at = "skills" /\ next.got = more
    BY <1>1, <2>4 DEF Refreshes
  <2>. HIDE DEF next
  <2>7. r.by # ByClick => PartsOf(next)
    BY <1>5, <2>3, <2>4, <2>6 DEF PartsOf
  <2>. QED  BY <1>3, <2>5, <2>6, <2>7
<1>8. CASE SkillsRead(r)
  <2>1. PICK read \in Reads(r.got) :
          LET got == [read EXCEPT !.follows = RefreshTarget]
          IN IF boundPaths[RefreshTarget] = {} THEN Collected(r, got)
             ELSE Goes(r, [r EXCEPT !.at = "files", !.unread = boundPaths[RefreshTarget], !.got = got])
    BY <1>8 DEF SkillsRead
  <2>. DEFINE got == [read EXCEPT !.follows = RefreshTarget]
              next == [r EXCEPT !.at = "files", !.unread = boundPaths[RefreshTarget], !.got = got]
  <2>2. RefreshTarget \in Chats /\ boundPaths[RefreshTarget] \subseteq Followable
    BY DEF RefreshTarget, ContextTypes, Unpinned
  <2>3. got \in ContextParts /\ got.follows = RefreshTarget /\ got.dirs = read.dirs
    BY <1>5, <2>2 DEF ContextParts
  <2>4. IF boundPaths[RefreshTarget] = {} THEN Collected(r, got) ELSE Goes(r, next)
    BY <2>1
  <2>. HIDE DEF got
  <2>5. next \in Refreshes /\ next.by = r.by /\ next.got = got
    BY <1>1, <2>2, <2>3 DEF Refreshes
  <2>. HIDE DEF next
  <2>6. r.by # ByClick => got.follows = ctxRun.pin /\ (astray = {} => got.dirs \subseteq {ctxRun.pin})
    BY <1>2, <1>5, <2>3
  <2>7. r.by # ByClick => PartsOf(next)
    BY <2>5, <2>6 DEF PartsOf
  <2>. QED  BY <1>3, <1>4, <2>3, <2>4, <2>5, <2>6, <2>7
<1>9. CASE FollowedRead(r)
  <2>1. PICK p \in r.unread, got \in Reads(r.got) :
          IF r.unread = {p} THEN Collected(r, got)
          ELSE Goes(r, [r EXCEPT !.unread = @ \ {p}, !.got = got])
    BY <1>9 DEF FollowedRead
  <2>. DEFINE next == [r EXCEPT !.unread = @ \ {p}, !.got = got]
  <2>2. got \in ContextParts /\ got.follows = r.got.follows
    BY <1>5
  <2>3. next \in Refreshes /\ next.by = r.by /\ next.got = got
    BY <1>1, <2>2 DEF Refreshes
  <2>4. IF r.unread = {p} THEN Collected(r, got) ELSE Goes(r, next)
    BY <2>1
  <2>. HIDE DEF next
  <2>5. r.by # ByClick => got.follows = ctxRun.pin /\ (astray = {} => got.dirs \subseteq {ctxRun.pin})
    BY <1>2, <1>5, <1>9 DEF FollowedRead, PartsOf
  <2>6. r.by # ByClick => PartsOf(next)
    BY <2>3, <2>5 DEF PartsOf
  <2>. QED  BY <1>3, <1>4, <2>2, <2>3, <2>4, <2>5, <2>6
<1>. QED  BY <1>6, <1>7, <1>8, <1>9

LEMMA ContextStep == ASSUME ContextInv, [ContextNext]_ctxVars PROVE ContextInv'
<1>1. CASE RefreshGoesOn
  BY <1>1, RefreshStepKeeps DEF RefreshGoesOn
<1>2. CASE ContextNext /\ ~RefreshGoesOn
  BY <1>2, RepointedKeeps, ViewKeeps, ClickKeeps, SubmitKeeps, LeaveKeeps, AwaitedKeeps,
     DetectedKeeps, MutatesKeeps DEF ContextNext
<1>3. CASE UNCHANGED ctxVars
  <2>1. ContextTypes' /\ QueueInv' /\ WaitsInv'
    BY <1>3 DEF ctxVars, ContextInv, ContextTypes, QueueInv, WaitsInv, Waits, Destination, Goal,
                Settled, Unpinned
  <2>2. CommandsInv' /\ RefreshInv' /\ ContextIsTheRuns'
    BY <1>3 DEF ctxVars, ContextInv, CommandsInv, RefreshInv, Origin, Unpinned, Waits, PartsOf,
                ContextIsTheRuns
  <2>. QED  BY <2>1, <2>2 DEF ContextInv
<1>. QED  BY <1>1, <1>2, <1>3

(* ContextIsTheRuns: the codebase context a run has waited for is of its   *)
(* own conversation and directory, whatever the user views, follows and    *)
(* undoes meanwhile (refreshRepoMap and the run that awaits it).           *)
THEOREM ContextStaysTheRuns == ContextSpec => []ContextIsTheRuns
<1>1. ContextInv => ContextIsTheRuns
  BY DEF ContextInv
<1>. QED  BY <1>1, ContextStart, ContextStep, PTL DEF ContextSpec

-----------------------------------------------------------------------------
(* The session: which transcript receives what the agent writes.           *)

Notes(n) == [n : 1..n, by : {"user", "agent"}]
SessConvIds == 0..MaxSessConvs
Checkpoints == Seq([auto : BOOLEAN, len : Nat, commit : BOOLEAN])
ConvData(T) == [msgs : Seq(T), hidden : BOOLEAN, cps : Checkpoints]
SpaceData == [order : Seq(SessConvIds), active : SessConvIds]

(* A store whose conversations are in its workspaces and hold messages of T.*)
StoreOf(b, sp, T) ==
  /\ DOMAIN b \subseteq Keys
  /\ \A key \in DOMAIN b : key[1] \in DOMAIN sp /\ b[key] \in ConvData(T)
  /\ DOMAIN sp \subseteq Folders /\ sp \in [DOMAIN sp -> SpaceData]

(* Every copy of a transcript, and every message that waits, holds only    *)
(* messages already written: no copy can bring a new one.                  *)
SessInv ==
  /\ sessMsgs \in Nat /\ sessConvs \in Nat
  /\ StoreOf(book, spaces, Notes(sessMsgs))
  /\ here \in Keys /\ {pin, paused} \subseteq Keys \cup {None}
  /\ screen \in Seq(Notes(sessMsgs))
  /\ waiting \in [SessConvIds -> Seq(Notes(sessMsgs))]
  /\ cpJob # None => cpJob.kept \in Seq(Notes(sessMsgs)) /\ cpJob.auto \in BOOLEAN

-----------------------------------------------------------------------------
(* Operations on a store.                                                  *)

LEMMA WriteKeeps ==
  ASSUME NEW b, NEW sp, NEW T, StoreOf(b, sp, T), NEW key, NEW msgs \in Seq(T)
  PROVE  StoreOf(Write(b, key, msgs), sp, T)
  BY DEF StoreOf, Write, ConvData

LEMMA BindKeeps ==
  ASSUME NEW b, NEW sp, NEW T, StoreOf(b, sp, T), NEW key \in Keys, key[1] \in DOMAIN sp,
         NEW v \in ConvData(T)
  PROVE  StoreOf(Bind(b, key, v), sp, T)
  BY DEF StoreOf, Bind

LEMMA RestrictKeeps ==
  ASSUME NEW b, NEW sp, NEW T, StoreOf(b, sp, T), NEW ks \in SUBSET DOMAIN b
  PROVE  StoreOf(Restrict(b, ks), sp, T)
  BY DEF StoreOf, Restrict

(* The same conversations, in workspaces listed otherwise.                 *)
LEMMA RelistKeeps ==
  ASSUME NEW b, NEW sp, NEW T, StoreOf(b, sp, T), NEW sp2,
         DOMAIN sp \subseteq DOMAIN sp2, DOMAIN sp2 \subseteq Folders,
         sp2 \in [DOMAIN sp2 -> SpaceData]
  PROVE  StoreOf(b, sp2, T)
  BY DEF StoreOf

LEMMA WiderStore ==
  ASSUME NEW b, NEW sp, NEW T, StoreOf(b, sp, T), NEW U, T \subseteq U
  PROVE  StoreOf(b, sp, U) /\ Seq(T) \subseteq Seq(U)
<1>1. Seq(T) \subseteq Seq(U)
  OBVIOUS
<1>. QED
  BY <1>1 DEF StoreOf, ConvData

LEMMA TranscriptIsText ==
  ASSUME NEW T, NEW sp, StoreOf(book, sp, T), NEW key
  PROVE  Transcript(key) \in Seq(T)
  BY DEF StoreOf, Transcript, ConvData

(* The first of some positions.                                           *)
LEMMA NatMin ==
  ASSUME NEW S \in SUBSET Nat, S # {}
  PROVE  \E x \in S : \A y \in S : x <= y
<1>1. PICK x \in S : \A y \in S : ~(<<y, x>> \in OpToRel(<, Nat))
  BY WFMin, NatLessThanWellFounded
<1>2. \A y \in S : ~(y < x)
  BY <1>1 DEF OpToRel
<1>. QED
  BY <1>2
LEMMA MinIsLeast ==
  ASSUME NEW S \in SUBSET Nat, S # {}
  PROVE  Min(S) \in S
  BY NatMin DEF Min
LEMMA RemoveAtKeeps ==
  ASSUME NEW T, NEW s \in Seq(T), NEW p \in DOMAIN s
  PROVE  RemoveAt(s, p) \in Seq(T)
<1>1. Len(s) \in Nat /\ p \in 1..Len(s) /\ \A i \in 1..Len(s) : s[i] \in T
  BY LenProperties, ElementOfSeq
<1>2. SubSeq(s, 1, p - 1) \in Seq(T)
  BY <1>1, SubSeqProperties
<1>3. SubSeq(s, p + 1, Len(s)) \in Seq(T)
  BY <1>1, SubSeqProperties
<1>. QED
  BY <1>2, <1>3, ConcatProperties DEF RemoveAt

LEMMA RemoveFirstKeeps ==
  ASSUME NEW T, NEW s \in Seq(T), NEW e
  PROVE  RemoveFirst(s, e) \in Seq(T)
<1>. DEFINE at == {i \in 1..Len(s) : s[i] = e}
<1>1. CASE \E i \in 1..Len(s) : s[i] = e
  <2>1. PICK p : p = Min(at)
    OBVIOUS
  <2>2. at \in SUBSET Nat /\ at # {}
    BY <1>1, LenProperties
  <2>3. p \in DOMAIN s
    BY <2>1, <2>2, MinIsLeast, LenProperties
  <2>4. RemoveFirst(s, e) = RemoveAt(s, p)
    BY <1>1, <2>1, <2>2 DEF RemoveFirst, SelectInSeq
  <2>. QED
    BY <2>3, <2>4, RemoveAtKeeps
<1>. QED
  BY <1>1 DEF RemoveFirst

LEMMA InsertIsListed ==
  ASSUME NEW order \in Seq(SessConvIds), NEW p \in 0..Len(order), NEW c \in SessConvIds
  PROVE  InsertAt(order, p + 1, c) \in Seq(SessConvIds)
<1>1. Len(order) \in Nat /\ \A i \in 1..Len(order) : order[i] \in SessConvIds
  BY LenProperties, ElementOfSeq
<1>2. SubSeq(order, 1, (p + 1) - 1) \in Seq(SessConvIds)
  BY <1>1, SubSeqProperties
<1>3. SubSeq(order, p + 1, Len(order)) \in Seq(SessConvIds)
  BY <1>1, SubSeqProperties
<1>4. <<c>> \in Seq(SessConvIds)
  OBVIOUS
<1>. QED
  BY <1>2, <1>3, <1>4, ConcatProperties DEF InsertAt

LEMMA FirstIsAnId ==
  ASSUME SessionAssumption, NEW order, NEW cs \in SUBSET SessConvIds
  PROVE  FirstOf(order, cs) \in SessConvIds
<1>1. 0 \in SessConvIds
  BY DEF SessConvIds, SessionAssumption
<1>. DEFINE firsts == {c \in cs : \E i \in DOMAIN order :
                            order[i] = c /\ \A j \in 1..(i - 1) : order[j] \notin cs}
<1>2. firsts \subseteq SessConvIds
  OBVIOUS
<1>3. FirstOf(order, cs) = IF firsts = {} THEN 0 ELSE CHOOSE c \in firsts : TRUE
  BY DEF FirstOf
<1>. HIDE DEF firsts
<1>. QED
  BY <1>1, <1>2, <1>3

-----------------------------------------------------------------------------
(* A render leaves every conversation as the store it is given has it,     *)
(* except that the selected one may receive what is on screen.             *)
LEMMA RenderCopies ==
  ASSUME NEW b, NEW sp, NEW key, NEW T, NEW msgs, Render(b, sp, key, msgs),
         \A k \in DOMAIN b : b[k] \in ConvData(T)
  PROVE  /\ here' = key /\ screen' = msgs
         /\ \A k \in DOMAIN book' :
              \/ k \in DOMAIN b /\ book'[k] = b[k]
              \/ /\ k = key /\ key[1] \in DOMAIN sp /\ book'[k].msgs = msgs
                 /\ msgs \in Seq(T) => book'[k] \in ConvData(T)
<1>1. Conv \in ConvData(T)
  BY DEF Conv, ConvData, Checkpoints
<1>2. CASE book' = b
  BY <1>2 DEF Render
<1>3. CASE /\ key[1] \in DOMAIN sp
           /\ book' = Bind(b, key, [(IF key \in DOMAIN b THEN b[key] ELSE Conv) EXCEPT !.msgs = msgs])
  <2>1. PICK old : old = IF key \in DOMAIN b THEN b[key] ELSE Conv
    OBVIOUS
  <2>2. old \in ConvData(T)
    BY <1>1, <2>1
  <2>3. PICK new : new = [old EXCEPT !.msgs = msgs]
    OBVIOUS
  <2>4. new.msgs = msgs /\ (msgs \in Seq(T) => new \in ConvData(T))
    BY <2>2, <2>3 DEF ConvData
  <2>5. book' = Bind(b, key, new)
    BY <1>3, <2>1, <2>3
  <2>. QED
    BY <1>3, <2>4, <2>5 DEF Render, Bind
<1>. QED
  BY <1>2, <1>3 DEF Render

LEMMA RenderLists ==
  ASSUME NEW b, NEW sp, NEW key \in Keys, NEW msgs, Render(b, sp, key, msgs),
         sp \in [DOMAIN sp -> SpaceData]
  PROVE  DOMAIN spaces' = DOMAIN sp /\ spaces' \in [DOMAIN sp -> SpaceData]
<1>1. CASE spaces' = sp
  BY <1>1
<1>2. CASE /\ key[1] \in DOMAIN sp
           /\ spaces' = [sp EXCEPT ![key[1]].order = Append(@, key[2])]
  <2>1. sp[key[1]] \in SpaceData /\ key[2] \in SessConvIds
    BY <1>2 DEF Keys, SessConvIds
  <2>2. Append(sp[key[1]].order, key[2]) \in Seq(SessConvIds)
    BY <2>1, AppendProperties DEF SpaceData
  <2>. QED
    BY <1>2, <2>1, <2>2 DEF SpaceData
<1>. QED
  BY <1>1, <1>2 DEF Render

LEMMA RenderKeeps ==
  ASSUME NEW b, NEW sp, NEW key \in Keys, NEW T, NEW msgs \in Seq(T),
         Render(b, sp, key, msgs), StoreOf(b, sp, T)
  PROVE  StoreOf(book', spaces', T) /\ here' \in Keys /\ screen' \in Seq(T)
<1>1. /\ here' = key /\ screen' = msgs
      /\ \A k \in DOMAIN book' :
           \/ k \in DOMAIN b /\ book'[k] = b[k]
           \/ /\ k = key /\ key[1] \in DOMAIN sp /\ book'[k].msgs = msgs
              /\ book'[k] \in ConvData(T)
  BY RenderCopies DEF StoreOf
<1>2. DOMAIN spaces' = DOMAIN sp /\ spaces' \in [DOMAIN sp -> SpaceData]
  BY RenderLists DEF StoreOf
<1>. QED
  BY <1>1, <1>2 DEF StoreOf

-----------------------------------------------------------------------------
(* Steps that write no message: the user moves about, and checkpoints are  *)
(* made and restored.                                                      *)

Drawn(T) == StoreOf(book', spaces', T) /\ here' \in Keys /\ screen' \in Seq(T)

LEMMA ShowKeeps ==
  ASSUME SessInv, NEW T, T = Notes(sessMsgs), NEW key \in Keys, Show(key)
  PROVE  Drawn(T)
<1>1. PICK b, sp, msgs : /\ b = book /\ sp = spaces /\ msgs = Transcript(key)
                         /\ Render(b, sp, key, msgs)
  BY DEF Show
<1>2. StoreOf(b, sp, T) /\ msgs \in Seq(T)
  BY <1>1, TranscriptIsText DEF SessInv
<1>. QED
  BY <1>1, <1>2, RenderKeeps DEF Drawn

LEMMA PlaceIsInside ==
  ASSUME NEW S, NEW order \in Seq(S), NEW c
  PROVE  Place(order, c) \in 0..Len(order)
<1>1. DOMAIN order = 1..Len(order) /\ Len(order) \in Nat
  BY LenProperties
<1>2. CASE Contains(order, c)
  <2>1. \E i \in DOMAIN order : order[i] = c
    BY <1>1, <1>2 DEF Contains
  <2>2. Place(order, c) \in DOMAIN order
    BY <1>2, <2>1 DEF Place
  <2>. QED  BY <1>1, <2>2
<1>3. CASE ~Contains(order, c)
  BY <1>1, <1>3 DEF Place
<1>. QED  BY <1>2, <1>3

LEMMA NewKeyIsKey ==
  ASSUME SessInv, SessionAssumption, FreshId, NEW w \in Folders
  PROVE  <<w, sessConvs'>> \in Keys /\ sessConvs' \in SessConvIds /\ sessConvs' \in Nat
  BY DEF SessInv, SessionAssumption, FreshId, Keys, SessConvIds

LEMMA NewChatKeeps ==
  ASSUME SessInv, SessionAssumption, NEW T, T = Notes(sessMsgs), NEW w \in DOMAIN spaces,
         NewChatIn(w)
  PROVE  Drawn(T)
<1>1. PICK b, sp, key, msgs :
        /\ b = Bind(book, <<w, sessConvs'>>, Conv)
        /\ sp = [spaces EXCEPT ![w] = [order |-> Append(@.order, sessConvs'),
                                       active |-> sessConvs']]
        /\ key = <<w, sessConvs'>> /\ msgs = <<>> /\ Render(b, sp, key, msgs)
  BY DEF NewChatIn
<1>2. w \in Folders /\ spaces \in [DOMAIN spaces -> SpaceData] /\ StoreOf(book, spaces, T)
  BY DEF SessInv, StoreOf
<1>3. key \in Keys /\ sessConvs' \in SessConvIds
  BY <1>1, <1>2, NewKeyIsKey DEF NewChatIn
<1>4. Append(spaces[w].order, sessConvs') \in Seq(SessConvIds)
  BY <1>2, <1>3, AppendProperties DEF SpaceData
<1>5. sp \in [DOMAIN spaces -> SpaceData] /\ DOMAIN sp = DOMAIN spaces
  BY <1>1, <1>2, <1>3, <1>4 DEF SpaceData
<1>6. Conv \in ConvData(T)
  BY DEF Conv, ConvData, Checkpoints
<1>7. StoreOf(book, sp, T)
  BY <1>2, <1>5, RelistKeeps DEF StoreOf
<1>8. StoreOf(b, sp, T)
  BY <1>1, <1>3, <1>5, <1>6, <1>7, BindKeeps
<1>9. msgs \in Seq(T)
  BY <1>1
<1>. QED
  BY <1>1, <1>3, <1>8, <1>9, RenderKeeps DEF Drawn

LEMMA ForkKeeps ==
  ASSUME SessInv, SessionAssumption, NEW T, T = Notes(sessMsgs), Fork
  PROVE  Drawn(T)
<1>. DEFINE w == here[1]
            order == spaces[w].order
            pos == Place(order, here[2])
<1>1. PICK b, sp, key, msgs :
        /\ b = Bind(book, <<w, sessConvs'>>, book[here])
        /\ sp = [spaces EXCEPT ![w] = [order |-> InsertAt(order, pos + 1, sessConvs'),
                                       active |-> sessConvs']]
        /\ key = <<w, sessConvs'>> /\ msgs = Transcript(<<w, sessConvs'>>)
        /\ Render(b, sp, key, msgs)
  BY DEF Fork
<1>2. /\ here \in DOMAIN book /\ w \in DOMAIN spaces /\ w \in Folders
      /\ spaces \in [DOMAIN spaces -> SpaceData] /\ StoreOf(book, spaces, T)
      /\ book[here] \in ConvData(T)
  BY DEF Fork, SessInv, StoreOf
<1>3. key \in Keys /\ sessConvs' \in SessConvIds
  BY <1>1, <1>2, NewKeyIsKey DEF Fork
<1>4. order \in Seq(SessConvIds)
  BY <1>2 DEF SpaceData
<1>p. pos \in 0..Len(order)
  BY <1>4, PlaceIsInside
<1>5. InsertAt(order, pos + 1, sessConvs') \in Seq(SessConvIds)
  <2>. HIDE DEF pos, order
  <2>. QED
    BY <1>3, <1>4, <1>p, InsertIsListed
<1>6. sp \in [DOMAIN spaces -> SpaceData] /\ DOMAIN sp = DOMAIN spaces
  BY <1>1, <1>2, <1>3, <1>5 DEF SpaceData
<1>7. StoreOf(book, sp, T)
  BY <1>2, <1>6, RelistKeeps DEF StoreOf
<1>8. key[1] \in DOMAIN sp
  BY <1>1, <1>2, <1>6
<1>9. StoreOf(b, sp, T)
  BY <1>1, <1>2, <1>3, <1>7, <1>8, BindKeeps
<1>10. msgs \in Seq(T)
  BY <1>1, <1>2, TranscriptIsText
<1>. QED
  BY <1>1, <1>3, <1>9, <1>10, RenderKeeps DEF Drawn

LEMMA AddWorkspaceKeeps ==
  ASSUME SessInv, SessionAssumption, NEW T, T = Notes(sessMsgs), NEW w \in Folders,
         AddWorkspace(w)
  PROVE  Drawn(T)
<1>0. spaces \in [DOMAIN spaces -> SpaceData] /\ StoreOf(book, spaces, T)
      /\ DOMAIN spaces \subseteq Folders
  BY DEF SessInv, StoreOf
<1>a. CASE w \in DOMAIN spaces
  <2>1. <<w, spaces[w].active>> \in Keys
    BY <1>a, <1>0 DEF SpaceData, Keys, SessConvIds
  <2>. QED
    BY <1>a, <2>1, ShowKeeps DEF AddWorkspace
<1>b. CASE w \notin DOMAIN spaces
  <2>1. PICK b, sp, key, msgs :
          /\ b = Bind(book, <<w, sessConvs'>>, Conv)
          /\ sp = Bind(spaces, w, [order |-> <<sessConvs'>>, active |-> sessConvs'])
          /\ key = <<w, sessConvs'>> /\ msgs = <<>> /\ Render(b, sp, key, msgs)
    BY <1>b DEF AddWorkspace
  <2>2. key \in Keys /\ sessConvs' \in SessConvIds
    BY <1>b, <2>1, NewKeyIsKey DEF AddWorkspace
  <2>3. <<sessConvs'>> \in Seq(SessConvIds)
    BY <2>2
  <2>4. DOMAIN sp = DOMAIN spaces \cup {w} /\ sp \in [DOMAIN sp -> SpaceData]
    BY <1>0, <2>1, <2>2, <2>3 DEF Bind, SpaceData
  <2>5. Conv \in ConvData(T)
    BY DEF Conv, ConvData, Checkpoints
  <2>6. StoreOf(book, sp, T)
    BY <1>0, <2>4, RelistKeeps
  <2>7. StoreOf(b, sp, T) /\ msgs \in Seq(T)
    BY <2>1, <2>2, <2>4, <2>5, <2>6, BindKeeps
  <2>. QED
    BY <2>1, <2>2, <2>7, RenderKeeps DEF Drawn
<1>. QED
  BY <1>a, <1>b

LEMMA RemoveWorkspaceKeeps ==
  ASSUME SessInv, SessionAssumption, NEW T, T = Notes(sessMsgs), NEW w \in DOMAIN spaces,
         RemoveWorkspace(w)
  PROVE  Drawn(T)
<1>. DEFINE left == Restrict(book, {k \in DOMAIN book : k[1] # w})
            others == Restrict(spaces, DOMAIN spaces \ {w})
<1>1. PICK b, sp : b = left /\ sp = others
  OBVIOUS
<1>2. /\ spaces \in [DOMAIN spaces -> SpaceData] /\ StoreOf(book, spaces, T)
      /\ DOMAIN spaces \subseteq Folders /\ here \in Keys /\ w \in Folders
  BY DEF SessInv, StoreOf
<1>3. DOMAIN sp = DOMAIN spaces \ {w} /\ sp \in [DOMAIN sp -> SpaceData]
  BY <1>1, <1>2 DEF Restrict
<1>4. StoreOf(b, sp, T)
  BY <1>1, <1>2, <1>3 DEF StoreOf, Restrict
<1>5. PICK key, msgs :
        /\ Render(b, sp, key, msgs)
        /\ \/ key = here /\ msgs = Transcript(here)
           \/ key = <<w, 0>> /\ msgs = <<>>
           \/ \E x \in DOMAIN sp : key = <<x, sp[x].active>> /\ msgs = Transcript(key)
  BY <1>1 DEF RemoveWorkspace, ForgetWorkspace
<1>6. key \in Keys
  BY <1>2, <1>3, <1>5 DEF Keys, SpaceData, SessConvIds, SessionAssumption
<1>7. \A k : Transcript(k) \in Seq(T)
  BY <1>2, TranscriptIsText
<1>8. msgs \in Seq(T)
  <2>1. CASE msgs = <<>>
    BY <2>1
  <2>2. CASE msgs = Transcript(here)
    BY <1>7, <2>2
  <2>3. CASE msgs = Transcript(key)
    BY <1>7, <2>3
  <2>. QED
    BY <1>5, <2>1, <2>2, <2>3
<1>. QED
  BY <1>4, <1>5, <1>6, <1>8, RenderKeeps DEF Drawn

LEMMA MoveOnKeeps ==
  ASSUME SessInv, NEW T, T = Notes(sessMsgs), NEW b, NEW sp, NEW key \in Keys,
         NEW next \in SessConvIds, StoreOf(b, sp, T), MoveOn(b, sp, key, next)
  PROVE  Drawn(T)
<1>1. PICK to, sp2, msgs :
        /\ to = IF key = here THEN <<key[1], next>> ELSE here
        /\ sp2 = [sp EXCEPT ![key[1]].active = to[2]]
        /\ msgs = IF key = here THEN Transcript(to) ELSE screen
        /\ Render(b, sp2, to, msgs)
  BY DEF MoveOn
<1>2. to \in Keys /\ to[2] \in SessConvIds
  BY <1>1 DEF SessInv, Keys, SessConvIds
<1>3. DOMAIN sp2 = DOMAIN sp /\ sp2 \in [DOMAIN sp -> SpaceData]
  BY <1>1, <1>2 DEF StoreOf, SpaceData
<1>4. StoreOf(b, sp2, T)
  BY <1>3, RelistKeeps DEF StoreOf
<1>5. Transcript(to) \in Seq(T)
  BY TranscriptIsText DEF SessInv
<1>6. msgs \in Seq(T)
  BY <1>1, <1>5 DEF SessInv
<1>. QED
  BY <1>1, <1>2, <1>4, <1>6, RenderKeeps DEF Drawn

LEMMA ArchiveKeeps ==
  ASSUME SessInv, SessionAssumption, NEW T, T = Notes(sessMsgs), NEW key \in DOMAIN book,
         NEW hide \in BOOLEAN, Archive(key, hide)
  PROVE  Drawn(T)
<1>1. PICK b, sp, next :
        /\ b = [book EXCEPT ![key].hidden = hide] /\ sp = spaces
        /\ next = IF hide THEN FirstOf(spaces[key[1]].order, Unarchived(key[1]) \ {key[2]})
                  ELSE key[2]
        /\ MoveOn(b, sp, key, next)
  BY DEF Archive
<1>2. key \in Keys /\ key[2] \in SessConvIds /\ StoreOf(book, spaces, T)
  BY DEF SessInv, StoreOf, Keys, SessConvIds
<1>3. Unarchived(key[1]) \ {key[2]} \in SUBSET SessConvIds
  BY DEF Unarchived, SessConvIds
<1>4. next \in SessConvIds
  BY <1>1, <1>2, <1>3, FirstIsAnId
<1>5. StoreOf(b, sp, T)
  BY <1>1, <1>2 DEF StoreOf, ConvData
<1>. QED
  BY <1>1, <1>2, <1>4, <1>5, MoveOnKeeps

LEMMA DeleteKeeps ==
  ASSUME SessInv, SessionAssumption, NEW T, T = Notes(sessMsgs), NEW key \in DOMAIN book,
         Delete(key)
  PROVE  Drawn(T)
<1>. DEFINE held == DOMAIN book \ {key}
<1>1. PICK rest, shown, b, sp, next :
        /\ rest = RemoveFirst(spaces[key[1]].order, key[2]) /\ shown = FirstOf(rest, Unarchived(key[1]))
        /\ b = Restrict(book, held) /\ sp = [spaces EXCEPT ![key[1]].order = rest]
        /\ next = IF shown # 0 THEN shown ELSE FirstOf(rest, 0..MaxSessConvs)
        /\ MoveOn(b, sp, key, next)
  BY DEF Delete
<1>2. /\ key \in Keys /\ key[1] \in DOMAIN spaces /\ StoreOf(book, spaces, T)
      /\ spaces \in [DOMAIN spaces -> SpaceData] /\ DOMAIN spaces \subseteq Folders
  BY DEF SessInv, StoreOf
<1>3. rest \in Seq(SessConvIds)
  BY <1>1, <1>2, RemoveFirstKeeps DEF SpaceData
<1>4. shown \in SessConvIds
  BY <1>1, FirstIsAnId DEF Unarchived, SessConvIds
<1>5. FirstOf(rest, 0..MaxSessConvs) \in SessConvIds
  BY FirstIsAnId DEF SessConvIds
<1>6. next \in SessConvIds
  BY <1>1, <1>4, <1>5
<1>7. DOMAIN sp = DOMAIN spaces /\ sp \in [DOMAIN spaces -> SpaceData]
  BY <1>1, <1>2, <1>3 DEF SpaceData
<1>8. StoreOf(book, sp, T)
  BY <1>2, <1>7, RelistKeeps
<1>9. StoreOf(b, sp, T)
  BY <1>1, <1>8, RestrictKeeps
<1>. QED
  BY <1>1, <1>2, <1>6, <1>9, MoveOnKeeps

(* Nothing is drawn anew.                                                  *)
LEMMA IdleKeeps ==
  ASSUME SessInv, NEW T, T = Notes(sessMsgs), UNCHANGED storeVars
  PROVE  Drawn(T)
  BY DEF SessInv, Drawn, storeVars, StoreOf

LEMMA ReloadKeeps ==
  ASSUME SessInv, NEW T, T = Notes(sessMsgs), ReloadTab
  PROVE  Drawn(T)
<1>1. CASE UNCHANGED storeVars
  BY <1>1, IdleKeeps
<1>2. ASSUME NEW w \in DOMAIN spaces, Show(<<w, spaces[w].active>>)
      PROVE  Drawn(T)
  <2>1. <<w, spaces[w].active>> \in Keys
    BY DEF SessInv, StoreOf, SpaceData, Keys, SessConvIds
  <2>. QED
    BY <1>2, <2>1, ShowKeeps
<1>3. CASE Render(book, spaces, here, <<>>)
  <2>1. PICK b, sp, key, msgs : /\ b = book /\ sp = spaces /\ key = here /\ msgs = <<>>
                               /\ Render(b, sp, key, msgs)
    BY <1>3
  <2>2. StoreOf(b, sp, T) /\ key \in Keys /\ msgs \in Seq(T)
    BY <2>1 DEF SessInv
  <2>. QED
    BY <2>1, <2>2, RenderKeeps DEF Drawn
<1>. QED
  BY <1>1, <1>2, <1>3 DEF ReloadTab

LEMMA TruncateKeeps ==
  ASSUME SessInv, NEW T, T = Notes(sessMsgs), NEW at, NEW held \in Seq(T),
         TruncateTo(at, held)
  PROVE  Drawn(T)
<1>1. PICK b, sp, key : /\ b = Write(book, at, held) /\ sp = spaces /\ key = here
                        /\ Render(b, sp, key, held)
  BY DEF TruncateTo
<1>2. StoreOf(b, sp, T) /\ key \in Keys
  BY <1>1, WriteKeeps DEF SessInv
<1>. QED
  BY <1>1, <1>2, RenderKeeps DEF Drawn

LEMMA CheckpointAdded ==
  ASSUME NEW b, NEW sp, NEW T, StoreOf(b, sp, T), NEW key,
         NEW cp \in [auto : BOOLEAN, len : Nat, commit : BOOLEAN]
  PROVE  StoreOf(IF key \notin DOMAIN b THEN b
                 ELSE [b EXCEPT ![key].cps =
                         IF cp.auto THEN DropOldest(Append(@, cp)) ELSE Append(@, cp)], sp, T)
<1>1. CASE key \notin DOMAIN b
  BY <1>1
<1>2. CASE key \in DOMAIN b
  <2>1. b[key] \in ConvData(T)
    BY <1>2 DEF StoreOf
  <2>2. PICK cps : cps = Append(b[key].cps, cp)
    OBVIOUS
  <2>3. cps \in Checkpoints
    BY <2>1, <2>2, AppendProperties DEF ConvData, Checkpoints
  <2>4. DropOldest(cps) \in Checkpoints
    BY <2>3, RemoveFirstKeeps DEF DropOldest, Checkpoints
  <2>5. PICK new : new = IF cp.auto THEN DropOldest(cps) ELSE cps
    OBVIOUS
  <2>6. new \in Checkpoints
    BY <2>3, <2>4, <2>5
  <2>7. StoreOf([b EXCEPT ![key].cps = new], sp, T)
    BY <1>2, <2>1, <2>6 DEF StoreOf, ConvData
  <2>. QED
    BY <1>2, <2>2, <2>5, <2>7
<1>. QED
  BY <1>1, <1>2

(* Checkpoints are cut from what is on screen.                             *)
LEMMA CheckpointsKeep ==
  ASSUME SessInv, NEW T, T = Notes(sessMsgs),
         \/ \E auto \in BOOLEAN : BeginCheckpoint(auto)
         \/ SaveCheckpoint \/ RestoreCheckpoint \/ CheckpointRestored \/ DeleteCheckpoint
  PROVE  Drawn(T) /\ (cpJob' # None => cpJob'.kept \in Seq(T) /\ cpJob'.auto \in BOOLEAN)
<1>0. /\ StoreOf(book, spaces, T) /\ here \in Keys /\ screen \in Seq(T)
      /\ cpJob # None => cpJob.kept \in Seq(T) /\ cpJob.auto \in BOOLEAN
  BY DEF SessInv
<1>1. ASSUME NEW auto \in BOOLEAN, BeginCheckpoint(auto)
      PROVE  Drawn(T) /\ (cpJob' # None => cpJob'.kept \in Seq(T) /\ cpJob'.auto \in BOOLEAN)
  BY <1>0, <1>1, IdleKeeps DEF BeginCheckpoint
<1>2. CASE SaveCheckpoint
  <2>0. PICK commit \in BOOLEAN :
          LET cp == [auto |-> cpJob.auto, len |-> Len(cpJob.kept), commit |-> commit]
          IN book' = IF cpJob.key \notin DOMAIN book THEN book
                     ELSE [book EXCEPT ![cpJob.key].cps =
                             IF cp.auto THEN DropOldest(Append(@, cp)) ELSE Append(@, cp)]
    BY <1>2 DEF SaveCheckpoint
  <2>1. PICK key, cp :
          /\ key = cpJob.key
          /\ cp = [auto |-> cpJob.auto, len |-> Len(cpJob.kept), commit |-> commit]
          /\ book' = IF key \notin DOMAIN book THEN book
                    ELSE [book EXCEPT ![key].cps =
                            IF cp.auto THEN DropOldest(Append(@, cp)) ELSE Append(@, cp)]
    BY <2>0
  <2>a. Len(cpJob.kept) \in Nat /\ cpJob.auto \in BOOLEAN
    BY <1>0, <1>2, LenProperties DEF SaveCheckpoint
  <2>b. cp \in [auto : BOOLEAN, len : Nat, commit : BOOLEAN]
    BY <2>0, <2>1, <2>a
  <2>2. StoreOf(book', spaces, T)
    BY <1>0, <2>1, <2>b, CheckpointAdded
  <2>. QED
    BY <1>0, <1>2, <2>2 DEF SaveCheckpoint, Drawn
<1>3. CASE RestoreCheckpoint
  <2>1. PICK cp, len, held :
          /\ cp \in Range(book[here].cps) /\ len = Len(screen)
          /\ held = SubSeq(screen, 1, IF cp.len < len THEN cp.len ELSE len)
          /\ \/ cpJob'.kept = held /\ cpJob'.auto = FALSE /\ UNCHANGED storeVars
             \/ TruncateTo(here, held) /\ UNCHANGED cpJob
    <3>1. PICK cp \in Range(book[here].cps) :
            LET held == SubSeq(screen, 1, IF cp.len < Len(screen) THEN cp.len ELSE Len(screen))
            IN \/ /\ cpJob' = [kind |-> "restore", key |-> here, auto |-> FALSE, kept |-> held]
                  /\ UNCHANGED storeVars
               \/ TruncateTo(here, held) /\ UNCHANGED cpJob
      BY <1>3 DEF RestoreCheckpoint
    <3>2. PICK len, held :
            /\ len = Len(screen)
            /\ held = SubSeq(screen, 1, IF cp.len < Len(screen) THEN cp.len ELSE Len(screen))
      OBVIOUS
    <3>3. CASE TruncateTo(here, held) /\ UNCHANGED cpJob
      BY <3>2, <3>3
    <3>4. CASE /\ cpJob' = [kind |-> "restore", key |-> here, auto |-> FALSE, kept |-> held]
               /\ UNCHANGED storeVars
      BY <3>2, <3>4
    <3>. QED
      BY <3>1, <3>2, <3>3, <3>4
  <2>2. cp.len \in Nat
    <3>1. book[here] \in ConvData(T)
      BY <1>0, <1>3 DEF RestoreCheckpoint, StoreOf
    <3>2. PICK cps : cps = book[here].cps
      OBVIOUS
    <3>3. cps \in Checkpoints /\ cp \in Range(cps)
      BY <2>1, <3>1, <3>2 DEF ConvData
    <3>4. PICK i \in 1..Len(cps) : cp = cps[i]
      BY <3>3, LenProperties DEF Range, Checkpoints
    <3>5. cps[i] \in [auto : BOOLEAN, len : Nat, commit : BOOLEAN]
      BY <3>3, <3>4, ElementOfSeq DEF Checkpoints
    <3>. QED
      BY <3>4, <3>5
  <2>3. held \in Seq(T)
    <3>1. len \in Nat /\ \A i \in 1..len : screen[i] \in T
      BY <1>0, <2>1, LenProperties, ElementOfSeq
    <3>. QED
      BY <2>1, <2>2, <3>1, SubSeqProperties
  <2>4. CASE cpJob'.kept = held /\ cpJob'.auto = FALSE /\ UNCHANGED storeVars
    BY <2>3, <2>4, IdleKeeps
  <2>5. CASE TruncateTo(here, held) /\ UNCHANGED cpJob
    <3>1. PICK at : at = here /\ TruncateTo(at, held)
      BY <2>5
    <3>. QED
      BY <1>0, <2>3, <2>5, <3>1, TruncateKeeps
  <2>. QED
    BY <2>1, <2>4, <2>5
<1>4. CASE CheckpointRestored
  <2>1. PICK at, held : at = cpJob.key /\ held = cpJob.kept /\ TruncateTo(at, held)
    BY <1>4 DEF CheckpointRestored
  <2>2. held \in Seq(T)
    BY <1>0, <1>4, <2>1 DEF CheckpointRestored
  <2>. QED
    BY <1>4, <2>1, <2>2, TruncateKeeps DEF CheckpointRestored
<1>5. CASE DeleteCheckpoint
  <2>0. PICK key, i : /\ key \in DOMAIN book /\ i \in DOMAIN book[key].cps
                      /\ book' = [book EXCEPT ![key].cps = RemoveAt(@, i)]
    BY <1>5 DEF DeleteCheckpoint
  <2>1. StoreOf(book', spaces, T)
    <3>1. book[key] \in ConvData(T)
      BY <1>0, <2>0 DEF StoreOf
    <3>2. RemoveAt(book[key].cps, i) \in Checkpoints
      BY <2>0, <3>1, RemoveAtKeeps DEF ConvData, Checkpoints
    <3>. QED
      BY <1>0, <2>0, <3>1, <3>2 DEF StoreOf, ConvData
  <2>. QED
    BY <1>0, <1>5, <2>1 DEF DeleteCheckpoint, Drawn
<1>. QED
  BY <1>1, <1>2, <1>3, <1>4, <1>5

-----------------------------------------------------------------------------
(* Steps of the run, and messages of the user.                             *)

AgentWritesToPin ==
  \A key \in DOMAIN book' : \A m \in Range(book'[key].msgs) :
    m.by = "agent" /\ m.n > sessMsgs => key = pin

(* What a step leaves beside the store and the screen.                     *)
DrawnKept(T) ==
  /\ sessMsgs' \in Nat /\ sessConvs' \in Nat /\ T \subseteq Notes(sessMsgs')
  /\ {pin', paused'} \subseteq Keys \cup {None}
  /\ waiting' \in [SessConvIds -> Seq(T)]
  /\ cpJob' # None => cpJob'.kept \in Seq(T) /\ cpJob'.auto \in BOOLEAN

LEMMA DrawnIsInv ==
  ASSUME NEW T, Drawn(T), DrawnKept(T)
  PROVE  SessInv'
<1>1. StoreOf(book', spaces', Notes(sessMsgs')) /\ Seq(T) \subseteq Seq(Notes(sessMsgs'))
  BY WiderStore DEF Drawn, DrawnKept
<1>2. waiting' \in [SessConvIds -> Seq(Notes(sessMsgs'))]
  BY <1>1 DEF DrawnKept
<1>. QED
  BY <1>1, <1>2 DEF Drawn, DrawnKept, SessInv

LEMMA NothingNew ==
  ASSUME NEW T, StoreOf(book', spaces', T),
         \A m \in T : ~(m.by = "agent" /\ m.n > sessMsgs)
  PROVE  AgentWritesToPin
<1>. SUFFICES ASSUME NEW key \in DOMAIN book', NEW m \in Range(book'[key].msgs)
              PROVE  m \in T
  BY DEF AgentWritesToPin
<1>1. PICK msgs : msgs = book'[key].msgs
  OBVIOUS
<1>2. msgs \in Seq(T) /\ m \in Range(msgs)
  BY <1>1 DEF StoreOf, ConvData
<1>3. PICK i \in 1..Len(msgs) : m = msgs[i]
  BY <1>2, LenProperties DEF Range
<1>4. msgs[i] \in T
  BY <1>2, <1>3, ElementOfSeq
<1>. QED
  BY <1>3, <1>4

(* A message written is the next of the numbers.                           *)
LEMMA NewNote ==
  ASSUME SessInv, CanWrite, NEW by \in {"user", "agent"}
  PROVE  /\ Note(by) \in Notes(sessMsgs') /\ Notes(sessMsgs) \subseteq Notes(sessMsgs')
         /\ Note(by).by = by /\ Note(by).n = sessMsgs + 1 /\ sessMsgs' \in Nat
  BY DEF SessInv, CanWrite, Note, Notes

LEMMA OldNotes ==
  ASSUME SessInv
  PROVE  \A m \in Notes(sessMsgs) : ~(m.by = "agent" /\ m.n > sessMsgs)
  BY DEF SessInv, Notes

(* Steps that write nothing.                                               *)
LEMMA QuietSession ==
  ASSUME SessInv, NEW T, T = Notes(sessMsgs), Drawn(T),
         sessMsgs' = sessMsgs, sessConvs' \in Nat, {pin', paused'} \subseteq Keys \cup {None},
         waiting' \in [SessConvIds -> Seq(T)],
         cpJob' # None => cpJob'.kept \in Seq(T) /\ cpJob'.auto \in BOOLEAN
  PROVE  SessInv' /\ AgentWritesToPin
<1>1. DrawnKept(T)
  BY DEF DrawnKept, SessInv
<1>. QED
  BY <1>1, DrawnIsInv, NothingNew, OldNotes DEF Drawn

LEMMA MovesKeep ==
  ASSUME SessInv, NEW T, T = Notes(sessMsgs), Drawn(T), KeepRun,
         FreshId \/ UNCHANGED sessConvs
  PROVE  SessInv' /\ AgentWritesToPin
<1>1. /\ sessMsgs' = sessMsgs /\ sessConvs' \in Nat /\ {pin', paused'} \subseteq Keys \cup {None}
      /\ waiting' \in [SessConvIds -> Seq(T)]
      /\ cpJob' # None => cpJob'.kept \in Seq(T) /\ cpJob'.auto \in BOOLEAN
  BY DEF SessInv, KeepRun, FreshId
<1>. QED
  BY <1>1, QuietSession

LEMMA MessageKeeps ==
  ASSUME SessInv, Submit
  PROVE  SessInv' /\ AgentWritesToPin
<1>1. PICK note, n, T, U : /\ note = Note("user") /\ n = sessMsgs /\ T = Notes(sessMsgs)
                           /\ U = T \cup {note}
  OBVIOUS
<1>2. /\ U \subseteq Notes(sessMsgs') /\ sessMsgs' \in Nat
      /\ \A m \in U : ~(m.by = "agent" /\ m.n > sessMsgs)
  BY <1>1, NewNote, OldNotes DEF Submit
<1>3. /\ StoreOf(book, spaces, U) /\ screen \in Seq(U) /\ here \in Keys
      /\ waiting \in [SessConvIds -> Seq(U)]
      /\ cpJob # None => cpJob.kept \in Seq(U) /\ cpJob.auto \in BOOLEAN
  <2>1. T \subseteq U
    BY <1>1
  <2>2. StoreOf(book, spaces, U) /\ Seq(T) \subseteq Seq(U)
    BY <1>1, <2>1, WiderStore DEF SessInv
  <2>3. waiting \in [SessConvIds -> Seq(T)]
    BY <1>1 DEF SessInv
  <2>. QED
    BY <1>1, <2>2, <2>3 DEF SessInv
<1>4. Drawn(U)
  <2>1. CASE paused # None /\ paused # here
    <3>1. paused \in Keys
      BY <2>1 DEF SessInv
    <3>2. PICK b, sp, key, msgs : /\ b = book /\ sp = spaces /\ key = paused
                                 /\ msgs = Transcript(paused) /\ Render(b, sp, key, msgs)
      BY <2>1 DEF Submit, ResumeElsewhere, Show
    <3>3. StoreOf(b, sp, U) /\ key \in Keys /\ msgs \in Seq(U)
      BY <1>3, <3>1, <3>2, TranscriptIsText
    <3>. QED
      BY <3>2, <3>3, RenderKeeps DEF Drawn
  <2>2. CASE ~(paused # None /\ paused # here)
    <3>1. PICK b, sp, key, msgs : /\ b = book /\ sp = spaces /\ key = here
                                 /\ msgs = Append(screen, note) /\ Render(b, sp, key, msgs)
      BY <1>1, <2>2 DEF Submit
    <3>2. msgs \in Seq(U)
      BY <1>1, <1>3, <3>1, AppendProperties
    <3>. QED
      BY <1>3, <3>1, <3>2, RenderKeeps DEF Drawn
  <2>. QED
    BY <2>1, <2>2
<1>5. DrawnKept(U)
  <2>1. {pin', paused'} \subseteq Keys \cup {None}
    BY <1>3 DEF SessInv, Submit, ResumeElsewhere, StartRun
  <2>. QED
    BY <1>2, <1>3, <2>1 DEF DrawnKept, Submit, SessInv
<1>. QED
  BY <1>2, <1>4, <1>5, DrawnIsInv, NothingNew DEF Drawn

LEMMA SessQueueKeeps ==
  ASSUME SessInv, QueueMessage
  PROVE  SessInv' /\ AgentWritesToPin
<1>1. PICK T, U, c, note : /\ T = Notes(sessMsgs) /\ U = Notes(sessMsgs') /\ c = here[2]
                           /\ note = Note("user") /\ waiting' = [waiting EXCEPT ![c] = Append(@, note)]
  BY DEF QueueMessage
<1>2. T \subseteq U /\ note \in U /\ sessMsgs' \in Nat
  BY <1>1, NewNote DEF QueueMessage
<1>3. StoreOf(book, spaces, T) /\ StoreOf(book, spaces, U) /\ Seq(T) \subseteq Seq(U)
  BY <1>1, <1>2, WiderStore DEF SessInv
<1>4. waiting \in [SessConvIds -> Seq(U)]
  BY <1>1, <1>3 DEF SessInv
<1>5. waiting' \in [SessConvIds -> Seq(U)]
  <2>1. CASE c \in SessConvIds
    <3>1. Append(waiting[c], note) \in Seq(U)
      BY <1>2, <1>4, <2>1, AppendProperties
    <3>. QED
      BY <1>1, <1>4, <3>1
  <2>2. CASE c \notin SessConvIds
    BY <1>1, <1>4, <2>2
  <2>. QED
    BY <2>1, <2>2
<1>6. Drawn(U)
  BY <1>1, <1>3 DEF Drawn, SessInv, QueueMessage, storeVars, StoreOf
<1>7. DrawnKept(U)
  BY <1>1, <1>2, <1>3, <1>5 DEF DrawnKept, SessInv, QueueMessage, sessRunVars
<1>8. StoreOf(book', spaces', T)
  BY <1>3 DEF QueueMessage, storeVars, StoreOf
<1>. QED
  BY <1>1, <1>6, <1>7, <1>8, DrawnIsInv, NothingNew, OldNotes

(* What is written for a conversation: into its transcript, and onto the   *)
(* screen while that shows it.                                             *)
LEMMA WriteForKeeps ==
  ASSUME SessInv, NEW T, NEW U, T = Notes(sessMsgs), T \subseteq U, NEW to, to = pin,
         NEW note \in U, WriteFor(to, note)
  PROVE  /\ Drawn(U)
         /\ \A key \in DOMAIN book' : key # to => book'[key].msgs \in Seq(T)
<1>1. PICK b, sp, key, msgs :
        /\ b = Write(book, to, Append(Transcript(to), note)) /\ sp = spaces /\ key = here
        /\ msgs = IF here = to THEN Append(screen, note) ELSE screen
        /\ Render(b, sp, key, msgs)
  BY DEF WriteFor
<1>2. StoreOf(book, spaces, T) /\ StoreOf(book, spaces, U) /\ Seq(T) \subseteq Seq(U)
  BY WiderStore DEF SessInv
<1>3. screen \in Seq(T) /\ screen \in Seq(U) /\ here \in Keys
  BY <1>2 DEF SessInv
<1>4. Append(Transcript(to), note) \in Seq(U) /\ Append(screen, note) \in Seq(U)
  BY <1>2, <1>3, TranscriptIsText, AppendProperties
<1>5. StoreOf(b, sp, U) /\ msgs \in Seq(U)
  BY <1>1, <1>2, <1>3, <1>4, WriteKeeps
<1>6. Drawn(U)
  BY <1>1, <1>3, <1>5, RenderKeeps DEF Drawn
<1>7. ASSUME NEW k \in DOMAIN book', k # to
      PROVE  book'[k].msgs \in Seq(T)
  <2>1. \/ k \in DOMAIN b /\ book'[k] = b[k]
        \/ k = key /\ book'[k].msgs = msgs
    <3>1. \A x \in DOMAIN b : b[x] \in ConvData(U)
      BY <1>5 DEF StoreOf
    <3>2. \A x \in DOMAIN book' :
            \/ x \in DOMAIN b /\ book'[x] = b[x]
            \/ /\ x = key /\ key[1] \in DOMAIN sp /\ book'[x].msgs = msgs
               /\ msgs \in Seq(U) => book'[x] \in ConvData(U)
      <4>1. Render(b, sp, key, msgs)
        BY <1>1
      <4>. QED
        BY <3>1, <4>1, RenderCopies
    <3>. QED
      BY <3>2
  <2>2. CASE k \in DOMAIN b /\ book'[k] = b[k]
    <3>1. k \in DOMAIN book /\ b[k] = book[k]
      BY <1>1, <1>7, <2>2 DEF Write
    <3>. QED
      BY <1>2, <2>2, <3>1 DEF StoreOf, ConvData
  <2>3. CASE k = key /\ book'[k].msgs = msgs
    BY <1>1, <1>3, <1>7, <2>3
  <2>. QED
    BY <2>1, <2>2, <2>3
<1>. QED
  BY <1>6, <1>7

LEMMA RunWritesKeeps ==
  ASSUME SessInv, RunWrites
  PROVE  SessInv' /\ AgentWritesToPin
<1>1. PICK T, U, to, note : /\ T = Notes(sessMsgs) /\ U = Notes(sessMsgs') /\ to = pin
                            /\ note = Note("agent") /\ WriteFor(to, note)
  BY DEF RunWrites
<1>2. T \subseteq U /\ note \in U /\ sessMsgs' \in Nat
  BY <1>1, NewNote DEF RunWrites
<1>3. /\ Drawn(U)
      /\ \A key \in DOMAIN book' : key # to => book'[key].msgs \in Seq(T)
  BY <1>1, <1>2, WriteForKeeps
<1>4. DrawnKept(U)
  <2>1. Seq(T) \subseteq Seq(U)
    BY <1>2
  <2>2. waiting \in [SessConvIds -> Seq(T)]
    BY <1>1 DEF SessInv
  <2>. QED
    BY <1>1, <1>2, <2>1, <2>2 DEF DrawnKept, SessInv, RunWrites, sessRunVars
<1>5. ASSUME NEW key \in DOMAIN book', NEW m \in Range(book'[key].msgs),
             m.by = "agent", m.n > sessMsgs, key # pin
      PROVE  FALSE
  <2>1. PICK msgs : msgs = book'[key].msgs
    OBVIOUS
  <2>2. msgs \in Seq(T) /\ m \in Range(msgs)
    BY <1>1, <1>3, <1>5, <2>1
  <2>3. PICK i \in 1..Len(msgs) : m = msgs[i]
    BY <2>2, LenProperties DEF Range
  <2>4. msgs[i] \in T
    BY <2>2, <2>3, ElementOfSeq
  <2>. QED
    BY <1>1, <1>5, <2>3, <2>4, OldNotes
<1>. QED
  BY <1>3, <1>4, <1>5, DrawnIsInv DEF AgentWritesToPin

LEMMA RunFinishesKeeps ==
  ASSUME SessInv, RunFinishes
  PROVE  SessInv' /\ AgentWritesToPin
<1>1. PICK T : T = Notes(sessMsgs)
  OBVIOUS
<1>2. pin \in Keys /\ pin[2] \in SessConvIds /\ waiting \in [SessConvIds -> Seq(T)]
  BY <1>1 DEF SessInv, RunFinishes, Running, Keys, SessConvIds
<1>3. CASE halted \/ waiting[pin[2]] = <<>>
  <2>1. Drawn(T)
    BY <1>1, <1>3, IdleKeeps DEF RunFinishes
  <2>2. /\ sessMsgs' = sessMsgs /\ sessConvs' \in Nat /\ {pin', paused'} \subseteq Keys \cup {None}
        /\ waiting' \in [SessConvIds -> Seq(T)]
        /\ cpJob' # None => cpJob'.kept \in Seq(T) /\ cpJob'.auto \in BOOLEAN
    BY <1>1, <1>2, <1>3 DEF SessInv, RunFinishes
  <2>. QED
    BY <1>1, <2>1, <2>2, QuietSession
<1>4. CASE ~(halted \/ waiting[pin[2]] = <<>>)
  <2>1. PICK to, c, queue, note :
          /\ to = pin /\ c = pin[2] /\ queue = waiting[pin[2]] /\ note = Head(waiting[pin[2]])
          /\ WriteFor(to, note) /\ waiting' = [waiting EXCEPT ![c] = Tail(@)]
    BY <1>4 DEF RunFinishes
  <2>2. queue \in Seq(T) /\ queue # <<>> /\ c \in SessConvIds /\ queue = waiting[c] /\ note = Head(queue)
    BY <1>2, <1>4, <2>1
  <2>3. note \in T /\ Tail(queue) \in Seq(T)
    BY <2>2, HeadTailProperties
  <2>4. waiting' \in [SessConvIds -> Seq(T)]
    BY <1>2, <2>1, <2>2, <2>3
  <2>5. Drawn(T)
    BY <1>1, <2>1, <2>3, WriteForKeeps
  <2>6. /\ sessMsgs' = sessMsgs /\ sessConvs' \in Nat /\ {pin', paused'} \subseteq Keys \cup {None}
        /\ cpJob' # None => cpJob'.kept \in Seq(T) /\ cpJob'.auto \in BOOLEAN
    BY <1>1, <1>2, <1>4 DEF SessInv, RunFinishes, StartRun
  <2>. QED
    BY <1>1, <2>4, <2>5, <2>6, QuietSession
<1>. QED
  BY <1>3, <1>4

-----------------------------------------------------------------------------
LEMMA SessInvStarts ==
  ASSUME SessionAssumption, SessInit
  PROVE  SessInv
<1>. DEFINE w == CHOOSE x \in Folders : TRUE
            T == Notes(sessMsgs)
            first == <<[n |-> 1, by |-> "user"]>>
<1>1. w \in Folders /\ {1, 2} \subseteq SessConvIds /\ 0 \in SessConvIds
  BY DEF SessionAssumption, SessConvIds
<1>2. here = <<w, 1>> /\ here[1] = w /\ here \in Keys /\ <<w, 2>> \in Keys
  BY <1>1 DEF SessInit, Keys, SessConvIds
<1>3. first \in Seq(T) /\ sessMsgs = 1 /\ sessConvs = 2
  BY DEF SessInit, Notes
<1>. HIDE DEF w, T, first
<1>4. /\ \A msgs \in Seq(T) : [Conv EXCEPT !.msgs = msgs] \in ConvData(T)
      /\ <<>> \in Seq(T)
  <2>1. Conv \in ConvData(T) /\ <<>> \in Seq(T)
    BY DEF Conv, ConvData, Checkpoints
  <2>. QED
    BY <2>1 DEF ConvData
<1>5. DOMAIN book = {<<w, 1>>, <<w, 2>>} /\ \A key \in DOMAIN book : book[key] \in ConvData(T)
  BY <1>2, <1>3, <1>4 DEF SessInit, first
<1>6. DOMAIN spaces = {w} /\ spaces \in [{w} -> SpaceData]
  <2>1. <<1, 2>> \in Seq(SessConvIds) /\ 1 \in SessConvIds
    BY <1>1
  <2>. QED
    BY <1>2, <2>1 DEF SessInit, SpaceData
<1>7. StoreOf(book, spaces, T)
  BY <1>1, <1>2, <1>5, <1>6 DEF StoreOf
<1>8. screen \in Seq(T)
  BY <1>2, <1>5 DEF SessInit, ConvData
<1>9. waiting \in [SessConvIds -> Seq(T)]
  BY DEF SessInit, SessConvIds
<1>. QED
  BY <1>2, <1>3, <1>7, <1>8, <1>9 DEF SessInv, SessInit, T

LEMMA SessInvStep ==
  ASSUME SessionAssumption, SessInv, SessNext
  PROVE  SessInv' /\ AgentWritesToPin
<1>0. PICK T : T = Notes(sessMsgs)
  OBVIOUS
<1>1. DOMAIN spaces \subseteq Folders
  BY DEF SessInv, StoreOf
<1>2. ASSUME NEW w \in DOMAIN spaces,
             NewChatIn(w) \/ SelectWorkspace(w) \/ RemoveWorkspace(w)
               \/ \E c \in Range(spaces[w].order) : SelectConv(w, c)
      PROVE  SessInv' /\ AgentWritesToPin
  <2>0. spaces[w] \in SpaceData /\ w \in Folders
    BY DEF SessInv, StoreOf
  <2>1. CASE NewChatIn(w)
    BY <1>0, <2>1, NewChatKeeps, MovesKeep DEF NewChatIn
  <2>2. ASSUME NEW c \in SessConvIds, SelectConv(w, c)
        PROVE  SessInv' /\ AgentWritesToPin
    <3>1. PICK key : key = <<w, c>> /\ Show(key)
      BY <2>2 DEF SelectConv
    <3>2. key \in Keys
      BY <2>0, <3>1 DEF Keys, SessConvIds
    <3>. QED
      BY <1>0, <2>2, <3>1, <3>2, ShowKeeps, MovesKeep DEF SelectConv
  <2>3. CASE SelectWorkspace(w)
    <3>1. spaces[w].active \in SessConvIds
      BY <2>0 DEF SpaceData
    <3>2. PICK c : c = spaces[w].active /\ SelectConv(w, c)
      BY <2>3 DEF SelectWorkspace
    <3>. QED
      BY <2>2, <3>1, <3>2
  <2>4. CASE RemoveWorkspace(w)
    BY <1>0, <2>4, RemoveWorkspaceKeeps, MovesKeep DEF RemoveWorkspace, ForgetWorkspace
  <2>5. ASSUME NEW c \in Range(spaces[w].order), SelectConv(w, c)
        PROVE  SessInv' /\ AgentWritesToPin
    <3>1. PICK order : order = spaces[w].order /\ order \in Seq(SessConvIds)
      BY <2>0 DEF SpaceData
    <3>2. PICK i \in 1..Len(order) : c = order[i]
      BY <2>5, <3>1, LenProperties DEF Range
    <3>3. c \in SessConvIds
      BY <3>1, <3>2, ElementOfSeq
    <3>. QED
      BY <2>2, <2>5, <3>3
  <2>. QED
    BY <1>2, <2>1, <2>3, <2>4, <2>5
<1>3. ASSUME NEW w \in Folders, AddWorkspace(w)
      PROVE  SessInv' /\ AgentWritesToPin
  <2>1. KeepRun /\ (FreshId \/ UNCHANGED sessConvs)
    BY <1>3 DEF AddWorkspace
  <2>. QED
    BY <1>0, <1>3, <2>1, AddWorkspaceKeeps, MovesKeep
<1>4. ASSUME NEW key \in DOMAIN book, Delete(key) \/ \E hide \in BOOLEAN : Archive(key, hide)
      PROVE  SessInv' /\ AgentWritesToPin
  <2>1. Drawn(T)
    BY <1>0, <1>4, DeleteKeeps, ArchiveKeeps
  <2>2. KeepRun /\ UNCHANGED sessConvs
    BY <1>4 DEF Delete, Archive
  <2>. QED
    BY <1>0, <2>1, <2>2, MovesKeep
<1>5. CASE Fork
  BY <1>0, <1>5, ForkKeeps, MovesKeep DEF Fork
<1>6. CASE ReloadTab
  <2>1. Drawn(T)
    BY <1>0, <1>6, ReloadKeeps
  <2>2. /\ sessMsgs' = sessMsgs /\ sessConvs' \in Nat /\ {pin', paused'} \subseteq Keys \cup {None}
        /\ waiting' \in [SessConvIds -> Seq(T)] /\ cpJob' = None
    BY <1>6 DEF ReloadTab, SessInv
  <2>. QED
    BY <1>0, <2>1, <2>2, QuietSession
<1>7. CASE RunPauses \/ StopRun
  <2>1. Drawn(T)
    BY <1>0, <1>7, IdleKeeps DEF RunPauses, StopRun
  <2>2. /\ sessMsgs' = sessMsgs /\ sessConvs' \in Nat /\ {pin', paused'} \subseteq Keys \cup {None}
        /\ waiting' \in [SessConvIds -> Seq(T)]
        /\ cpJob' # None => cpJob'.kept \in Seq(T) /\ cpJob'.auto \in BOOLEAN
    BY <1>0, <1>7 DEF RunPauses, StopRun, SessInv
  <2>. QED
    BY <1>0, <2>1, <2>2, QuietSession
<1>8. CASE \/ \E auto \in BOOLEAN : BeginCheckpoint(auto)
           \/ SaveCheckpoint \/ RestoreCheckpoint \/ CheckpointRestored \/ DeleteCheckpoint
  <2>1. Drawn(T) /\ (cpJob' # None => cpJob'.kept \in Seq(T) /\ cpJob'.auto \in BOOLEAN)
    BY <1>0, <1>8, CheckpointsKeep
  <2>2. KeepSession
    BY <1>8 DEF BeginCheckpoint, SaveCheckpoint, RestoreCheckpoint, CheckpointRestored,
                DeleteCheckpoint
  <2>3. /\ sessMsgs' = sessMsgs /\ sessConvs' \in Nat /\ {pin', paused'} \subseteq Keys \cup {None}
        /\ waiting' \in [SessConvIds -> Seq(T)]
    BY <1>0, <2>2 DEF KeepSession, sessRunVars, SessInv
  <2>. QED
    BY <1>0, <2>1, <2>3, QuietSession
<1>. QED
  BY <1>2, <1>3, <1>4, <1>5, <1>6, <1>7, <1>8, SessQueueKeeps, MessageKeeps, RunWritesKeeps,
     RunFinishesKeeps DEF SessNext

LEMMA SessInvStutters ==
  ASSUME SessInv, UNCHANGED sessVars
  PROVE  SessInv'
  BY DEF SessInv, sessVars, StoreOf

(* What the agent writes reaches the transcript of the conversation its    *)
(* run was started for and no other, wherever the user goes meanwhile, for *)
(* any workspaces and any number of conversations and checkpoints.         *)
THEOREM AgentWritesWhereItRuns ==
  SessSpec => RepliesGoToTheirRun
<1>1. SessInit => SessInv
  BY SessInvStarts, SessionAssumption
<1>2. SessInv /\ [SessNext]_sessVars => SessInv'
  BY SessInvStep, SessInvStutters, SessionAssumption
<1>3. SessInv /\ [SessNext]_sessVars =>
        [\A key \in DOMAIN book' : \A m \in Range(book'[key].msgs) :
           m.by = "agent" /\ m.n > sessMsgs => key = pin]_sessVars
  BY SessInvStep, SessionAssumption DEF AgentWritesToPin
<1>. QED
  BY <1>1, <1>2, <1>3, PTL DEF SessSpec, RepliesGoToTheirRun

-----------------------------------------------------------------------------
(* Tool outputs: what was packed, and what has been paged back in.         *)

OutputForms == {"whole", "packed", "success", "failure"}
Packable == [of : Outputs, form : OutputForms]

(* The pages read so far are the beginning of the text.                    *)
PagesOf(o) ==
  /\ pages.of = {o} /\ pages.next \in 0..Size(o) /\ pages.got = SubSeq(o.bytes, 1, pages.next)
  /\ pages.eof => pages.next = Size(o)
OutputInv ==
  /\ results \in Seq(Packable) /\ packed \subseteq kept
  /\ \A i \in DOMAIN results : results[i].form = "packed" => results[i].of \in kept
  /\ pages = NoPages \/ \E o \in Outputs : PagesOf(o)

(* A page is a stretch of the text from its offset.                        *)
LEMMA PageIsStretch ==
  ASSUME NEW b \in Seq({"x", "n"}), NEW offset \in 0..Len(b), PageBytes \in Nat
  PROVE  \E n \in 0..(Len(b) - offset) : PageFrom(b, offset) = SubSeq(b, offset + 1, offset + n)
<1>1. PICK last, window, Full, page :
        /\ last = IF Len(b) - offset < PageBytes THEN Len(b) ELSE offset + PageBytes
        /\ window = SubSeq(b, offset + 1, last)
        /\ Full = {i \in DOMAIN window :
                     window[i] = "n"
                     /\ Len(SelectSeq(SubSeq(window, 1, i), LAMBDA c : c = "n")) = PageLines}
        /\ page = PageFrom(b, offset)
  OBVIOUS
<1>2. Len(b) \in Nat /\ last \in offset..Len(b) /\ \A i \in 1..Len(b) : b[i] \in {"x", "n"}
  BY <1>1, LenProperties, ElementOfSeq
<1>3. /\ window \in Seq({"x", "n"}) /\ Len(window) = last - offset
      /\ \A i \in 1..(last - offset) : window[i] = b[offset + i]
  BY <1>1, <1>2, SubSeqProperties
<1>4. DOMAIN window = 1..(last - offset)
  BY <1>3, LenProperties
<1>5. page = window \/ \E i \in DOMAIN window : page = SubSeq(window, 1, i)
  <2>1. CASE Full = {}
    BY <1>1, <2>1 DEF PageFrom
  <2>2. CASE Full # {}
    BY <1>1, <2>2 DEF PageFrom
  <2>. QED
    BY <2>1, <2>2
<1>6. ASSUME page = window
      PROVE  \E n \in 0..(Len(b) - offset) : page = SubSeq(b, offset + 1, offset + n)
  <2>1. PICK m : m = last - offset
    OBVIOUS
  <2>2. m \in 0..(Len(b) - offset) /\ offset + m = last
    BY <1>2, <2>1
  <2>. QED
    BY <1>1, <1>6, <2>2
<1>7. ASSUME NEW i \in DOMAIN window, page = SubSeq(window, 1, i)
      PROVE  page = SubSeq(b, offset + 1, offset + i) /\ i \in 0..(Len(b) - offset)
  <2>1. PICK stretch : stretch = SubSeq(b, offset + 1, offset + i)
    OBVIOUS
  <2>2. i \in 1..(last - offset) /\ i \in 0..(Len(b) - offset)
    BY <1>2, <1>4
  <2>3. page \in Seq({"x", "n"}) /\ Len(page) = i /\ \A j \in 1..i : page[j] = window[j]
    BY <1>3, <1>7, <2>2, SubSeqProperties
  <2>4. stretch \in Seq({"x", "n"}) /\ Len(stretch) = i /\ \A j \in 1..i : stretch[j] = b[offset + j]
    <3>1. PICK m, k : m = offset + 1 /\ k = offset + i
      OBVIOUS
    <3>2. m \in Int /\ k \in Int /\ m <= k /\ k - m + 1 = i
      BY <1>2, <2>2, <3>1
    <3>3. \A j \in m..k : b[j] \in {"x", "n"}
      BY <1>2, <2>2, <3>1
    <3>4. stretch = SubSeq(b, m, k)
      BY <2>1, <3>1
    <3>5. stretch \in Seq({"x", "n"}) /\ Len(stretch) = k - m + 1
          /\ \A j \in 1..(k - m + 1) : stretch[j] = b[m + j - 1]
      BY <3>2, <3>3, <3>4, SubSeqProperties
    <3>6. \A j \in 1..i : m + j - 1 = offset + j
      BY <1>2, <2>2, <3>1
    <3>. QED
      BY <3>2, <3>5, <3>6
  <2>5. ASSUME NEW j \in 1..i PROVE page[j] = stretch[j]
    <3>1. j \in 1..(last - offset)
      BY <1>2, <2>2
    <3>. QED
      BY <1>3, <2>3, <2>4, <3>1
  <2>. QED
    BY <2>1, <2>2, <2>3, <2>4, <2>5, SeqEqual
<1>. QED
  BY <1>1, <1>5, <1>6, <1>7

(* A page more is a longer beginning of the text.                          *)
LEMMA TurnedIsPages ==
  ASSUME OutputAssumption, NEW o \in Outputs, NEW offset \in 0..Size(o),
         NEW got, got = SubSeq(o.bytes, 1, offset), pages' = Turned(o, got, offset)
  PROVE  PagesOf(o)'
<1>1. PICK b, page : b = o.bytes /\ page = PageFrom(b, offset)
  OBVIOUS
<1>2. b \in Seq({"x", "n"}) /\ Len(b) \in Nat /\ offset \in 0..Len(b) /\ PageBytes \in Nat
  BY <1>1, LenProperties DEF OutputAssumption, Size
<1>3. PICK n \in 0..(Len(b) - offset) : page = SubSeq(b, offset + 1, offset + n)
  BY <1>1, <1>2, PageIsStretch
<1>4. Len(page) = n
  <2>1. \A i \in offset + 1..offset + n : b[i] \in {"x", "n"}
    BY <1>2, ElementOfSeq
  <2>. QED
    BY <1>2, <1>3, <2>1, SubSeqProperties
<1>5. got \o page = SubSeq(b, 1, offset + n)
  <2>1. PICK k : k = offset + n
    OBVIOUS
  <2>2. 1 \in 1..Len(b) + 1 /\ offset \in 1 - 1..Len(b) /\ k \in offset..Len(b)
    BY <1>2, <2>1
  <2>3. SubSeq(b, 1, offset) \o SubSeq(b, offset + 1, k) = SubSeq(b, 1, k)
    BY <1>2, <2>2, ConcatAdjacentSubSeq
  <2>. QED
    BY <1>1, <1>3, <2>1, <2>3
<1>6. PICK read, next, eof : /\ read = got \o page /\ next = offset + n
                            /\ eof = (offset + n >= Len(b))
  OBVIOUS
<1>7. offset + n \in 0..Len(b) /\ (offset + n >= Len(b) => offset + n = Len(b))
  BY <1>2
<1>8. pages' = [of |-> {o}, got |-> read, next |-> next, eof |-> eof]
  BY <1>1, <1>4, <1>6 DEF Turned, Size
<1>9. pages'.of = {o} /\ pages'.got = read /\ pages'.next = next /\ pages'.eof = eof
  BY <1>8
<1>. QED
  BY <1>1, <1>5, <1>6, <1>7, <1>9 DEF PagesOf, Size

LEMMA RowOf ==
  ASSUME NEW S, NEW row \in Seq(S)
  PROVE  DOMAIN row = 1..Len(row) /\ Len(row) \in Nat /\ \A i \in DOMAIN row : row[i] \in S
  BY LenProperties, ElementOfSeq

LEMMA OutputStarts ==
  ASSUME OutputInit PROVE OutputInv
  BY DEF OutputInit, OutputInv

LEMMA CutReturnKeeps ==
  ASSUME OutputInv, ToolReturns PROVE OutputInv'
<1>0. PICK o \in Outputs : \E result \in Reduced([of |-> o, form |-> "whole"]) :
                             results' = Append(results, result)
  BY DEF ToolReturns
<1>1. PICK result \in Reduced([of |-> o, form |-> "whole"]) : results' = Append(results, result)
  BY <1>0
<1>2. result \in Packable /\ result.form # "packed"
  BY <1>1 DEF Reduced, PutOutput, Packable, OutputForms
<1>3. /\ Append(results, result) \in Seq(Packable)
      /\ \A i \in DOMAIN results' : \/ i \in DOMAIN results /\ results'[i] = results[i]
                                 \/ results'[i] = result
  BY <1>1, <1>2, AppendProperties, LenProperties DEF OutputInv
<1>. QED
  BY <1>1, <1>2, <1>3 DEF OutputInv, ToolReturns, PagesOf

LEMMA SendKeepsOutputs ==
  ASSUME OutputInv, SendHistory PROVE OutputInv'
<1>1. PICK row, n, fresh : row = results /\ n = Len(row)
        /\ fresh = [i \in DOMAIN row |-> IF i \in Again \cup Batch THEN PutOutput(row[i], "packed")
                                        ELSE row[i]]
  OBVIOUS
<1>2. DOMAIN row = 1..n /\ n \in Nat /\ \A i \in 1..n : row[i] \in Packable
  BY <1>1, RowOf DEF OutputInv
<1>3. \A i \in 1..n : /\ fresh[i] \in Packable /\ fresh[i].of = row[i].of
                      /\ fresh[i].form = "packed" => i \in Again \cup Batch \/ row[i].form = "packed"
  <2>1. ASSUME NEW r \in Packable
        PROVE  PutOutput(r, "packed") \in Packable /\ PutOutput(r, "packed").of = r.of
    BY DEF PutOutput, Packable, OutputForms
  <2>. QED
    BY <1>1, <1>2, <2>1
<1>4. fresh \in Seq(Packable)
  <2>1. fresh \in [1..n -> Packable]
    BY <1>1, <1>2, <1>3
  <2>. QED
    BY <1>2, <2>1, SeqDef
<1>5. /\ packed' = packed \cup {results[i].of : i \in Batch}
      /\ kept' = kept \cup {results[i].of : i \in Batch} /\ results' = fresh /\ pages' = pages
  BY <1>1 DEF SendHistory, Pack, TextOf
<1>6. \A i \in Again : results[i].of \in packed
  BY DEF Again, TextOf
<1>7. ASSUME NEW i \in DOMAIN fresh, fresh[i].form = "packed" PROVE fresh[i].of \in kept'
  BY <1>1, <1>2, <1>3, <1>5, <1>6, <1>7 DEF OutputInv
<1>8. packed' \subseteq kept'
  BY <1>5 DEF OutputInv
<1>. QED
  BY <1>4, <1>5, <1>7, <1>8 DEF OutputInv, PagesOf

LEMMA TroubleKeepsOutputs ==
  ASSUME OutputInv, PackFails \/ ReloadPage \/ CompactHistory PROVE OutputInv'
<1>1. CASE PackFails
  BY <1>1 DEF PackFails, Pack, OutputInv, PagesOf
<1>2. CASE ReloadPage
  BY <1>2 DEF ReloadPage, OutputInv
<1>3. CASE CompactHistory
  <2>1. PICK n \in 1..Len(results) : results' = SubSeq(results, n + 1, Len(results))
    BY <1>3 DEF CompactHistory
  <2>2. Len(results) \in Nat /\ \A i \in 1..Len(results) : results[i] \in Packable
        /\ DOMAIN results = 1..Len(results)
    BY RowOf DEF OutputInv
  <2>3. PICK row, len, cut : row = results /\ len = Len(row) /\ cut = SubSeq(row, n + 1, len)
    OBVIOUS
  <2>4. /\ cut \in Seq(Packable) /\ \A i \in 1..(len - n) : cut[i] = row[n + i]
        /\ Len(cut) = len - n
    BY <2>1, <2>2, <2>3, SubSeqProperties
  <2>5. DOMAIN cut = 1..(len - n)
    BY <2>4, LenProperties
  <2>6. ASSUME NEW i \in DOMAIN cut PROVE \E j \in DOMAIN row : cut[i] = row[j]
    <3>1. n + i \in DOMAIN row
      BY <2>1, <2>2, <2>3, <2>5
    <3>. QED
      BY <2>4, <2>5, <3>1
  <2>7. \A i \in DOMAIN cut : cut[i].form = "packed" => cut[i].of \in kept
    BY <2>3, <2>6 DEF OutputInv
  <2>8. results' = cut /\ UNCHANGED <<kept, packed, pages>>
    BY <1>3, <2>1, <2>3 DEF CompactHistory
  <2>. QED
    BY <2>4, <2>7, <2>8 DEF OutputInv, PagesOf
<1>. QED
  BY <1>1, <1>2, <1>3

LEMMA RecallKeeps ==
  ASSUME OutputAssumption, OutputInv, Recall \/ RecallOn PROVE OutputInv'
<1>1. ASSUME NEW o \in Outputs, NEW offset \in 0..Size(o),
             NEW got, got = SubSeq(o.bytes, 1, offset), pages' = Turned(o, got, offset)
      PROVE  OutputInv'
  <2>1. PagesOf(o)'
    BY <1>1, TurnedIsPages
  <2>. QED
    BY <2>1 DEF Recall, RecallOn, OutputInv
<1>2. CASE Recall
  <2>1. PICK i \in DOMAIN results : pages' = Turned(results[i].of, <<>>, 0)
    BY <1>2 DEF Recall
  <2>2. results[i] \in Packable
    BY RowOf DEF OutputInv
  <2>3. PICK o \in Outputs : o = results[i].of
    BY <2>2 DEF Packable
  <2>4. 0 \in 0..Size(o) /\ SubSeq(o.bytes, 1, 0) = <<>>
    BY SubSeqEmpty, LenProperties DEF OutputAssumption, Size
  <2>. QED
    BY <1>1, <2>1, <2>3, <2>4
<1>3. CASE RecallOn
  <2>1. PICK o \in Outputs : PagesOf(o)
    BY <1>3 DEF OutputInv, RecallOn, NoPages
  <2>2. pages' = Turned(o, pages.got, pages.next)
    BY <1>3, <2>1 DEF RecallOn, PagesOf
  <2>. QED
    BY <1>1, <2>1, <2>2 DEF PagesOf
<1>. QED
  BY <1>2, <1>3

LEMMA OutputStep == ASSUME OutputInv, [OutputNext]_outputVars PROVE OutputInv'
<1>1. CASE UNCHANGED outputVars
  BY <1>1 DEF outputVars, OutputInv, PagesOf
<1>. QED
  BY <1>1, OutputAssumption, CutReturnKeeps, SendKeepsOutputs, TroubleKeepsOutputs, RecallKeeps
     DEF OutputNext

(* What a placeholder stands for can be paged back in at any time, and the *)
(* pages put one after the other are the text, for any outputs, sizes of   *)
(* pages and thresholds: also after a pack that failed, a page load or a   *)
(* compaction.                                                             *)
THEOREM PackedComesBack ==
  OutputSpec => []NothingIsLost
<1>1. OutputInit => OutputInv
  BY OutputStarts
<1>2. OutputInv /\ [OutputNext]_outputVars => OutputInv'
  BY OutputStep
<1>3. OutputInv => NothingIsLost
  <2>1. ASSUME OutputInv, pages # NoPages, pages.eof, NEW o \in pages.of
        PROVE  pages.got = o.bytes
    <3>1. o \in Outputs /\ PagesOf(o)
      BY <2>1 DEF OutputInv, PagesOf
    <3>2. pages.got = SubSeq(o.bytes, 1, Len(o.bytes))
      BY <2>1, <3>1 DEF PagesOf, Size
    <3>. QED
      BY <3>1, <3>2, OutputAssumption, SubSeqFull DEF OutputAssumption
  <2>. QED
    BY <2>1 DEF OutputInv, NothingIsLost
<1>. QED
  BY <1>1, <1>2, <1>3, PTL DEF OutputSpec

-----------------------------------------------------------------------------
(* Types of the run of the coder agent. While a call is dispatched, the    *)
(* reply has room for it; the counters stay within what the loop allows.   *)
Dispatching == {"perm", "approval", "checkpoint", "risky", "commit", "probe", "send", "reply",
                "checks"}
TurnPlaces == Dispatching \cup {"idle", "paused", "prepare", "scout", "top", "compact", "stream",
                "verify", "critic", "calls"}
TurnCounts == [steps : 0..MaxSteps, repairs : Nat, reviews : Nat, conts : Nat, drafts : 0..MaxDrafts]

PlaceInv ==
  /\ turnAt \in TurnPlaces /\ tool \in Toolkit \cup {Toolless} /\ callsDone \in 0..MaxCalls
  /\ turnAt \in Dispatching => callsDone < MaxCalls
  /\ toolDedup \subseteq PureDedup
CountInv == turnCounts \in TurnCounts
TodoRevInv == todosRev \in Nat /\ revAtReq \in Nat /\ revAtReq <= todosRev
RestInv ==
  /\ abortCtl \in {"none", "live", "aborted"} /\ approvedSeen \subseteq approvedCommands
  /\ fileTold \in {"no", "exists", "content"}
TurnInv == PlaceInv /\ CountInv /\ TodoRevInv /\ RestInv

LEMMA BoundsAreNumbers == MaxSteps \in Nat /\ MaxDrafts \in Nat /\ MaxCalls \in Nat
  BY TurnAssumption DEF TurnAssumption

LEMMA TurnBegins == TurnInit => TurnInv
  BY BoundsAreNumbers
     DEF TurnInit, TurnInv, PlaceInv, CountInv, TodoRevInv, RestInv, TurnPlaces, Dispatching,
         TurnCounts, Steps0

(* The dispatch of a call: where it goes next, and how it is answered.     *)
LEMMA PlaceMoves ==
  ASSUME PlaceInv,
         \/ turnAt' \in TurnPlaces \ Dispatching /\ callsDone' \in {0, callsDone}
              /\ tool' \in {Toolless, tool} /\ toolDedup' \in {{}, toolDedup}
         \/ turnAt' \in TurnPlaces /\ (turnAt' \in Dispatching => turnAt \in Dispatching)
              /\ UNCHANGED <<tool, callsDone, toolDedup>>
         \/ AnswerCall /\ turnAt \in Dispatching
         \/ SkipCall /\ turnAt \in Dispatching
  PROVE  PlaceInv'
<1>1. CASE turnAt' \in TurnPlaces \ Dispatching /\ callsDone' \in {0, callsDone}
             /\ tool' \in {Toolless, tool} /\ toolDedup' \in {{}, toolDedup}
  BY <1>1, BoundsAreNumbers DEF PlaceInv
<1>2. CASE turnAt' \in TurnPlaces /\ (turnAt' \in Dispatching => turnAt \in Dispatching)
             /\ UNCHANGED <<tool, callsDone, toolDedup>>
  BY <1>2 DEF PlaceInv
<1>3. CASE (AnswerCall \/ SkipCall) /\ turnAt \in Dispatching
  <2>1. callsDone' \in 0..MaxCalls
    BY <1>3, BoundsAreNumbers DEF AnswerCall, SkipCall, PlaceInv
  <2>2. toolDedup' \subseteq PureDedup
    BY <1>3 DEF AnswerCall, SkipCall, PlaceInv
  <2>. QED  BY <1>3, <2>1, <2>2 DEF AnswerCall, SkipCall, PlaceInv, GoTo, TurnPlaces, Dispatching
<1>. QED  BY <1>1, <1>2, <1>3

LEMMA PlaceStays ==
  ASSUME TurnInv, [TurnNext]_turnVars
  PROVE  PlaceInv'
<1>0. PlaceInv /\ \A x \in Dispatching : x \in TurnPlaces
  BY DEF TurnInv, TurnPlaces
<1>1. ASSUME \/ RunTurn \/ Prepared \/ Scouted \/ StopLoop \/ CompactFirst \/ Compacts
             \/ CompactFails \/ SendRequest \/ ModelReplies \/ ChecksRun \/ CriticReviews
             \/ CallsDone
      PROVE  turnAt' \in TurnPlaces \ Dispatching /\ callsDone' \in {0, callsDone}
               /\ tool' \in {Toolless, tool} /\ toolDedup' \in {{}, toolDedup}
  <2>. USE DEF GoTo, EndTurnRun, guardVars, TurnPlaces, Dispatching
  <2>1. CASE RunTurn \/ Prepared \/ Scouted \/ StopLoop
    BY <2>1 DEF RunTurn, Prepared, Scouted, StopLoop
  <2>2. CASE CompactFirst \/ Compacts \/ CompactFails \/ SendRequest
    BY <2>2 DEF CompactFirst, Compacts, CompactFails, SendRequest, ForgetContext
  <2>3. CASE ModelReplies
    BY <2>3 DEF ModelReplies
  <2>4. CASE ChecksRun
    BY <2>4 DEF ChecksRun
  <2>5. CASE CriticReviews \/ CallsDone
    BY <2>5 DEF CriticReviews, CallsDone
  <2>. QED  BY <1>1, <2>1, <2>2, <2>3, <2>4, <2>5
<1>2. CASE NextCall
  <2>1. tool' \in Toolkit /\ UNCHANGED toolDedup
    BY <1>2 DEF NextCall, guardVars
  <2>2. CASE turnAt' = "calls" /\ callsDone' = callsDone + 1
    <3>1. callsDone' \in 0..MaxCalls
      BY <1>2, <2>2, BoundsAreNumbers DEF NextCall, TurnInv, PlaceInv
    <3>. QED  BY <1>0, <2>1, <2>2, <3>1 DEF PlaceInv, TurnPlaces, Dispatching
  <2>3. CASE turnAt' = "perm" /\ callsDone' = callsDone
    BY <1>0, <1>2, <2>1, <2>3 DEF PlaceInv, TurnPlaces, Dispatching, NextCall
  <2>. QED  BY <1>2, <2>2, <2>3 DEF NextCall, GoTo
<1>3. CASE Delegates
  <2>1. UNCHANGED <<turnAt, tool, toolDedup>> /\ turnAt = "calls" /\ callsDone' = MaxCalls
    BY <1>3 DEF Delegates, guardVars
  <2>. QED  BY <1>0, <2>1, BoundsAreNumbers DEF PlaceInv, Dispatching
<1>4. ASSUME \/ Permitted \/ CheckpointTurn \/ DecideRisky \/ ProbeFile \/ AnswerLocally
             \/ SendCall \/ ToolAnswers \/ PostEditChecks \/ ClickApproval \/ ClickCommit
             \/ (\E ok \in BOOLEAN : DecideApproval(ok)) \/ (\E ok \in BOOLEAN : DecideCommit(ok))
      PROVE  \/ turnAt' \in TurnPlaces /\ (turnAt' \in Dispatching => turnAt \in Dispatching)
                  /\ UNCHANGED <<tool, callsDone, toolDedup>>
             \/ AnswerCall /\ turnAt \in Dispatching
             \/ SkipCall /\ turnAt \in Dispatching
  <2>. USE DEF GoTo, guardVars, TurnPlaces, Dispatching
  <2>1. CASE Permitted
    BY <2>1 DEF Permitted, PermittedOr
  <2>2. CASE CheckpointTurn
    BY <2>2 DEF CheckpointTurn, CheckpointTurnProbing
  <2>3. CASE DecideRisky
    BY <2>3 DEF DecideRisky
  <2>4. CASE ProbeFile
    BY <2>4 DEF ProbeFile
  <2>5. CASE AnswerLocally
    BY <2>5 DEF AnswerLocally, LocalCall
  <2>6. CASE SendCall
    BY <2>6 DEF SendCall, CallRequest, ServeCall
  <2>7. CASE ToolAnswers
    BY <2>7 DEF ToolAnswers
  <2>8. CASE PostEditChecks
    BY <2>8 DEF PostEditChecks
  <2>9. CASE ClickApproval \/ \E ok \in BOOLEAN : DecideApproval(ok)
    BY <2>9 DEF ClickApproval, DecideApproval
  <2>10. CASE ClickCommit \/ \E ok \in BOOLEAN : DecideCommit(ok)
    BY <2>10 DEF ClickCommit, DecideCommit
  <2>. QED  BY <1>4, <2>1, <2>2, <2>3, <2>4, <2>5, <2>6, <2>7, <2>8, <2>9, <2>10
<1>5. CASE MutateTodos \/ UNCHANGED turnVars
  BY <1>0, <1>5, PlaceMoves DEF MutateTodos, turnVars, guardVars, PlaceInv
<1>6. CASE StopTurn
  <2>1. CASE (\E ok \in BOOLEAN : DecideApproval(ok)) \/ (\E ok \in BOOLEAN : DecideCommit(ok))
    BY <1>0, <1>4, <2>1, PlaceMoves
  <2>2. CASE UNCHANGED <<turnAt, tool, callsDone, toolDedup>>
    BY <1>0, <2>2 DEF PlaceInv
  <2>. QED  BY <1>6, <2>1, <2>2 DEF StopTurn, guardVars
<1>. QED  BY <1>0, <1>1, <1>2, <1>3, <1>4, <1>5, <1>6, PlaceMoves DEF TurnNext

LEMMA CountStays ==
  ASSUME TurnInv, [TurnNext]_turnVars
  PROVE  CountInv' /\ TodoRevInv'
<1>1. turnCounts' \in TurnCounts
  <2>0. turnCounts \in TurnCounts
    BY DEF TurnInv, CountInv
  <2>1. CASE turnCounts' = Steps0 \/ UNCHANGED turnCounts
    BY <2>0, <2>1, BoundsAreNumbers DEF Steps0, TurnCounts
  <2>2. CASE SendRequest
    BY <2>0, <2>2, BoundsAreNumbers DEF SendRequest, TurnCounts
  <2>3. CASE \/ turnCounts' = [turnCounts EXCEPT !.conts = @ + 1]
             \/ turnCounts' = [turnCounts EXCEPT !.repairs = @ + 1]
             \/ turnCounts' = [turnCounts EXCEPT !.reviews = @ + 1]
             \/ turnCounts' = [turnCounts EXCEPT !.drafts = 0]
    BY <2>0, <2>3, BoundsAreNumbers DEF TurnCounts
  <2>4. CASE SentBack(turnCounts.drafts, MaxDrafts)
               /\ turnCounts' = [turnCounts EXCEPT !.drafts = @ + 1]
    BY <2>0, <2>4, BoundsAreNumbers DEF TurnCounts, SentBack
  <2>. USE DEF runVars
  <2>5. CASE RunTurn \/ Prepared \/ Scouted \/ StopLoop \/ CompactFirst \/ Compacts \/ CompactFails
    BY <2>1, <2>5 DEF RunTurn, Prepared, Scouted, StopLoop, CompactFirst, Compacts, CompactFails
  <2>6. CASE ModelReplies \/ ChecksRun \/ CriticReviews
    BY <2>1, <2>3, <2>6 DEF ModelReplies, ChecksRun, CriticReviews
  <2>7. CASE NextCall \/ Delegates \/ Permitted \/ CheckpointTurn \/ DecideRisky \/ ProbeFile
    BY <2>1, <2>3, <2>7
       DEF NextCall, Delegates, Permitted, PermittedOr, CheckpointTurn, CheckpointTurnProbing,
           DecideRisky, ProbeFile
  <2>8. CASE AnswerLocally \/ SendCall \/ PostEditChecks \/ CallsDone \/ MutateTodos
    BY <2>1, <2>8 DEF AnswerLocally, LocalCall, SendCall, CallRequest, PostEditChecks, CallsDone,
                      MutateTodos
  <2>9. CASE ToolAnswers
    BY <2>1, <2>4, <2>9 DEF ToolAnswers
  <2>10. CASE StopTurn \/ ClickApproval \/ ClickCommit \/ UNCHANGED turnVars
    BY <2>1, <2>10 DEF StopTurn, ClickApproval, ClickCommit, DecideApproval, DecideCommit, turnVars
  <2>. QED  BY <2>2, <2>5, <2>6, <2>7, <2>8, <2>9, <2>10 DEF TurnNext
<1>2. TodoRevInv'
  <2>0. TodoRevInv
    BY DEF TurnInv
  <2>1. CASE UNCHANGED <<todosRev, revAtReq>>
    BY <2>0, <2>1 DEF TodoRevInv
  <2>2. CASE SendRequest \/ MutateTodos
    BY <2>0, <2>2 DEF SendRequest, MutateTodos, TodoRevInv
  <2>. USE DEF todoVars
  <2>3. CASE RunTurn \/ Prepared \/ Scouted \/ StopLoop \/ CompactFirst \/ Compacts \/ CompactFails
    BY <2>1, <2>3 DEF RunTurn, Prepared, Scouted, StopLoop, CompactFirst, Compacts, CompactFails
  <2>4. CASE ModelReplies \/ ChecksRun \/ CriticReviews
    BY <2>1, <2>4 DEF ModelReplies, ChecksRun, CriticReviews
  <2>5. CASE NextCall \/ Delegates \/ Permitted \/ CheckpointTurn \/ DecideRisky \/ ProbeFile
    BY <2>1, <2>5
       DEF NextCall, Delegates, Permitted, PermittedOr, CheckpointTurn, CheckpointTurnProbing,
           DecideRisky, ProbeFile
  <2>6. CASE AnswerLocally \/ SendCall \/ PostEditChecks \/ CallsDone \/ ToolAnswers
    BY <2>1, <2>6 DEF AnswerLocally, LocalCall, SendCall, CallRequest, PostEditChecks, CallsDone,
                      ToolAnswers
  <2>7. CASE StopTurn \/ ClickApproval \/ ClickCommit \/ UNCHANGED turnVars
    BY <2>1, <2>7 DEF StopTurn, ClickApproval, ClickCommit, DecideApproval, DecideCommit, turnVars
  <2>. QED  BY <2>2, <2>3, <2>4, <2>5, <2>6, <2>7 DEF TurnNext
<1>. QED  BY <1>1, <1>2 DEF CountInv

LEMMA RestStays ==
  ASSUME TurnInv, [TurnNext]_turnVars
  PROVE  RestInv'
<1>0. RestInv
  BY DEF TurnInv
<1>. USE DEF trustVars, worldVars, EndTurnRun
<1>1. CASE RunTurn \/ Prepared \/ Scouted \/ StopLoop
  BY <1>0, <1>1 DEF RunTurn, Prepared, Scouted, StopLoop, RestInv
<1>2. CASE CompactFirst \/ Compacts \/ CompactFails \/ SendRequest
  BY <1>0, <1>2 DEF CompactFirst, Compacts, CompactFails, SendRequest, ForgetContext, RestInv
<1>3. CASE ModelReplies \/ ChecksRun \/ CriticReviews
  BY <1>0, <1>3 DEF ModelReplies, ChecksRun, CriticReviews, RestInv
<1>4. CASE NextCall
  BY <1>0, <1>4 DEF NextCall, RestInv
<1>5. CASE Delegates \/ Permitted \/ CheckpointTurn
  BY <1>0, <1>5 DEF Delegates, Permitted, PermittedOr, CheckpointTurn, CheckpointTurnProbing,
     RestInv
<1>6. CASE DecideRisky
  <2>1. approvedCommands \subseteq approvedCommands'
    BY <1>6 DEF DecideRisky, NewlyApproved
  <2>. QED  BY <1>0, <1>6, <2>1 DEF DecideRisky, RestInv
<1>7. CASE ProbeFile \/ AnswerLocally \/ SendCall
  BY <1>0, <1>7 DEF ProbeFile, AnswerLocally, LocalCall, SendCall, CallRequest, RestInv
<1>8. CASE ToolAnswers \/ PostEditChecks \/ CallsDone \/ MutateTodos
  BY <1>0, <1>8 DEF ToolAnswers, PostEditChecks, CallsDone, MutateTodos, RestInv
<1>9. CASE StopTurn \/ ClickApproval \/ ClickCommit \/ UNCHANGED turnVars
  BY <1>0, <1>9 DEF StopTurn, ClickApproval, ClickCommit, DecideApproval, DecideCommit, turnVars,
                    RestInv
<1>. QED  BY <1>1, <1>2, <1>3, <1>4, <1>5, <1>6, <1>7, <1>8, <1>9 DEF TurnNext

LEMMA TurnStays == ASSUME TurnInv, [TurnNext]_turnVars PROVE TurnInv'
  BY PlaceStays, CountStays, RestStays DEF TurnInv

LEMMA TurnInvTypes == TurnInv => TurnTypeOK
  BY DEF TurnInv, PlaceInv, CountInv, TodoRevInv, RestInv, TurnTypeOK, TurnPlaces, Dispatching,
         TurnIdle, TurnDialogs, TurnCounts

-----------------------------------------------------------------------------
(* Types of the context of a prompt. Room has been made for what is being  *)
(* detected, and a run that waits does so for a refresh.                   *)
Detects == \E i \in DOMAIN commands : commands[i].dir = ctxRun.from
RoomInv ==
  /\ Len(commands) <= CommandsKept
  /\ ctxRun.at = "detecting" /\ ~Detects => Len(commands) < CommandsKept
WaitedInv == ctxRun.at = "refreshing" => Waits # {}
PromptInv == ContextInv /\ RoomInv /\ WaitedInv

LEMMA PromptBegins == ContextInit => PromptInv
<1>. SUFFICES ASSUME ContextInit PROVE PromptInv
  OBVIOUS
<1>1. Len(commands) = 0 /\ ctxRun.at = "over" /\ CommandsKept \in Nat \ {0}
  BY ContextAssumption DEF ContextInit, ContextAssumption
<1>. QED  BY <1>1, ContextStart DEF PromptInv, RoomInv, WaitedInv

CtxRuns == [no : Nat, pin : Chats \cup {NoChat}, from : Chats \cup {NoChat},
            at : {"queued", "detecting", "refreshing", "work", "over"}]

LEMMA RunPlaces ==
  ASSUME ctxRun \in CtxRuns
  PROVE  /\ SubmitPrompt => ctxRun'.at = "queued"
         /\ QueueAwaited => ctxRun'.at = "detecting"
         /\ ToolMutates => ctxRun'.at = "refreshing"
         /\ RunLeaves => ctxRun'.at \in {"queued", "over"}
<1>1. ASSUME NEW chat, NEW from, PinRun(chat, from) PROVE ctxRun'.at = "queued"
  BY <1>1 DEF PinRun
<1>3. QueueAwaited => ctxRun'.at = "detecting"
  BY DEF QueueAwaited, CtxRuns
<1>4. ToolMutates => ctxRun'.at = "refreshing"
  BY DEF ToolMutates, CtxRuns
<1>5. RunLeaves => ctxRun'.at \in {"queued", "over"}
  <2>1. ctxRun' = [ctxRun EXCEPT !.pin = NoChat, !.at = "over"] => ctxRun'.at = "over"
    BY DEF CtxRuns
  <2>2. RunLeaves => \/ ctxRun' = [ctxRun EXCEPT !.pin = NoChat, !.at = "over"]
                     \/ PinRun(ctxRun.pin, ctxRun.from)
    BY DEF RunLeaves
  <2>. QED  BY <1>1, <2>1, <2>2
<1>6. SubmitPrompt => ctxRun'.at = "queued"
  <2>1. SubmitPrompt => PinRun(viewed, viewed) \/ PinRun(asked, viewed)
    BY DEF SubmitPrompt
  <2>. QED  BY <1>1, <2>1
<1>. QED  BY <1>3, <1>4, <1>5, <1>6

LEMMA RoomStays ==
  ASSUME PromptInv, [ContextNext]_ctxVars
  PROVE  RoomInv'
<1>0. /\ RoomInv /\ commands \in Seq(Entries) /\ Len(commands) \in Nat
      /\ CommandsKept \in Nat /\ CommandsKept > 0
  BY ContextAssumption, LenProperties DEF PromptInv, ContextInv, ContextTypes, ContextAssumption
<1>1. CASE UNCHANGED commands /\ ctxRun'.at # "detecting"
  BY <1>0, <1>1 DEF RoomInv
<1>2. CASE UNCHANGED <<commands, ctxRun>>
  BY <1>0, <1>2 DEF RoomInv, Detects
<1>3. CASE QueueAwaited
  <2>1. ctxRun'.from = ctxRun.from
    BY <1>3 DEF QueueAwaited, PromptInv, ContextInv, ContextTypes
  <2>2. CASE Len(commands) >= CommandsKept /\ ~Detects
    <3>1. commands' = Tail(commands)
      BY <1>3, <2>2 DEF QueueAwaited, Detects
    <3>2. commands # <<>>
      BY <1>0, <2>2
    <3>3. Len(commands') = Len(commands) - 1
      BY <1>0, <3>1, <3>2, HeadTailProperties
    <3>. QED  BY <1>0, <3>3 DEF RoomInv
  <2>3. CASE ~(Len(commands) >= CommandsKept /\ ~Detects)
    <3>1. commands' = commands
      BY <1>3, <2>3 DEF QueueAwaited, Detects
    <3>2. Detects' <=> Detects
      BY <2>1, <3>1 DEF Detects
    <3>. QED  BY <1>0, <2>3, <3>1, <3>2 DEF RoomInv
  <2>. QED  BY <2>2, <2>3
<1>4. CASE CommandsDetected
  <2>0. ctxRun'.at = "refreshing" /\ ctxRun.at = "detecting"
    BY <1>4 DEF CommandsDetected, PromptInv, ContextInv, ContextTypes
  <2>1. CASE Detects
    <3>1. DOMAIN commands' = DOMAIN commands
      BY <1>4, <2>1 DEF CommandsDetected, Detects
    <3>2. commands' \in Seq(Entries)
      BY ContextStep DEF PromptInv, ContextInv, ContextTypes
    <3>3. PICK now : now = commands'
      OBVIOUS
    <3>4. Len(now) \in Nat /\ 1..Len(now) = 1..Len(commands)
      BY <1>0, <3>1, <3>2, <3>3, LenProperties
    <3>5. Len(now) = Len(commands)
      BY <1>0, <3>4
    <3>. QED  BY <1>0, <2>0, <3>3, <3>5 DEF RoomInv
  <2>2. CASE ~Detects
    <3>1. PICK e : commands' = Append(commands, e)
      BY <1>4, <2>2 DEF CommandsDetected, Detects
    <3>2. Len(commands') = Len(commands) + 1
      BY <1>0, <3>1
    <3>. QED  BY <1>0, <2>0, <2>2, <3>2 DEF RoomInv
  <2>. QED  BY <2>1, <2>2
<1>5. CASE Repointed \/ ViewChat \/ FollowPaths \/ RefreshAfterGit
  BY <1>2, <1>5 DEF Repointed, ViewChat, FollowPaths, RefreshAfterGit
<1>6. CASE RefreshGoesOn
  <2>1. UNCHANGED ctxRun \/ ctxRun'.at = "work"
    BY <1>6 DEF RefreshGoesOn, MapRead, RulesRead, SkillsRead, FollowedRead, Goes, Collected,
                PromptInv, ContextInv, ContextTypes
  <2>. QED  BY <1>1, <1>2, <1>6, <2>1 DEF RefreshGoesOn
<1>7. CASE SubmitPrompt \/ ToolMutates \/ RunLeaves
  <2>0. ctxRun \in CtxRuns
    BY DEF PromptInv, ContextInv, ContextTypes, CtxRuns
  <2>1. ctxRun'.at # "detecting"
    BY <1>7, <2>0, RunPlaces
  <2>. QED  BY <1>1, <1>7, <2>1 DEF SubmitPrompt, ToolMutates, RunLeaves
<1>. QED  BY <1>2, <1>3, <1>4, <1>5, <1>6, <1>7 DEF ContextNext, ctxVars

LEMMA WaitedStays ==
  ASSUME PromptInv, [ContextNext]_ctxVars
  PROVE  WaitedInv'
<1>0. WaitedInv /\ ctxRun \in CtxRuns /\ refreshing \subseteq Refreshes
  BY DEF PromptInv, ContextInv, ContextTypes, CtxRuns
<1>1. CASE ctxRun'.at # "refreshing"
  BY <1>1 DEF WaitedInv
<1>2. CASE UNCHANGED ctxRun /\ Waits \subseteq refreshing'
  BY <1>0, <1>2 DEF WaitedInv, Waits
<1>3. ASSUME CommandsDetected \/ ToolMutates
      PROVE  WaitedInv'
  <2>1. PICK r : r = [by |-> ctxRun.no, click |-> ctxClicks, at |-> "map", unread |-> {}, got |-> NoParts]
    OBVIOUS
  <2>2. r \in refreshing'
    BY <1>3, <2>1 DEF CommandsDetected, ToolMutates, BeginRefresh
  <2>3. r.by # ByClick
    <3>1. ctxRun.no > 0 /\ ctxRun.no \in Nat
      BY <1>0, <1>3 DEF CtxRuns, PromptInv, ContextInv, ContextTypes, WaitsInv,
         CommandsDetected, ToolMutates
    <3>. QED  BY <2>1, <3>1 DEF ByClick
  <2>. QED  BY <2>2, <2>3 DEF WaitedInv, Waits
<1>4. CASE Repointed \/ ViewChat \/ FollowPaths \/ RefreshAfterGit
  BY <1>2, <1>4 DEF Repointed, ViewChat, FollowPaths, RefreshAfterGit, BeginRefresh, Waits
<1>5. CASE RefreshGoesOn
  <2>1. PICK r \in refreshing : MapRead(r) \/ RulesRead(r) \/ SkillsRead(r) \/ FollowedRead(r)
    BY <1>5 DEF RefreshGoesOn
  <2>2. CASE \E next : next.by = r.by /\ Goes(r, next)
    <3>1. PICK next : next.by = r.by /\ Goes(r, next)
      BY <2>2
    <3>2. Waits \ {r} \subseteq Waits' /\ (r \in Waits => next \in Waits') /\ UNCHANGED ctxRun
      BY <3>1 DEF Goes, Waits
    <3>. QED  BY <1>0, <3>2 DEF WaitedInv
  <2>3. CASE \E got : Collected(r, got)
    <3>1. CASE r.by = ByClick
      <4>1. UNCHANGED ctxRun /\ Waits \subseteq refreshing'
        BY <2>3, <3>1 DEF Collected, Waits
      <4>. QED  BY <1>2, <4>1
    <3>2. CASE r.by # ByClick
      BY <1>0, <1>1, <2>3, <3>2 DEF Collected, CtxRuns
    <3>. QED  BY <3>1, <3>2
  <2>4. (\E next : next.by = r.by /\ Goes(r, next)) \/ \E got : Collected(r, got)
    <3>0. r \in Refreshes
      BY <1>0
    <3>1. CASE MapRead(r)
      <4>1. PICK got : Goes(r, [r EXCEPT !.at = "rules", !.got = got])
        BY <3>1 DEF MapRead
      <4>2. [r EXCEPT !.at = "rules", !.got = got].by = r.by
        BY <3>0 DEF Refreshes
      <4>. QED  BY <4>1, <4>2
    <3>2. CASE RulesRead(r)
      <4>1. PICK got : Goes(r, [r EXCEPT !.at = "skills", !.got = got])
        BY <3>2, Zenon DEF RulesRead
      <4>2. [r EXCEPT !.at = "skills", !.got = got].by = r.by
        BY <3>0 DEF Refreshes
      <4>. QED  BY <4>1, <4>2
    <3>3. CASE SkillsRead(r)
      <4>1. (\E got, paths : Goes(r, [r EXCEPT !.at = "files", !.unread = paths, !.got = got]))
              \/ \E got : Collected(r, got)
        BY <3>3, Zenon DEF SkillsRead
      <4>2. \A got, paths : [r EXCEPT !.at = "files", !.unread = paths, !.got = got].by = r.by
        BY <3>0 DEF Refreshes
      <4>. QED  BY <4>1, <4>2
    <3>4. CASE FollowedRead(r)
      <4>1. (\E got, paths : Goes(r, [r EXCEPT !.unread = paths, !.got = got]))
              \/ \E got : Collected(r, got)
        BY <3>4 DEF FollowedRead
      <4>2. \A got, paths : [r EXCEPT !.unread = paths, !.got = got].by = r.by
        BY <3>0 DEF Refreshes
      <4>. QED  BY <4>1, <4>2
    <3>. QED  BY <2>1, <3>1, <3>2, <3>3, <3>4
  <2>. QED  BY <2>2, <2>3, <2>4
<1>6. CASE SubmitPrompt \/ QueueAwaited \/ RunLeaves
  <2>1. ctxRun'.at # "refreshing"
    BY <1>0, <1>6, RunPlaces
  <2>. QED  BY <1>1, <2>1
<1>7. CASE UNCHANGED ctxVars
  BY <1>2, <1>7 DEF ctxVars, Waits
<1>. QED  BY <1>3, <1>4, <1>5, <1>6, <1>7 DEF ContextNext

LEMMA PromptStays == ASSUME PromptInv, [ContextNext]_ctxVars PROVE PromptInv'
  BY ContextStep, RoomStays, WaitedStays DEF PromptInv

LEMMA PromptInvTypes == PromptInv => ContextTypeOK
<1>. SUFFICES ASSUME PromptInv PROVE ContextTypeOK
  OBVIOUS
<1>1. repoint.applied \in Chats /\ ctxRun.pin \in Chats \cup {NoChat}
  BY DEF PromptInv, ContextInv, ContextTypes
<1>2. (ctxRun.at = "refreshing") = (\E r \in refreshing : r.by # ByClick)
  BY DEF PromptInv, ContextInv, WaitsInv, WaitedInv, Waits
<1>. QED
  BY <1>1, <1>2 DEF PromptInv, ContextInv, ContextTypes, WaitsInv, RoomInv, ContextTypeOK

-----------------------------------------------------------------------------
(* Types of the tool outputs: only what is large is packed or summarised.  *)
Sized(r) ==
  /\ r.form = "packed" => Size(r.of) > PackAbove
  /\ r.form \in {"success", "failure"} => Size(r.of) > ReduceAbove
SizeInv ==
  /\ \A i \in DOMAIN results : Sized(results[i])
  /\ kept \subseteq Outputs /\ \A o \in packed : Size(o) > PackAbove
BudgetInv == callsLeft \in 0..MaxCallsInTurn /\ resultCount \in 0..MaxResults
ResultsInv == OutputInv /\ SizeInv /\ BudgetInv

LEMMA ResultsBegin == OutputInit => ResultsInv
<1>. SUFFICES ASSUME OutputInit PROVE ResultsInv
  OBVIOUS
<1>1. OutputInv /\ MaxCallsInTurn \in Nat /\ MaxResults \in Nat
  BY OutputStarts, OutputAssumption DEF OutputAssumption
<1>2. DOMAIN results = {}
  BY DEF OutputInit
<1>. QED  BY <1>1, <1>2 DEF OutputInit, ResultsInv, SizeInv, BudgetInv

LEMMA SizesStay ==
  ASSUME ResultsInv, [OutputNext]_outputVars
  PROVE  SizeInv'
<1>0. /\ results \in Seq(Packable) /\ DOMAIN results = 1..Len(results) /\ Len(results) \in Nat
      /\ SizeInv /\ \A i \in DOMAIN results : results[i] \in Packable
  BY LenProperties, ElementOfSeq DEF ResultsInv, OutputInv
<1>1. CASE ToolReturns
  <2>0. PICK o \in Outputs : \E put \in Reduced([of |-> o, form |-> "whole"]) :
          results' = Append(results, put)
    BY <1>1 DEF ToolReturns
  <2>1. PICK put \in Reduced([of |-> o, form |-> "whole"]) : results' = Append(results, put)
    BY <2>0
  <2>2. Sized(put) /\ put \in Packable
    BY <2>1 DEF Reduced, PutOutput, TextOf, Sized, Packable, OutputForms
  <2>3. /\ DOMAIN results' = 1..Len(results)+1 /\ results'[Len(results)+1] = put
        /\ \A i \in DOMAIN results : results'[i] = results[i]
    <3>1. Len(results') = Len(results) + 1 /\ results' \in Seq(Packable)
      BY <1>0, <2>1, <2>2, AppendProperties
    <3>2. DOMAIN results' = 1..Len(results)+1
      BY <1>0, <3>1, LenProperties
    <3>. QED  BY <1>0, <2>1, <2>2, <3>2, AppendProperties
  <2>4. \A i \in DOMAIN results' : Sized(results'[i])
    BY <1>0, <2>2, <2>3 DEF SizeInv
  <2>. QED  BY <1>0, <1>1, <2>4 DEF ToolReturns, SizeInv
<1>2. CASE SendHistory
  <2>1. \A i \in Again \cup Batch : i \in DOMAIN results /\ Size(results[i].of) > PackAbove
    BY <1>0 DEF Again, Batch, Eligible, Whole, TextOf, SizeInv
  <2>2. \A i \in Batch : results[i].of \in Outputs
    BY <1>0, <2>1 DEF Packable
  <2>3. ASSUME NEW i \in DOMAIN results' PROVE Sized(results'[i])
    <3>1. i \in DOMAIN results
          /\ results'[i] = IF i \in Again \cup Batch THEN PutOutput(results[i], "packed") ELSE results[i]
      BY <1>2, <2>3 DEF SendHistory
    <3>2. CASE i \in Again \cup Batch
      <4>1. results[i] \in Packable /\ Size(results[i].of) > PackAbove
        BY <1>0, <2>1, <3>2
      <4>2. results'[i].of = results[i].of /\ results'[i].form = "packed"
        BY <3>1, <3>2, <4>1 DEF PutOutput, Packable
      <4>. QED  BY <4>1, <4>2 DEF Sized
    <3>3. CASE i \notin Again \cup Batch
      BY <1>0, <3>1, <3>3 DEF SizeInv
    <3>. QED  BY <3>2, <3>3
  <2>4. kept' \subseteq Outputs /\ \A o \in packed' : Size(o) > PackAbove
    BY <1>0, <1>2, <2>1, <2>2 DEF SendHistory, Pack, TextOf, SizeInv
  <2>. QED  BY <2>3, <2>4 DEF SizeInv
<1>3. CASE PackFails
  <2>1. \A i \in Batch : /\ i \in DOMAIN results /\ results[i].of \in Outputs
                         /\ Size(results[i].of) > PackAbove
    BY <1>0 DEF Batch, Eligible, Whole, TextOf, Packable
  <2>2. UNCHANGED results /\ kept' \subseteq Outputs /\ \A o \in packed' : Size(o) > PackAbove
    BY <1>0, <1>3, <2>1 DEF PackFails, Pack, TextOf, SizeInv
  <2>. QED  BY <1>0, <2>2 DEF SizeInv
<1>4. CASE CompactHistory
  <2>1. PICK n \in 1..Len(results) : results' = SubSeq(results, n + 1, Len(results))
    BY <1>4 DEF CompactHistory
  <2>2. /\ DOMAIN results' = 1..Len(results)-n
        /\ \A i \in 1..Len(results)-n : results'[i] = results[n+i]
    <3>1. PICK m, l, s : m = n + 1 /\ l = Len(results) /\ s = SubSeq(results, m, l)
      OBVIOUS
    <3>2. m \in Int /\ l \in Int /\ \A i \in m..l : results[i] \in Packable
      BY <1>0, <3>1
    <3>3. /\ s \in Seq(Packable) /\ Len(s) = IF m <= l THEN l - m + 1 ELSE 0
          /\ \A i \in 1..l - m + 1 : s[i] = results[m + i - 1]
      BY <3>1, <3>2, SubSeqProperties
    <3>a. m \in Nat /\ l \in Nat /\ n \in Nat /\ n <= l /\ m = n + 1
      BY <1>0, <3>1
    <3>b. n = l => Len(s) = l - n
      BY <3>a, <3>3
    <3>c. n < l => Len(s) = l - n
      BY <3>a, <3>3
    <3>d. Len(s) = l - n
      BY <3>a, <3>b, <3>c
    <3>4. DOMAIN s = 1..l - n
      BY <3>d, <3>3, LenProperties
    <3>5. \A i \in 1..l - n : i \in 1..l - m + 1 /\ m + i - 1 = n + i
      BY <1>0, <3>1
    <3>. QED  BY <2>1, <3>1, <3>3, <3>4, <3>5
  <2>3. \A i \in 1..Len(results)-n : Sized(results[n+i])
    BY <1>0, <2>1 DEF SizeInv
  <2>. QED  BY <1>0, <1>4, <2>2, <2>3 DEF CompactHistory, SizeInv
<1>5. CASE ReloadPage \/ Recall \/ RecallOn \/ UNCHANGED outputVars
  BY <1>0, <1>5 DEF ReloadPage, Recall, RecallOn, outputVars, SizeInv
<1>. QED  BY <1>1, <1>2, <1>3, <1>4, <1>5 DEF OutputNext

LEMMA ResultsStay ==
  ASSUME ResultsInv, [OutputNext]_outputVars
  PROVE  ResultsInv'
<1>1. OutputInv'
  BY OutputStep DEF ResultsInv
<1>2. BudgetInv'
  <2>1. MaxCallsInTurn \in Nat /\ MaxResults \in Nat
    BY OutputAssumption DEF OutputAssumption
  <2>. QED
    BY <2>1 DEF ResultsInv, BudgetInv, OutputNext, ToolReturns, SendHistory, PackFails, ReloadPage,
                CompactHistory, Recall, RecallOn, outputVars
<1>. QED  BY <1>1, <1>2, SizesStay DEF ResultsInv

LEMMA ResultsInvTypes == ResultsInv => OutputTypeOK
<1>. SUFFICES ASSUME ResultsInv PROVE OutputTypeOK
  OBVIOUS
<1>1. \A i \in DOMAIN results : results[i].form \in {"whole", "packed", "success", "failure"}
  <2>1. \A i \in DOMAIN results : results[i] \in Packable
    BY LenProperties, ElementOfSeq DEF ResultsInv, OutputInv
  <2>. QED  BY <2>1 DEF Packable, OutputForms
<1>. QED
  BY <1>1 DEF ResultsInv, OutputInv, SizeInv, BudgetInv, Sized, OutputTypeOK

-----------------------------------------------------------------------------
(* The session's store. A workspace lists its conversations, each once;    *)
(* what is listed, kept, selected or run in has been given out.            *)
ListOf(order, D, w) ==
  /\ \A i \in DOMAIN order : <<w, order[i]>> \in D
  /\ \A c : <<w, c>> \in D => \E i \in DOMAIN order : order[i] = c
  /\ \A i, j \in DOMAIN order : order[i] = order[j] => i = j
Shelf(D, sp, n) ==
  /\ \A key \in D : key[2] \in 1..n
  /\ \A w \in DOMAIN sp : sp[w].active \in 0..n /\ ListOf(sp[w].order, D, w)

RunsKept ==
  /\ sessConvs <= MaxSessConvs /\ here[2] \in 0..sessConvs
  /\ origin \in Keys \cup {None} /\ (pin = None <=> origin = None) /\ (pin # None => paused = None)
  /\ \A key \in {pin, paused} :
       key # None => key[2] \in 0..sessConvs /\ (key[2] # 0 => key \in DOMAIN book)
ShelfInv == Shelf(DOMAIN book, spaces, sessConvs) /\ RunsKept

(* A list that grows by one, anywhere, or loses one.                       *)
LEMMA JoinedIs ==
  ASSUME NEW S, NEW a \in Seq(S), NEW b \in Seq(S), NEW n, NEW m, Len(a) = n, Len(b) = m
  PROVE  /\ n \in Nat /\ m \in Nat /\ a \o b \in Seq(S) /\ Len(a \o b) = n + m
         /\ DOMAIN (a \o b) = 1..(n + m) /\ \A i \in 1..n : (a \o b)[i] = a[i]
         /\ \A i \in (n + 1)..(n + m) : (a \o b)[i] = b[i - n]
<1>1. n \in Nat /\ m \in Nat
  BY LenProperties
<1>2. PICK c : c = a \o b
  OBVIOUS
<1>3. c \in Seq(S) /\ Len(c) = n + m /\ DOMAIN c = 1..(n + m)
  <2>1. c \in Seq(S) /\ Len(c) = Len(a) + Len(b)
    BY <1>2, ConcatProperties
  <2>2. Len(c) = n + m
    BY <2>1
  <2>3. DOMAIN c = 1..Len(c)
    BY <2>1, LenProperties
  <2>. QED  BY <2>1, <2>2, <2>3
<1>4. \A i \in 1..(n + m) : c[i] = IF i <= n THEN a[i] ELSE b[i - n]
  BY <1>1, <1>2, ConcatProperties
<1>5. (\A i \in 1..n : c[i] = a[i]) /\ \A i \in (n + 1)..(n + m) : c[i] = b[i - n]
  BY <1>1, <1>4
<1>. QED  BY <1>1, <1>2, <1>3, <1>5

LEMMA ListInserted ==
  ASSUME NEW S, NEW order \in Seq(S), NEW D, NEW w, ListOf(order, D, w),
         NEW c \in S, <<w, c>> \notin D, NEW p \in 0..Len(order)
  PROVE  ListOf(InsertAt(order, p + 1, c), D \cup {<<w, c>>}, w)
<1>1. PICK n, q, a, b, new : /\ n = Len(order) /\ q = p + 1 /\ a = SubSeq(order, 1, q - 1)
                             /\ b = SubSeq(order, q, n) /\ new = a \o <<c>> \o b
  OBVIOUS
<1>2. n \in Nat /\ p \in Nat /\ q \in Nat /\ p <= n /\ DOMAIN order = 1..n /\ \A i \in 1..n : order[i] \in S
  BY <1>1, LenProperties, ElementOfSeq
<1>3. a \in Seq(S) /\ Len(a) = p /\ \A i \in 1..p : a[i] = order[i]
  <2>1. /\ q - 1 = p /\ p \in Int /\ (IF 1 <= p THEN p - 1 + 1 ELSE 0) = p /\ \A i \in 1..p : order[i] \in S
        /\ \A i \in 1..p : 1 + i - 1 = i
    BY <1>1, <1>2
  <2>2. /\ SubSeq(order, 1, p) \in Seq(S) /\ Len(SubSeq(order, 1, p)) = p
        /\ \A i \in 1..p : SubSeq(order, 1, p)[i] = order[1 + i - 1]
    BY <2>1, SubSeqProperties
  <2>. QED  BY <1>1, <2>1, <2>2
<1>4. b \in Seq(S) /\ Len(b) = n - p /\ \A i \in 1..(n - p) : b[i] = order[p + i]
  <2>1. /\ q \in Int /\ n \in Int /\ (IF q <= n THEN n - q + 1 ELSE 0) = n - p /\ \A i \in q..n : order[i] \in S
        /\ \A i \in 1..(n - p) : q + i - 1 = p + i
    BY <1>1, <1>2
  <2>2. /\ SubSeq(order, q, n) \in Seq(S) /\ Len(SubSeq(order, q, n)) = n - p
        /\ \A i \in 1..(n - p) : SubSeq(order, q, n)[i] = order[q + i - 1]
    BY <2>1, SubSeqProperties
  <2>. QED  BY <1>1, <2>1, <2>2
<1>5. /\ DOMAIN new = 1..(n + 1) /\ new[q] = c
      /\ \A i \in 1..p : new[i] = order[i]
      /\ \A i \in (q + 1)..(n + 1) : new[i] = order[i - 1]
  <2>1. PICK t : t = a \o <<c>>
    OBVIOUS
  <2>2. PICK u : u = <<c>> /\ u \in Seq(S) /\ Len(u) = 1 /\ u[1] = c
    <3>1. <<c>> \in Seq(S)
      BY c \in S
    <3>2. Len(<<c>>) = 1 /\ <<c>>[1] = c
      OBVIOUS
    <3>. QED  BY <3>1, <3>2
  <2>3. q = p + 1
    BY <1>1
  <2>4. t \in Seq(S) /\ Len(t) = q /\ t[q] = c /\ \A i \in 1..p : t[i] = order[i]
    <3>1. /\ t \in Seq(S) /\ Len(t) = p + 1 /\ \A i \in 1..p : t[i] = a[i]
          /\ \A i \in (p + 1)..(p + 1) : t[i] = u[i - p]
      BY <1>3, <2>1, <2>2, JoinedIs
    <3>2. q \in (p + 1)..(p + 1) /\ q - p = 1
      BY <1>2, <2>3
    <3>. QED  BY <1>3, <2>2, <2>3, <3>1, <3>2
  <2>5. /\ new = t \o b /\ DOMAIN new = 1..(q + (n - p)) /\ (\A i \in 1..q : new[i] = t[i])
        /\ \A i \in (q + 1)..(q + (n - p)) : new[i] = b[i - q]
    <3>1. new = t \o b
      BY <1>1, <2>1
    <3>2. PICK m : m = n - p /\ Len(b) = m
      BY <1>4
    <3>3. t \in Seq(S) /\ b \in Seq(S) /\ Len(t) = q /\ Len(b) = m
      BY <1>4, <2>4, <3>2
    <3>4. /\ DOMAIN (t \o b) = 1..(q + m) /\ (\A i \in 1..q : (t \o b)[i] = t[i])
          /\ \A i \in (q + 1)..(q + m) : (t \o b)[i] = b[i - q]
      BY <3>3, JoinedIs
    <3>. QED  BY <3>1, <3>2, <3>4
  <2>6. q + (n - p) = n + 1 /\ q \in 1..q /\ \A i \in 1..p : i \in 1..q
    BY <1>2, <2>3
  <2>7. \A i \in (q + 1)..(n + 1) : i - q \in 1..(n - p) /\ p + (i - q) = i - 1
    BY <1>2, <2>3
  <2>8. \A i \in (q + 1)..(n + 1) : new[i] = order[i - 1]
    BY <1>4, <2>5, <2>6, <2>7
  <2>. QED  BY <2>4, <2>5, <2>6, <2>8
<1>6. \A i \in DOMAIN new : \/ i = q
                            \/ i \in 1..p /\ i \in DOMAIN order
                            \/ i \in (q + 1)..(n + 1) /\ i - 1 \in DOMAIN order /\ i - 1 >= q
  <2>1. q = p + 1 /\ DOMAIN order = 1..n /\ DOMAIN new = 1..(n + 1) /\ n \in Nat /\ p \in Nat /\ p <= n
    BY <1>1, <1>2, <1>5
  <2>. QED  BY <2>1
<1>7. \A i \in DOMAIN order : order[i] # c
  BY DEF ListOf
<1>8. \A i \in DOMAIN new : <<w, new[i]>> \in D \cup {<<w, c>>}
  BY <1>5, <1>6 DEF ListOf
<1>9. ASSUME NEW d, <<w, d>> \in D \cup {<<w, c>>} PROVE \E i \in DOMAIN new : new[i] = d
  <2>0. q = p + 1
    BY <1>1
  <2>1. CASE d = c
    <3>1. q \in 1..(n + 1)
      BY <1>2, <2>0
    <3>. QED  BY <1>5, <2>1, <3>1
  <2>2. CASE d # c
    <3>1. PICK i \in DOMAIN order : order[i] = d
      BY <1>9, <2>2 DEF ListOf
    <3>2. CASE i <= p
      BY <1>2, <1>5, <3>1, <3>2
    <3>3. CASE i > p
      <4>1. i + 1 \in (q + 1)..(n + 1) /\ i + 1 \in 1..(n + 1) /\ (i + 1) - 1 = i
        BY <1>2, <2>0, <3>3
      <4>. QED  BY <1>5, <3>1, <4>1
    <3>. QED  BY <1>2, <3>2, <3>3
  <2>. QED  BY <2>1, <2>2
<1>10. ASSUME NEW i \in DOMAIN new, NEW j \in DOMAIN new, new[i] = new[j] PROVE i = j
  <2>0. q = p + 1
    BY <1>1
  <2>1. \A k, l \in DOMAIN order : order[k] = order[l] => k = l
    BY DEF ListOf
  <2>2. i \in Nat /\ j \in Nat
    BY <1>2, <1>5
  <2>3. CASE i = q
    BY <1>5, <1>6, <1>7, <1>10, <2>3
  <2>4. CASE i \in 1..p /\ i \in DOMAIN order
    <3>1. new[i] = order[i] /\ new[j] # c
      BY <1>5, <1>7, <1>10, <2>4
    <3>2. j # q
      BY <1>5, <3>1
    <3>3. CASE j \in 1..p /\ j \in DOMAIN order
      BY <1>5, <1>10, <2>1, <2>4, <3>1, <3>3
    <3>4. CASE j \in (q + 1)..(n + 1) /\ j - 1 \in DOMAIN order /\ j - 1 >= q
      <4>1. i = j - 1
        BY <1>5, <1>10, <2>1, <2>4, <3>1, <3>4
      <4>2. ~(i >= q)
        BY <1>2, <2>0, <2>4
      <4>. QED  BY <3>4, <4>1, <4>2
    <3>. QED  BY <1>6, <3>2, <3>3, <3>4
  <2>5. CASE i \in (q + 1)..(n + 1) /\ i - 1 \in DOMAIN order /\ i - 1 >= q
    <3>1. new[i] = order[i - 1] /\ new[j] # c
      BY <1>5, <1>7, <1>10, <2>5
    <3>2. j # q
      BY <1>5, <3>1
    <3>3. CASE j \in 1..p /\ j \in DOMAIN order
      <4>1. j = i - 1
        BY <1>5, <1>10, <2>1, <2>5, <3>1, <3>3
      <4>2. ~(j >= q)
        BY <1>2, <2>0, <3>3
      <4>. QED  BY <2>5, <4>1, <4>2
    <3>4. CASE j \in (q + 1)..(n + 1) /\ j - 1 \in DOMAIN order /\ j - 1 >= q
      <4>1. i - 1 = j - 1
        BY <1>5, <1>10, <2>1, <2>5, <3>1, <3>4
      <4>. QED  BY <2>2, <4>1
    <3>. QED  BY <1>6, <3>2, <3>3, <3>4
  <2>. QED  BY <1>6, <2>3, <2>4, <2>5
<1>11. InsertAt(order, p + 1, c) = new
  BY <1>1 DEF InsertAt
<1>12. ListOf(new, D \cup {<<w, c>>}, w)
  BY <1>8, <1>9, <1>10 DEF ListOf
<1>. QED  BY <1>11, <1>12

LEMMA ListAppended ==
  ASSUME NEW S, NEW order \in Seq(S), NEW D, NEW w, ListOf(order, D, w),
         NEW c \in S, <<w, c>> \notin D
  PROVE  ListOf(Append(order, c), D \cup {<<w, c>>}, w)
<1>1. PICK n, new : n = Len(order) /\ new = Append(order, c)
  OBVIOUS
<1>2. /\ n \in Nat /\ DOMAIN order = 1..n /\ DOMAIN new = 1..(n + 1) /\ new[n + 1] = c
      /\ \A i \in 1..n : new[i] = order[i]
  BY <1>1, LenProperties, AppendProperties
<1>3. \A i \in DOMAIN order : order[i] # c
  BY DEF ListOf
<1>4. \A i \in DOMAIN new : i = n + 1 \/ i \in DOMAIN order
  BY <1>2
<1>5. \A i \in DOMAIN order : i \in DOMAIN new
  BY <1>2
<1>6. n + 1 \in DOMAIN new
  BY <1>2
<1>7. /\ \A i \in DOMAIN new : <<w, new[i]>> \in D \cup {<<w, c>>}
      /\ \A d : <<w, d>> \in D \cup {<<w, c>>} => \E i \in DOMAIN new : new[i] = d
      /\ \A i, j \in DOMAIN new : new[i] = new[j] => i = j
  <2>1. \A i \in DOMAIN new : <<w, new[i]>> \in D \cup {<<w, c>>}
    BY <1>2, <1>4 DEF ListOf
  <2>2. ASSUME NEW d, <<w, d>> \in D \cup {<<w, c>>} PROVE \E i \in DOMAIN new : new[i] = d
    <3>1. CASE d = c
      BY <1>2, <1>6, <3>1
    <3>2. CASE <<w, d>> \in D
      BY <1>2, <1>5, <3>2 DEF ListOf
    <3>. QED  BY <2>2, <3>1, <3>2
  <2>3. \A i, j \in DOMAIN new : new[i] = new[j] => i = j
    BY <1>2, <1>3, <1>4 DEF ListOf
  <2>. QED  BY <2>1, <2>2, <2>3
<1>8. ListOf(new, D \cup {<<w, c>>}, w)
  BY <1>7 DEF ListOf
<1>. QED  BY <1>1, <1>8

LEMMA ListRemoved ==
  ASSUME NEW S, NEW order \in Seq(S), NEW D, NEW w, ListOf(order, D, w), NEW c
  PROVE  ListOf(RemoveFirst(order, c), D \ {<<w, c>>}, w)
<1>1. PICK n : n = Len(order) /\ n \in Nat /\ DOMAIN order = 1..n /\ \A i \in 1..n : order[i] \in S
  BY LenProperties, ElementOfSeq
<1>. DEFINE at == {i \in 1..Len(order) : order[i] = c}
<1>2. CASE \A i \in 1..n : order[i] # c
  <2>1. RemoveFirst(order, c) = order
    BY <1>1, <1>2 DEF RemoveFirst
  <2>2. ListOf(order, D \ {<<w, c>>}, w)
    BY <1>1, <1>2 DEF ListOf
  <2>. QED  BY <2>1, <2>2
<1>3. CASE \E i \in 1..n : order[i] = c
  <2>1. PICK p : p = Min(at)
    OBVIOUS
  <2>2. at \in SUBSET Nat /\ at # {}
    BY <1>1, <1>3
  <2>3. p \in 1..n /\ order[p] = c
    BY <1>1, <2>1, <2>2, MinIsLeast
  <2>4. RemoveFirst(order, c) = RemoveAt(order, p)
    BY <1>1, <1>3, <2>1, <2>2 DEF RemoveFirst, SelectInSeq
  <2>. HIDE DEF at
  <2>5. PICK a, b, new : a = SubSeq(order, 1, p - 1) /\ b = SubSeq(order, p + 1, n) /\ new = a \o b
    OBVIOUS
  <2>6. a \in Seq(S) /\ Len(a) = p - 1 /\ \A i \in 1..(p - 1) : a[i] = order[i]
    <3>1. PICK m : /\ m = p - 1 /\ m \in Int /\ (IF 1 <= m THEN m - 1 + 1 ELSE 0) = m
                   /\ (\A i \in 1..m : order[i] \in S) /\ \A i \in 1..m : 1 + i - 1 = i
      BY <1>1, <2>3
    <3>2. /\ SubSeq(order, 1, m) \in Seq(S) /\ Len(SubSeq(order, 1, m)) = m
          /\ \A i \in 1..m : SubSeq(order, 1, m)[i] = order[1 + i - 1]
      BY <3>1, SubSeqProperties
    <3>. QED  BY <2>5, <3>1, <3>2
  <2>7. b \in Seq(S) /\ Len(b) = n - p /\ \A i \in 1..(n - p) : b[i] = order[p + i]
    <3>1. PICK m : /\ m = p + 1 /\ m \in Int /\ n \in Int /\ (IF m <= n THEN n - m + 1 ELSE 0) = n - p
                   /\ (\A i \in m..n : order[i] \in S) /\ \A i \in 1..(n - p) : m + i - 1 = p + i
      BY <1>1, <2>3
    <3>2. /\ SubSeq(order, m, n) \in Seq(S) /\ Len(SubSeq(order, m, n)) = n - p
          /\ \A i \in 1..(n - p) : SubSeq(order, m, n)[i] = order[m + i - 1]
      BY <3>1, SubSeqProperties
    <3>. QED  BY <2>5, <3>1, <3>2
  <2>8. /\ DOMAIN new = 1..(n - 1)
        /\ \A i \in 1..(p - 1) : new[i] = order[i]
        /\ \A i \in p..(n - 1) : new[i] = order[i + 1]
    <3>1. /\ DOMAIN new = 1..((p - 1) + (n - p)) /\ (\A i \in 1..(p - 1) : new[i] = a[i])
          /\ \A i \in ((p - 1) + 1)..((p - 1) + (n - p)) : new[i] = b[i - (p - 1)]
      <4>1. PICK l, m : l = p - 1 /\ m = n - p /\ Len(a) = l /\ Len(b) = m
        BY <2>6, <2>7
      <4>2. new = a \o b /\ a \in Seq(S) /\ b \in Seq(S)
        BY <2>5, <2>6, <2>7
      <4>3. /\ DOMAIN new = 1..(l + m) /\ (\A i \in 1..l : new[i] = a[i])
            /\ \A i \in (l + 1)..(l + m) : new[i] = b[i - l]
        BY <4>1, <4>2, JoinedIs
      <4>. QED  BY <4>1, <4>3
    <3>2. (p - 1) + (n - p) = n - 1 /\ (p - 1) + 1 = p
      BY <1>1, <2>3
    <3>3. \A i \in p..(n - 1) : i - (p - 1) \in 1..(n - p) /\ p + (i - (p - 1)) = i + 1
      BY <1>1, <2>3
    <3>. QED  BY <2>6, <2>7, <3>1, <3>2, <3>3
  <2>. DEFINE from(i) == IF i < p THEN i ELSE i + 1
  <2>9. \A i \in DOMAIN new : /\ from(i) \in DOMAIN order /\ from(i) # p /\ new[i] = order[from(i)]
                              /\ i \in Nat
    BY <1>1, <2>3, <2>8
  <2>10. \A k, l \in DOMAIN order : order[k] = order[l] => k = l
    BY DEF ListOf
  <2>11. \A i \in DOMAIN new : <<w, new[i]>> \in D \ {<<w, c>>}
    <3>1. \A k \in DOMAIN order : k # p => order[k] # c
      BY <1>1, <2>3, <2>10
    <3>. HIDE DEF from
    <3>. QED  BY <2>9, <3>1 DEF ListOf
  <2>12. ASSUME NEW d, <<w, d>> \in D \ {<<w, c>>} PROVE \E i \in DOMAIN new : new[i] = d
    <3>1. PICK k \in DOMAIN order : order[k] = d
      BY <2>12 DEF ListOf
    <3>2. k # p /\ d # c
      BY <2>3, <2>12, <3>1
    <3>3. CASE k < p
      <4>1. k \in 1..(p - 1) /\ k \in DOMAIN new
        BY <1>1, <2>3, <2>8, <3>3
      <4>. QED  BY <2>8, <3>1, <4>1
    <3>4. CASE k > p
      <4>1. k - 1 \in p..(n - 1) /\ k - 1 \in DOMAIN new /\ (k - 1) + 1 = k
        BY <1>1, <2>3, <2>8, <3>4
      <4>. QED  BY <2>8, <3>1, <4>1
    <3>. QED  BY <1>1, <2>3, <3>2, <3>3, <3>4
  <2>13. ASSUME NEW i \in DOMAIN new, NEW j \in DOMAIN new, new[i] = new[j] PROVE i = j
    <3>1. from(i) = from(j)
      <4>. HIDE DEF from
      <4>. QED  BY <2>9, <2>10, <2>13
    <3>2. i \in Nat /\ j \in Nat
      BY <2>9
    <3>. QED  BY <2>3, <3>1, <3>2
  <2>14. RemoveAt(order, p) = new
    BY <1>1, <2>5 DEF RemoveAt
  <2>15. ListOf(new, D \ {<<w, c>>}, w)
    BY <2>11, <2>12, <2>13 DEF ListOf
  <2>. QED  BY <2>4, <2>14, <2>15
<1>. QED  BY <1>2, <1>3

LEMMA ListElsewhere ==
  ASSUME NEW order, NEW D, NEW w, ListOf(order, D, w), NEW E, NEW x, x # w,
         \A key : key[1] # x => (key \in D <=> key \in E)
  PROVE  ListOf(order, E, w)
<1>1. \A c : <<w, c>> \in D <=> <<w, c>> \in E
  <2>1. \A c : <<w, c>>[1] = w
    OBVIOUS
  <2>. QED  BY <2>1
<1>. QED  BY <1>1 DEF ListOf

LEMMA FirstIsListed ==
  ASSUME NEW order, NEW cs
  PROVE  FirstOf(order, cs) = 0 \/ \E i \in DOMAIN order : order[i] = FirstOf(order, cs)
<1>. DEFINE firsts == {c \in cs : \E i \in DOMAIN order :
                            order[i] = c /\ \A j \in 1..(i - 1) : order[j] \notin cs}
<1>1. FirstOf(order, cs) = IF firsts = {} THEN 0 ELSE CHOOSE c \in firsts : TRUE
  BY DEF FirstOf
<1>2. \A c \in firsts : \E i \in DOMAIN order : order[i] = c
  OBVIOUS
<1>. HIDE DEF firsts
<1>. QED  BY <1>1, <1>2

-----------------------------------------------------------------------------
(* Stores and what is listed of them.                                      *)
LEMMA ShelfBound ==
  ASSUME NEW D, NEW sp, NEW n \in Nat, Shelf(D, sp, n), NEW m \in Nat, n <= m
  PROVE  Shelf(D, sp, m)
<1>1. \A i : i \in 1..n => i \in 1..m
  OBVIOUS
<1>2. \A i : i \in 0..n => i \in 0..m
  OBVIOUS
<1>. QED  BY <1>1, <1>2 DEF Shelf

LEMMA ListedIsGiven ==
  ASSUME NEW D, NEW sp, NEW n, Shelf(D, sp, n), NEW w \in DOMAIN sp, NEW i \in DOMAIN sp[w].order
  PROVE  sp[w].order[i] \in 1..n
<1>1. <<w, sp[w].order[i]>> \in D
  BY DEF Shelf, ListOf
<1>2. \A c : <<w, c>>[2] = c
  OBVIOUS
<1>. QED  BY <1>1, <1>2 DEF Shelf

(* A conversation put into a workspace, on its list in any place.          *)
LEMMA ShelfGains ==
  ASSUME NEW D, NEW sp, NEW n, Shelf(D, sp, n), NEW w \in DOMAIN sp, NEW c \in 1..n,
         NEW sp2, DOMAIN sp2 = DOMAIN sp, \A x \in DOMAIN sp : x # w => sp2[x] = sp[x],
         sp2[w].active \in 0..n, ListOf(sp2[w].order, D \cup {<<w, c>>}, w)
  PROVE  Shelf(D \cup {<<w, c>>}, sp2, n)
<1>1. PICK E : E = D \cup {<<w, c>>}
  OBVIOUS
<1>2. <<w, c>>[2] = c /\ <<w, c>>[1] = w
  OBVIOUS
<1>3. \A key \in E : key[2] \in 1..n
  BY <1>1, <1>2 DEF Shelf
<1>4. ASSUME NEW x \in DOMAIN sp2 PROVE sp2[x].active \in 0..n /\ ListOf(sp2[x].order, E, x)
  <2>1. CASE x = w
    BY <1>1, <2>1
  <2>2. CASE x # w
    <3>1. \A key : key[1] # w => (key \in D <=> key \in E)
      BY <1>1, <1>2
    <3>2. ListOf(sp[x].order, E, x)
      BY <2>2, <3>1, ListElsewhere DEF Shelf
    <3>. QED  BY <2>2, <3>2 DEF Shelf
  <2>. QED  BY <2>1, <2>2
<1>. QED  BY <1>1, <1>3, <1>4 DEF Shelf

InStore(n) == Shelf(DOMAIN book', spaces', n) /\ here'[2] \in 0..n

LEMMA RenderPlaces ==
  ASSUME SessionAssumption, NEW b, NEW sp, NEW key \in Keys, NEW msgs, NEW n, Render(b, sp, key, msgs),
         sp \in [DOMAIN sp -> SpaceData], Shelf(DOMAIN b, sp, n), key[2] \in 0..n
  PROVE  /\ InStore(n) /\ DOMAIN b \subseteq DOMAIN book' /\ here' = key
         /\ (msgs # screen /\ msgs # <<>> /\ key[2] # 0 /\ key[1] \in DOMAIN sp => key \in DOMAIN book')
<1>0. PICK w, c : w = key[1] /\ c = key[2] /\ key = <<w, c>> /\ c \in SessConvIds
  BY DEF Keys, SessConvIds
<1>1. here' = key
  BY DEF Render
<1>2. PICK copies : copies = /\ <<key, msgs>> # <<here, screen>>
                             /\ key[2] # 0 /\ key[1] \in DOMAIN sp
                             /\ msgs # <<>> \/ key \notin DOMAIN b \/ b[key].msgs = <<>>
  OBVIOUS
<1>3. CASE ~(/\ <<key, msgs>> # <<here, screen>>
             /\ key[2] # 0 /\ key[1] \in DOMAIN sp
             /\ msgs # <<>> \/ key \notin DOMAIN b \/ b[key].msgs = <<>>)
  <2>1. book' = b /\ spaces' = sp
    BY <1>3 DEF Render
  <2>2. ~(msgs # screen /\ msgs # <<>> /\ key[2] # 0 /\ key[1] \in DOMAIN sp)
    BY <1>3
  <2>. QED  BY <1>1, <2>1, <2>2 DEF InStore
<1>4. CASE /\ <<key, msgs>> # <<here, screen>>
           /\ key[2] # 0 /\ key[1] \in DOMAIN sp
           /\ msgs # <<>> \/ key \notin DOMAIN b \/ b[key].msgs = <<>>
  <2>1. DOMAIN book' = DOMAIN b \cup {key}
    BY <1>4 DEF Render, Bind
  <2>2. c \in 1..n /\ w \in DOMAIN sp
    BY <1>0, <1>4
  <2>3. sp[w] \in SpaceData /\ sp[w].order \in Seq(SessConvIds) /\ ListOf(sp[w].order, DOMAIN b, w)
        /\ sp[w].active \in 0..n
    BY <2>2 DEF SpaceData, Shelf
  <2>4. DOMAIN sp[w].order = 1..Len(sp[w].order)
    BY <2>3, LenProperties
  <2>5. CASE Contains(sp[w].order, c)
    <3>1. spaces' = sp
      BY <1>0, <1>4, <2>5 DEF Render
    <3>2. key \in DOMAIN b
      <4>1. PICK order : order = sp[w].order /\ ListOf(order, DOMAIN b, w) /\ DOMAIN order = 1..Len(order)
        BY <2>3, <2>4
      <4>2. PICK i \in 1..Len(order) : order[i] = c
        BY <2>5, <4>1 DEF Contains
      <4>3. <<w, order[i]>> \in DOMAIN b
        BY <4>1, <4>2 DEF ListOf
      <4>. QED  BY <1>0, <4>2, <4>3
    <3>3. DOMAIN book' = DOMAIN b
      BY <2>1, <3>2
    <3>. QED  BY <1>1, <2>1, <3>1, <3>3 DEF InStore
  <2>6. CASE ~Contains(sp[w].order, c)
    <3>1. spaces' = [sp EXCEPT ![w].order = Append(@, c)]
      BY <1>0, <1>4, <2>6 DEF Render
    <3>2. <<w, c>> \notin DOMAIN b
      BY <2>3, <2>4, <2>6 DEF Contains, ListOf
    <3>3. ListOf(Append(sp[w].order, c), DOMAIN b \cup {<<w, c>>}, w)
      BY <1>0, <2>3, <3>2, ListAppended
    <3>4. PICK sp2 : sp2 = [sp EXCEPT ![w].order = Append(@, c)]
      OBVIOUS
    <3>5. /\ DOMAIN sp2 = DOMAIN sp /\ (\A x \in DOMAIN sp : x # w => sp2[x] = sp[x])
          /\ sp2[w].active = sp[w].active /\ sp2[w].order = Append(sp[w].order, c)
      BY <2>2, <2>3, <3>4 DEF SpaceData
    <3>6. Shelf(DOMAIN b \cup {<<w, c>>}, sp2, n)
      BY <2>2, <2>3, <3>3, <3>5, ShelfGains
    <3>. QED  BY <1>0, <1>1, <2>1, <3>1, <3>4, <3>6 DEF InStore
  <2>. QED  BY <2>5, <2>6
<1>. QED  BY <1>3, <1>4

(* A step that leaves the run as it is, and takes nothing it needs away.   *)
LEMMA RunStays ==
  ASSUME SessInv, ShelfInv, InStore(sessConvs'), sessConvs' \in Nat, sessConvs <= sessConvs',
         sessConvs' <= MaxSessConvs, UNCHANGED <<pin, origin, paused>>,
         \A key \in {pin, paused} : key # None /\ key \in DOMAIN book => key \in DOMAIN book'
  PROVE  ShelfInv'
<1>1. sessConvs \in Nat
  BY DEF SessInv
<1>2. \A i : i \in 0..sessConvs => i \in 0..sessConvs'
  BY <1>1
<1>3. RunsKept'
  BY <1>2 DEF RunsKept, ShelfInv, InStore
<1>. QED  BY <1>3 DEF ShelfInv, InStore

(* A step that leaves the store as it is.                                  *)
LEMMA StoreStays ==
  ASSUME ShelfInv, DOMAIN book' = DOMAIN book, UNCHANGED <<spaces, here, sessConvs>>
  PROVE  InStore(sessConvs')
  BY DEF ShelfInv, RunsKept, InStore

(* The user moves to a conversation that has been given out.               *)
LEMMA ShowPlaces ==
  ASSUME SessionAssumption, SessInv, ShelfInv, NEW key \in Keys, key[2] \in 0..sessConvs, Show(key)
  PROVE  InStore(sessConvs) /\ DOMAIN book \subseteq DOMAIN book'
<1>1. PICK b, sp, msgs, n : /\ b = book /\ sp = spaces /\ msgs = Transcript(key) /\ n = sessConvs
                            /\ Render(b, sp, key, msgs)
  BY DEF Show
<1>2. sp \in [DOMAIN sp -> SpaceData] /\ Shelf(DOMAIN b, sp, n)
  BY <1>1 DEF SessInv, StoreOf, ShelfInv
<1>. QED  BY <1>1, <1>2, RenderPlaces

LEMMA NewIdIs ==
  ASSUME SessInv, ShelfInv, FreshId, SessionAssumption
  PROVE  /\ sessConvs' = sessConvs + 1 /\ sessConvs \in Nat /\ sessConvs' \in Nat
         /\ sessConvs <= sessConvs' /\ sessConvs' <= MaxSessConvs /\ sessConvs' \in SessConvIds
         /\ sessConvs' \in 1..sessConvs' /\ \A w : <<w, sessConvs'>> \notin DOMAIN book
<1>1. /\ sessConvs' = sessConvs + 1 /\ sessConvs \in Nat /\ sessConvs < MaxSessConvs
      /\ MaxSessConvs \in Nat
  BY DEF SessInv, FreshId, SessionAssumption
<1>2. sessConvs' \notin 1..sessConvs
  BY <1>1
<1>3. \A w : <<w, sessConvs'>>[2] = sessConvs'
  OBVIOUS
<1>4. \A w : <<w, sessConvs'>> \notin DOMAIN book
  BY <1>2, <1>3 DEF ShelfInv, Shelf
<1>. QED  BY <1>1, <1>4 DEF SessConvIds

(* A new conversation in a workspace that is there.                        *)
LEMMA NewPlaces ==
  ASSUME SessionAssumption, SessInv, ShelfInv, FreshId, NEW w \in DOMAIN spaces,
         NEW old, NEW new, new = <<w, sessConvs'>>, NEW order, NEW msgs,
         Render(Bind(book, new, old), [spaces EXCEPT ![w] = [order |-> order, active |-> sessConvs']],
                new, msgs),
         order \in Seq(SessConvIds), ListOf(order, DOMAIN book \cup {new}, w)
  PROVE  InStore(sessConvs') /\ DOMAIN book \subseteq DOMAIN book'
<1>1. PICK b, sp, n : /\ b = Bind(book, new, old) /\ n = sessConvs'
                      /\ sp = [spaces EXCEPT ![w] = [order |-> order, active |-> sessConvs']]
  OBVIOUS
<1>2. Render(b, sp, new, msgs)
  BY <1>1
<1>3. /\ n \in Nat /\ sessConvs \in Nat /\ sessConvs <= n /\ n \in 1..n /\ n \in SessConvIds /\ n \in 0..n
  BY <1>1, NewIdIs
<1>4. spaces \in [DOMAIN spaces -> SpaceData] /\ w \in Folders
  BY DEF SessInv, StoreOf
<1>5. new \in Keys /\ new[2] = n
  BY <1>1, <1>3, <1>4 DEF Keys, SessConvIds
<1>6. DOMAIN b = DOMAIN book \cup {<<w, n>>}
  BY <1>1 DEF Bind
<1>7. /\ DOMAIN sp = DOMAIN spaces /\ sp \in [DOMAIN sp -> SpaceData]
      /\ (\A x \in DOMAIN spaces : x # w => sp[x] = spaces[x])
      /\ sp[w].order = order /\ sp[w].active = n
  BY <1>1, <1>3, <1>4 DEF SpaceData
<1>8. Shelf(DOMAIN book, spaces, n)
  BY <1>3, ShelfBound DEF ShelfInv
<1>9. Shelf(DOMAIN b, sp, n)
  <2>1. ListOf(sp[w].order, DOMAIN book \cup {<<w, n>>}, w)
    BY <1>1, <1>7
  <2>. QED  BY <1>3, <1>6, <1>7, <1>8, <2>1, ShelfGains
<1>10. InStore(n) /\ DOMAIN b \subseteq DOMAIN book'
  BY <1>2, <1>3, <1>5, <1>7, <1>9, RenderPlaces
<1>. QED  BY <1>1, <1>6, <1>10

LEMMA NewChatPlaces ==
  ASSUME SessionAssumption, SessInv, ShelfInv, NEW w \in DOMAIN spaces, NewChatIn(w)
  PROVE  ShelfInv'
<1>1. PICK order, new : order = Append(spaces[w].order, sessConvs') /\ new = <<w, sessConvs'>>
  OBVIOUS
<1>2. FreshId /\ KeepRun
  BY DEF NewChatIn
<1>3. Render(Bind(book, new, Conv), [spaces EXCEPT ![w] = [order |-> order, active |-> sessConvs']],
             new, <<>>)
  BY <1>1 DEF NewChatIn
<1>4. /\ spaces[w].order \in Seq(SessConvIds) /\ ListOf(spaces[w].order, DOMAIN book, w)
  BY DEF SessInv, StoreOf, SpaceData, ShelfInv, Shelf
<1>5. PICK n : n = sessConvs' /\ n \in SessConvIds /\ <<w, n>> \notin DOMAIN book
  BY <1>2, NewIdIs
<1>6. order \in Seq(SessConvIds) /\ ListOf(order, DOMAIN book \cup {new}, w)
  BY <1>1, <1>4, <1>5, ListAppended, AppendProperties
<1>7. InStore(sessConvs') /\ DOMAIN book \subseteq DOMAIN book'
  BY <1>1, <1>2, <1>3, <1>6, NewPlaces
<1>. QED  BY <1>2, <1>7, NewIdIs, RunStays DEF KeepRun

LEMMA ForkPlaces ==
  ASSUME SessionAssumption, SessInv, ShelfInv, Fork
  PROVE  ShelfInv'
<1>0. PICK w : w = here[1] /\ here \in DOMAIN book /\ w \in DOMAIN spaces
  BY DEF Fork, SessInv, StoreOf
<1>1. PICK p, order, new : /\ p = Place(spaces[w].order, here[2]) /\ new = <<w, sessConvs'>>
                           /\ order = InsertAt(spaces[w].order, p + 1, sessConvs')
  OBVIOUS
<1>2. FreshId /\ KeepRun
  BY DEF Fork
<1>3. Render(Bind(book, new, book[here]),
             [spaces EXCEPT ![w] = [order |-> order, active |-> sessConvs']], new, Transcript(new))
  BY <1>0, <1>1 DEF Fork
<1>4. /\ spaces[w].order \in Seq(SessConvIds) /\ ListOf(spaces[w].order, DOMAIN book, w)
  BY <1>0 DEF SessInv, StoreOf, SpaceData, ShelfInv, Shelf
<1>5. PICK n : n = sessConvs' /\ n \in SessConvIds /\ <<w, n>> \notin DOMAIN book
  BY <1>2, NewIdIs
<1>6. order \in Seq(SessConvIds) /\ ListOf(order, DOMAIN book \cup {new}, w)
  <2>1. p \in 0..Len(spaces[w].order)
    BY <1>1, <1>4, PlaceIsInside
  <2>. QED  BY <1>1, <1>4, <1>5, <2>1, ListInserted, InsertIsListed
<1>7. InStore(sessConvs') /\ DOMAIN book \subseteq DOMAIN book'
  BY <1>0, <1>1, <1>2, <1>3, <1>6, NewPlaces
<1>. QED  BY <1>2, <1>7, NewIdIs, RunStays DEF KeepRun

-----------------------------------------------------------------------------
(* Moving about.                                                           *)
LEMMA GivenKeys ==
  ASSUME SessInv, ShelfInv, NEW w \in DOMAIN spaces
  PROVE  /\ <<w, spaces[w].active>> \in Keys /\ spaces[w].active \in 0..sessConvs
         /\ \A c \in Range(spaces[w].order) : <<w, c>> \in Keys /\ c \in 0..sessConvs
<1>1. /\ w \in Folders /\ spaces[w] \in SpaceData /\ spaces[w].active \in 0..sessConvs
      /\ \A i \in DOMAIN spaces[w].order : <<w, spaces[w].order[i]>> \in DOMAIN book
  BY DEF SessInv, StoreOf, ShelfInv, Shelf, ListOf
<1>2. <<w, spaces[w].active>> \in Keys
  BY <1>1 DEF Keys, SessConvIds, SpaceData
<1>3. PICK order : order = spaces[w].order
  OBVIOUS
<1>4. ASSUME NEW c \in Range(order) PROVE <<w, c>> \in Keys /\ c \in 0..sessConvs
  <2>1. PICK i \in DOMAIN order : order[i] = c
    BY DEF Range
  <2>2. <<w, c>> \in DOMAIN book
    BY <1>1, <1>3, <2>1
  <2>3. c \in 1..sessConvs
    BY <1>3, <2>1, ListedIsGiven DEF ShelfInv
  <2>4. sessConvs \in Nat /\ DOMAIN book \subseteq Keys
    BY DEF SessInv, StoreOf
  <2>. QED  BY <2>2, <2>3, <2>4
<1>. QED  BY <1>1, <1>2, <1>3, <1>4

LEMMA MovedPlaces ==
  ASSUME SessionAssumption, SessInv, ShelfInv, InStore(sessConvs), UNCHANGED sessConvs, KeepRun,
         \A key \in {pin, paused} : key # None /\ key \in DOMAIN book => key \in DOMAIN book'
  PROVE  ShelfInv'
<1>1. sessConvs \in Nat /\ sessConvs <= MaxSessConvs /\ sessConvs <= sessConvs
  BY DEF SessInv, ShelfInv, RunsKept
<1>2. PICK n : n = sessConvs /\ n = sessConvs' /\ InStore(n)
  OBVIOUS
<1>. QED  BY <1>1, <1>2, RunStays DEF KeepRun

LEMMA SelectPlaces ==
  ASSUME SessionAssumption, SessInv, ShelfInv, NEW w \in DOMAIN spaces, NEW c, SelectConv(w, c),
         c = spaces[w].active \/ c \in Range(spaces[w].order)
  PROVE  ShelfInv'
<1>1. <<w, c>> \in Keys /\ c \in 0..sessConvs
  BY GivenKeys
<1>2. PICK key : key = <<w, c>> /\ key \in Keys /\ key[2] \in 0..sessConvs
  BY <1>1
<1>3. Show(key) /\ UNCHANGED sessConvs /\ KeepRun
  BY <1>2 DEF SelectConv
<1>4. InStore(sessConvs) /\ DOMAIN book \subseteq DOMAIN book'
  BY <1>2, <1>3, ShowPlaces
<1>. QED  BY <1>3, <1>4, MovedPlaces

LEMMA AddPlaces ==
  ASSUME SessionAssumption, SessInv, ShelfInv, NEW w \in Folders, AddWorkspace(w)
  PROVE  ShelfInv'
<1>1. CASE w \in DOMAIN spaces
  <2>1. PICK key : key = <<w, spaces[w].active>> /\ key \in Keys /\ key[2] \in 0..sessConvs
    <3>1. PICK c : c = spaces[w].active /\ <<w, c>> \in Keys /\ c \in 0..sessConvs
      BY <1>1, GivenKeys
    <3>2. <<w, c>>[2] = c
      OBVIOUS
    <3>. QED  BY <3>1, <3>2
  <2>2. Show(key) /\ UNCHANGED sessConvs /\ KeepRun
    BY <1>1, <2>1 DEF AddWorkspace
  <2>3. InStore(sessConvs) /\ DOMAIN book \subseteq DOMAIN book'
    BY <2>1, <2>2, ShowPlaces
  <2>. QED  BY <2>2, <2>3, MovedPlaces
<1>2. CASE w \notin DOMAIN spaces
  <2>1. FreshId /\ KeepRun
    BY <1>2 DEF AddWorkspace
  <2>2. PICK b, sp, key, n : /\ n = sessConvs' /\ key = <<w, n>> /\ b = Bind(book, key, Conv)
                             /\ sp = Bind(spaces, w, [order |-> <<n>>, active |-> n])
    OBVIOUS
  <2>3. Render(b, sp, key, <<>>)
    BY <1>2, <2>2 DEF AddWorkspace
  <2>4. /\ n \in Nat /\ sessConvs \in Nat /\ sessConvs <= n /\ n \in 1..n /\ n \in SessConvIds /\ n \in 0..n
        /\ n <= MaxSessConvs
    BY <2>1, <2>2, NewIdIs
  <2>5. key \in Keys /\ key[2] = n /\ key[1] = w
    BY <2>2, <2>4 DEF Keys, SessConvIds
  <2>6. DOMAIN b = DOMAIN book \cup {key} /\ DOMAIN sp = DOMAIN spaces \cup {w}
    BY <2>2 DEF Bind
  <2>7. <<n>> \in Seq(SessConvIds)
    BY <2>4
  <2>8. /\ sp[w] = [order |-> <<n>>, active |-> n] /\ \A x \in DOMAIN spaces : sp[x] = spaces[x]
    BY <1>2, <2>2 DEF Bind
  <2>9. sp \in [DOMAIN sp -> SpaceData]
    <3>1. spaces \in [DOMAIN spaces -> SpaceData]
      BY DEF SessInv, StoreOf
    <3>2. sp = [y \in DOMAIN sp |-> sp[y]]
      BY <2>2 DEF Bind
    <3>3. sp[w] \in SpaceData
      BY <2>4, <2>7, <2>8 DEF SpaceData
    <3>4. \A x \in DOMAIN sp : sp[x] \in SpaceData
      BY <2>6, <2>8, <3>1, <3>3
    <3>. QED  BY <3>2, <3>4
  <2>10. Shelf(DOMAIN book, spaces, n)
    BY <2>4, ShelfBound DEF ShelfInv
  <2>11. \A k \in DOMAIN book : k[1] # w
    BY <1>2 DEF SessInv, StoreOf
  <2>12. Shelf(DOMAIN b, sp, n)
    <3>1. \A k \in DOMAIN b : k[2] \in 1..n
      BY <2>4, <2>5, <2>6, <2>10 DEF Shelf
    <3>2. ASSUME NEW x \in DOMAIN spaces PROVE sp[x].active \in 0..n /\ ListOf(sp[x].order, DOMAIN b, x)
      <4>1. spaces[x].active \in 0..n /\ ListOf(spaces[x].order, DOMAIN book, x)
        BY <2>10 DEF Shelf
      <4>2. \A k : k[1] # w => (k \in DOMAIN book <=> k \in DOMAIN b)
        BY <2>5, <2>6
      <4>3. ListOf(spaces[x].order, DOMAIN b, x)
        BY <1>2, <4>1, <4>2, ListElsewhere
      <4>. QED  BY <2>8, <4>1, <4>3
    <3>3. sp[w].active = n /\ sp[w].order = <<n>>
      BY <2>8
    <3>4. ListOf(<<n>>, DOMAIN b, w)
      <4>1. PICK order : order = <<n>> /\ DOMAIN order = {1} /\ order[1] = n
        <5>1. <<n>>[1] = n /\ DOMAIN <<n>> = {1}
          OBVIOUS
        <5>. QED  BY <5>1
      <4>2. \A c : <<w, c>> \in DOMAIN b => c = n
        <5>1. \A c : <<w, c>>[1] = w
          OBVIOUS
        <5>2. \A c : <<w, c>> \notin DOMAIN book
          BY <2>11, <5>1
        <5>. QED  BY <2>2, <2>6, <5>2
      <4>3. <<w, n>> \in DOMAIN b
        BY <2>2, <2>6
      <4>4. ListOf(order, DOMAIN b, w)
        BY <4>1, <4>2, <4>3 DEF ListOf
      <4>. QED  BY <4>1, <4>4
    <3>. QED  BY <2>4, <2>6, <3>1, <3>2, <3>3, <3>4 DEF Shelf
  <2>13. InStore(n) /\ DOMAIN b \subseteq DOMAIN book'
    BY <2>3, <2>4, <2>5, <2>9, <2>12, RenderPlaces
  <2>14. InStore(sessConvs') /\ DOMAIN book \subseteq DOMAIN book'
    BY <2>2, <2>6, <2>13
  <2>. QED  BY <2>1, <2>14, NewIdIs, RunStays DEF KeepRun
<1>. QED  BY <1>1, <1>2

LEMMA RemovePlaces ==
  ASSUME SessionAssumption, SessInv, ShelfInv, NEW w \in DOMAIN spaces, RemoveWorkspace(w)
  PROVE  ShelfInv'
<1>1. PICK b, sp, n : /\ b = Restrict(book, {k \in DOMAIN book : k[1] # w}) /\ n = sessConvs
                      /\ sp = Restrict(spaces, DOMAIN spaces \ {w})
  OBVIOUS
<1>2. /\ spaces \in [DOMAIN spaces -> SpaceData] /\ here \in Keys /\ w \in Folders
      /\ DOMAIN spaces \subseteq Folders /\ n \in Nat /\ here[2] \in 0..n
  BY <1>1 DEF SessInv, StoreOf, ShelfInv, RunsKept
<1>3. /\ DOMAIN sp = DOMAIN spaces \ {w} /\ sp \in [DOMAIN sp -> SpaceData]
      /\ \A x \in DOMAIN sp : sp[x] = spaces[x]
  BY <1>1, <1>2 DEF Restrict
<1>4. DOMAIN b = {k \in DOMAIN book : k[1] # w}
  BY <1>1 DEF Restrict
<1>5. Shelf(DOMAIN b, sp, n)
  <2>1. \A k \in DOMAIN b : k[2] \in 1..n
    BY <1>1, <1>4 DEF ShelfInv, Shelf
  <2>2. ASSUME NEW x \in DOMAIN sp PROVE sp[x].active \in 0..n /\ ListOf(sp[x].order, DOMAIN b, x)
    <3>1. spaces[x].active \in 0..n /\ ListOf(spaces[x].order, DOMAIN book, x) /\ x # w
      BY <1>1, <1>3 DEF ShelfInv, Shelf
    <3>2. \A k : k[1] # w => (k \in DOMAIN book <=> k \in DOMAIN b)
      BY <1>4
    <3>3. ListOf(spaces[x].order, DOMAIN b, x)
      BY <3>1, <3>2, ListElsewhere
    <3>. QED  BY <1>3, <3>1, <3>3
  <2>. QED  BY <2>1, <2>2 DEF Shelf
<1>6. /\ ~IsWorkspacePinned(w) /\ UNCHANGED sessConvs /\ KeepRun
      /\ \/ Render(b, sp, here, Transcript(here))
         \/ Render(b, sp, <<w, 0>>, <<>>)
         \/ \E x \in DOMAIN sp : Render(b, sp, <<x, sp[x].active>>, Transcript(<<x, sp[x].active>>))
  BY <1>1 DEF RemoveWorkspace, ForgetWorkspace
<1>7. PICK key, msgs :
        /\ Render(b, sp, key, msgs)
        /\ \/ key = here
           \/ key = <<w, 0>>
           \/ \E x \in DOMAIN sp : key = <<x, sp[x].active>>
  BY <1>6
<1>8. key \in Keys /\ key[2] \in 0..n
  <2>1. CASE key = here
    BY <1>2, <2>1
  <2>2. CASE key = <<w, 0>>
    BY <1>2, <2>2 DEF Keys, SessionAssumption
  <2>3. ASSUME NEW x \in DOMAIN sp, key = <<x, sp[x].active>> PROVE key \in Keys /\ key[2] \in 0..n
    BY <1>1, <1>2, <1>3, <2>3, GivenKeys
  <2>. QED  BY <1>7, <2>1, <2>2, <2>3
<1>9. InStore(n) /\ DOMAIN b \subseteq DOMAIN book'
  BY <1>3, <1>5, <1>7, <1>8, RenderPlaces
<1>10. \A key_1 \in {pin, paused} : key_1 # None /\ key_1 \in DOMAIN book => key_1 \in DOMAIN book'
  <2>1. pin # None => paused = None
    BY DEF ShelfInv, RunsKept
  <2>2. pin # None => pin[1] # w
    BY <1>6 DEF IsWorkspacePinned, Running
  <2>3. pin = None /\ paused # None => paused[1] # w
    BY <1>6 DEF IsWorkspacePinned, Running
  <2>. QED  BY <1>4, <1>9, <2>1, <2>2, <2>3
<1>. QED  BY <1>1, <1>6, <1>9, <1>10, MovedPlaces

LEMMA MoveOnPlaces ==
  ASSUME SessionAssumption, SessInv, ShelfInv, NEW b, NEW sp, NEW key \in Keys, NEW next \in 0..sessConvs,
         sp \in [DOMAIN sp -> SpaceData], Shelf(DOMAIN b, sp, sessConvs), MoveOn(b, sp, key, next)
  PROVE  InStore(sessConvs) /\ DOMAIN b \subseteq DOMAIN book'
<1>1. PICK to, sp2, msgs, n :
        /\ to = IF key = here THEN <<key[1], next>> ELSE here
        /\ sp2 = [sp EXCEPT ![key[1]].active = to[2]] /\ n = sessConvs
        /\ Render(b, sp2, to, msgs)
  BY DEF MoveOn
<1>2. here \in Keys /\ here[2] \in 0..n /\ n \in Nat /\ n <= MaxSessConvs /\ MaxSessConvs \in Nat
  BY <1>1 DEF SessInv, ShelfInv, RunsKept, SessionAssumption
<1>3. to \in Keys /\ to[2] \in 0..n /\ to[2] \in SessConvIds
  BY <1>1, <1>2 DEF Keys, SessConvIds
<1>4. /\ DOMAIN sp2 = DOMAIN sp /\ sp2 \in [DOMAIN sp -> SpaceData]
      /\ \A x \in DOMAIN sp : sp2[x].order = sp[x].order
      /\ \A x \in DOMAIN sp : sp2[x].active = sp[x].active \/ sp2[x].active = to[2]
  BY <1>1, <1>3 DEF SpaceData
<1>5. Shelf(DOMAIN b, sp2, n)
  BY <1>1, <1>3, <1>4 DEF Shelf
<1>. QED  BY <1>1, <1>3, <1>4, <1>5, RenderPlaces

(* What is moved on to is listed.                                          *)
LEMMA FirstIsGiven ==
  ASSUME SessInv, NEW D, NEW sp, Shelf(D, sp, sessConvs), NEW w \in DOMAIN sp, NEW cs
  PROVE  FirstOf(sp[w].order, cs) \in 0..sessConvs
<1>1. PICK order, n, c : order = sp[w].order /\ c = FirstOf(order, cs) /\ n = sessConvs /\ n \in Nat
  BY DEF SessInv
<1>2. c = 0 \/ \E i \in DOMAIN order : order[i] = c
  BY <1>1, FirstIsListed
<1>3. \A i \in DOMAIN order : order[i] \in 1..n
  BY <1>1, ListedIsGiven
<1>. QED  BY <1>1, <1>2, <1>3

LEMMA ArchivePlaces ==
  ASSUME SessionAssumption, SessInv, ShelfInv, NEW key \in DOMAIN book, NEW hide \in BOOLEAN,
         Archive(key, hide)
  PROVE  ShelfInv'
<1>1. PICK b, next :
        /\ b = [book EXCEPT ![key].hidden = hide]
        /\ next = IF hide THEN FirstOf(spaces[key[1]].order, Unarchived(key[1]) \ {key[2]})
                  ELSE key[2]
        /\ MoveOn(b, spaces, key, next)
  BY DEF Archive
<1>2. UNCHANGED sessConvs /\ KeepRun
  BY DEF Archive
<1>3. /\ key \in Keys /\ key[1] \in DOMAIN spaces /\ spaces \in [DOMAIN spaces -> SpaceData]
      /\ Shelf(DOMAIN book, spaces, sessConvs) /\ sessConvs \in Nat
  BY DEF SessInv, StoreOf, ShelfInv
<1>4. DOMAIN b = DOMAIN book
  BY <1>1
<1>5. key[2] \in 0..sessConvs
  BY <1>3 DEF Shelf
<1>6. next \in 0..sessConvs
  BY <1>1, <1>3, <1>5, FirstIsGiven
<1>7. PICK sp : sp = spaces /\ MoveOn(b, sp, key, next) /\ Shelf(DOMAIN b, sp, sessConvs)
                /\ sp \in [DOMAIN sp -> SpaceData]
  BY <1>1, <1>3, <1>4
<1>8. InStore(sessConvs) /\ DOMAIN b \subseteq DOMAIN book'
  BY <1>3, <1>6, <1>7, MoveOnPlaces
<1>. QED  BY <1>2, <1>4, <1>8, MovedPlaces

LEMMA DeletePlaces ==
  ASSUME SessionAssumption, SessInv, ShelfInv, NEW key \in DOMAIN book, Delete(key)
  PROVE  ShelfInv'
<1>. DEFINE keptKeys == DOMAIN book \ {key}
<1>0. PICK w, c : w = key[1] /\ c = key[2] /\ key = <<w, c>> /\ key \in Keys
  BY DEF SessInv, StoreOf, Keys
<1>1. PICK rest, onTop, b, sp, next :
        /\ rest = RemoveFirst(spaces[w].order, c) /\ onTop = FirstOf(rest, Unarchived(w))
        /\ b = Restrict(book, keptKeys) /\ sp = [spaces EXCEPT ![w].order = rest]
        /\ next = IF onTop # 0 THEN onTop ELSE FirstOf(rest, 0..MaxSessConvs)
        /\ MoveOn(b, sp, key, next)
  BY <1>0 DEF Delete
<1>2. UNCHANGED sessConvs /\ KeepRun /\ ~IsPinned(key)
  BY DEF Delete
<1>3. /\ w \in DOMAIN spaces /\ spaces \in [DOMAIN spaces -> SpaceData]
      /\ Shelf(DOMAIN book, spaces, sessConvs) /\ sessConvs \in Nat
  BY <1>0 DEF SessInv, StoreOf, ShelfInv
<1>4. DOMAIN b = DOMAIN book \ {key}
  BY <1>1 DEF Restrict
<1>5. spaces[w].order \in Seq(SessConvIds) /\ ListOf(spaces[w].order, DOMAIN book, w)
  BY <1>3 DEF SpaceData, Shelf
<1>6. rest \in Seq(SessConvIds) /\ ListOf(rest, DOMAIN book \ {<<w, c>>}, w)
  BY <1>1, <1>5, RemoveFirstKeeps, ListRemoved
<1>7. /\ DOMAIN sp = DOMAIN spaces /\ sp \in [DOMAIN sp -> SpaceData] /\ sp[w].order = rest
      /\ \A x \in DOMAIN spaces : sp[x].active = spaces[x].active
      /\ \A x \in DOMAIN spaces : x # w => sp[x].order = spaces[x].order
  BY <1>1, <1>3, <1>6 DEF SpaceData
<1>8. Shelf(DOMAIN b, sp, sessConvs)
  <2>1. \A k \in DOMAIN b : k[2] \in 1..sessConvs
    BY <1>3, <1>4 DEF Shelf
  <2>2. ASSUME NEW x \in DOMAIN sp
        PROVE  sp[x].active \in 0..sessConvs /\ ListOf(sp[x].order, DOMAIN b, x)
    <3>1. spaces[x].active \in 0..sessConvs /\ ListOf(spaces[x].order, DOMAIN book, x)
      BY <1>3, <1>7 DEF Shelf
    <3>2. CASE x = w
      BY <1>0, <1>4, <1>6, <1>7, <3>1, <3>2
    <3>3. CASE x # w
      <4>1. \A k : k[1] # w => (k \in DOMAIN book <=> k \in DOMAIN b)
        BY <1>0, <1>4
      <4>2. ListOf(spaces[x].order, DOMAIN b, x)
        BY <3>1, <3>3, <4>1, ListElsewhere
      <4>. QED  BY <1>7, <3>1, <3>3, <4>2
    <3>. QED  BY <3>2, <3>3
  <2>. QED  BY <2>1, <2>2 DEF Shelf
<1>9. next \in 0..sessConvs
  <2>1. w \in DOMAIN sp
    BY <1>3, <1>7
  <2>2. \A cs : FirstOf(sp[w].order, cs) \in 0..sessConvs
    BY <1>8, <2>1, FirstIsGiven
  <2>3. \A cs : FirstOf(rest, cs) \in 0..sessConvs
    BY <1>7, <2>2
  <2>. QED  BY <1>1, <2>3
<1>10. InStore(sessConvs) /\ DOMAIN b \subseteq DOMAIN book'
  BY <1>0, <1>1, <1>7, <1>8, <1>9, MoveOnPlaces
<1>11. \A k \in {pin, paused} : k # None /\ k \in DOMAIN book => k \in DOMAIN book'
  <2>1. pin # None => paused = None
    BY DEF ShelfInv, RunsKept
  <2>2. (pin # None => pin # key) /\ (pin = None => paused # key)
    BY <1>2 DEF IsPinned, Running
  <2>. QED  BY <1>4, <1>10, <2>1, <2>2
<1>. QED  BY <1>2, <1>10, <1>11, MovedPlaces

-----------------------------------------------------------------------------
(* The run, and checkpoints: no conversation is put in or taken out, save  *)
(* the one a message is copied into.                                       *)
LEMMA KeysAreNotNone ==
  ASSUME NEW key \in Keys
  PROVE  key # None
<1>1. PICK w, c : key = <<w, c>>
  BY DEF Keys
<1>2. <<w, c>> # <<>>
  OBVIOUS
<1>. QED  BY <1>1, <1>2 DEF None

(* What is drawn in its place.                                             *)
LEMMA HerePlaces ==
  ASSUME SessionAssumption, SessInv, ShelfInv, NEW b, DOMAIN b = DOMAIN book, NEW msgs,
         Render(b, spaces, here, msgs)
  PROVE  /\ InStore(sessConvs) /\ DOMAIN book \subseteq DOMAIN book' /\ here' = here
         /\ (msgs # screen /\ msgs # <<>> /\ here[2] # 0 /\ here[1] \in DOMAIN spaces
               => here \in DOMAIN book')
<1>1. PICK sp, key, n : sp = spaces /\ key = here /\ n = sessConvs /\ Render(b, sp, key, msgs)
  OBVIOUS
<1>2. /\ sp \in [DOMAIN sp -> SpaceData] /\ Shelf(DOMAIN b, sp, n) /\ key \in Keys /\ key[2] \in 0..n
  BY <1>1 DEF SessInv, StoreOf, ShelfInv, RunsKept
<1>3. /\ InStore(n) /\ DOMAIN b \subseteq DOMAIN book' /\ here' = key
      /\ (msgs # screen /\ msgs # <<>> /\ key[2] # 0 /\ key[1] \in DOMAIN sp => key \in DOMAIN book')
  <2>1. Render(b, sp, key, msgs)
    BY <1>1
  <2>. QED  BY <1>2, <2>1, RenderPlaces
<1>. QED  BY <1>1, <1>3

LEMMA WritePlaces ==
  ASSUME SessionAssumption, SessInv, ShelfInv, NEW key, NEW msgs, NEW onTop,
         Render(Write(book, key, msgs), spaces, here, onTop)
  PROVE  InStore(sessConvs) /\ DOMAIN book \subseteq DOMAIN book'
<1>1. PICK b : b = Write(book, key, msgs) /\ Render(b, spaces, here, onTop)
  OBVIOUS
<1>2. DOMAIN b = DOMAIN book
  BY <1>1 DEF Write
<1>. QED  BY <1>1, <1>2, HerePlaces

(* The run as it was, but with these keys.                                 *)
LEMMA RunsGo ==
  ASSUME SessInv, ShelfInv, InStore(sessConvs), UNCHANGED sessConvs,
         origin' \in Keys \cup {None}, pin' = None <=> origin' = None,
         pin' # None => paused' = None,
         \A key \in {pin', paused'} :
           key # None => key[2] \in 0..sessConvs /\ (key[2] # 0 => key \in DOMAIN book')
  PROVE  ShelfInv'
<1>1. sessConvs <= MaxSessConvs
  BY DEF ShelfInv, RunsKept
<1>2. PICK n : n = sessConvs /\ n = sessConvs' /\ InStore(n)
  OBVIOUS
<1>. QED  BY <1>1, <1>2 DEF ShelfInv, RunsKept, InStore

LEMMA RunKeptGoes ==
  ASSUME SessInv, ShelfInv, InStore(sessConvs), UNCHANGED <<sessConvs, pin, origin, paused>>,
         DOMAIN book \subseteq DOMAIN book'
  PROVE  ShelfInv'
<1>1. /\ origin \in Keys \cup {None} /\ (pin = None <=> origin = None) /\ (pin # None => paused = None)
      /\ \A key \in {pin, paused} :
           key # None => key[2] \in 0..sessConvs /\ (key[2] # 0 => key \in DOMAIN book)
  BY DEF ShelfInv, RunsKept
<1>. QED  BY <1>1, RunsGo

LEMMA AtRestPlaces ==
  ASSUME ShelfInv, DOMAIN book' = DOMAIN book, UNCHANGED <<spaces, here, sessConvs>>
  PROVE  InStore(sessConvs) /\ DOMAIN book \subseteq DOMAIN book'
<1>1. PICK n : n = sessConvs /\ n = sessConvs'
  OBVIOUS
<1>. QED  BY <1>1, StoreStays

LEMMA ReloadPlaces ==
  ASSUME SessionAssumption, SessInv, ShelfInv, ReloadTab
  PROVE  ShelfInv'
<1>1. UNCHANGED sessConvs /\ pin' = None /\ origin' = None /\ paused' = None
  BY DEF ReloadTab
<1>2. \/ UNCHANGED storeVars
      \/ \E w \in DOMAIN spaces : Show(<<w, spaces[w].active>>)
      \/ Render(book, spaces, here, <<>>)
  BY DEF ReloadTab
<1>3. InStore(sessConvs)
  <2>1. CASE UNCHANGED storeVars
    BY <1>1, <2>1, AtRestPlaces DEF storeVars
  <2>2. ASSUME NEW w \in DOMAIN spaces, Show(<<w, spaces[w].active>>) PROVE InStore(sessConvs)
    <3>1. PICK c : c = spaces[w].active /\ <<w, c>> \in Keys /\ c \in 0..sessConvs
      BY GivenKeys
    <3>2. PICK key : key = <<w, c>> /\ key[2] = c
      <4>1. <<w, c>>[2] = c
        OBVIOUS
      <4>. QED  BY <4>1
    <3>3. key \in Keys /\ key[2] \in 0..sessConvs /\ Show(key)
      BY <2>2, <3>1, <3>2
    <3>. QED  BY <3>3, ShowPlaces
  <2>3. CASE Render(book, spaces, here, <<>>)
    BY <2>3, HerePlaces
  <2>. QED  BY <1>2, <2>1, <2>2, <2>3
<1>. QED  BY <1>1, <1>3, RunsGo

LEMMA SubmitPlaces ==
  ASSUME SessionAssumption, SessInv, ShelfInv, Submit
  PROVE  ShelfInv'
<1>0. /\ UNCHANGED sessConvs /\ paused' = None /\ pin = None /\ here \in Keys /\ here # None
      /\ here[1] \in DOMAIN spaces /\ screen \in Seq(Notes(sessMsgs))
      /\ here[2] \in 0..sessConvs
  BY KeysAreNotNone DEF Submit, Running, SessInv, ShelfInv, RunsKept
<1>1. CASE paused # None /\ paused # here
  <2>1. PICK key : key = paused /\ key \in Keys /\ key # None
    BY <1>1 DEF SessInv
  <2>2. key[2] \in 0..sessConvs /\ (key[2] # 0 => key \in DOMAIN book)
    BY <2>1 DEF ShelfInv, RunsKept
  <2>3. Show(key) /\ pin' = key /\ origin' = here
    BY <1>1, <2>1 DEF Submit, ResumeElsewhere, StartRun
  <2>4. InStore(sessConvs) /\ DOMAIN book \subseteq DOMAIN book'
    BY <2>1, <2>2, <2>3, ShowPlaces
  <2>. QED  BY <1>0, <2>1, <2>2, <2>3, <2>4, RunsGo
<1>2. CASE ~(paused # None /\ paused # here)
  <2>1. PICK msgs : msgs = Append(screen, Note("user"))
    OBVIOUS
  <2>2. Render(book, spaces, here, msgs) /\ pin' = here /\ origin' = here
    BY <1>2, <2>1 DEF Submit, StartRun
  <2>3. msgs # screen /\ msgs # <<>>
    <3>1. Len(msgs) = Len(screen) + 1 /\ Len(screen) \in Nat
      BY <1>0, <2>1, AppendProperties, LenProperties
    <3>. QED  BY <3>1
  <2>4. /\ InStore(sessConvs) /\ DOMAIN book \subseteq DOMAIN book'
        /\ (here[2] # 0 => here \in DOMAIN book')
    BY <1>0, <2>2, <2>3, HerePlaces
  <2>. QED  BY <1>0, <2>2, <2>4, RunsGo
<1>. QED  BY <1>1, <1>2

LEMMA RunWritesPlaces ==
  ASSUME SessionAssumption, SessInv, ShelfInv, RunWrites
  PROVE  ShelfInv'
<1>1. UNCHANGED <<sessConvs, pin, origin, paused>>
  BY DEF RunWrites, sessRunVars
<1>2. InStore(sessConvs) /\ DOMAIN book \subseteq DOMAIN book'
  BY WritePlaces DEF RunWrites, WriteFor
<1>. QED  BY <1>1, <1>2, RunKeptGoes

LEMMA RunPausesPlaces ==
  ASSUME SessionAssumption, SessInv, ShelfInv, RunPauses
  PROVE  ShelfInv'
<1>1. /\ paused' = pin /\ pin' = None /\ origin' = None /\ UNCHANGED <<storeVars, sessConvs>>
  BY DEF RunPauses
<1>2. InStore(sessConvs) /\ DOMAIN book \subseteq DOMAIN book'
  BY <1>1, AtRestPlaces DEF storeVars
<1>3. pin # None => pin[2] \in 0..sessConvs /\ (pin[2] # 0 => pin \in DOMAIN book)
  BY DEF ShelfInv, RunsKept
<1>. QED  BY <1>1, <1>2, <1>3, RunsGo

LEMMA RunFinishesPlaces ==
  ASSUME SessionAssumption, SessInv, ShelfInv, RunFinishes
  PROVE  ShelfInv'
<1>1. UNCHANGED <<sessConvs, paused>>
  BY DEF RunFinishes
<1>2. CASE halted \/ waiting[pin[2]] = <<>>
  <2>1. pin' = None /\ origin' = None /\ UNCHANGED storeVars
    BY <1>2 DEF RunFinishes
  <2>2. InStore(sessConvs) /\ DOMAIN book \subseteq DOMAIN book'
    BY <1>1, <2>1, AtRestPlaces DEF storeVars
  <2>3. paused # None => paused[2] \in 0..sessConvs /\ (paused[2] # 0 => paused \in DOMAIN book)
    BY DEF ShelfInv, RunsKept
  <2>. QED  BY <1>1, <2>1, <2>2, <2>3, RunsGo
<1>3. CASE ~(halted \/ waiting[pin[2]] = <<>>)
  <2>1. WriteFor(pin, Head(waiting[pin[2]])) /\ UNCHANGED <<pin, origin>>
    BY <1>3 DEF RunFinishes, StartRun
  <2>2. InStore(sessConvs) /\ DOMAIN book \subseteq DOMAIN book'
    BY <2>1, WritePlaces DEF WriteFor
  <2>. QED  BY <1>1, <2>1, <2>2, RunKeptGoes
<1>. QED  BY <1>2, <1>3

LEMMA CheckpointPlaces ==
  ASSUME SessionAssumption, SessInv, ShelfInv,
         \/ \E auto \in BOOLEAN : BeginCheckpoint(auto)
         \/ SaveCheckpoint \/ RestoreCheckpoint \/ CheckpointRestored \/ DeleteCheckpoint
  PROVE  ShelfInv'
<1>1. UNCHANGED <<sessConvs, pin, origin, paused>>
  BY DEF BeginCheckpoint, SaveCheckpoint, RestoreCheckpoint, CheckpointRestored, DeleteCheckpoint,
         KeepSession, sessRunVars
<1>2. CASE \E auto \in BOOLEAN : BeginCheckpoint(auto)
  <2>1. UNCHANGED storeVars
    BY <1>2 DEF BeginCheckpoint
  <2>2. InStore(sessConvs) /\ DOMAIN book \subseteq DOMAIN book'
    BY <1>1, <2>1, AtRestPlaces DEF storeVars
  <2>. QED  BY <1>1, <2>2, RunKeptGoes
<1>3. CASE SaveCheckpoint
  <2>1. DOMAIN book' = DOMAIN book /\ UNCHANGED <<spaces, here>>
    BY <1>3 DEF SaveCheckpoint
  <2>2. InStore(sessConvs) /\ DOMAIN book \subseteq DOMAIN book'
    BY <1>1, <2>1, AtRestPlaces
  <2>. QED  BY <1>1, <2>2, RunKeptGoes
<1>4. CASE RestoreCheckpoint
  <2>1. UNCHANGED storeVars \/ \E keptKeys : TruncateTo(here, keptKeys)
    BY <1>4 DEF RestoreCheckpoint
  <2>2. InStore(sessConvs) /\ DOMAIN book \subseteq DOMAIN book'
    BY <1>1, <2>1, AtRestPlaces, WritePlaces DEF storeVars, TruncateTo
  <2>. QED  BY <1>1, <2>2, RunKeptGoes
<1>5. CASE CheckpointRestored
  <2>1. InStore(sessConvs) /\ DOMAIN book \subseteq DOMAIN book'
    BY <1>5, WritePlaces DEF CheckpointRestored, TruncateTo
  <2>. QED  BY <1>1, <2>1, RunKeptGoes
<1>6. CASE DeleteCheckpoint
  <2>1. DOMAIN book' = DOMAIN book /\ UNCHANGED <<spaces, here>>
    BY <1>6 DEF DeleteCheckpoint
  <2>2. InStore(sessConvs) /\ DOMAIN book \subseteq DOMAIN book'
    BY <1>1, <2>1, AtRestPlaces
  <2>. QED  BY <1>1, <2>2, RunKeptGoes
<1>. QED  BY <1>2, <1>3, <1>4, <1>5, <1>6

LEMMA IdlePlaces ==
  ASSUME SessionAssumption, SessInv, ShelfInv,
         UNCHANGED <<storeVars, pin, origin, paused, sessConvs>>
  PROVE  ShelfInv'
<1>1. InStore(sessConvs) /\ DOMAIN book \subseteq DOMAIN book'
  BY AtRestPlaces DEF storeVars
<1>. QED  BY <1>1, RunKeptGoes

LEMMA ShelfStays ==
  ASSUME SessionAssumption, SessInv, ShelfInv, [SessNext]_sessVars
  PROVE  ShelfInv'
<1>1. ASSUME NEW w \in DOMAIN spaces,
             \/ NewChatIn(w) \/ SelectWorkspace(w) \/ RemoveWorkspace(w)
             \/ \E c \in Range(spaces[w].order) : SelectConv(w, c)
      PROVE  ShelfInv'
  BY <1>1, NewChatPlaces, SelectPlaces, RemovePlaces DEF SelectWorkspace
<1>2. ASSUME NEW w \in Folders, AddWorkspace(w) PROVE ShelfInv'
  BY <1>2, AddPlaces
<1>3. ASSUME NEW key \in DOMAIN book, Delete(key) \/ \E hide \in BOOLEAN : Archive(key, hide)
      PROVE  ShelfInv'
  BY <1>3, DeletePlaces, ArchivePlaces
<1>4. CASE QueueMessage \/ StopRun
  BY <1>4, IdlePlaces DEF QueueMessage, StopRun, sessRunVars
<1>5. CASE UNCHANGED sessVars
  BY <1>5, IdlePlaces DEF sessVars, storeVars
<1>. QED  BY <1>1, <1>2, <1>3, <1>4, <1>5, ForkPlaces, ReloadPlaces, SubmitPlaces, RunWritesPlaces,
             RunPausesPlaces, RunFinishesPlaces, CheckpointPlaces DEF SessNext

LEMMA ShelfStarts ==
  ASSUME SessionAssumption, SessInit
  PROVE  ShelfInv
<1>1. PICK w : w = here[1] /\ here = <<w, 1>> /\ w \in Folders
  BY DEF SessInit, SessionAssumption
<1>2. DOMAIN book = {<<w, 1>>, <<w, 2>>} /\ sessConvs = 2 /\ pin = None /\ origin = None /\ paused = None
  BY <1>1 DEF SessInit
<1>3. DOMAIN spaces = {w} /\ spaces[w].order = <<1, 2>> /\ spaces[w].active = 1
  BY <1>1 DEF SessInit
<1>4. ListOf(<<1, 2>>, DOMAIN book, w)
  <2>1. PICK order : order = <<1, 2>> /\ DOMAIN order = 1..2 /\ order[1] = 1 /\ order[2] = 2
    <3>1. DOMAIN <<1, 2>> = 1..2 /\ <<1, 2>>[1] = 1 /\ <<1, 2>>[2] = 2
      OBVIOUS
    <3>. QED  BY <3>1
  <2>2. \A i \in 1..2 : i = 1 \/ i = 2
    OBVIOUS
  <2>3. \A i \in DOMAIN order : order[i] = i /\ <<w, order[i]>> \in DOMAIN book
    BY <1>2, <2>1, <2>2
  <2>4. \A c : <<w, c>> \in DOMAIN book => c \in DOMAIN order
    BY <1>2, <2>1
  <2>5. ListOf(order, DOMAIN book, w)
    BY <2>3, <2>4 DEF ListOf
  <2>. QED  BY <2>1, <2>5
<1>5. Shelf(DOMAIN book, spaces, sessConvs)
  <2>1. \A key \in DOMAIN book : key[2] \in 1..2
    BY <1>2
  <2>. QED  BY <1>2, <1>3, <1>4, <2>1 DEF Shelf
<1>6. RunsKept
  BY <1>1, <1>2 DEF RunsKept, SessionAssumption
<1>. QED  BY <1>5, <1>6 DEF ShelfInv

LEMMA SessInvTypes ==
  ASSUME SessionAssumption, SessInv, ShelfInv
  PROVE  SessTypeOK
<1>1. /\ DOMAIN book \subseteq Keys /\ DOMAIN spaces \subseteq Folders
      /\ here \in Keys /\ {pin, origin, paused} \subseteq Keys \cup {None}
      /\ (\A key \in DOMAIN book : key[1] \in DOMAIN spaces)
      /\ (pin = None <=> origin = None)
      /\ (pin # None => paused = None)
      /\ \A key \in {pin, paused} : key # None /\ key[2] # 0 => key \in DOMAIN book
  BY DEF SessInv, StoreOf, ShelfInv, RunsKept
<1>2. ASSUME NEW w \in DOMAIN spaces
      PROVE  /\ IsInjective(spaces[w].order)
             /\ \A c \in 0..MaxSessConvs : Contains(spaces[w].order, c) <=> <<w, c>> \in DOMAIN book
  <2>1. PICK order : /\ order = spaces[w].order /\ order \in Seq(SessConvIds)
                     /\ ListOf(order, DOMAIN book, w)
    BY DEF SessInv, StoreOf, SpaceData, ShelfInv, Shelf
  <2>2. DOMAIN order = 1..Len(order)
    BY <2>1, LenProperties
  <2>3. IsInjective(order)
    BY <2>1 DEF ListOf, IsInjective
  <2>4. \A c : Contains(order, c) <=> \E i \in DOMAIN order : order[i] = c
    BY <2>2 DEF Contains
  <2>5. \A c : Contains(order, c) <=> <<w, c>> \in DOMAIN book
    BY <2>1, <2>4 DEF ListOf
  <2>. QED  BY <2>1, <2>3, <2>5
<1>. QED  BY <1>1, <1>2 DEF SessTypeOK

(* The store stays whole: a conversation is listed once, in a workspace    *)
(* that is there, and everything listed exists; the one a run writes into  *)
(* or will be resumed in is never deleted, alone or with its workspace     *)
(* (the pinned guards of useCoderConversations).                           *)
THEOREM StoreStaysWhole == SessSpec => []SessTypeOK
<1>1. SessInit => SessInv /\ ShelfInv
  BY SessInvStarts, ShelfStarts, SessionAssumption
<1>2. SessInv /\ ShelfInv /\ [SessNext]_sessVars => (SessInv /\ ShelfInv)'
  BY SessInvStep, SessInvStutters, ShelfStays, SessionAssumption
<1>3. SessInv /\ ShelfInv => SessTypeOK
  BY SessInvTypes, SessionAssumption
<1>. QED  BY <1>1, <1>2, <1>3, PTL DEF SessSpec
=============================================================================
