----------------------------- MODULE ChatThread -----------------------------
(***************************************************************************)
(* The chat screen (screens/ChatScreen.tsx): conversations, the assistant  *)
(* runs that stream into them through runToolLoop (lib/agentLoop.ts), the  *)
(* queue of messages typed meanwhile, and the compaction of a              *)
(* conversation into a summary.                                            *)
(*                                                                         *)
(* A step is what the page does between two awaits, or one click with the  *)
(* render it causes. More than one run can be alive: the streaming flag is *)
(* lowered before a run compacts, suggests follow-ups and drains the queue,*)
(* and a slash command does not look at it. A reply's text is the set of   *)
(* the runs that wrote in it. Left out: reasoning, attachments, titles,    *)
(* presets and parameters, the notices, and which tools are offered.       *)
(***************************************************************************)
EXTENDS Naturals, Sequences, SequencesExt

CONSTANTS
  MaxConvs,   \* bound on conversations ever made
  MaxAgents,  \* bound on assistant runs
  MaxTurns,   \* chatMaxSteps
  Bounds      \* of a behaviour: runs, messages queued, other clicks

ASSUME ThreadAssumption ==
  /\ {MaxConvs, MaxAgents, MaxTurns} \subseteq Nat \ {0}
  /\ Bounds \subseteq [agents : 1..MaxAgents, items : Nat, clicks : Nat]

VARIABLES
  convs,       \* convs: the conversations on screen, by id
  made,        \* conversations made so far
  active,      \* activeId; 0 is the empty new chat
  trash,       \* pendingDelete
  streaming,   \* streaming
  streamConv,  \* streamingConvId; 0 is null
  abort,       \* abortRef: a run, Compactor, or 0
  aborted,     \* the controllers whose signal is aborted
  agents,      \* the assistant runs
  ids,         \* message ids given out
  chatDialog,  \* the run approvalResolveRef would answer; 0 is none
  queued,      \* queued
  items,       \* messages queued so far
  compactor,   \* the manual compaction: <<>> or the conversation it read
  clicks,      \* what the user has done
  bound        \* the bounds of this behaviour

chatVars == <<convs, made, active, trash, streaming, streamConv, abort, aborted,
              agents, ids, chatDialog, queued, items, compactor, clicks, bound>>
threadVars == <<made, active, trash>>
lockVars == <<streaming, streamConv, abort>>

ConvIds == 1..MaxConvs
Agents == 1..MaxAgents
Compactor == MaxAgents + 1

Unused == [at |-> "unused", conv |-> 0, target |-> 0, mine |-> {}, turn |-> 0, snap |-> <<>>]
Question(item) == [role |-> "user", id |-> 0, item |-> item, text |-> {}]
Blank(id) == [role |-> "assistant", id |-> id, item |-> 0, text |-> {}]
(* A context note, a tool result or a research report.                     *)
Aside == [role |-> "aside", id |-> 0, item |-> 0, text |-> {}]

Stored == [msgs |-> <<Question(0), [Blank(1) EXCEPT !.text = {0}]>>, count |-> 0, id |-> 1]

Put(conv) == [c \in DOMAIN convs \cup {conv.id} |-> IF c = conv.id THEN conv ELSE convs[c]]
PutMsgs(c, msgs) == IF c \in DOMAIN convs THEN [convs EXCEPT ![c].msgs = msgs] ELSE convs
Msgs(c) == IF c \in DOMAIN convs THEN convs[c].msgs ELSE <<>>

(* withMessages: a summary does not survive the loss of what it sums up.   *)
withMessages(conv, msgs) ==
  [conv EXCEPT !.msgs = msgs, !.count = IF Len(msgs) <= @ THEN 0 ELSE @]

Locked == streaming \/ compactor # <<>>
NextAgent == CHOOSE r \in Agents : agents[r].at = "unused" /\ \A a \in 1..r-1 : agents[a].at # "unused"
HasAgent == agents[bound.agents].at = "unused"
Over(r) == [Unused EXCEPT !.at = "over", !.mine = agents[r].mine]
GotoStep(r, place) == agents' = [agents EXCEPT ![r].at = place]

-----------------------------------------------------------------------------
(* runStream, its first part: take the lock, and either research first or  *)
(* go into the loop, whose first turn leaves a context note.               *)
RunStream(r, ended, conv, target) ==
  /\ agents[r].at = "unused"
  /\ streaming' = TRUE /\ streamConv' = conv.id /\ abort' = r
  /\ \E research \in BOOLEAN :
       /\ agents' = [a \in Agents |->
            IF a = r THEN [Unused EXCEPT !.at = IF research THEN "research" ELSE "stream",
                             !.conv = conv.id, !.target = target, !.mine = {target}]
            ELSE IF a = ended THEN Over(a) ELSE agents[a]]
       /\ convs' = Put(IF research THEN conv ELSE [conv EXCEPT !.msgs = Append(@, Aside)])

Ask(r, ended, conv, item) ==
  /\ ids' = ids + 1
  /\ RunStream(r, ended, [conv EXCEPT !.msgs = @ \o <<Question(item), Blank(ids + 1)>>], ids + 1)

(* The end of the loop: the lock is given back, and what follows runs      *)
(* without it: perhaps a compaction of the conversation as it is then, and *)
(* the suggestions (a run that makes none is taken to yield here too). A   *)
(* stopped run ends.                                                       *)
Ends(r) ==
  /\ streaming' = FALSE /\ streamConv' = 0 /\ abort' = 0
  /\ LET c == agents[r].conv IN
     IF r \in aborted THEN agents' = [agents EXCEPT ![r] = Over(r)]
     ELSE \/ GotoStep(r, "suggest")
          \/ /\ c \in DOMAIN convs
             /\ agents' = [agents EXCEPT ![r].at = "compact", ![r].snap = <<convs'[c]>>]

(* onTurnStart: a later turn streams into a message of its own.            *)
TurnMessage(turn) == IF turn = 0 THEN <<>> ELSE <<Blank(ids + 1)>>

(* The head of runToolLoop's body; the note is appended like the loop's    *)
(* other messages.                                                         *)
NextTurn(r, msgs, turn) ==
  LET conv == agents[r].conv
      streams == [agents[r] EXCEPT !.at = "stream", !.turn = turn]
  IN IF r \in aborted \/ turn = MaxTurns
     THEN convs' = PutMsgs(conv, msgs) /\ Ends(r) /\ UNCHANGED ids
     ELSE /\ convs' = PutMsgs(conv, msgs \o TurnMessage(turn) \o <<Aside>>)
          /\ IF turn = 0
             THEN agents' = [agents EXCEPT ![r] = streams] /\ UNCHANGED ids
             ELSE /\ agents' = [agents EXCEPT ![r] = [streams EXCEPT
                       !.target = ids + 1, !.mine = streams.mine \cup {ids + 1}]]
                  /\ ids' = ids + 1
          /\ UNCHANGED lockVars

(* runDeepResearch reports nothing once its run is stopped, and nothing    *)
(* when no angle was planned; a failure leaves the reply to do without.    *)
Reports(r) == IF r \in aborted THEN {<<>>} ELSE {<<>>, <<Aside>>}

(* The report goes before the run's placeholder.                           *)
Researched(r) ==
  /\ agents[r].at = "research"
  /\ LET msgs == Msgs(agents[r].conv)
         places == {i \in 1..Len(msgs) : msgs[i].id = agents[r].target}
         place == IF places = {} THEN Len(msgs) + 1 ELSE CHOOSE i \in places : TRUE
     IN \E report \in Reports(r) :
          NextTurn(r, SubSeq(msgs, 1, place - 1) \o report \o SubSeq(msgs, place, Len(msgs)), 0)
  /\ UNCHANGED <<threadVars, aborted, chatDialog, queued, items, compactor>>

(* patchTarget, with a delta or with the whole content of the turn. *)
Patch(r, hits, keep) ==
  LET c == agents[r].conv
  IN PutMsgs(c, [i \in DOMAIN Msgs(c) |->
       IF i \in hits THEN [Msgs(c)[i] EXCEPT !.text = (IF keep THEN @ ELSE {}) \cup {r}]
       ELSE Msgs(c)[i]])
PatchLast(r, keep) == Patch(r, {Len(Msgs(agents[r].conv))}, keep)
PatchTarget(r, keep) ==
  Patch(r, {i \in DOMAIN Msgs(agents[r].conv) : Msgs(agents[r].conv)[i].id = agents[r].target}, keep)

Delta(r) ==
  /\ agents[r].at = "stream" /\ r \notin aborted
  /\ convs' = PatchTarget(r, TRUE)
  /\ UNCHANGED <<threadVars, lockVars, aborted, agents, ids, chatDialog, queued,
                 items, compactor>>

(* onAppended *)
AppendedAlways(r, msgs) == Append(msgs, Aside)
Appended(r, msgs) == IF r \in aborted THEN msgs ELSE Append(msgs, Aside)

(* The stream ends: an error or an empty reply ends the loop; a reply goes *)
(* into its message, and is reviewed, acted on, or done. Calls of tools    *)
(* that are not offered earn a note and another turn.                      *)
TurnReplied(r) ==
  LET after == IF r \in aborted THEN convs ELSE PatchTarget(r, FALSE)
      c == agents[r].conv
  IN /\ agents[r].at = "stream"
     /\ \/ convs' = convs /\ Ends(r) /\ UNCHANGED ids
        \/ convs' = after /\ Ends(r) /\ UNCHANGED ids
        \/ convs' = after /\ GotoStep(r, "review") /\ r \notin aborted /\ UNCHANGED <<ids, lockVars>>
        \/ convs' = after /\ GotoStep(r, "tools") /\ UNCHANGED <<ids, lockVars>>
        \/ r \notin aborted /\ c \in DOMAIN convs
           /\ NextTurn(r, Appended(r, after[c].msgs), agents[r].turn + 1)
     /\ UNCHANGED <<threadVars, aborted, chatDialog, queued, items, compactor>>

(* Reflection and the rewrite end; the revised text is the run's as well.  *)
TurnReviewed(r) ==
  /\ agents[r].at = "review"
  /\ convs' = convs /\ Ends(r)
  /\ UNCHANGED <<threadVars, aborted, ids, chatDialog, queued, items, compactor>>

(* A call may ask for approval; a second question takes the place of a     *)
(* first, whose run then waits for ever.                                   *)
AskApproval(r) ==
  /\ agents[r].at = "tools" /\ GotoStep(r, "asked") /\ chatDialog' = r
  /\ UNCHANGED <<convs, threadVars, lockVars, aborted, ids, queued, items, compactor>>

DecideChat ==
  /\ chatDialog # 0 /\ chatDialog' = 0 /\ GotoStep(chatDialog, "tools")
  /\ UNCHANGED <<convs, threadVars, lockVars, aborted, ids, queued, items, compactor>>

ToolsDone(r) ==
  /\ agents[r].at = "tools"
  /\ NextTurn(r, Appended(r, Msgs(agents[r].conv)), agents[r].turn + 1)
  /\ UNCHANGED <<threadVars, aborted, chatDialog, queued, items, compactor>>

(* A summary is written into the conversation as it was read.              *)
Summed(conv) == IF conv.id \in DOMAIN convs THEN Put([conv EXCEPT !.count = Len(conv.msgs)])
                ELSE convs

AutoCompacted(r) ==
  /\ agents[r].at = "compact"
  /\ agents' = [agents EXCEPT ![r].at = "suggest", ![r].snap = <<>>]
  /\ convs' \in {convs, Summed(agents[r].snap[1])}
  /\ UNCHANGED <<threadVars, lockVars, aborted, ids, chatDialog, queued, items,
                 compactor>>

(* The suggestions are in: send the next queued message, if any.           *)
DrainTo(r, rest) ==
  LET c == agents[r].conv IN
  /\ agents[r].at = "suggest"
  /\ IF queued[c] = <<>> \/ c \notin DOMAIN convs
     THEN /\ agents' = [agents EXCEPT ![r] = Over(r)]
          /\ queued' = [queued EXCEPT ![c] = rest]
          /\ UNCHANGED <<convs, lockVars, ids>>
     ELSE /\ HasAgent /\ Ask(NextAgent, r, convs[c], Head(queued[c]))
          /\ queued' = [queued EXCEPT ![c] = rest]
  /\ UNCHANGED <<threadVars, aborted, chatDialog, items, compactor>>
DrainAndKeep(r) == DrainTo(r, queued[agents[r].conv])
Drain(r) ==
  LET q == queued[agents[r].conv] IN DrainTo(r, IF q = <<>> THEN q ELSE Tail(q))

-----------------------------------------------------------------------------
(* The user *)

(* send: the composer can be used unless another conversation streams.     *)
CanType == streamConv \in {0, active}
ChatBusy == (streaming /\ streamConv = active) \/ compactor # <<>>

Queue ==
  /\ CanType /\ active # 0 /\ ChatBusy /\ items < bound.items
  /\ items' = items + 1
  /\ queued' = [queued EXCEPT ![active] = Append(@, items + 1)]
  /\ UNCHANGED <<convs, threadVars, lockVars, aborted, agents, ids, chatDialog,
                 compactor>>

SendMessage ==
  /\ CanType /\ ~(active # 0 /\ ChatBusy) /\ HasAgent
  /\ IF active \in DOMAIN convs
     THEN Ask(NextAgent, 0, convs[active], 0) /\ UNCHANGED <<active, made>>
     ELSE /\ made < MaxConvs /\ made' = made + 1 /\ active' = made + 1
          /\ Ask(NextAgent, 0, [id |-> made + 1, msgs |-> <<>>, count |-> 0], 0)
  /\ UNCHANGED <<trash, aborted, chatDialog, queued, items, compactor>>

SendFollowUp ==
  /\ ~Locked /\ HasAgent /\ active \in DOMAIN convs
  /\ Ask(NextAgent, 0, convs[active], 0)
  /\ UNCHANGED <<threadVars, aborted, chatDialog, queued, items, compactor>>

(* regenerate, /retry (which does not look at the lock) and editMessage    *)
(* (an edit begun before the lock was taken): cut, then ask again.         *)
Redo(conv, keep) ==
  /\ HasAgent /\ ids' = ids + 1
  /\ LET cut == withMessages(conv, SubSeq(conv.msgs, 1, keep))
     IN RunStream(NextAgent, 0, [cut EXCEPT !.msgs = Append(@, Blank(ids + 1))], ids + 1)
  /\ UNCHANGED <<threadVars, aborted, chatDialog, queued, items, compactor>>

LastReply(msgs) ==
  {i \in DOMAIN msgs : msgs[i].role = "assistant"
                        /\ \A j \in i+1..Len(msgs) : msgs[j].role # "assistant"}

Retry == CanType /\ active \in DOMAIN convs
         /\ \E i \in LastReply(convs[active].msgs) : Redo(convs[active], i - 1)
Regenerate ==
  /\ ~Locked /\ active \in DOMAIN convs
  /\ \E i \in DOMAIN convs[active].msgs :
       convs[active].msgs[i].role = "assistant" /\ Redo(convs[active], i - 1)
EditMessage ==
  /\ active \in DOMAIN convs
  /\ \E i \in DOMAIN convs[active].msgs :
       convs[active].msgs[i].role = "user" /\ Redo(convs[active], i)

(* A reply cut off at the token limit goes on in its own message.          *)
ContinueMessage ==
  /\ ~Locked /\ HasAgent /\ active \in DOMAIN convs
  /\ \E i \in LastReply(convs[active].msgs) :
       /\ convs[active].msgs[i].text # {}
       /\ RunStream(NextAgent, 0, convs[active], convs[active].msgs[i].id)
  /\ UNCHANGED <<threadVars, aborted, ids, chatDialog, queued, items, compactor>>

(* deleteFrom, and /clear, which is not locked.                            *)
DeleteFrom ==
  /\ active \in DOMAIN convs
  /\ \E keep \in 0..(Len(convs[active].msgs) - 1) :
       /\ ~Locked \/ (keep = 0 /\ CanType)
       /\ convs' = Put(withMessages(convs[active], SubSeq(convs[active].msgs, 1, keep)))
  /\ UNCHANGED <<threadVars, lockVars, aborted, agents, ids, chatDialog, queued,
                 items, compactor>>

BranchAt ==
  /\ ~Locked /\ active \in DOMAIN convs /\ made < MaxConvs
  /\ made' = made + 1 /\ active' = made + 1
  /\ \E keep \in DOMAIN convs[active].msgs :
       convs' = Put([withMessages(convs[active], SubSeq(convs[active].msgs, 1, keep))
                     EXCEPT !.id = made + 1])
  /\ UNCHANGED <<trash, lockVars, aborted, agents, ids, chatDialog, queued, items,
                 compactor>>

(* runCompact, from its button or /compact: it takes the abort reference.  *)
RunCompact ==
  /\ compactor = <<>> /\ CanType /\ active \in DOMAIN convs /\ Msgs(active) # <<>>
  /\ compactor' = <<convs[active]>> /\ abort' = Compactor
  /\ aborted' = aborted \ {Compactor}
  /\ UNCHANGED <<convs, threadVars, streaming, streamConv, agents, ids, chatDialog,
                 queued, items>>

Compacted ==
  /\ compactor # <<>> /\ compactor' = <<>> /\ abort' = 0
  /\ convs' \in {convs} \cup (IF Compactor \in aborted THEN {} ELSE {Summed(compactor[1])})
  /\ UNCHANGED <<threadVars, streaming, streamConv, aborted, agents, ids, chatDialog,
                 queued, items>>

StopChat ==
  /\ Locked /\ abort \notin aborted \cup {0}
  /\ aborted' = aborted \cup {abort}
  /\ UNCHANGED <<convs, threadVars, lockVars, agents, ids, chatDialog, queued, items,
                 compactor>>

Unqueue ==
  /\ active # 0
  /\ \E i \in DOMAIN queued[active] : queued' = [queued EXCEPT ![active] = RemoveAt(@, i)]
  /\ UNCHANGED <<convs, threadVars, lockVars, aborted, agents, ids, chatDialog,
                 items, compactor>>

(* newChat and the sidebar *)
Select ==
  /\ active' \in (DOMAIN convs \cup {0}) \ {active}
  /\ UNCHANGED <<convs, made, trash, lockVars, aborted, agents, ids, chatDialog,
                 queued, items, compactor>>

(* softDelete; the undo is offered until the next deletion (its expiry     *)
(* after five seconds only takes it away).                                 *)
SoftDelete ==
  /\ \E c \in DOMAIN convs :
       /\ trash' = <<convs[c]>>
       /\ convs' = [d \in DOMAIN convs \ {c} |-> convs[d]]
       /\ active' = IF active = c THEN 0 ELSE active
  /\ UNCHANGED <<made, lockVars, aborted, agents, ids, chatDialog, queued, items,
                 compactor>>

UndoDelete ==
  /\ trash # <<>> /\ trash' = <<>>
  /\ convs' = Put(trash[1]) /\ active' = trash[1].id
  /\ UNCHANGED <<made, lockVars, aborted, agents, ids, chatDialog, queued, items,
                 compactor>>

-----------------------------------------------------------------------------
(* The profile is read once; a failed read leaves the list empty.          *)
ChatInit ==
  /\ \/ convs = [c \in {1} |-> Stored] /\ active = 1
     \/ convs = <<>> /\ active = 0
  /\ made = 1 /\ trash = <<>>
  /\ streaming = FALSE /\ streamConv = 0 /\ abort = 0 /\ aborted = {}
  /\ agents = [r \in Agents |-> Unused] /\ ids = 1 /\ chatDialog = 0
  /\ queued = [c \in ConvIds |-> <<>>] /\ items = 0 /\ compactor = <<>> /\ clicks = 0
  /\ bound \in Bounds

AgentStep(r) ==
  \/ Researched(r) \/ Delta(r) \/ TurnReplied(r) \/ TurnReviewed(r) \/ AskApproval(r) \/ ToolsDone(r)
  \/ AutoCompacted(r) \/ Drain(r)

Click ==
  \/ SendMessage \/ SendFollowUp \/ Retry \/ Regenerate \/ EditMessage \/ ContinueMessage
  \/ DeleteFrom \/ BranchAt \/ RunCompact \/ Unqueue \/ Select \/ SoftDelete \/ UndoDelete

ChatNext ==
  /\ \/ Click /\ clicks < bound.clicks /\ clicks' = clicks + 1
     \/ (\E r \in Agents : AgentStep(r)) /\ UNCHANGED clicks
     \/ (DecideChat \/ Queue \/ Compacted \/ StopChat) /\ UNCHANGED clicks
  /\ UNCHANGED bound

ChatSpec == ChatInit /\ [][ChatNext]_chatVars

-----------------------------------------------------------------------------
ChatTypeOK ==
  /\ DOMAIN convs \subseteq 1..made /\ made \in ConvIds
  /\ \A c \in DOMAIN convs : convs[c].id = c /\ convs[c].count \in 0..Len(convs[c].msgs)
  /\ streamConv \in 0..made
  /\ abort \in 0..Compactor /\ aborted \subseteq 1..Compactor /\ chatDialog \in 0..MaxAgents
  /\ \A r \in Agents : agents[r].mine \subseteq 1..ids /\ agents[r].turn < MaxTurns

(* A run's text is only in the messages it was started on or made for its  *)
(* later turns, whatever runs overlap it and however the list of messages  *)
(* is cut, branched, restored or grown around its placeholder.             *)
RepliesAreNotMixed ==
  \A c \in DOMAIN convs : \A i \in DOMAIN convs[c].msgs :
    \A r \in convs[c].msgs[i].text \ {0} : convs[c].msgs[i].id \in agents[r].mine

(* A stopped run adds no message to its conversation, from whichever await *)
(* it comes back: its research, a tool, an approval, the queue.            *)
StoppedRunsAddNothing ==
  [][\A r \in Agents \cap aborted : agents'[r] # agents[r] =>
       \A c \in DOMAIN convs \cap DOMAIN convs' : Len(convs'[c].msgs) <= Len(convs[c].msgs)]_chatVars

(* Queued messages are sent once and in the order they were typed, though  *)
(* several runs of a conversation may drain its queue.                     *)
QueueKeepsOrder ==
  \A c \in DOMAIN convs : LET msgs == convs[c].msgs
                              sent == {i \in DOMAIN msgs : msgs[i].item # 0}
    IN \A i, j \in sent : i < j => msgs[i].item < msgs[j].item
=============================================================================
