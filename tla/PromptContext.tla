--------------------------- MODULE PromptContext ---------------------------
(***************************************************************************)
(* The codebase context of a coder prompt: refreshRepoMap of CoderScreen,  *)
(* which collects the repository map, the conventions, the detected        *)
(* commands, the skills and the files the conversation follows, one await  *)
(* after the other, for a run that waits for it or after a click; and what *)
(* it reads across those awaits: the conversation on screen, the one the   *)
(* run is pinned to, and the workspace the control plane serves.           *)
(*                                                                         *)
(* Each conversation works in a directory of its own, so it names both. Of *)
(* a context, only the directories its parts were read in matter, and whose*)
(* followed paths it holds. Left out: the texts and their caps, the half of*)
(* the prompt that only settings change, and what a run does between its   *)
(* refreshes.                                                              *)
(***************************************************************************)
EXTENDS Naturals, Sequences, FiniteSets

CONSTANTS
  Chats,         \* conversations
  Followable,    \* paths of the tree that can be followed
  CommandsKept,  \* the size of detectedCmdsByWsRef (8)
  MaxCtxRuns,    \* bound on runs
  MaxCtxViews,   \* bound on switches to another conversation
  MaxCtxClicks   \* bound on clicks that refresh

ASSUME ContextAssumption ==
  /\ Chats # {} /\ "none" \notin Chats
  /\ CommandsKept \in Nat \ {0} /\ {MaxCtxRuns, MaxCtxViews, MaxCtxClicks} \subseteq Nat

VARIABLES
  viewed,      \* activeConv, and with it activeWsDir
  boundPaths,  \* per conversation, the paths it follows
  served,      \* the workspace the control plane is pointed at
  repoint,     \* wsAppliedDirRef, wsApplySeqRef, wsApplyPendingRef
  repoints,    \* wsApplyQueueRef: the re-points not answered yet
  astray,      \* what has kept a re-point from its place: "refused", "skipped"
  asked,       \* askConvRef: where the answer to a question resumes
  ctxRun,      \* how many runs so far; of the last, runConvRef, the directory
               \* of its closure, and how far it is
  commands,    \* detectedCmdsByWsRef, oldest first
  refreshing,  \* the refreshes in flight
  codebase,    \* codebaseContextRef, and the run that waited for it
  ctxViews,
  ctxClicks

ctxVars == <<viewed, boundPaths, served, repoint, repoints, astray, asked, ctxRun,
             commands, refreshing, codebase, ctxViews, ctxClicks>>
servedVars == <<served, repoint, repoints, astray>>

NoChat == "none"
ByClick == 0
NoParts == [dirs |-> {}, follows |-> NoChat]
Unpinned == ctxRun.pin = NoChat
CtxClick == ctxClicks < MaxCtxClicks /\ ctxClicks' = ctxClicks + 1

-----------------------------------------------------------------------------
(* The workspace of the control plane *)

(* queueWorkspaceApply, and the effect that calls it unless a run is held. *)
(* The early return does not see re-points that are still on their way.    *)
Repoint(dir) ==
  IF repoint.applied = dir /\ ~repoint.pending
  THEN /\ astray' = IF repoints # <<>> /\ repoints[Len(repoints)].dir # dir
                    THEN astray \cup {"skipped"} ELSE astray
       /\ UNCHANGED <<served, repoint, repoints>>
  ELSE /\ repoint' = [repoint EXCEPT !.seq = @ + 1, !.pending = TRUE]
       /\ repoints' = Append(repoints, [dir |-> dir, seq |-> repoint.seq + 1])
       /\ UNCHANGED <<served, astray>>

(* The control plane answers; a failure commits like a success, and every  *)
(* answer clears wsApplyPendingRef, also an older one's.                   *)
Repointed ==
  /\ repoints # <<>> /\ repoints' = Tail(repoints)
  /\ \/ served' = Head(repoints).dir /\ UNCHANGED astray
     \/ astray' = astray \cup {"refused"} /\ UNCHANGED served
  /\ repoint' = [repoint EXCEPT !.pending = FALSE,
                   !.applied = IF Head(repoints).seq = repoint.seq THEN Head(repoints).dir ELSE @]
  /\ UNCHANGED <<viewed, boundPaths, asked, ctxRun, commands, refreshing, codebase, ctxViews, ctxClicks>>

ViewChat ==
  /\ ctxViews < MaxCtxViews /\ ctxViews' = ctxViews + 1
  /\ \E c \in Chats \ {viewed} :
       /\ viewed' = c
       /\ IF Unpinned THEN Repoint(c) ELSE UNCHANGED servedVars
  /\ UNCHANGED <<boundPaths, asked, ctxRun, commands, refreshing, codebase, ctxClicks>>

-----------------------------------------------------------------------------
(* A refresh *)

BeginRefresh(by, click) ==
  refreshing' = refreshing \cup
    {[by |-> by, click |-> click, at |-> "map", unread |-> {}, got |-> NoParts]}

(* toggleBind and clearBinds, of the conversation on screen.               *)
FollowPaths ==
  /\ CtxClick
  /\ \E paths \in SUBSET Followable \ {boundPaths[viewed]} :
       boundPaths' = [boundPaths EXCEPT ![viewed] = paths]
  /\ BeginRefresh(ByClick, ctxClicks')
  /\ UNCHANGED <<viewed, servedVars, asked, ctxRun, commands, codebase, ctxViews>>

(* After an undo, a branch operation or a restored checkpoint.             *)
RefreshAfterGit ==
  /\ CtxClick /\ BeginRefresh(ByClick, ctxClicks')
  /\ UNCHANGED <<viewed, boundPaths, servedVars, asked, ctxRun, commands, codebase, ctxViews>>

Goes(r, next) ==
  /\ refreshing' = (refreshing \ {r}) \cup {next}
  /\ UNCHANGED <<ctxRun, codebase>>

(* The refs are set, and a run that waited goes on.                        *)
Collected(r, got) ==
  /\ refreshing' = refreshing \ {r}
  /\ codebase' = [by |-> r.by, parts |-> got]
  /\ ctxRun' = IF r.by = ByClick THEN ctxRun ELSE [ctxRun EXCEPT !.at = "work"]

(* The map may be switched off, a file may be missing, a request may fail: *)
(* then the part is left out.                                              *)
Reads(got) == {got, [got EXCEPT !.dirs = @ \cup {served}]}

MapRead(r) ==
  /\ r.at = "map"
  /\ \E got \in Reads(r.got) : Goes(r, [r EXCEPT !.at = "rules", !.got = got])

(* A bug to notice: the target is the conversation on screen.              *)
RefreshTargetOnScreen == viewed

(* "Followed paths belong to the conversation the run is pinned to, not    *)
(* the one on screen"; so do the commands.                                 *)
RefreshTarget == IF Unpinned THEN viewed ELSE ctxRun.pin

(* AGENTS.md or CLAUDE.md, and without a further await the commands.       *)
RulesRead(r) ==
  /\ r.at = "rules"
  /\ LET known == {commands[i].in : i \in {j \in DOMAIN commands : commands[j].dir = RefreshTarget}}
     IN \E got \in Reads(r.got), found \in {{}, known} :
          Goes(r, [r EXCEPT !.at = "skills", !.got = [got EXCEPT !.dirs = @ \cup found]])

(* The skills, and without a further await the list of followed paths.     *)
SkillsRead(r) ==
  /\ r.at = "skills"
  /\ LET paths == boundPaths[RefreshTarget]
     IN \E read \in Reads(r.got) :
          LET got == [read EXCEPT !.follows = RefreshTarget]
          IN IF paths = {} THEN Collected(r, got)
             ELSE Goes(r, [r EXCEPT !.at = "files", !.unread = paths, !.got = got])

FollowedRead(r) ==
  /\ r.at = "files"
  /\ \E p \in r.unread, got \in Reads(r.got) :
       IF r.unread = {p} THEN Collected(r, got)
       ELSE Goes(r, [r EXCEPT !.unread = @ \ {p}, !.got = got])

RefreshGoesOn ==
  /\ \E r \in refreshing : MapRead(r) \/ RulesRead(r) \/ SkillsRead(r) \/ FollowedRead(r)
  /\ UNCHANGED <<viewed, boundPaths, servedVars, asked, commands, ctxViews, ctxClicks>>

-----------------------------------------------------------------------------
(* The run that waits *)

PinRun(chat, from) ==
  ctxRun' = [no |-> ctxRun.no + 1, pin |-> chat, from |-> from, at |-> "queued"]

(* onSubmit and resumeFromAsk: the answer to a question goes back to the   *)
(* conversation it was asked in, from the closure of the one on screen.    *)
SubmitPrompt ==
  /\ Unpinned /\ ctxRun.no < MaxCtxRuns
  /\ asked' = NoChat
  /\ IF asked \in {NoChat, viewed} THEN PinRun(viewed, viewed) /\ UNCHANGED <<viewed, servedVars>>
     ELSE PinRun(asked, viewed) /\ viewed' = asked /\ Repoint(asked)
  /\ UNCHANGED <<boundPaths, commands, refreshing, codebase, ctxViews, ctxClicks>>

(* Once the re-points queued so far are answered, room is made for the     *)
(* commands of the closure's directory.                                    *)
QueueAwaited ==
  /\ ctxRun.at = "queued" /\ repoints = <<>>
  /\ ctxRun' = [ctxRun EXCEPT !.at = "detecting"]
  /\ commands' = IF Len(commands) >= CommandsKept /\ \A i \in DOMAIN commands : commands[i].dir # ctxRun.from
                 THEN Tail(commands) ELSE commands
  /\ UNCHANGED <<viewed, boundPaths, servedVars, asked, refreshing, codebase, ctxViews, ctxClicks>>

(* detectCommands asks the control plane; then the first refresh.          *)
CommandsDetected ==
  /\ ctxRun.at = "detecting"
  /\ ctxRun' = [ctxRun EXCEPT !.at = "refreshing"]
  /\ commands' = IF \E i \in DOMAIN commands : commands[i].dir = ctxRun.from
                 THEN [i \in DOMAIN commands |->
                         IF commands[i].dir = ctxRun.from THEN [commands[i] EXCEPT !.in = served]
                         ELSE commands[i]]
                 ELSE Append(commands, [dir |-> ctxRun.from, in |-> served])
  /\ BeginRefresh(ctxRun.no, ctxClicks)
  /\ UNCHANGED <<viewed, boundPaths, servedVars, asked, codebase, ctxViews, ctxClicks>>

(* onMutate, after a reply whose calls changed something.                  *)
ToolMutates ==
  /\ ctxRun.at = "work"
  /\ ctxRun' = [ctxRun EXCEPT !.at = "refreshing"]
  /\ BeginRefresh(ctxRun.no, ctxClicks)
  /\ UNCHANGED <<viewed, boundPaths, servedVars, asked, commands, codebase, ctxViews, ctxClicks>>

(* The finally block: paused on a question, over, or on to the next queued *)
(* message, before a render could let the control plane go.                *)
RunLeaves ==
  /\ ctxRun.at = "work"
  /\ \/ /\ asked' \in {NoChat, ctxRun.pin}
        /\ ctxRun' = [ctxRun EXCEPT !.pin = NoChat, !.at = "over"]
        /\ Repoint(viewed)
     \/ /\ ctxRun.no < MaxCtxRuns /\ PinRun(ctxRun.pin, ctxRun.from)
        /\ UNCHANGED <<asked, servedVars>>
  /\ UNCHANGED <<viewed, boundPaths, commands, refreshing, codebase, ctxViews, ctxClicks>>

-----------------------------------------------------------------------------
ContextInit ==
  /\ viewed = CHOOSE c \in Chats : TRUE
  /\ boundPaths \in [Chats -> {{}}]
  /\ served = viewed /\ repoint = [applied |-> viewed, seq |-> 1, pending |-> FALSE]
  /\ repoints = <<>> /\ astray = {} /\ asked = NoChat
  /\ ctxRun = [no |-> 0, pin |-> NoChat, from |-> NoChat, at |-> "over"]
  /\ commands = <<>> /\ refreshing = {} /\ ctxViews = 0 /\ ctxClicks = 0
  /\ codebase = [by |-> ByClick, parts |-> NoParts]

ContextNext ==
  \/ Repointed \/ ViewChat \/ FollowPaths \/ RefreshAfterGit \/ RefreshGoesOn
  \/ SubmitPrompt \/ QueueAwaited \/ CommandsDetected \/ ToolMutates \/ RunLeaves

ContextSpec == ContextInit /\ [][ContextNext]_ctxVars

-----------------------------------------------------------------------------
(* Types; a run waits for exactly one refresh.                             *)
ContextTypeOK ==
  /\ {viewed, served, repoint.applied} \subseteq Chats
  /\ {asked, ctxRun.pin} \subseteq Chats \cup {NoChat}
  /\ Len(commands) <= CommandsKept
  /\ (ctxRun.at = "refreshing") = (\E r \in refreshing : r.by # ByClick)
  /\ \A r \in refreshing : r.by \in {ByClick, ctxRun.no}

(* The context a run has waited for is its own, whatever the user views,   *)
(* follows or undoes while it is collected: the followed files are those   *)
(* of the conversation the run is pinned to, and the map, the conventions, *)
(* the commands, the skills and the files were read in its directory,      *)
(* unless a re-point was refused by the control plane, or skipped by the   *)
(* early return of queueWorkspaceApply.                                    *)
ContextIsTheRuns ==
  ~Unpinned /\ codebase.by = ctxRun.no =>
    LET parts == codebase.parts
    IN /\ parts.follows = ctxRun.pin
       /\ astray = {} => parts.dirs \subseteq {ctxRun.pin}

(* "runAgent awaits this queue before its first control-plane tool call,   *)
(* so an in-flight re-point settles before the run starts" (CoderScreen):  *)
(* unless the control plane refused a re-point, a run past that wait works *)
(* in the directory of its own conversation.                               *)
RunsWorkInTheirWorkspace ==
  ctxRun.at \in {"detecting", "refreshing", "work"} /\ "refused" \notin astray =>
    served = ctxRun.pin
=============================================================================
