---------------------------- MODULE CoderSession ----------------------------
(***************************************************************************)
(* The Coder screen's conversations (screens/CoderScreen.tsx,              *)
(* useCoderConversations.ts, useCoderCheckpoints.ts, lib/coderStore.ts):   *)
(* the store, the transcript on screen that is copied back into it after   *)
(* every render, and the one agent run, which is pinned to the             *)
(* conversation it was started in while the user moves about.              *)
(*                                                                         *)
(* A step is a handler with the render and the effects it causes; a        *)
(* handler still reads the store of the render before. A conversation is   *)
(* named by its workspace and its id, since one id can appear in two       *)
(* workspaces. Left out: titles, ledgers, tokens, what the model is sent,  *)
(* and where the control plane points (CoderPanels).                       *)
(***************************************************************************)
EXTENDS Naturals, Sequences, SequencesExt, Functions

CONSTANTS
  Folders,       \* workspace directories
  MaxSessConvs,  \* bound on conversation ids
  MaxMessages,   \* bound on messages
  MaxAutoCps,    \* MAX_AUTO_CHECKPOINTS
  MaxSessClicks  \* bound on what the user does besides sending and stopping

ASSUME SessionAssumption ==
  /\ {MaxSessConvs, MaxMessages, MaxAutoCps, MaxSessClicks} \subseteq Nat
  /\ MaxSessConvs >= 2 /\ MaxMessages >= 1 /\ Folders # {}

VARIABLES
  book,       \* store.workspaces[w].conversations[c], by <<w, c>>
  spaces,     \* the rest of store.workspaces: order and activeConv
  here,       \* <<activeWs, activeConv>>; an activeConv of 0 is the empty one
  screen,     \* messages: the transcript on screen
  pin,        \* runConvRef, None when no run is in flight
  origin,     \* what was on screen when the run started
  halted,     \* stoppedRef
  paused,     \* askConvRef, with a pending question
  waiting,    \* queued: messages typed during a run, by conversation id
  cpJob,      \* a checkpoint being made or restored, None when there is none
  sessConvs,  \* conversation ids given out
  sessMsgs,   \* messages written
  sessClicks  \* what the user has done

sessVars == <<book, spaces, here, screen, pin, origin, halted, paused, waiting,
              cpJob, sessConvs, sessMsgs, sessClicks>>
sessRunVars == <<pin, origin, halted, paused>>
storeVars == <<book, spaces, here, screen>>

None == <<>>
Keys == Folders \X (0..MaxSessConvs)
Note(by) == [n |-> sessMsgs + 1, by |-> by]
Conv == [msgs |-> <<>>, hidden |-> FALSE, cps |-> <<>>]
Running == pin # None
Transcript(key) == IF key \in DOMAIN book THEN book[key].msgs ELSE <<>>
Write(b, key, msgs) == IF key \in DOMAIN b THEN [b EXCEPT ![key].msgs = msgs] ELSE b
Bind(f, x, v) == [y \in DOMAIN f \cup {x} |-> IF y = x THEN v ELSE f[y]]
Place(order, c) ==
  IF Contains(order, c) THEN CHOOSE i \in DOMAIN order : order[i] = c ELSE Len(order)
Unarchived(w) == {c \in 0..MaxSessConvs : <<w, c>> \in DOMAIN book /\ ~book[<<w, c>>].hidden}
(* The first listed conversation that is among cs, 0 when there is none.   *)
FirstOf(order, cs) ==
  LET firsts == {c \in cs : \E i \in DOMAIN order :
                              order[i] = c /\ \A j \in 1..(i - 1) : order[j] \notin cs}
  IN IF firsts = {} THEN 0 ELSE CHOOSE c \in firsts : TRUE
IsPinned(key) == IF Running THEN pin = key ELSE paused = key
IsWorkspacePinned(w) == IF Running THEN pin[1] = w ELSE paused # None /\ paused[1] = w

(* A render. When the transcript or what is selected changed, the effect   *)
(* copies the transcript into the selected conversation, except an empty   *)
(* one over one that is not.                                               *)
Render(b, sp, key, msgs) ==
  LET copies == /\ <<key, msgs>> # <<here, screen>>
                /\ key[2] # 0 /\ key[1] \in DOMAIN sp
                /\ msgs # <<>> \/ key \notin DOMAIN b \/ b[key].msgs = <<>>
  IN /\ here' = key /\ screen' = msgs
     /\ book' = IF ~copies THEN b
                ELSE Bind(b, key, [(IF key \in DOMAIN b THEN b[key] ELSE Conv)
                                   EXCEPT !.msgs = msgs])
     /\ spaces' = IF copies /\ ~Contains(sp[key[1]].order, key[2])
                  THEN [sp EXCEPT ![key[1]].order = Append(@, key[2])] ELSE sp

SessInit ==
  /\ here = <<CHOOSE w \in Folders : TRUE, 1>>
  /\ book = [k \in {here, <<here[1], 2>>} |->
               [Conv EXCEPT !.msgs = IF k = here THEN <<[n |-> 1, by |-> "user"]>> ELSE <<>>]]
  /\ spaces = [w \in {here[1]} |-> [order |-> <<1, 2>>, active |-> 1]]
  /\ screen = book[here].msgs
  /\ pin = None /\ origin = None /\ halted = FALSE /\ paused = None
  /\ waiting = [c \in 0..MaxSessConvs |-> <<>>]
  /\ cpJob = None /\ sessConvs = 2 /\ sessMsgs = 1 /\ sessClicks = 0

SessClick == sessClicks < MaxSessClicks /\ sessClicks' = sessClicks + 1
FreshId == sessConvs < MaxSessConvs /\ sessConvs' = sessConvs + 1
KeepRun == UNCHANGED <<pin, origin, halted, paused, waiting, cpJob, sessMsgs>>

-----------------------------------------------------------------------------
(* Conversations and workspaces *)

NewChatIn(w) ==
  /\ SessClick /\ FreshId /\ ~Running
  /\ Render(Bind(book, <<w, sessConvs'>>, Conv),
            [spaces EXCEPT ![w] = [order |-> Append(@.order, sessConvs'), active |-> sessConvs']],
            <<w, sessConvs'>>, <<>>)
  /\ KeepRun

(* The copy is not in the store loadConv reads: the screen comes up empty. *)
Fork ==
  /\ SessClick /\ FreshId /\ ~Running /\ here \in DOMAIN book
  /\ LET key == <<here[1], sessConvs'>>
         old == spaces[here[1]].order
     IN Render(Bind(book, key, book[here]),
               [spaces EXCEPT ![here[1]] =
                 [order |-> InsertAt(old, Place(old, here[2]) + 1, key[2]), active |-> key[2]]],
               key, Transcript(key))
  /\ KeepRun

Show(key) == Render(book, spaces, key, Transcript(key))

SelectConv(w, c) == SessClick /\ here # <<w, c>> /\ Show(<<w, c>>) /\ UNCHANGED sessConvs /\ KeepRun
SelectWorkspace(w) == SelectConv(w, spaces[w].active)

AddWorkspace(w) ==
  /\ SessClick
  /\ IF w \in DOMAIN spaces THEN Show(<<w, spaces[w].active>>) /\ UNCHANGED sessConvs
     ELSE /\ FreshId
          /\ Render(Bind(book, <<w, sessConvs'>>, Conv),
                    Bind(spaces, w, [order |-> <<sessConvs'>>, active |-> sessConvs']),
                    <<w, sessConvs'>>, <<>>)
  /\ KeepRun

ForgetWorkspace(w, b) ==
  /\ SessClick /\ ~IsWorkspacePinned(w)
  /\ LET sp == Restrict(spaces, DOMAIN spaces \ {w})
     IN IF here[1] # w THEN Render(b, sp, here, Transcript(here))
        ELSE IF DOMAIN sp = {} THEN Render(b, sp, <<w, 0>>, <<>>)
        ELSE \E x \in DOMAIN sp : Render(b, sp, <<x, sp[x].active>>, Transcript(<<x, sp[x].active>>))
  /\ UNCHANGED sessConvs /\ KeepRun

(* Its conversations go with it.                                           *)
RemoveWorkspaceAlone(w) == ForgetWorkspace(w, book)
RemoveWorkspace(w) == ForgetWorkspace(w, Restrict(book, {k \in DOMAIN book : k[1] # w}))

(* Archiving and deleting move on from the selected conversation. They     *)
(* note what is selected as the workspace's own, whichever workspace the   *)
(* conversation is in.                                                     *)
MoveOn(b, sp, key, next) ==
  LET to == IF key = here THEN <<key[1], next>> ELSE here
  IN Render(b, [sp EXCEPT ![key[1]].active = to[2]], to,
            IF key = here THEN Transcript(to) ELSE screen)

Archive(key, hide) ==
  /\ SessClick /\ ~(hide /\ IsPinned(key)) /\ book[key].hidden # hide
  /\ MoveOn([book EXCEPT ![key].hidden = hide], spaces, key,
            IF hide THEN FirstOf(spaces[key[1]].order, Unarchived(key[1]) \ {key[2]}) ELSE key[2])
  /\ UNCHANGED sessConvs /\ KeepRun

Delete(key) ==
  /\ SessClick /\ ~IsPinned(key)
  /\ LET rest == RemoveFirst(spaces[key[1]].order, key[2])
         shown == FirstOf(rest, Unarchived(key[1]))
     IN MoveOn(Restrict(book, DOMAIN book \ {key}), [spaces EXCEPT ![key[1]].order = rest], key,
               IF shown # 0 THEN shown ELSE FirstOf(rest, 0..MaxSessConvs))
  /\ UNCHANGED sessConvs /\ KeepRun

(* The page is loaded again: the store was flushed on unload, the run and  *)
(* all that waits is gone. The control plane names the workspace.          *)
ReloadTab ==
  /\ SessClick
  /\ IF DOMAIN spaces = {} THEN UNCHANGED storeVars
     ELSE \E w \in DOMAIN spaces :
            LET c == spaces[w].active
            IN IF <<w, c>> \in DOMAIN book THEN Show(<<w, c>>)
               ELSE Render(book, spaces, here, <<>>)
  /\ pin' = None /\ origin' = None /\ halted' = FALSE /\ paused' = None /\ cpJob' = None
  /\ waiting' = [c \in DOMAIN waiting |-> <<>>]
  /\ UNCHANGED <<sessConvs, sessMsgs>>

-----------------------------------------------------------------------------
(* The run *)

CanWrite == sessMsgs < MaxMessages /\ sessMsgs' = sessMsgs + 1
StartRun(key, seen) == pin' = key /\ origin' = seen /\ halted' = FALSE

(* onSubmit while a run is in flight *)
QueueMessage ==
  /\ CanWrite /\ Running /\ here[1] \in DOMAIN spaces /\ here[2] # 0
  /\ waiting' = [waiting EXCEPT ![here[2]] = Append(@, Note("user"))]
  /\ UNCHANGED <<storeVars, sessRunVars, cpJob, sessConvs, sessClicks>>

(* resumeFromAsk, away from the conversation that asked: its transcript    *)
(* comes up, and the answer is only put into the request.                  *)
ResumeElsewhere == Show(paused) /\ StartRun(paused, here)

(* onSubmit, onFollowUp, and the answer to a question where it was asked.  *)
Submit ==
  /\ CanWrite /\ ~Running /\ here[1] \in DOMAIN spaces
  /\ IF paused # None /\ paused # here
     THEN ResumeElsewhere
     ELSE Render(book, spaces, here, Append(screen, Note("user"))) /\ StartRun(here, here)
  /\ paused' = None
  /\ UNCHANGED <<waiting, cpJob, sessConvs, sessClicks>>

(* updateRunMessages: into the pinned conversation, and onto the screen    *)
(* while it is the one selected.                                           *)
WriteFor(key, note) ==
  Render(Write(book, key, Append(Transcript(key), note)), spaces, here,
         IF here = key THEN Append(screen, note) ELSE screen)

RunWritesMirrored ==
  /\ CanWrite /\ Running
  /\ Render(Write(book, pin, Append(Transcript(pin), Note("agent"))), spaces, here,
            Append(screen, Note("agent")))
  /\ UNCHANGED <<sessRunVars, waiting, cpJob, sessConvs, sessClicks>>

RunWrites ==
  /\ CanWrite /\ Running
  /\ WriteFor(pin, Note("agent"))
  /\ UNCHANGED <<sessRunVars, waiting, cpJob, sessConvs, sessClicks>>

(* A reply that asks the user ends the run with the question open.         *)
RunPauses ==
  /\ Running /\ ~halted
  /\ paused' = pin /\ pin' = None /\ origin' = None
  /\ UNCHANGED <<storeVars, halted, waiting, cpJob, sessConvs, sessMsgs, sessClicks>>

(* The run is over. Unless it was stopped, the next message queued for its *)
(* conversation id is written down and starts the next run.                *)
RunFinishes ==
  /\ Running
  /\ IF halted \/ waiting[pin[2]] = <<>>
     THEN pin' = None /\ origin' = None /\ UNCHANGED <<storeVars, halted, waiting>>
     ELSE /\ waiting' = [waiting EXCEPT ![pin[2]] = Tail(@)]
          /\ WriteFor(pin, Head(waiting[pin[2]]))
          /\ StartRun(pin, origin)
  /\ UNCHANGED <<paused, cpJob, sessConvs, sessMsgs, sessClicks>>

(* The stop button is disabled while another conversation is on screen.    *)
StopRun ==
  /\ Running /\ pin = here /\ ~halted /\ halted' = TRUE
  /\ UNCHANGED <<storeVars, pin, origin, paused, waiting, cpJob, sessConvs, sessMsgs,
                 sessClicks>>

-----------------------------------------------------------------------------
(* Checkpoints: both operations ask git first, and go on with what was     *)
(* selected, and shown, when they were called.                             *)
KeepSession == UNCHANGED <<sessRunVars, waiting, sessConvs, sessMsgs>>

BeginCheckpoint(auto) ==
  /\ SessClick /\ cpJob = None /\ (auto => Running)
  /\ LET key == IF auto THEN origin ELSE here
     IN key[2] # 0 /\ cpJob' = [kind |-> "save", key |-> key, auto |-> auto, kept |-> screen]
  /\ UNCHANGED storeVars /\ KeepSession

DropOldest(cps) ==
  LET autos == SelectSeq(cps, LAMBDA cp : cp.auto)
  IN IF Len(autos) <= MaxAutoCps THEN cps ELSE RemoveFirst(cps, autos[1])

SaveCheckpoint ==
  /\ cpJob # None /\ cpJob.kind = "save" /\ cpJob' = None
  /\ \E commit \in BOOLEAN :
       LET cp == [auto |-> cpJob.auto, len |-> Len(cpJob.kept), commit |-> commit]
       IN book' = IF cpJob.key \notin DOMAIN book THEN book
                  ELSE [book EXCEPT ![cpJob.key].cps =
                          IF cp.auto THEN DropOldest(Append(@, cp)) ELSE Append(@, cp)]
  /\ UNCHANGED <<spaces, here, screen, sessClicks>> /\ KeepSession

TruncateTo(key, kept) == Render(Write(book, key, kept), spaces, here, kept)

RestoreCheckpoint ==
  /\ SessClick /\ cpJob = None /\ ~Running /\ here \in DOMAIN book
  /\ \E cp \in Range(book[here].cps) :
       LET kept == SubSeq(screen, 1, IF cp.len < Len(screen) THEN cp.len ELSE Len(screen))
       IN IF cp.commit
          THEN /\ cpJob' = [kind |-> "restore", key |-> here, auto |-> FALSE, kept |-> kept]
               /\ UNCHANGED storeVars
          ELSE TruncateTo(here, kept) /\ UNCHANGED cpJob
  /\ KeepSession

CheckpointRestored ==
  /\ cpJob # None /\ cpJob.kind = "restore" /\ cpJob' = None
  /\ TruncateTo(cpJob.key, cpJob.kept)
  /\ UNCHANGED sessClicks /\ KeepSession

DeleteCheckpoint ==
  /\ SessClick /\ here \in DOMAIN book
  /\ \E i \in DOMAIN book[here].cps : book' = [book EXCEPT ![here].cps = RemoveAt(@, i)]
  /\ UNCHANGED <<spaces, here, screen, cpJob>> /\ KeepSession

-----------------------------------------------------------------------------
SessNext ==
  \/ \E w \in DOMAIN spaces :
       NewChatIn(w) \/ SelectWorkspace(w) \/ RemoveWorkspace(w)
       \/ \E c \in Range(spaces[w].order) : SelectConv(w, c)
  \/ \E w \in Folders : AddWorkspace(w)
  \/ \E key \in DOMAIN book : Delete(key) \/ \E hide \in BOOLEAN : Archive(key, hide)
  \/ Fork \/ ReloadTab
  \/ QueueMessage \/ Submit \/ RunWrites \/ RunPauses \/ RunFinishes \/ StopRun
  \/ \E auto \in BOOLEAN : BeginCheckpoint(auto)
  \/ SaveCheckpoint \/ RestoreCheckpoint \/ CheckpointRestored \/ DeleteCheckpoint

SessSpec == SessInit /\ [][SessNext]_sessVars

-----------------------------------------------------------------------------
(* Types, and what ties the store together: a listed conversation exists,  *)
(* one that exists is listed once, in a workspace that does, and the one a *)
(* run writes into or will be resumed in is never removed.                 *)
SessTypeOK ==
  /\ DOMAIN book \subseteq Keys
  /\ DOMAIN spaces \subseteq Folders
  /\ here \in Keys /\ {pin, origin, paused} \subseteq Keys \cup {None}
  /\ \A w \in DOMAIN spaces :
       /\ IsInjective(spaces[w].order)
       /\ \A c \in 0..MaxSessConvs : Contains(spaces[w].order, c) <=> <<w, c>> \in DOMAIN book
  /\ \A key \in DOMAIN book : key[1] \in DOMAIN spaces
  /\ pin = None <=> origin = None
  /\ pin # None => paused = None
  /\ \A key \in {pin, paused} : key # None /\ key[2] # 0 => key \in DOMAIN book

(* What the agent writes is written into the conversation its run was      *)
(* started for, whichever one the user has moved to since: no other        *)
(* transcript receives it (runConvRef and updateRunMessages).              *)
RepliesGoToTheirRun ==
  [][\A key \in DOMAIN book' : \A m \in Range(book'[key].msgs) :
       m.by = "agent" /\ m.n > sessMsgs => key = pin]_sessVars

=============================================================================
