---------------------------- MODULE CoderPanels -----------------------------
(***************************************************************************)
(* What the Coder screen shows of a workspace beside the transcript: its   *)
(* memory, file tree, commits and branches (useCoderMemory, FileTree, Git, *)
(* BranchManager, Undo), fetched again whenever the workspace on screen    *)
(* changes, whenever the control plane has been re-pointed at it           *)
(* (queueWorkspaceApply), and after the user's own git operations.         *)
(*                                                                         *)
(* A handler keeps the workspace of the render it was made in. The control *)
(* plane serves the tree of the workspace it is pointed at, and the other  *)
(* panels for the workspace the request names. What a panel shows is that  *)
(* workspace's name; which commits, files or rules it has is left out.     *)
(***************************************************************************)
EXTENDS Naturals, Sequences, FiniteSets

CONSTANTS
  Roots,      \* effective workspace directories (activeWsDir)
  Panels,     \* those on screen, of AllPanels
  MaxMoves,   \* bound on switches, runs and git operations
  MaxFetches  \* bound on fetches in flight

AllPanels == {"memory", "tree", "commits", "branches"}

ASSUME PanelsAssumption ==
  /\ Roots # {}
  /\ Panels \subseteq AllPanels /\ "memory" \in Panels
  /\ {MaxMoves, MaxFetches} \subseteq Nat

VARIABLES
  root,       \* activeWsDir
  pointed,    \* the workspace the control plane is pointed at
  applied,    \* wsAppliedDirRef
  applySeq,   \* wsApplySeqRef
  applying,   \* wsApplyPendingRef
  chain,      \* wsApplyQueueRef: the re-points not answered yet
  agentRuns,  \* running
  panel,      \* per panel: its sequence counter, the workspace it shows,
              \* and whether the newest fetch failed
  fetches,    \* fetches in flight
  rules,      \* coderMemoryAddLearning in flight: the workspaces they are for
  gitOp,      \* the git operation in progress, by its remaining commands
  treeOpen,   \* treeOpen
  moves

panelVars == <<root, pointed, applied, applySeq, applying, chain, agentRuns, panel,
               fetches, rules, gitOp, treeOpen, moves>>
pointVars == <<pointed, applied, applySeq, applying, chain>>

Nowhere == "nowhere"
NoOp == [for |-> Nowhere, todo |-> <<>>]
Move1 == moves < MaxMoves /\ moves' = moves + 1

(* loadMemory, loadTree, loadCommits, loadBranches of the render for w:    *)
(* the newest fetch of a panel is the one its counter names.               *)
Load(names, w) ==
  /\ panel' = [p \in Panels |-> IF p \in names THEN [panel[p] EXCEPT !.seq = @ + 1] ELSE panel[p]]
  /\ fetches' = fetches \cup {[panel |-> p, seq |-> panel[p].seq + 1, for |-> w] : p \in names \cap Panels}
  /\ Cardinality(fetches') <= MaxFetches

Shown == IF treeOpen THEN Panels ELSE Panels \ {"tree"}

PanelsInit ==
  /\ root = CHOOSE w \in Roots : TRUE
  /\ pointed = root /\ applied = root /\ applySeq = 1 /\ applying = FALSE /\ chain = <<>>
  /\ agentRuns = FALSE /\ treeOpen = TRUE
  /\ panel = [p \in Panels |-> [seq |-> 0, shows |-> root, failed |-> FALSE]]
  /\ fetches = {} /\ rules = {} /\ gitOp = NoOp /\ moves = 0

-----------------------------------------------------------------------------
(* queueWorkspaceApply: re-points are served one after the other; only the *)
(* latest commits, and one that fails commits too.                         *)

QueueApply(w) ==
  IF applied = w /\ ~applying THEN UNCHANGED pointVars
  ELSE /\ applySeq' = applySeq + 1 /\ applying' = TRUE
       /\ chain' = Append(chain, [dir |-> w, seq |-> applySeq + 1])
       /\ UNCHANGED <<pointed, applied>>

Applied ==
  /\ chain # <<>> /\ chain' = Tail(chain) /\ applying' = FALSE
  /\ pointed' \in {pointed, Head(chain).dir}
  /\ IF Head(chain).seq = applySeq
     THEN applied' = Head(chain).dir /\ Load(Shown, root)
     ELSE UNCHANGED <<applied, panel, fetches>>
  /\ UNCHANGED <<root, applySeq, agentRuns, rules, gitOp, treeOpen, moves>>

(* Another workspace, or worktree, on screen. A run holds the re-point.    *)
SwitchRoot ==
  /\ Move1
  /\ \E w \in Roots \ {root} :
       /\ root' = w
       /\ IF agentRuns THEN UNCHANGED pointVars ELSE QueueApply(w)
       /\ Load(Shown, w)
  /\ UNCHANGED <<agentRuns, rules, gitOp, treeOpen>>

RunStarts ==
  /\ Move1 /\ ~agentRuns /\ agentRuns' = TRUE
  /\ UNCHANGED <<root, pointVars, panel, fetches, rules, gitOp, treeOpen>>

RunIsOver ==
  /\ agentRuns /\ agentRuns' = FALSE
  /\ QueueApply(root)
  /\ UNCHANGED <<root, panel, fetches, rules, gitOp, treeOpen, moves>>

ToggleTree ==
  /\ Move1 /\ treeOpen' = ~treeOpen
  /\ IF treeOpen THEN UNCHANGED <<panel, fetches>> ELSE Load({"tree"}, root)
  /\ UNCHANGED <<root, pointVars, agentRuns, rules, gitOp>>

-----------------------------------------------------------------------------
(* Answers *)

Takes(p, w) == [panel EXCEPT ![p].shows = w, ![p].failed = FALSE]

(* adoptMemory; the tree has the same guard.                               *)
AdoptAnywhere(p, w, content) == panel' = Takes(p, content)
AdoptOr(p, w, content) == panel' = IF applied = w THEN Takes(p, content) ELSE panel
Adopt(p, w, content) == AdoptOr(p, w, content)

FetchAnswered ==
  \E f \in fetches :
    /\ fetches' = fetches \ {f}
    /\ IF f.seq # panel[f.panel].seq THEN UNCHANGED panel
       ELSE CASE f.panel = "memory" -> Adopt(f.panel, f.for, f.for)
              [] f.panel = "tree" -> Adopt(f.panel, f.for, pointed)
              [] OTHER -> panel' = Takes(f.panel, f.for)
    /\ UNCHANGED <<root, pointVars, agentRuns, rules, gitOp, treeOpen, moves>>

(* The last good content stays, except that of the tree.                   *)
FetchFails ==
  \E f \in fetches :
    /\ fetches' = fetches \ {f}
    /\ panel' = IF f.seq # panel[f.panel].seq THEN panel
                ELSE [panel EXCEPT ![f.panel].failed = TRUE,
                                   ![f.panel].shows = IF f.panel = "tree" THEN Nowhere ELSE @]
    /\ UNCHANGED <<root, pointVars, agentRuns, rules, gitOp, treeOpen, moves>>

(* A rule found in what the user typed, or added in the memory panel, is   *)
(* sent off; the answer is the whole bank of the workspace it was for.     *)
AddLearning ==
  /\ Move1 /\ rules' = rules \cup {root}
  /\ UNCHANGED <<root, pointVars, agentRuns, panel, fetches, gitOp, treeOpen>>

LearningAdded ==
  \E w \in rules :
    /\ rules' = rules \ {w}
    /\ Adopt("memory", w, w)
    /\ UNCHANGED <<root, pointVars, agentRuns, fetches, gitOp, treeOpen, moves>>

-----------------------------------------------------------------------------
(* The user's git operations, command by command: each refuses to start    *)
(* during a run. The last command is followed by the reloads.              *)

Revert == <<"revert">>
Plans == [revert |-> Revert, undo |-> <<"reset">>,
          create |-> <<"check-ref-format", "checkout">>,
          switch |-> <<"check-ref-format", "status", "switch">>,
          discard |-> <<"log", "checkout">>,
          undoFile |-> <<"log", "rev-parse", "cat-file", "checkout", "commit">>]
OnBranches == {"create", "switch"}

GitBegins ==
  /\ Move1 /\ ~agentRuns /\ gitOp = NoOp
  /\ \E kind \in DOMAIN Plans : gitOp' = [kind |-> kind, for |-> root, todo |-> Plans[kind]]
  /\ UNCHANGED <<root, pointVars, agentRuns, panel, fetches, rules, treeOpen>>

(* Between commands; switchBranch also asks the user, who may decline. A   *)
(* command that fails ends the operation with no reload.                   *)
GitGoesOn ==
  /\ Len(gitOp.todo) > 1
  /\ gitOp' \in {[gitOp EXCEPT !.todo = Tail(@)], NoOp}
  /\ UNCHANGED <<root, pointVars, agentRuns, panel, fetches, rules, treeOpen, moves>>

GitEnds ==
  /\ Len(gitOp.todo) = 1 /\ gitOp' = NoOp
  /\ \E ok \in BOOLEAN :
       IF gitOp.kind \in OnBranches
       THEN Load({"branches", "commits"} \cup (IF ok THEN {"tree"} ELSE {}), gitOp.for)
       ELSE IF ok \/ gitOp.kind # "discard" THEN Load({"commits"}, gitOp.for)
       ELSE UNCHANGED <<panel, fetches>>
  /\ UNCHANGED <<root, pointVars, agentRuns, rules, treeOpen, moves>>

PanelsNext ==
  \/ Applied \/ SwitchRoot \/ RunStarts \/ RunIsOver \/ ToggleTree
  \/ FetchAnswered \/ FetchFails \/ AddLearning \/ LearningAdded
  \/ GitBegins \/ GitGoesOn \/ GitEnds

PanelsSpec == PanelsInit /\ [][PanelsNext]_panelVars

-----------------------------------------------------------------------------
(* Types; a fetch in flight is at most as new as its panel's counter.      *)
PanelsTypeOK ==
  /\ {root, pointed, applied} \subseteq Roots
  /\ {agentRuns, applying, treeOpen} \subseteq BOOLEAN
  /\ \A f \in fetches : f.panel \in Panels /\ f.for \in Roots /\ f.seq \in 1..panel[f.panel].seq
  /\ \A p \in Panels : panel[p].shows \in Roots \cup {Nowhere}
  /\ rules \subseteq Roots
  /\ \A i \in DOMAIN chain : chain[i].seq \in 1..applySeq

(* The memory on screen, which every prompt carries, is that of the        *)
(* workspace on screen once the control plane is confirmed there and the   *)
(* newest fetch has been answered, whatever answers of other workspaces    *)
(* come in late (the race guard of useCoderMemory).                        *)
MemoryBelongsHere ==
  \/ applied # root
  \/ panel["memory"].failed
  \/ \E f \in fetches : f.panel = "memory" /\ f.seq = panel["memory"].seq
  \/ panel["memory"].shows = root
=============================================================================
