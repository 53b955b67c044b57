----------------------------- MODULE EditorTabs -----------------------------
(***************************************************************************)
(* The file tabs of the Coder screen (components/editor/tabModel.ts,       *)
(* EditorPane.tsx): open files with their unsaved text, re-read from disk  *)
(* on every activation, poll and agent mutation, and kept per workspace    *)
(* over a round trip.                                                      *)
(*                                                                         *)
(* A read or a write is a request and, later, its answer; the control      *)
(* plane serves it when it is sent. An agent rewrites files meanwhile.     *)
(* Every text is fresh, so that a text tells where it comes from. The      *)
(* display-only fields (badges, lint results, diskChanged, sizes, notices) *)
(* are left out.                                                           *)
(***************************************************************************)
EXTENDS Naturals, Sequences, FiniteSets, SequencesExt, FiniteSetsExt

CONSTANTS
  Workspaces,    \* workspace directories
  Files,         \* relative paths
  Images,        \* those of kind image, the others are code
  Written,       \* those an agent writes while they are open
  Forms,         \* what it writes: "text", "big" (beyond the read cap), "binary", "gone"
  MaxTabs,       \* MAX_TABS
  MaxSnapshots,  \* MAX_WS_SNAPSHOTS
  MaxTexts,      \* bound on texts typed by the user or written by an agent
  MaxOpens,      \* bound on tabs ever opened
  MaxSwitches,   \* bound on workspace switches
  MaxWork,       \* bound on the three together
  MaxReads,      \* bound on reads in flight
  MaxSeq         \* bound on reads of one tab

ASSUME TabsAssumption ==
  /\ Workspaces # {} /\ "none" \notin Workspaces    \* stands for no workspace
  /\ Images \subseteq Files /\ Written \subseteq Files
  /\ Forms \subseteq {"text", "big", "binary", "gone"}
  /\ {MaxTabs, MaxSnapshots, MaxTexts, MaxOpens, MaxSwitches, MaxWork, MaxReads,
      MaxSeq} \subseteq Nat

VARIABLES
  tabs,        \* tabs: the open tabs in order
  activeTab,   \* activeTabId, NoTab for the chat
  docs,        \* docRef: tab id to the live text
  tabGen,      \* genRef: the workspace generation
  readSeq,     \* readSeqRef
  snaps,       \* perWsRef, oldest first
  reads,       \* reads in flight, with what the disk answered
  saves,       \* writes in flight
  tabWs,       \* opts.activeWsDir
  tabApplied,  \* the workspace the control plane is confirmed at
  disk,        \* the texts each file has held, the last one its content
  texts,       \* number of texts made
  opens        \* number of tabs ever opened

tabsVars == <<tabs, activeTab, docs, tabGen, readSeq, snaps, reads, saves, tabWs,
              tabApplied, disk, texts, opens>>
diskVars == <<disk, texts>>
viewVars == <<tabWs, tabApplied, tabGen, snaps>>

NoTab == 0

(* A text belongs to a file of a workspace. *)
Text(w, f, n, form) == [ws |-> w, file |-> f, n |-> n, form |-> form]
NoText == Text("none", "none", 0, "text")

Tab(id, f) ==
  [id |-> id, file |-> f, doc |-> NoText, base |-> NoText, dirty |-> FALSE,
   status |-> "loading", truncated |-> FALSE, shown |-> NoText]

Open(id) == {t \in Range(tabs) : t.id = id}
TabOf(id) == CHOOSE t \in Range(tabs) : t.id = id
LiveDoc(t) == IF t.id \in DOMAIN docs THEN docs[t.id] ELSE t.doc
Seq0(id) == IF id \in DOMAIN readSeq THEN readSeq[id] ELSE 0
Busy == texts + opens + tabGen < MaxWork
Backend == tabApplied = tabWs                   \* ready()
OnDisk(w, f) == Last(disk[w][f])

Without(f, ids) == [x \in DOMAIN f \ ids |-> f[x]]
With(f, x, v) == [y \in DOMAIN f \cup {x} |-> IF y = x THEN v ELSE f[y]]

-----------------------------------------------------------------------------
(* EditorPane: the editor is mounted while it is shown, and holds its own  *)
(* text. It takes tab.doc when it mounts, and mounts again only when       *)
(* docRev grows, that is when pushDocTab changes doc.                      *)
Shows(t) ==
  /\ t.file \notin Images
  /\ t.status \in {"ready", "conflict"} \/ (t.status = "notfound" /\ t.doc # NoText)

Painted(old, new, remount) ==
  [new EXCEPT !.shown = IF ~Shows(new) THEN NoText
                        ELSE IF Shows(old) /\ ~remount THEN old.shown
                        ELSE new.doc]

PatchTab(id, new) ==
  [i \in DOMAIN tabs |-> IF tabs[i].id = id THEN Painted(tabs[i], new, FALSE) ELSE tabs[i]]

PushDocTab(id, new) ==
  [i \in DOMAIN tabs |-> IF tabs[i].id = id
                         THEN Painted(tabs[i], new, new.doc # tabs[i].doc) ELSE tabs[i]]

-----------------------------------------------------------------------------
(* readDisk *)

ReadsOf(ids, force, at) ==
  {[id |-> id, file |-> TabOf(id).file, gen |-> tabGen, seq |-> Seq0(id) + 1,
    force |-> force, content |-> OnDisk(at, TabOf(id).file)] : id \in ids}

SendReads(ids, force, at) ==
  /\ Cardinality(reads) + Cardinality(ids) <= MaxReads
  /\ \A id \in ids : Seq0(id) < MaxSeq
  /\ reads' = reads \cup ReadsOf(ids, force, at)
  /\ readSeq' = [id \in DOMAIN readSeq \cup ids |->
                   IF id \in ids THEN Seq0(id) + 1 ELSE readSeq[id]]

(* A bug to notice: a relative read sent while the control plane is at     *)
(* another workspace.                                                      *)
ReadDiskUngated(ids, force) == SendReads(ids, force, tabApplied)

(* A read waits until the control plane is at the workspace on screen.     *)
ReadDisk(ids, force) == SendReads(IF Backend THEN ids ELSE {}, force, tabApplied)

StillValid(r) == r.gen = tabGen /\ Seq0(r.id) = r.seq

(* The answer replaces the live text of a tab. *)
Adopts(t, r) ==
  /\ t.file \notin Images
  /\ CASE r.content.form = "text" -> \/ t.truncated \/ t.status = "loading" \/ r.force
                                     \/ r.content = t.base \/ ~t.dirty
       [] r.content.form = "big" -> ~t.dirty \/ r.force \/ t.truncated
       [] OTHER -> FALSE

(* A bug to notice: adopting cleans the tab. *)
AdoptedClean(t, r) ==
  [t EXCEPT !.doc = r.content, !.base = r.content, !.status = "ready",
            !.truncated = r.content.form = "big", !.dirty = FALSE]

Adopted(t, r) ==
  [t EXCEPT !.doc = r.content, !.base = r.content, !.status = "ready",
            !.truncated = r.content.form = "big",
            !.dirty = @ /\ ~r.force /\ ~t.truncated /\ r.content.form = "text"]

(* What an answer makes of the tab: compare, adopt or raise a conflict. *)
Answered(t, r) ==
  CASE r.content.form = "gone" -> [t EXCEPT !.status = "notfound"]
    [] t.file \in Images -> [t EXCEPT !.status = "ready"]
    [] r.content.form = "binary" -> [t EXCEPT !.status = "binary"]
    [] Adopts(t, r) -> Adopted(t, r)
    [] OTHER -> [t EXCEPT !.status = "conflict"]

TakeAnswer(r, valid) ==
  /\ reads' = reads \ {r}
  /\ LET taken == valid /\ Open(r.id) # {}
     IN /\ tabs' = IF taken THEN PushDocTab(r.id, Answered(TabOf(r.id), r)) ELSE tabs
        /\ docs' = IF taken /\ Adopts(TabOf(r.id), r) THEN With(docs, r.id, r.content) ELSE docs
  /\ UNCHANGED <<activeTab, readSeq, saves, viewVars, diskVars, opens>>

ReadAnswer(r) == TakeAnswer(r, StillValid(r))

ReadFails(r) ==
  /\ reads' = reads \ {r}
  /\ tabs' = IF StillValid(r)
             THEN PatchTab(r.id, [TabOf(r.id) EXCEPT !.status = IF @ = "loading" THEN "error" ELSE @])
             ELSE tabs
  /\ UNCHANGED <<activeTab, docs, readSeq, saves, viewVars, diskVars, opens>>

-----------------------------------------------------------------------------
(* The workspace switch effect *)

(* A tab as it is remembered: its live text, and never as loading. *)
Remembered(t) ==
  [t EXCEPT !.doc = LiveDoc(t), !.shown = NoText,
            !.status = IF @ = "loading" THEN "ready" ELSE @]

Remember ==
  LET all == Append(snaps, [ws |-> tabWs, tabs |-> [i \in DOMAIN tabs |-> Remembered(tabs[i])],
                            docs |-> [id \in {t.id : t \in Range(tabs)} |-> LiveDoc(TabOf(id))],
                            active |-> activeTab])
  IN IF Len(all) > MaxSnapshots THEN Tail(all) ELSE all

SnapOf(w, all) == {s \in Range(all) : s.ws = w}

(* The restored panes mount afresh. The control plane is still elsewhere,  *)
(* or a run holds it there: then nothing is read.                          *)
Restored(s) == [i \in DOMAIN s.tabs |-> Painted(Tab(NoTab, ""), s.tabs[i], TRUE)]

Readable(ts) ==
  {t.id : t \in {t \in Range(ts) : t.file \in Images \/ ~t.truncated}}

RestoreReads(s, w) ==
  IF tabApplied # w THEN {}
  ELSE {[id |-> t.id, file |-> t.file, gen |-> tabGen + 1, seq |-> 1, force |-> FALSE,
         content |-> OnDisk(w, t.file)] :
        t \in {t \in Range(s.tabs) : t.id \in Readable(s.tabs)}}

Enter(w, s, kept) ==
  /\ snaps' = kept
  /\ tabs' = Restored(s) /\ docs' = s.docs /\ activeTab' = s.active
  /\ Cardinality(reads) + Cardinality(RestoreReads(s, w)) <= MaxReads
  /\ reads' = reads \cup RestoreReads(s, w)
  /\ readSeq' = [id \in {r.id : r \in RestoreReads(s, w)} |-> 1]

SwitchWorkspace(w) ==
  /\ w # tabWs /\ tabGen < MaxSwitches /\ Busy
  /\ tabWs' = w /\ tabGen' = tabGen + 1
  /\ LET all == Remember
         kept == RemoveFirstMatch(all, LAMBDA s : s.ws = w)
     IN IF SnapOf(w, all) = {}
        THEN /\ snaps' = all /\ tabs' = <<>> /\ activeTab' = NoTab
             /\ docs' = <<>> /\ readSeq' = <<>> /\ UNCHANGED reads
        ELSE Enter(w, CHOOSE s \in SnapOf(w, all) : TRUE, kept)
  /\ UNCHANGED <<saves, tabApplied, diskVars, opens>>

Refreshable ==
  {t.id : t \in {t \in Range(tabs) : /\ t.file \in Images \/ ~t.truncated
                                     /\ t.status \in {"ready", "conflict", "notfound"}}}

(* The control plane is confirmed at the workspace on screen (after a run  *)
(* that held it): the flush effect re-reads the open tabs.                 *)
Flush ==
  /\ tabApplied # tabWs
  /\ tabApplied' = tabWs
  /\ SendReads(Refreshable, FALSE, tabWs)
  /\ UNCHANGED <<tabs, activeTab, docs, tabGen, snaps, saves, tabWs, diskVars, opens>>

(* refreshOpenTabs: after every agent mutation. *)
RefreshOpenTabs ==
  /\ Backend /\ Refreshable # {}
  /\ ReadDisk(Refreshable, FALSE)
  /\ UNCHANGED <<tabs, activeTab, docs, saves, viewVars, diskVars, opens>>

(* Every 8 s of a run: the active code tab. *)
Poll ==
  /\ Backend
  /\ \E t \in Open(activeTab) :
       /\ t.file \notin Images /\ ~t.truncated /\ t.status \in {"ready", "conflict"}
       /\ ReadDisk({t.id}, FALSE)
  /\ UNCHANGED <<tabs, activeTab, docs, saves, viewVars, diskVars, opens>>

-----------------------------------------------------------------------------
(* What the user does *)

(* A click on a tab, the active one included, or on the chat. *)
SetActive(id) ==
  /\ activeTab' = id
  /\ ReadDisk({id} \cap Refreshable, FALSE)
  /\ UNCHANGED <<tabs, docs, saves, viewVars, diskVars, opens>>

(* At the cap the first clean tab in the background is stripped of its     *)
(* live text and its read counter, but stays in the list.                  *)
Victims == {i \in DOMAIN tabs : tabs[i].id # activeTab /\ ~tabs[i].dirty}
AtCap == Len(tabs) >= MaxTabs

OpenFile(f) ==
  /\ Backend /\ opens < MaxOpens /\ Busy
  /\ \A t \in Range(tabs) : t.file # f
  /\ AtCap => Victims # {}
  /\ LET gone == IF AtCap THEN {tabs[Min(Victims)].id} ELSE {}
         id == opens + 1
     IN /\ docs' = With(Without(docs, gone), id, NoText)
        /\ tabs' = Append(tabs, Tab(id, f))
        /\ activeTab' = id /\ opens' = id
        /\ Cardinality(reads) < MaxReads
        /\ reads' = reads \cup {[id |-> id, file |-> f, gen |-> tabGen, seq |-> 1, force |-> FALSE,
                                content |-> OnDisk(tabApplied, f)]}
        /\ readSeq' = With(Without(readSeq, gone), id, 1)
  /\ UNCHANGED <<saves, viewVars, diskVars>>

(* A dirty tab is closed when the user confirms. Ids are unique            *)
(* (TabsTypeOK).                                                           *)
CloseTab(id) ==
  /\ Open(id) # {}
  /\ docs' = Without(docs, {id}) /\ readSeq' = Without(readSeq, {id})
  /\ tabs' = RemoveFirstMatch(tabs, LAMBDA t : t.id = id)
  /\ activeTab' = IF activeTab = id THEN NoTab ELSE activeTab
  /\ UNCHANGED <<reads, saves, viewVars, diskVars, opens>>

(* onDocChange: a keystroke in a mounted editor. *)
Type(id) ==
  /\ texts < MaxTexts /\ Busy
  /\ \E t \in Open(id) :
       /\ Shows(t) /\ ~t.truncated
       /\ LET x == Text(tabWs, t.file, texts + 1, "text")
          IN /\ docs' = With(docs, id, x)
             /\ tabs' = [i \in DOMAIN tabs |->
                           IF tabs[i].id = id THEN [tabs[i] EXCEPT !.dirty = TRUE, !.shown = x]
                           ELSE tabs[i]]
  /\ texts' = texts + 1
  /\ UNCHANGED <<activeTab, readSeq, reads, saves, viewVars, disk, opens>>

(* saveTab: enabled by the pane for a dirty, complete code tab. *)
SaveTab(id) ==
  /\ \E t \in Open(id) :
       /\ t.file \notin Images /\ ~t.truncated /\ t.dirty
       /\ IF LiveDoc(t) = t.base
          THEN /\ tabs' = PatchTab(id, [t EXCEPT !.dirty = FALSE])
               /\ UNCHANGED <<saves, disk>>
          ELSE /\ Backend /\ Cardinality(saves) < 1
               /\ \E ok \in BOOLEAN :
                    /\ saves' = saves \cup {[id |-> id, gen |-> tabGen, doc |-> LiveDoc(t), ok |-> ok]}
                    /\ disk' = IF ok THEN [disk EXCEPT ![tabWs][t.file] = Append(@, LiveDoc(t))]
                               ELSE disk
               /\ UNCHANGED tabs
  /\ UNCHANGED <<activeTab, docs, readSeq, reads, viewVars, texts, opens>>

TakeSaved(s, dirty) ==
  /\ saves' = saves \ {s}
  /\ LET acked == s.ok /\ s.gen = tabGen
         live == IF s.id \in DOMAIN docs THEN docs[s.id] ELSE s.doc
     IN /\ tabs' = IF acked
                   THEN PatchTab(s.id, [TabOf(s.id) EXCEPT !.dirty = dirty, !.doc = live,
                                                            !.base = s.doc, !.status = "ready"])
                   ELSE tabs
        /\ docs' = IF acked THEN With(docs, s.id, live) ELSE docs
  /\ UNCHANGED <<activeTab, readSeq, reads, viewVars, diskVars, opens>>

(* The answer: text typed while the write was out keeps the tab dirty. *)
SaveAnswer(s) == TakeSaved(s, s.id \in DOMAIN docs /\ docs[s.id] # s.doc)

(* reloadTab, after the user confirmed, and the banner's Reload. *)
Reload(id) ==
  /\ Backend /\ Open(id) # {}
  /\ ReadDisk({id}, TRUE)
  /\ UNCHANGED <<tabs, activeTab, docs, saves, viewVars, diskVars, opens>>

(* The banner's Keep mine. *)
KeepMine(id) ==
  /\ \E t \in Open(id) : t.status = "conflict"
  /\ tabs' = PatchTab(id, [TabOf(id) EXCEPT !.status = "ready"])
  /\ UNCHANGED <<activeTab, docs, readSeq, reads, saves, viewVars, diskVars, opens>>

-----------------------------------------------------------------------------
(* An agent, or another program, writes or deletes a file. *)
AgentWrites(w, f) ==
  /\ texts < MaxTexts /\ Busy
  /\ texts' = texts + 1
  /\ \E form \in Forms : disk' = [disk EXCEPT ![w][f] = Append(@, Text(w, f, texts + 1, form))]
  /\ UNCHANGED <<tabs, activeTab, docs, readSeq, reads, saves, viewVars, opens>>

TabsInit ==
  /\ tabs = <<>> /\ activeTab = NoTab /\ docs = <<>> /\ readSeq = <<>>
  /\ tabGen = 0 /\ snaps = <<>> /\ reads = {} /\ saves = {}
  /\ tabWs = CHOOSE w \in Workspaces : TRUE
  /\ tabApplied = tabWs
  /\ disk = [w \in Workspaces |-> [f \in Files |-> <<Text(w, f, 0, "text")>>]]
  /\ texts = 0 /\ opens = 0

UserStep(id) ==
  \/ SetActive(id) \/ CloseTab(id) \/ Type(id) \/ SaveTab(id) \/ Reload(id) \/ KeepMine(id)

TabsNext ==
  \/ \E id \in {t.id : t \in Range(tabs)} : UserStep(id)
  \/ SetActive(NoTab)
  \/ \E f \in Files : OpenFile(f)
  \/ \E w \in Workspaces : SwitchWorkspace(w)
  \/ Flush \/ RefreshOpenTabs \/ Poll
  \/ \E r \in reads : ReadAnswer(r) \/ ReadFails(r)
  \/ \E s \in saves : SaveAnswer(s)
  \/ \E w \in Workspaces, f \in Written : AgentWrites(w, f)

TabsSpec == TabsInit /\ [][TabsNext]_tabsVars

-----------------------------------------------------------------------------
TextsOf(w, f) == {NoText} \cup {Text(w, f, n, form) : n \in 0..MaxTexts, form \in Forms \cup {"text"}}

(* The type invariant. *)
TabsTypeOK ==
  /\ \A i, j \in DOMAIN tabs : tabs[i].id = tabs[j].id => i = j
  /\ \A t \in Range(tabs) :
       /\ t.id \in 1..opens /\ t.file \in Files
       /\ t.status \in {"loading", "ready", "error", "notfound", "binary", "conflict"}
       /\ {t.dirty, t.truncated} \subseteq BOOLEAN
  /\ activeTab \in {NoTab} \cup {t.id : t \in Range(tabs)}
  /\ DOMAIN docs \subseteq 1..opens
  /\ \A s \in Range(snaps) : s.ws \in Workspaces \ {tabWs}
  /\ {tabWs, tabApplied} \subseteq Workspaces

(* A tab, its live text and a remembered tab hold only text of their own   *)
(* file in their own workspace: neither an answer that was on its way      *)
(* during a switch, nor a held re-point, nor a restored set of tabs mixes  *)
(* two workspaces. ("known stale-content bug class", tabModel.ts:304)      *)
TabTextIsOwn ==
  /\ \A t \in Range(tabs) :
       {t.doc, t.base, t.shown, LiveDoc(t)} \subseteq TextsOf(tabWs, t.file)
  /\ \A s \in Range(snaps) : \A t \in Range(s.tabs) :
       {t.doc, t.base, s.docs[t.id]} \subseteq TextsOf(s.ws, t.file)
  /\ \A w \in Workspaces, f \in Files : \A i \in DOMAIN disk[w][f] :
       disk[w][f][i] \in TextsOf(w, f)

Kept(t, w, all) == \E s \in SnapOf(w, all) : s.docs[t.id] = LiveDoc(t)

(* A dirty tab stays dirty until its live text is on disk or the user      *)
(* gives it up, by closing the tab or by taking the file's text; leaving   *)
(* the workspace keeps the text. No background read, late write or flush   *)
(* cleans or drops it.                                                     *)
DirtyIsTheUsers ==
  [][\A t \in Range(tabs) :
       /\ t.dirty
       /\ ~\E u \in Range(tabs') : u.id = t.id /\ u.dirty
       => \/ LiveDoc(t) \in Range(disk[tabWs][t.file])
          \/ \E r \in reads \ reads' : r.id = t.id /\ r.force
          \/ CloseTab(t.id)
          \/ tabWs' # tabWs /\ (Kept(t, tabWs, snaps') \/ MaxSnapshots = 0)]_tabsVars
=============================================================================
