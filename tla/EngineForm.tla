----------------------------- MODULE EngineForm -----------------------------
(***************************************************************************)
(* The Engine screen (EngineScreen.tsx): the form with the launch profile, *)
(* the artifact and the named profiles, restored from the control plane    *)
(* when the screen mounts and saved back by a debounced effect; the verdict *)
(* on whether the running engine matches the form; start, stop, restart.   *)
(* The Models screen saves an artifact behind the form's back.             *)
(*                                                                         *)
(* A profile is where its values come from and whether it names a drafting *)
(* backend; an artifact is its name. An event's handler, the render after  *)
(* it and that render's effects are one step. A save is applied by the     *)
(* control plane in the order it was sent, or lost.                        *)
(***************************************************************************)
EXTENDS Naturals, Sequences, FiniteSets

CONSTANTS
  Artifacts,     \* what the status feed lists, oldest first
  Drafting,      \* those whose catalog entry lists the drafting backend
  MaxTries,      \* 4 in the code: retries of a restart
  MaxQuestions,  \* bound on engineArgs requests in flight
  FormBudgets    \* bounds on the user's changes and engine operations, and
                 \* whether an engine is up at first

NoArtifact == ""
InCatalog == {Artifacts[i] : i \in DOMAIN Artifacts}

ASSUME FormAssumption ==
  Artifacts \in Seq(STRING \ {NoArtifact}) /\ Len(Artifacts) > 0 /\ Drafting \subseteq InCatalog /\ Artifacts[1] \in Drafting
  /\ {MaxTries, MaxQuestions} \subseteq Nat /\ FormBudgets \subseteq [edits : Nat, powers : Nat, up : BOOLEAN]

VARIABLES
  form,         \* profile, artifact, saved
  hydrated,     \* loaded
  profileGet,   \* getProfileState: "open", "served", "over" or "failed"
  lastSession,  \* what it reads: what is on disk when it is served
  feedSeen,     \* the status feed has listed the artifacts
  saveDue,      \* the autosave's timer runs
  formSaves,    \* saveProfileState in flight
  stored,       \* the profile state on disk
  argsDue,      \* the 150 ms timer of engineArgs runs
  argsSeq,      \* argsSeq
  asks,         \* engineArgs in flight
  verdict,      \* argsInfo.dirty (FALSE before the first answer), and
                \* whether the newest question failed
  engine,       \* the engine process: its state and the form it was started with
  engineShown,  \* its state in the last status
  task,         \* busy: the start, stop or restart in progress
  budget,       \* changes and operations the user may still make
  userActed     \* a change on the form, or a launch from the Models screen

formVars == <<form, hydrated, profileGet, lastSession, feedSeen, saveDue, formSaves,
              stored, argsDue, argsSeq, asks, verdict, engine, engineShown, task,
              budget, userActed>>
shownVars == <<form, hydrated, feedSeen, saveDue, argsDue, argsSeq>>
fetchVars == <<profileGet, lastSession>>
savedVars == <<formSaves, stored>>
verdictVars == <<asks, verdict>>
powerVars == <<engine, engineShown, task>>
userVars == <<budget, userActed>>

Profile == [from : {"preset", "last", "named", "user"}, drafts : BOOLEAN]
DefaultPreset == [from |-> "preset", drafts |-> TRUE]
NotStored == [from |-> "nothing", drafts |-> FALSE]
Settings == <<form.profile, form.artifact>>
NoTask == [kind |-> "none", does |-> "none", with |-> Settings, tries |-> 0]

-----------------------------------------------------------------------------
(* The effects of a render: with no artifact chosen the newest one is, and *)
(* a backend the artifact does not support is switched off.                *)

Selected(f, fd) ==
  IF f.artifact = NoArtifact /\ fd THEN [f EXCEPT !.artifact = Artifacts[Len(Artifacts)]] ELSE f

Reconciled(f, fd) ==
  IF fd /\ f.artifact \in InCatalog \ Drafting THEN [f EXCEPT !.profile.drafts = FALSE] ELSE f

ShowFormAtOnce(f, ld, fd) ==
  LET g == Reconciled(Selected(f, fd), fd) IN
  /\ form' = g /\ hydrated' = ld /\ feedSeen' = fd
  /\ saveDue' = (saveDue \/ g # form \/ ld # hydrated)
  /\ IF <<g.profile, g.artifact>> # Settings
     THEN argsSeq' = argsSeq + 1 /\ argsDue' = TRUE
     ELSE UNCHANGED <<argsSeq, argsDue>>

(* The render for form f, once loaded is ld and the feed is fd: the        *)
(* autosave is skipped until the hydrate is over, and a change of profile  *)
(* or artifact asks for a new verdict.                                     *)
ShowForm(f, ld, fd) ==
  LET g == Reconciled(Selected(f, fd), fd) IN
  /\ form' = g /\ hydrated' = ld /\ feedSeen' = fd
  /\ saveDue' = (ld /\ (saveDue \/ g # form \/ ld # hydrated))
  /\ IF <<g.profile, g.artifact>> # Settings
     THEN argsSeq' = argsSeq + 1 /\ argsDue' = TRUE
     ELSE UNCHANGED <<argsSeq, argsDue>>

FormInit ==
  /\ form = [profile |-> DefaultPreset, artifact |-> NoArtifact, saved |-> {}]
  /\ stored \in {[profile |-> NotStored, artifact |-> NoArtifact, saved |-> {}]} \cup
       [profile : {[from |-> "last", drafts |-> TRUE]}, artifact : {NoArtifact, Artifacts[1]}, saved : {{"named"}}]
  /\ hydrated = FALSE /\ profileGet = "open" /\ lastSession = stored /\ feedSeen = FALSE
  /\ saveDue = FALSE /\ formSaves = <<>>
  /\ argsDue = TRUE /\ argsSeq = 1 /\ asks = {} /\ verdict = [dirty |-> FALSE, failed |-> FALSE]
  /\ budget \in FormBudgets /\ userActed = FALSE
  /\ engine = [is |-> IF budget.up THEN "up" ELSE "down",
               runs |-> <<[from |-> "last", drafts |-> TRUE], Artifacts[1]>>]
  /\ engineShown = engine.is /\ task = NoTask

-----------------------------------------------------------------------------
(* Restoring: an empty stored artifact does not replace one that the feed  *)
(* has selected meanwhile; a failed read ends the hydrate too.             *)

ServeProfile ==
  /\ profileGet = "open" /\ profileGet' = "served" /\ lastSession' = stored
  /\ UNCHANGED <<shownVars, savedVars, verdictVars, powerVars, userVars>>

Hydrate ==
  /\ profileGet = "served" /\ profileGet' = "over"
  /\ ShowForm([profile |-> IF lastSession.profile = NotStored THEN DefaultPreset ELSE lastSession.profile,
               artifact |-> IF lastSession.artifact = NoArtifact THEN form.artifact ELSE lastSession.artifact,
               saved |-> lastSession.saved], TRUE, feedSeen)
  /\ UNCHANGED <<lastSession, savedVars, verdictVars, powerVars, userVars>>

HydrateFails ==
  /\ profileGet \in {"open", "served"} /\ profileGet' = "failed"
  /\ ShowForm(form, TRUE, feedSeen)
  /\ UNCHANGED <<lastSession, savedVars, verdictVars, powerVars, userVars>>

FeedArrives ==
  /\ ~feedSeen /\ ShowForm(form, hydrated, TRUE)
  /\ UNCHANGED <<fetchVars, savedVars, verdictVars, powerVars, userVars>>

-----------------------------------------------------------------------------
(* Saving: the whole form after 500 ms of rest, the artifact alone from    *)
(* the Models screen; the control plane merges what a save holds.          *)

AutoSave ==
  /\ saveDue /\ saveDue' = FALSE
  /\ formSaves' = Append(formSaves, [whole |-> TRUE, of |-> form])
  /\ UNCHANGED <<form, hydrated, feedSeen, argsDue, argsSeq, fetchVars, stored,
                 verdictVars, powerVars, userVars>>

SaveLands ==
  /\ formSaves # <<>> /\ formSaves' = Tail(formSaves)
  /\ LET s == Head(formSaves) IN
       stored' \in {stored, IF s.whole THEN s.of ELSE [stored EXCEPT !.artifact = s.of.artifact]}
  /\ UNCHANGED <<shownVars, fetchVars, verdictVars, powerVars, userVars>>

ByUser == budget.edits > 0 /\ budget' = [budget EXCEPT !.edits = @ - 1]

LaunchElsewhere(a) ==
  /\ feedSeen /\ ByUser /\ userActed' = TRUE
  /\ formSaves' = Append(formSaves, [whole |-> FALSE, of |-> [form EXCEPT !.artifact = a]])
  /\ UNCHANGED <<shownVars, fetchVars, stored, verdictVars, powerVars>>

-----------------------------------------------------------------------------
(* The user on the form.                                                   *)

Edit(f) ==
  /\ ByUser /\ userActed' = TRUE /\ ShowForm(f, hydrated, feedSeen)
  /\ UNCHANGED <<fetchVars, savedVars, verdictVars, powerVars>>

SetField == \E d \in BOOLEAN : Edit([form EXCEPT !.profile = [from |-> "user", drafts |-> d]])
PickArtifact == feedSeen /\ \E a \in InCatalog : Edit([form EXCEPT !.artifact = a])
ApplyPreset == Edit([form EXCEPT !.profile = DefaultPreset])
SaveCurrent == Edit([form EXCEPT !.saved = @ \cup {"named"}])
LoadNamed == "named" \in form.saved /\ Edit([form EXCEPT !.profile = [from |-> "named", drafts |-> TRUE]])
DeleteNamed == Edit([form EXCEPT !.saved = {}]) /\ form.saved # {}

-----------------------------------------------------------------------------
(* The verdict: asked 150 ms after the last change; only the answer to the *)
(* newest question counts, and a failure keeps the verdict there was.      *)

AskArgs ==
  /\ argsDue /\ Cardinality(asks) < MaxQuestions /\ argsDue' = FALSE
  /\ asks' = asks \cup {[seq |-> argsSeq, of |-> Settings]}
  /\ UNCHANGED <<form, hydrated, feedSeen, saveDue, argsSeq, fetchVars, savedVars,
                 verdict, powerVars, userVars>>

ArgsAnswered ==
  /\ \E k \in asks :
       /\ asks' = asks \ {k}
       /\ verdict' \in IF k.seq # argsSeq THEN {verdict}
                        ELSE {[dirty |-> engine.is = "up" /\ k.of # engine.runs, failed |-> FALSE],
                              [verdict EXCEPT !.failed = TRUE]}
  /\ UNCHANGED <<shownVars, fetchVars, savedVars, powerVars, userVars>>

-----------------------------------------------------------------------------
(* doStart, doStop and doRestart keep the form of the click. A stop that   *)
(* fails does not keep a start from being tried; a restart is tried again  *)
(* while the old engine still holds the port.                              *)

BeginTask(kind) ==
  /\ task.kind = "none" /\ budget.powers > 0 /\ budget' = [budget EXCEPT !.powers = @ - 1]
  /\ CASE kind = "start" -> engineShown = "down" /\ form.artifact # NoArtifact
       [] kind = "restart" -> engineShown = "up" /\ verdict.dirty
       [] kind = "stop" -> engineShown = "up"
  /\ task' = [kind |-> kind, does |-> "stop", with |-> Settings, tries |-> 0]
  /\ UNCHANGED <<shownVars, fetchVars, savedVars, verdictVars, engine, engineShown,
                 userActed>>

TaskStops ==
  /\ task.does = "stop"
  /\ engine' \in {engine, IF engine.is \in {"starting", "up"} THEN [engine EXCEPT !.is = "leaving"] ELSE engine}
  /\ task' = IF task.kind = "stop" THEN NoTask ELSE [task EXCEPT !.does = "start"]
  /\ UNCHANGED <<shownVars, fetchVars, savedVars, verdictVars, engineShown, userVars>>

TaskStarts ==
  /\ task.does = "start"
  /\ \/ /\ engine.is = "down" /\ engine' = [is |-> "starting", runs |-> task.with] /\ task' = NoTask
     \/ /\ engine.is # "down" /\ UNCHANGED engine      \* already_serving
        /\ task' = IF task.kind = "restart" /\ task.tries < MaxTries
                   THEN [task EXCEPT !.tries = @ + 1] ELSE NoTask
     \/ task' = NoTask /\ UNCHANGED engine             \* the request failed
  /\ UNCHANGED <<shownVars, fetchVars, savedVars, verdictVars, engineShown, userVars>>

(* The process, and the status feed that shows it (useStatus).             *)
EngineMoves ==
  /\ engine' \in {[engine EXCEPT !.is = s] :
                    s \in CASE engine.is = "starting" -> {"up", "down"}
                         [] engine.is = "leaving" -> {"down"}
                         [] OTHER -> {}}
  /\ UNCHANGED <<shownVars, fetchVars, savedVars, verdictVars, engineShown, task,
                 userVars>>

Status ==
  /\ engineShown # engine.is /\ engineShown' = engine.is
  /\ UNCHANGED <<shownVars, fetchVars, savedVars, verdictVars, engine, task, userVars>>

FormNext ==
  \/ ServeProfile \/ Hydrate \/ HydrateFails \/ FeedArrives
  \/ AutoSave \/ SaveLands \/ \E a \in InCatalog : LaunchElsewhere(a)
  \/ SetField \/ PickArtifact \/ ApplyPreset \/ SaveCurrent \/ LoadNamed \/ DeleteNamed
  \/ AskArgs \/ ArgsAnswered
  \/ \E k \in {"start", "stop", "restart"} : BeginTask(k)
  \/ TaskStops \/ TaskStarts \/ EngineMoves \/ Status

FormSpec == FormInit /\ [][FormNext]_formVars

-----------------------------------------------------------------------------
(* Types of the form, of the requests in flight and of the engine.         *)
FormTypeOK ==
  /\ form.profile \in Profile /\ form.artifact \in InCatalog \cup {NoArtifact} /\ form.saved \subseteq {"named"}
  /\ hydrated = (profileGet \in {"over", "failed"})
  /\ profileGet \in {"open", "served", "over", "failed"}
  /\ stored.profile \in Profile \cup {NotStored} /\ stored.artifact \in InCatalog \cup {NoArtifact}
  /\ \A k \in asks : k.seq \in 1 .. argsSeq
  /\ engine.is \in {"down", "starting", "up", "leaving"} /\ task.tries \in 0 .. MaxTries
  /\ {saveDue, argsDue, feedSeen, userActed} \subseteq BOOLEAN

(* As long as the user has changed nothing and the stored state could be   *)
(* read, what the last session left on disk stays: the profile, the named  *)
(* profiles and an artifact that was chosen. The default form of the first *)
(* render, and an artifact selected because the feed arrived first, never  *)
(* replace them.                                                           *)
SavedChoicesSurvive ==
  ~userActed /\ profileGet # "failed" =>
    /\ stored.saved = lastSession.saved
    /\ lastSession.profile # NotStored => stored.profile.from = lastSession.profile.from
    /\ lastSession.artifact # NoArtifact => stored.profile = lastSession.profile \/ lastSession.profile = NotStored
    /\ lastSession.artifact # NoArtifact => stored.artifact = lastSession.artifact

=============================================================================
