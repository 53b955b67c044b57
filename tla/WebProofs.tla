------------------------------ MODULE WebProofs ------------------------------
(***************************************************************************)
(* Proofs about the web client outside its chat and its coder agent: the   *)
(* stored settings and the forms that edit them, for any texts and keys    *)
(* typed and any number of requests in flight; the runs a client follows,  *)
(* for any lengths of wires and number of pauses; the editor's tabs, for   *)
(* any workspaces, files and number of reads; and the engine's form, for   *)
(* any artifacts. After these come the types of each.                      *)
(***************************************************************************)
EXTENDS StudioSettings, RunAttach, EditorTabs, EngineForm, SequenceTheorems, WellFoundedInduction,
        FiniteSetTheorems, TLAPS

(* Grades of a record of some fields, against the keys typed so far (t).   *)
(* In a plain one each key is one that was typed, or none; in a sealed one *)
(* the mask may stand for it.                                              *)
Plainly(c, t) == \A s \in Secrets \cap DOMAIN c : c[s] \in t[s] \cup {Unset}
Sealed(c, t) == \A s \in Secrets \cap DOMAIN c : c[s] \in t[s] \cup {Unset, SECRET_MASK}
WholeConfig(c) == DOMAIN c = Fields

(* What a client holds may be masked.                                      *)
Held(c, t) == c # NotFetched => WholeConfig(c) /\ Sealed(c, t)
ClientIsSealed ==
  /\ Held(engineForm, typed) /\ Held(settings, typed)
  /\ apiKeyDraft \in typed["apiKey"] \cup {Unset}
  /\ apiDraft \in typed["cloudProviderApiKey"] \cup {Unset}
  /\ Sealed(pendingPatch, typed)

(* So may what is on its way, but for what was merged and will be stored.  *)
RequestIsSealed(r, t) ==
  /\ DOMAIN r = {"kind", "who", "patch", "at", "answer"}
  /\ Sealed(r.patch, t)
  /\ r.kind = "test" => DOMAIN r.patch = {"cloudProviderApiKey"}
  /\ r.at = "merged" => r.kind = "save" /\ WholeConfig(r.answer) /\ Plainly(r.answer, t)
  /\ r.at = "answered" /\ r.kind # "test" => WholeConfig(r.answer) /\ Sealed(r.answer, t)
  /\ r.kind = "test" => r.who \notin {"form", "path", "panel"}

KeysInv ==
  /\ WholeConfig(config) /\ DOMAIN typed = Secrets
  /\ KeysAreTyped
  /\ ClientIsSealed
  /\ \A r \in requests : RequestIsSealed(r, typed)

-----------------------------------------------------------------------------
(* What the operators of the control plane and of the forms do to a record.*)

LEMMA MergedIsPlain ==
  ASSUME NEW c, NEW p, NEW t, WholeConfig(c), Plainly(c, t), Sealed(p, t)
  PROVE  WholeConfig(Merged(c, p)) /\ Plainly(Merged(c, p), t)
  BY DEF Merged, WholeConfig, Plainly, Sealed, Fields

LEMMA RedactedIsSealed ==
  ASSUME NEW c, NEW t, WholeConfig(c), Plainly(c, t)
  PROVE  WholeConfig(Redacted(c)) /\ Sealed(Redacted(c), t)
  BY DEF Redacted, WholeConfig, Plainly, Sealed, Fields

LEMMA PatchedIsHeld ==
  ASSUME NEW c, NEW p, NEW t, Held(c, t), Sealed(p, t)
  PROVE  Held(Patched(c, p), t)
<1>1. CASE c = NotFetched
  <2>1. Patched(c, p) = NotFetched
    BY <1>1 DEF Patched, NotFetched
  <2>. QED  BY <2>1 DEF Held
<1>2. CASE c # NotFetched
  <2>1. WholeConfig(c) /\ Sealed(c, t)
    BY <1>2 DEF Held
  <2>. QED  BY <2>1 DEF Held, Patched, WholeConfig, Sealed
<1>. QED  BY <1>1, <1>2

LEMMA PlainIsSealed ==
  ASSUME NEW c, NEW t, Plainly(c, t)
  PROVE  Sealed(c, t)
  BY DEF Plainly, Sealed

(* A fresh request carries its patch and no answer.                        *)
LEMMA NewIsSealed ==
  ASSUME NEW kind, NEW who, NEW p, NEW t, Sealed(p, t),
         kind = "test" =>
           DOMAIN p = {"cloudProviderApiKey"} /\ who \notin {"form", "path", "panel"}
  PROVE  RequestIsSealed(NewRequest(kind, who, p), t)
  BY DEF RequestIsSealed, NewRequest

-----------------------------------------------------------------------------
(* Steps that type nothing: the rest of the state decides.                 *)

LEMMA ClientStep ==
  ASSUME KeysInv, UNCHANGED <<config, typed, presented>>,
         ClientIsSealed', \A r \in requests' : RequestIsSealed(r, typed)
  PROVE  KeysInv'
  BY DEF KeysInv, KeysAreTyped, WholeConfig

LEMMA SameClient ==
  ASSUME KeysInv, UNCHANGED <<clientVars, typed>>
  PROVE  ClientIsSealed'
  BY DEF KeysInv, ClientIsSealed, clientVars

(* An edit of the cloud tab that is sent at once.                          *)
LEMMA UpdateStep ==
  ASSUME KeysInv, NEW p, Sealed(p, typed), Update(p),
         UNCHANGED <<config, engineForm, apiKeyDraft, apiDraft, typed, presented>>,
         pendingPatch' = pendingPatch \/ pendingPatch' = NoPatch
  PROVE  KeysInv'
<1>1. Held(settings, typed)'
  BY PatchedIsHeld DEF KeysInv, ClientIsSealed, Update
<1>2. Sealed(pendingPatch, typed)'
  BY DEF KeysInv, ClientIsSealed, Sealed, NoPatch, NotFetched
<1>3. ClientIsSealed'
  BY <1>1, <1>2 DEF KeysInv, ClientIsSealed
<1>4. \A r \in requests' : RequestIsSealed(r, typed)
  BY NewIsSealed DEF KeysInv, Update, Send
<1>. QED  BY <1>3, <1>4, ClientStep

(* A form sends a request and changes nothing of its own.                  *)
LEMMA SendStep ==
  ASSUME KeysInv, NEW r, RequestIsSealed(r, typed), Send(r),
         UNCHANGED <<config, clientVars, typed, presented>>
  PROVE  KeysInv'
<1>1. \A q \in requests' : RequestIsSealed(q, typed)
  BY DEF KeysInv, Send
<1>. QED  BY <1>1, SameClient, ClientStep

(* A typed key: all that was good stays so, since the typed keys grow.     *)
LEMMA GradesGrow ==
  ASSUME NEW c, NEW t, NEW u, \A s \in Secrets : t[s] \subseteq u[s]
  PROVE  /\ Plainly(c, t) => Plainly(c, u)
         /\ Sealed(c, t) => Sealed(c, u)
         /\ Held(c, t) => Held(c, u)
  BY DEF Plainly, Sealed, Held

LEMMA RequestsStaySealed ==
  ASSUME NEW r, NEW t, NEW u, \A s \in Secrets : t[s] \subseteq u[s], RequestIsSealed(r, t)
  PROVE  RequestIsSealed(r, u)
  BY GradesGrow DEF RequestIsSealed

LEMMA TypingStep ==
  ASSUME KeysInv, DOMAIN typed' = Secrets, \A x \in Secrets : typed[x] \subseteq typed'[x],
         UNCHANGED <<config, engineForm, settings, requests, presented>>,
         apiKeyDraft' \in typed'["apiKey"] \cup {Unset},
         apiDraft' \in typed'["cloudProviderApiKey"] \cup {Unset},
         Sealed(pendingPatch', typed')
  PROVE  KeysInv'
<1>1. KeysAreTyped'
  BY DEF KeysInv, KeysAreTyped, Secrets
<1>2. Held(engineForm, typed)' /\ Held(settings, typed)'
  BY GradesGrow DEF KeysInv, ClientIsSealed
<1>3. \A r \in requests' : RequestIsSealed(r, typed')
  BY RequestsStaySealed DEF KeysInv
<1>. QED  BY <1>1, <1>2, <1>3 DEF KeysInv, ClientIsSealed, WholeConfig

-----------------------------------------------------------------------------
(* One lemma for the actions of each place.                                *)

LEMMA EngineTabKeeps == ASSUME KeysInv, EngineTabStep PROVE KeysInv'
<1>1. CASE FormFromStatus
  <2>1. Plainly(config, typed)
    BY DEF KeysInv, KeysAreTyped, Plainly
  <2>2. Held(engineForm, typed)'
    BY <1>1, <2>1, RedactedIsSealed DEF FormFromStatus, KeysInv, Held
  <2>. QED  BY <1>1, <2>2, ClientStep DEF FormFromStatus, KeysInv, ClientIsSealed
<1>2. CASE ShowEngineTab
  <2>1. RequestIsSealed(NewRequest("get", "form", NoPatch), typed)
    BY NewIsSealed DEF Sealed, NoPatch, NotFetched
  <2>. QED  BY <1>2, <2>1, SendStep DEF ShowEngineTab
<1>3. CASE SaveForm
  <2>1. Sealed(SavedForm, typed)
    BY <1>3 DEF SaveForm, SavedForm, KeysInv, ClientIsSealed, Held, Sealed, WholeConfig, Fields,
         Secrets, Plain
  <2>2. RequestIsSealed(NewRequest("save", "form", SavedForm), typed)
    BY <2>1, NewIsSealed
  <2>. QED  BY <1>3, <2>2, SendStep DEF SaveForm
<1>4. CASE ClearEngineKey
  <2>1. RequestIsSealed(NewRequest("save", "form", [f \in {"apiKey"} |-> Unset]), typed)
    BY NewIsSealed DEF Sealed
  <2>. QED  BY <1>4, <2>1, SendStep DEF ClearEngineKey
<1>5. ASSUME NEW v \in Texts, SetFormField(v) PROVE KeysInv'
  <2>1. Held(engineForm, typed)'
    BY <1>5 DEF SetFormField, KeysInv, ClientIsSealed, Held, WholeConfig, Sealed, Secrets
  <2>. QED  BY <1>5, <2>1, ClientStep DEF SetFormField, KeysInv, ClientIsSealed
<1>6. ASSUME NEW v \in Texts, UseAndPull(v) PROVE KeysInv'
  <2>1. RequestIsSealed(NewRequest("save", "path", [f \in {"ninferPath"} |-> v]), typed)
    BY NewIsSealed DEF Sealed, Secrets
  <2>. QED  BY <1>6, <2>1, SendStep DEF UseAndPull
<1>7. ASSUME NEW k \in TypedKeys, TypeEngineKey(k) PROVE KeysInv'
  <2>1. typed' = [typed EXCEPT !["apiKey"] = @ \cup {k}]
    BY <1>7 DEF TypeEngineKey, TypesKey
  <2>2. /\ DOMAIN typed' = Secrets /\ \A x \in Secrets : typed[x] \subseteq typed'[x]
        /\ k \in typed'["apiKey"] /\ typed'["cloudProviderApiKey"] = typed["cloudProviderApiKey"]
    BY <2>1 DEF KeysInv, Secrets
  <2>3. Sealed(pendingPatch', typed')
    BY <1>7, <2>2, GradesGrow DEF TypeEngineKey, KeysInv, ClientIsSealed
  <2>. QED  BY <1>7, <2>2, <2>3, TypingStep DEF TypeEngineKey, KeysInv, ClientIsSealed
<1>. QED  BY <1>1, <1>2, <1>3, <1>4, <1>5, <1>6, <1>7 DEF EngineTabStep

LEMMA CloudTabKeeps == ASSUME KeysInv, CloudTabStep PROVE KeysInv'
<1>1. CASE DebounceEnds
  BY <1>1, UpdateStep DEF DebounceEnds, KeysInv, ClientIsSealed
<1>2. CASE ClearCloudKey
  <2>1. Sealed([f \in {"cloudProviderApiKey"} |-> Unset], typed)
    BY DEF Sealed
  <2>. QED  BY <1>2, <2>1, UpdateStep DEF ClearCloudKey
<1>3. CASE SaveModels
  <2>1. Sealed([f \in {"cloudProviderPrimaryModel"} |-> primaryDraft], typed)
    BY DEF Sealed, Secrets
  <2>. QED  BY <1>3, <2>1, UpdateStep DEF SaveModels
<1>4. ASSUME NEW k \in TypedKeys \cup {Unset}, TypeCloudKey(k) PROVE KeysInv'
  <2>1. typed' = [typed EXCEPT !["cloudProviderApiKey"] = @ \cup {k}]
    BY <1>4 DEF TypeCloudKey, TypesKey
  <2>2. /\ DOMAIN typed' = Secrets /\ \A x \in Secrets : typed[x] \subseteq typed'[x]
        /\ k \in typed'["cloudProviderApiKey"] /\ typed'["apiKey"] = typed["apiKey"]
    BY <2>1 DEF KeysInv, Secrets
  <2>3. Sealed(pendingPatch', typed')
    BY <1>4, <2>2 DEF TypeCloudKey, Debounce, Sealed
  <2>. QED  BY <1>4, <2>2, <2>3, TypingStep DEF TypeCloudKey, KeysInv, ClientIsSealed
<1>5. ASSUME NEW v \in Texts, TypeBaseUrl(v) PROVE KeysInv'
  <2>1. Sealed(pendingPatch, typed)'
    BY <1>5 DEF TypeBaseUrl, Debounce, Sealed, Secrets
  <2>. QED  BY <1>5, <2>1, ClientStep DEF TypeBaseUrl, KeysInv, ClientIsSealed
<1>6. ASSUME NEW v \in Texts, PickModel(v) PROVE KeysInv'
  BY <1>6, ClientStep DEF PickModel, KeysInv, ClientIsSealed
<1>7. ASSUME NEW p \in Presets, ApplyProvider(p) PROVE KeysInv'
  <2>1. Sealed([f \in {"cloudProviderBaseUrl", "cloudProviderPrimaryModel"} |-> p], typed)
    BY DEF Sealed, Secrets
  <2>. QED  BY <1>7, <2>1, UpdateStep DEF ApplyProvider
<1>8. ASSUME NEW button \in {"test", "retrieve"}, Probe(button) PROVE KeysInv'
  <2>1. Sealed([f \in {"cloudProviderApiKey"} |-> apiDraft], typed)
    BY DEF KeysInv, ClientIsSealed, Sealed
  <2>2. \A r \in requests' : RequestIsSealed(r, typed)
    BY <1>8, <2>1, NewIsSealed DEF Probe, Send, KeysInv
  <2>. QED  BY <1>8, <2>2, ClientStep DEF Probe, KeysInv, ClientIsSealed
<1>. QED  BY <1>1, <1>2, <1>3, <1>4, <1>5, <1>6, <1>7, <1>8 DEF CloudTabStep

(* A request moves on: the others stay, and so does what it carries.       *)
LEMMA MoveStep ==
  ASSUME KeysInv, NEW r \in requests, NEW at, NEW answer, Moves(r, at, answer),
         at = "merged" => r.kind = "save" /\ WholeConfig(answer) /\ Plainly(answer, typed),
         at = "answered" => r.kind = "test" \/ (WholeConfig(answer) /\ Sealed(answer, typed))
  PROVE  \A q \in requests' : RequestIsSealed(q, typed)
<1>1. RequestIsSealed(r, typed)
  BY DEF KeysInv
<1>. DEFINE moved == [r EXCEPT !.at = at, !.answer = answer]
<1>2. /\ DOMAIN moved = {"kind", "who", "patch", "at", "answer"}
      /\ moved.at = at /\ moved.answer = answer
      /\ moved.kind = r.kind /\ moved.who = r.who /\ moved.patch = r.patch
  BY <1>1 DEF RequestIsSealed
<1>3. RequestIsSealed(moved, typed)
  BY <1>1, <1>2 DEF RequestIsSealed
<1>. QED  BY <1>3 DEF KeysInv, Moves

LEMMA RequestKeeps ==
  ASSUME KeysInv, NEW r \in requests,
         \/ GetConfig(r) \/ MergeConfig(r) \/ PersistConfig(r) \/ TestCloud(r)
         \/ AnswerForm(r) \/ AnswerPanel(r) \/ AnswerProbe(r) \/ RequestFails(r)
  PROVE  KeysInv'
<1>1. Plainly(config, typed) /\ RequestIsSealed(r, typed)
  BY DEF KeysInv, KeysAreTyped, Plainly
<1>2. CASE GetConfig(r)
  <2>1. \A q \in requests' : RequestIsSealed(q, typed)
    BY <1>1, <1>2, MoveStep, RedactedIsSealed DEF GetConfig, KeysInv
  <2>. QED  BY <1>2, <2>1, SameClient, ClientStep DEF GetConfig
<1>3. CASE MergeConfig(r)
  <2>1. WholeConfig(Merged(config, r.patch)) /\ Plainly(Merged(config, r.patch), typed)
    BY <1>1, MergedIsPlain DEF KeysInv, RequestIsSealed
  <2>2. \A q \in requests' : RequestIsSealed(q, typed)
    BY <1>3, <2>1, MoveStep DEF MergeConfig
  <2>. QED  BY <1>3, <2>2, SameClient, ClientStep DEF MergeConfig
<1>4. CASE PersistConfig(r)
  <2>1. WholeConfig(r.answer) /\ Plainly(r.answer, typed)
    BY <1>1, <1>4 DEF PersistConfig, RequestIsSealed
  <2>2. \A q \in requests' : RequestIsSealed(q, typed)
    BY <1>4, <2>1, MoveStep, RedactedIsSealed DEF PersistConfig
  <2>3. WholeConfig(config)' /\ KeysAreTyped'
    BY <1>4, <2>1 DEF PersistConfig, KeysInv, KeysAreTyped, Plainly, WholeConfig, Fields
  <2>4. ClientIsSealed'
    BY <1>4, SameClient DEF PersistConfig
  <2>. QED  BY <1>4, <2>2, <2>3, <2>4 DEF PersistConfig, KeysInv
<1>5. CASE TestCloud(r)
  <2>1. r.patch["cloudProviderApiKey"] \in typed["cloudProviderApiKey"] \cup {Unset, SECRET_MASK}
    BY <1>1, <1>5 DEF TestCloud, RequestIsSealed, Sealed, Secrets
  <2>2. KeysAreTyped'
    BY <1>5, <2>1 DEF TestCloud, Resolved, KeysInv, KeysAreTyped, Secrets
  <2>3. \A q \in requests' : RequestIsSealed(q, typed)
    BY <1>5, MoveStep DEF TestCloud
  <2>4. ClientIsSealed'
    BY <1>5, SameClient DEF TestCloud
  <2>. QED  BY <1>5, <2>2, <2>3, <2>4 DEF TestCloud, KeysInv, WholeConfig
<1>6. CASE AnswerForm(r)
  <2>1. WholeConfig(r.answer) /\ Sealed(r.answer, typed)
    BY <1>1, <1>6 DEF AnswerForm, RequestIsSealed
  <2>2. ClientIsSealed'
    BY <1>6, <2>1 DEF AnswerForm, KeysInv, ClientIsSealed, Held
  <2>. QED  BY <1>6, <2>2, ClientStep DEF AnswerForm, Done, KeysInv
<1>7. CASE AnswerPanel(r)
  <2>1. WholeConfig(r.answer) /\ Sealed(r.answer, typed)
    BY <1>1, <1>7 DEF AnswerPanel, RequestIsSealed
  <2>2. ClientIsSealed'
    BY <1>7, <2>1 DEF AnswerPanel, KeysInv, ClientIsSealed, Held
  <2>. QED  BY <1>7, <2>2, ClientStep DEF AnswerPanel, Done, KeysInv
<1>8. CASE AnswerProbe(r)
  BY <1>8, ClientStep DEF AnswerProbe, Done, KeysInv, ClientIsSealed
<1>9. CASE RequestFails(r)
  <2>1. \A q \in requests' : RequestIsSealed(q, typed)
    BY <1>9, MoveStep DEF RequestFails, Done, KeysInv
  <2>. QED  BY <1>9, <2>1, SameClient, ClientStep DEF RequestFails
<1>. QED  BY <1>2, <1>3, <1>4, <1>5, <1>6, <1>7, <1>8, <1>9

-----------------------------------------------------------------------------
LEMMA KeysInit == SettingsInit => KeysInv
<1>. SUFFICES ASSUME SettingsInit PROVE KeysInv
  OBVIOUS
<1>1. WholeConfig(config) /\ DOMAIN typed = Secrets /\ KeysAreTyped
  BY DEF SettingsInit, WholeConfig, KeysAreTyped, Secrets, Fields
<1>2. ClientIsSealed
  BY DEF SettingsInit, ClientIsSealed, Held, Sealed, NoPatch, NotFetched
<1>3. \A r \in requests : RequestIsSealed(r, typed)
  BY NewIsSealed DEF SettingsInit, Sealed, NoPatch, NotFetched
<1>. QED  BY <1>1, <1>2, <1>3 DEF KeysInv

LEMMA KeysStep == KeysInv /\ [SettingsNext]_settingsVars => KeysInv'
<1>. SUFFICES ASSUME KeysInv, [SettingsNext]_settingsVars PROVE KeysInv'
  OBVIOUS
<1>1. CASE UNCHANGED settingsVars
  BY <1>1, SameClient, ClientStep DEF settingsVars, KeysInv
<1>. QED  BY <1>1, EngineTabKeeps, CloudTabKeeps, RequestKeeps DEF SettingsNext

(* Whatever is lost, late or overtaken: no mask is ever stored or shown to *)
(* a provider as a key (redact_config, set_config, resolve_secret).        *)
THEOREM MasksAreNeverKeys == SettingsSpec => []KeysAreTyped
<1>1. KeysInv => KeysAreTyped
  BY DEF KeysInv
<1>. QED  BY <1>1, KeysInit, KeysStep, PTL DEF SettingsSpec

-----------------------------------------------------------------------------
(* A child run and the call that follows it.                               *)

StopMsg == [type |-> "stop", n |-> 0]
StartMsg == [type |-> "start", n |-> 0]
EndFrames == [type : {"done", "error"}, n : 0..MaxAsks]
OpenFrames == [type : {"state", "approval", "hook"}, n : 0..MaxAsks]
Frames == IF childRun.status \in Ended THEN OpenFrames \cup EndFrames ELSE OpenFrames

CallTypes ==
  [pc : {"idle", "starting", "poll", "last", "over"} \cup Following, id : BOOLEAN,
   aborted : BOOLEAN, cuts : Nat, result : {"none", "aborted", "failed", "budget", "findings"}]
RunTypes ==
  [status : {"none", "live"} \cup Ended, asks : 0..MaxAsks, asking : 0..MaxAsks,
   form : {"none", "approval", "hook"}]

(* The last frame of a run is only on its way when the run has ended.      *)
ChildTypes ==
  /\ childRun \in RunTypes /\ childRun.asking <= childRun.asks
  /\ childRun.form = "none" <=> childRun.asking = 0
  /\ childCall \in CallTypes
  /\ childFrames \in Seq(Frames) /\ Len(childFrames) <= MaxFrames
  /\ childDialog \in 0..MaxAsks

(* A run is served once, and before the client has its id.                 *)
ServedOnce ==
  /\ childCall.pc = "idle" \/ StartMsg \in childWire => childRun.status = "none"
  /\ StartMsg \in childWire => childCall.pc # "idle"
  /\ childCall.id => childRun.status # "none" /\ childCall.pc \notin {"idle", "starting"}
  /\ ~childTrouble /\ childCall.pc \notin {"idle", "starting"} => childCall.id

(* A run whose id is known is stopped when its call is aborted, and its    *)
(* stream is left only for an abort or for the end of the run.             *)
AbortStops ==
  ~childTrouble =>
    /\ childCall.aborted /\ childCall.id => childRun.status \in Ended \/ StopMsg \in childWire
    /\ childCall.pc = "last" => childCall.aborted \/ childRun.status \in Ended

ChildInv == ChildTypes /\ ServedOnce /\ AbortStops /\ NoOrphanChild

(* A run, field by field.                                                  *)
LEMMA RunFields ==
  ASSUME AttachAssumption, NEW r \in RunTypes
  PROVE  /\ r = [status |-> r.status, asks |-> r.asks, asking |-> r.asking, form |-> r.form]
         /\ r.status \in {"none", "live"} \cup Ended
         /\ r.asks \in 0..MaxAsks /\ r.asks \in Nat /\ 0 \in 0..MaxAsks
  BY DEF RunTypes, AttachAssumption

LEMMA PauseUpdate ==
  ASSUME NEW r \in RunTypes, NEW q, q = [r EXCEPT !.asking = 0, !.form = "none"]
  PROVE  q = [status |-> r.status, asks |-> r.asks, asking |-> 0, form |-> "none"]
<1>1. r = [status |-> r.status, asks |-> r.asks, asking |-> r.asking, form |-> r.form]
  BY DEF RunTypes
<1>. QED
  BY <1>1

LEMMA AskUpdate ==
  ASSUME NEW r \in RunTypes, NEW n, NEW shape, NEW q,
         q = [r EXCEPT !.asks = n, !.asking = n, !.form = shape]
  PROVE  q = [status |-> r.status, asks |-> n, asking |-> n, form |-> shape]
<1>1. r = [status |-> r.status, asks |-> r.asks, asking |-> r.asking, form |-> r.form]
  BY DEF RunTypes
<1>. QED
  BY <1>1

LEMMA EndUpdate ==
  ASSUME NEW r \in RunTypes, NEW status, NEW q,
         q = [r EXCEPT !.status = status, !.asking = 0, !.form = "none"]
  PROVE  q = [status |-> status, asks |-> r.asks, asking |-> 0, form |-> "none"]
<1>1. r = [status |-> r.status, asks |-> r.asks, asking |-> r.asking, form |-> r.form]
  BY DEF RunTypes
<1>. QED
  BY <1>1

LEMMA FramesGrow ==
  ASSUME NEW S, NEW T, S \subseteq T
  PROVE  Seq(S) \subseteq Seq(T)
  OBVIOUS

(* A frame is sent, or takes the place of the oldest two.                  *)
LEMMA EmitKeeps ==
  ASSUME AttachAssumption, NEW T, childFrames \in Seq(T), Len(childFrames) <= MaxFrames,
         NEW f \in T, [type |-> "state", n |-> 0] \in T, Emit(f)
  PROVE  childFrames' \in Seq(T) /\ Len(childFrames') <= MaxFrames
<1>. DEFINE s == <<[type |-> "state", n |-> 0]>>
            rest == SubSeq(childFrames, 3, Len(childFrames))
<1>1. Len(childFrames) \in Nat /\ \A i \in 1..Len(childFrames) : childFrames[i] \in T
  BY LenProperties, ElementOfSeq
<1>2. CASE childCall.pc # "reading"
  BY <1>2 DEF Emit
<1>3. CASE childCall.pc = "reading" /\ Len(childFrames) < MaxFrames
  <2>1. childFrames' = Append(childFrames, f)
    BY <1>3 DEF Emit
  <2>. QED
    BY <1>1, <1>3, <2>1, AppendProperties DEF AttachAssumption
<1>4. CASE childCall.pc = "reading" /\ ~(Len(childFrames) < MaxFrames)
  <2>1. childFrames' = s \o Append(rest, f)
    BY <1>4 DEF Emit
  <2>2. Len(childFrames) = MaxFrames /\ MaxFrames >= 2 /\ MaxFrames \in Nat
    BY <1>1, <1>4 DEF AttachAssumption
  <2>3. /\ rest \in Seq(T)
        /\ Len(rest) = IF 3 <= Len(childFrames) THEN Len(childFrames) - 3 + 1 ELSE 0
    BY <1>1, <2>2, SubSeqProperties
  <2>4. s \in Seq(T) /\ Len(s) = 1
    OBVIOUS
  <2>. HIDE DEF s, rest
  <2>5. Append(rest, f) \in Seq(T) /\ Len(Append(rest, f)) = Len(rest) + 1
    BY <2>3, AppendProperties
  <2>6. s \o Append(rest, f) \in Seq(T) /\ Len(s \o Append(rest, f)) = Len(s) + Len(Append(rest, f))
    BY <2>4, <2>5, ConcatProperties
  <2>. QED
    BY <1>1, <2>1, <2>2, <2>3, <2>4, <2>5, <2>6
<1>. QED
  BY <1>2, <1>3, <1>4

(* The control plane's steps.                                              *)
LEMMA ServeStartKeeps ==
  ASSUME ChildInv, ServeStart
  PROVE  ChildInv'
<1>1. childRun.status = "none" /\ childRun' = [childRun EXCEPT !.status = "live"]
  BY DEF ChildInv, ServedOnce, ServeStart, StartMsg
<1>2. ~childCall.id /\ Frames' = Frames
  BY <1>1 DEF ChildInv, ServedOnce, ServeStart, ChildTypes, RunTypes, Frames, Ended
<1>3. ChildTypes'
  BY <1>1, <1>2 DEF ChildInv, ChildTypes, ServeStart, RunTypes
<1>4. ServedOnce'
  BY <1>1, <1>2 DEF ChildInv, ServedOnce, ServeStart, StartMsg, ChildTypes, RunTypes
<1>5. AbortStops'
  BY <1>1, <1>2 DEF ChildInv, AbortStops, ServedOnce, ServeStart, Ended
<1>6. NoOrphanChild'
  BY <1>1, <1>2 DEF ChildInv, NoOrphanChild, ServedOnce, ServeStart
<1>. QED
  BY <1>3, <1>4, <1>5, <1>6 DEF ChildInv

LEMMA AsksKeeps ==
  ASSUME AttachAssumption, ChildInv, ChildAsks
  PROVE  ChildInv'
<1>1. PICK type, f :
        /\ type \in {"approval", "hook"} /\ f = [type |-> type, n |-> childRun.asks + 1]
        /\ childRun' = [childRun EXCEPT !.asks = @ + 1, !.asking = childRun.asks + 1, !.form = type]
        /\ Emit(f)
  BY DEF ChildAsks
<1>2. childRun.asks + 1 \in 1..MaxAsks /\ childRun.asks \in Nat /\ childRun.status = "live"
  BY DEF ChildInv, ChildTypes, RunTypes, ChildAsks, AttachAssumption
<1>3. /\ childRun' \in RunTypes /\ childRun'.asking <= childRun'.asks /\ childRun'.asking # 0
      /\ childRun'.form # "none" /\ childRun'.status = childRun.status
  <2>1. PICK r \in RunTypes : r = childRun
    BY DEF ChildInv, ChildTypes
  <2>2. childRun' = [status |-> r.status, asks |-> r.asks + 1, asking |-> r.asks + 1, form |-> type]
    <3>1. childRun' = [r EXCEPT !.asks = r.asks + 1, !.asking = r.asks + 1, !.form = type]
      BY <1>1, <2>1
    <3>. QED
      BY <3>1, AskUpdate
  <2>3. r.asks + 1 \in 0..MaxAsks
    BY <1>2, <2>1
  <2>. QED
    BY <1>1, <1>2, <2>1, <2>2, <2>3, RunFields DEF RunTypes
<1>4. PICK T : T = OpenFrames
  OBVIOUS
<1>5. Frames = T /\ Frames' = T /\ f \in T /\ [type |-> "state", n |-> 0] \in T
  <2>1. Frames = T /\ Frames' = T
    BY <1>2, <1>3, <1>4 DEF Frames, Ended
  <2>2. childRun.asks + 1 \in 0..MaxAsks /\ 0 \in 0..MaxAsks
    BY <1>2 DEF AttachAssumption
  <2>. QED
    BY <1>1, <1>4, <2>1, <2>2 DEF OpenFrames
<1>6. childFrames' \in Seq(T) /\ Len(childFrames') <= MaxFrames
  BY <1>1, <1>5, EmitKeeps DEF ChildInv, ChildTypes
<1>7. ChildTypes'
  BY <1>3, <1>5, <1>6 DEF ChildInv, ChildTypes, ChildAsks
<1>. QED
  BY <1>3, <1>7 DEF ChildInv, ServedOnce, AbortStops, NoOrphanChild, ChildAsks

LEMMA PauseEnds ==
  ASSUME AttachAssumption, ChildInv,
         UNCHANGED <<childKind, childCall, childFrames, childDialog, childTrouble>>,
         childWire' \subseteq childWire, StopMsg \in childWire => StopMsg \in childWire',
         \/ childRun' = childRun
         \/ childRun' = [childRun EXCEPT !.asking = 0, !.form = "none"]
  PROVE  ChildInv'
<1>1. /\ childRun' \in RunTypes /\ childRun'.asking <= childRun'.asks
      /\ childRun'.form = "none" <=> childRun'.asking = 0
      /\ childRun'.status = childRun.status
  <2>1. PICK r \in RunTypes : r = childRun
    BY DEF ChildInv, ChildTypes
  <2>2. CASE childRun' = childRun
    BY <2>2 DEF ChildInv, ChildTypes
  <2>3. CASE childRun' = [childRun EXCEPT !.asking = 0, !.form = "none"]
    <3>1. childRun' = [status |-> r.status, asks |-> r.asks, asking |-> 0, form |-> "none"]
      <4>1. childRun' = [r EXCEPT !.asking = 0, !.form = "none"]
        BY <2>1, <2>3
      <4>. QED
        BY <4>1, PauseUpdate
    <3>. QED
      BY <2>1, <3>1, RunFields DEF RunTypes
  <2>. QED
    BY <2>2, <2>3
<1>2. Frames' = Frames
  BY <1>1 DEF Frames
<1>3. ChildTypes'
  BY <1>1, <1>2 DEF ChildInv, ChildTypes
<1>. QED
  BY <1>1, <1>3 DEF ChildInv, ServedOnce, AbortStops, NoOrphanChild, StopMsg

LEMMA DecisionKeeps ==
  ASSUME AttachAssumption, ChildInv, PauseTimesOut \/ \E m \in childWire : ServeDecision(m)
  PROVE  ChildInv'
<1>1. CASE PauseTimesOut
  BY <1>1, PauseEnds DEF PauseTimesOut
<1>2. ASSUME NEW m \in childWire, ServeDecision(m)
      PROVE  ChildInv'
  <2>1. m # StopMsg
    BY <1>2 DEF ServeDecision, StopMsg
  <2>. QED
    BY <1>2, <2>1, PauseEnds DEF ServeDecision
<1>. QED
  BY <1>1, <1>2

(* The run ends: what is known of its call stays.                          *)
LEMMA EndKeeps ==
  ASSUME AttachAssumption, ChildInv, NEW status \in Ended, childRun.status = "live",
         EndChild(status), UNCHANGED <<childKind, childCall, childDialog, childTrouble>>,
         childWire' \subseteq childWire
  PROVE  ChildInv'
<1>1. PICK f : /\ f = [type |-> IF status = "error" THEN "error" ELSE "done", n |-> 0]
               /\ Emit(f)
  BY DEF EndChild
<1>2. /\ childRun' \in RunTypes /\ childRun'.asking = 0 /\ childRun'.asking <= childRun'.asks
      /\ childRun'.form = "none" /\ childRun'.status = status
  <2>1. PICK r \in RunTypes : r = childRun
    BY DEF ChildInv, ChildTypes
  <2>2. childRun' = [status |-> status, asks |-> r.asks, asking |-> 0, form |-> "none"]
    <3>1. childRun' = [r EXCEPT !.status = status, !.asking = 0, !.form = "none"]
      BY <2>1 DEF EndChild
    <3>. QED
      BY <3>1, EndUpdate
  <2>. QED
    BY <2>1, <2>2, RunFields DEF RunTypes
<1>3. PICK T : T = OpenFrames \cup EndFrames
  OBVIOUS
<1>4. Frames = OpenFrames /\ Frames' = T /\ f \in T /\ [type |-> "state", n |-> 0] \in T
  <2>1. Frames = OpenFrames /\ Frames' = T
    BY <1>2, <1>3 DEF Frames, Ended
  <2>2. 0 \in 0..MaxAsks
    BY DEF AttachAssumption
  <2>. QED
    BY <1>1, <1>3, <2>1, <2>2 DEF OpenFrames, EndFrames
<1>5. childFrames \in Seq(OpenFrames) /\ Seq(OpenFrames) \subseteq Seq(T)
  BY <1>3, <1>4, FramesGrow DEF ChildInv, ChildTypes
<1>6. childFrames' \in Seq(T) /\ Len(childFrames') <= MaxFrames
  BY <1>1, <1>4, <1>5, EmitKeeps DEF ChildInv, ChildTypes
<1>7. ChildTypes'
  BY <1>2, <1>4, <1>6 DEF ChildInv, ChildTypes
<1>8. childRun'.status \in Ended /\ childRun'.status \notin {"none", "live"}
  BY <1>2 DEF Ended
<1>9. ServedOnce'
  BY <1>8 DEF ChildInv, ServedOnce
<1>10. AbortStops'
  BY <1>8 DEF ChildInv, AbortStops
<1>11. NoOrphanChild'
  BY <1>8 DEF ChildInv, NoOrphanChild
<1>. QED
  BY <1>7, <1>9, <1>10, <1>11 DEF ChildInv

LEMMA ServeStopKeeps ==
  ASSUME AttachAssumption, ChildInv, ServeStop
  PROVE  ChildInv'
<1>1. CASE childRun.status = "live"
  BY <1>1, EndKeeps DEF ServeStop, Ended
<1>2. CASE childRun.status # "live"
  <2>1. ChildTypes'
    BY <1>2 DEF ChildInv, ChildTypes, ServeStop, Frames
  <2>2. childRun.status \in {"none"} \cup Ended
    BY <1>2 DEF ChildInv, ChildTypes, RunTypes
  <2>3. ServedOnce'
    BY <1>2 DEF ChildInv, ServedOnce, ServeStop
  <2>4. AbortStops'
    BY <1>2, <2>2 DEF ChildInv, AbortStops, ServedOnce, ServeStop
  <2>5. NoOrphanChild'
    BY <1>2 DEF ChildInv, NoOrphanChild, ServeStop
  <2>. QED
    BY <2>1, <2>3, <2>4, <2>5 DEF ChildInv
<1>. QED
  BY <1>1, <1>2

-----------------------------------------------------------------------------
(* The client's steps.                                                     *)

(* A request fails: nothing is promised of its run.                        *)
LEMMA TroubleKeeps ==
  ASSUME ChildInv, childTrouble', ChildTypes', UNCHANGED childRun, childCall'.id = childCall.id,
         StartMsg \in childWire' => StartMsg \in childWire /\ childCall'.pc # "idle",
         childCall'.pc = "idle" => childCall.pc = "idle",
         childCall.id => childCall'.pc \notin {"idle", "starting"}
  PROVE  ChildInv'
  BY DEF ChildInv, ServedOnce, AbortStops, NoOrphanChild

(* The call moves on, its run and its requests as they were.               *)
LEMMA CallUpdate ==
  ASSUME ChildInv, NEW pc \in {"poll", "last"} \cup Following, childCall' = [childCall EXCEPT !.pc = pc]
  PROVE  /\ childCall' \in CallTypes /\ childCall'.pc = pc /\ childCall'.id = childCall.id
         /\ childCall'.aborted = childCall.aborted /\ childCall'.result = childCall.result
  BY DEF ChildInv, ChildTypes, CallTypes

LEMMA CutUpdate ==
  ASSUME NEW c \in CallTypes, NEW pc, NEW n, NEW q, q = [c EXCEPT !.pc = pc, !.cuts = n]
  PROVE  q = [pc |-> pc, id |-> c.id, aborted |-> c.aborted, cuts |-> n, result |-> c.result]
<1>1. c = [pc |-> c.pc, id |-> c.id, aborted |-> c.aborted, cuts |-> c.cuts, result |-> c.result]
  BY DEF CallTypes
<1>. QED
  BY <1>1

LEMMA FollowKeeps ==
  ASSUME AttachAssumption, ChildInv, NEW pc \in {"last"} \cup Following,
         childCall.pc \in Following, childCall' \in CallTypes, childCall'.pc = pc,
         childCall'.id = childCall.id, childCall'.aborted = childCall.aborted,
         UNCHANGED childRun, childFrames' \in Seq(Frames), Len(childFrames') <= MaxFrames,
         childDialog' \in 0..MaxAsks, childWire \subseteq childWire',
         StartMsg \in childWire' => StartMsg \in childWire, childTrouble' \/ childTrouble' = childTrouble,
         pc = "last" => childTrouble' \/ childCall.aborted \/ childRun.status \in Ended
  PROVE  ChildInv'
<1>1. Frames' = Frames
  BY DEF Frames
<1>2. ChildTypes'
  BY <1>1 DEF ChildInv, ChildTypes
<1>3. ServedOnce'
  BY DEF ChildInv, ServedOnce, Following
<1>4. AbortStops'
  BY DEF ChildInv, AbortStops, Following
<1>5. NoOrphanChild'
  BY DEF NoOrphanChild, Following
<1>. QED
  BY <1>2, <1>3, <1>4, <1>5 DEF ChildInv

LEMMA NoFrames ==
  ASSUME AttachAssumption
  PROVE  /\ <<>> \in Seq(Frames) /\ Len(<<>>) <= MaxFrames
         /\ <<[type |-> "state", n |-> 0]>> \in Seq(Frames)
         /\ Len(<<[type |-> "state", n |-> 0]>>) <= MaxFrames
<1>1. [type |-> "state", n |-> 0] \in Frames
  <2>1. 0 \in 0..MaxAsks
    BY DEF AttachAssumption
  <2>2. [type |-> "state", n |-> 0] \in OpenFrames
    BY <2>1 DEF OpenFrames
  <2>. QED
    BY <2>2 DEF Frames
<1>2. PICK T : T = Frames
  OBVIOUS
<1>3. <<[type |-> "state", n |-> 0]>> \in Seq(T)
  BY <1>1, <1>2
<1>. QED
  BY <1>2, <1>3 DEF AttachAssumption

(* The steps of the stream.                                                *)
LEMMA StreamKeeps ==
  ASSUME AttachAssumption, ChildInv,
         ChildSnapshot \/ Subscribe \/ StreamEnds \/ Resync \/ StreamCloses
  PROVE  ChildInv'
<1>0. /\ childFrames \in Seq(Frames) /\ Len(childFrames) <= MaxFrames
      /\ childDialog \in 0..MaxAsks
  BY DEF ChildInv, ChildTypes
<1>1. CASE ChildSnapshot
  <2>1. PICK pc \in {"last", "connect", "get"} :
          /\ MoveChild(pc)
          /\ pc = "last" => childTrouble' \/ childCall.aborted \/ childRun.status \in Ended
    BY <1>1 DEF ChildSnapshot
  <2>2. pc \in {"last"} \cup Following /\ childCall.pc \in Following
    BY <1>1 DEF ChildSnapshot, Following
  <2>3. /\ childCall' \in CallTypes /\ childCall'.pc = pc /\ childCall'.id = childCall.id
        /\ childCall'.aborted = childCall.aborted
    BY <2>1, <2>2, CallUpdate DEF MoveChild
  <2>4. childTrouble' \/ childTrouble' = childTrouble
    BY <1>1 DEF ChildSnapshot
  <2>. QED
    BY <1>0, <1>1, <2>1, <2>2, <2>3, <2>4, FollowKeeps DEF ChildSnapshot
<1>2. CASE Subscribe
  <2>1. PICK pc \in {"last", "reading"} : MoveChild(pc) /\ (pc = "last" => childCall.aborted)
    BY <1>2 DEF Subscribe
  <2>2. pc \in {"last"} \cup Following /\ childCall.pc \in Following
    BY <1>2 DEF Subscribe, Following
  <2>3. /\ childCall' \in CallTypes /\ childCall'.pc = pc /\ childCall'.id = childCall.id
        /\ childCall'.aborted = childCall.aborted
    BY <2>1, <2>2, CallUpdate DEF MoveChild
  <2>. QED
    BY <1>0, <1>2, <2>1, <2>2, <2>3, NoFrames, FollowKeeps DEF Subscribe
<1>3. CASE StreamEnds
  <2>1. PICK pc \in {"check", "cut"} : childCall' = [childCall EXCEPT !.pc = pc, !.cuts = @ + 1]
    BY <1>3 DEF StreamEnds
  <2>2. pc \in Following /\ childCall.pc \in Following /\ pc # "last"
    BY <1>3 DEF StreamEnds, Following
  <2>3. /\ childCall' \in CallTypes /\ childCall'.pc = pc /\ childCall'.id = childCall.id
        /\ childCall'.aborted = childCall.aborted
    <3>1. PICK c \in CallTypes : c = childCall
      BY DEF ChildInv, ChildTypes
    <3>2. PICK n \in Nat : n = c.cuts + 1
      BY DEF CallTypes
    <3>3. childCall' = [c EXCEPT !.pc = pc, !.cuts = n]
      BY <2>1, <3>1, <3>2
    <3>4. childCall' = [pc |-> pc, id |-> c.id, aborted |-> c.aborted, cuts |-> n, result |-> c.result]
      BY <3>3, CutUpdate
    <3>. QED
      BY <2>2, <3>1, <3>4 DEF CallTypes
  <2>. QED
    BY <1>0, <1>3, <2>2, <2>3, NoFrames, FollowKeeps DEF StreamEnds
<1>4. CASE Resync
  <2>1. PICK pc \in {"last", "get"} : MoveChild(pc) /\ (pc = "last" => childCall.aborted)
    BY <1>4 DEF Resync
  <2>2. pc \in {"last"} \cup Following /\ childCall.pc \in Following
    BY <1>4 DEF Resync, Following
  <2>3. /\ childCall' \in CallTypes /\ childCall'.pc = pc /\ childCall'.id = childCall.id
        /\ childCall'.aborted = childCall.aborted
    BY <2>1, <2>2, CallUpdate DEF MoveChild
  <2>. QED
    BY <1>0, <1>4, <2>1, <2>2, <2>3, FollowKeeps DEF Resync
<1>5. CASE StreamCloses
  <2>1. /\ childCall' \in CallTypes /\ childCall'.pc = "last" /\ childCall'.id = childCall.id
        /\ childCall'.aborted = childCall.aborted
    BY <1>5, CallUpdate DEF StreamCloses, MoveChild
  <2>. QED
    BY <1>0, <1>5, <2>1, NoFrames, FollowKeeps DEF StreamCloses
<1>. QED
  BY <1>1, <1>2, <1>3, <1>4, <1>5

(* A frame that ends the stream is one of a run that has ended.            *)
LEMMA FrameKeeps ==
  ASSUME AttachAssumption, ChildInv, ChildFrame
  PROVE  ChildInv'
<1>1. PICK f, T :
        /\ TakeFrame(f) /\ T = Frames
        /\ childWire' = IF f.type = "hook" /\ ~childCall.aborted
                       THEN childWire \cup {[type |-> "hook", n |-> f.n]} ELSE childWire
        /\ childDialog' = IF f.type = "approval" /\ ~childCall.aborted THEN f.n ELSE childDialog
  BY DEF ChildFrame
<1>2. childFrames \in Seq(T) /\ Len(childFrames) <= MaxFrames /\ childDialog \in 0..MaxAsks
  BY <1>1 DEF ChildInv, ChildTypes
<1>3. f \in T /\ childFrames' \in Seq(T) /\ Len(childFrames') <= MaxFrames
  BY <1>1, <1>2, HeadTailProperties, LenProperties DEF TakeFrame, AttachAssumption
<1>4. f.n \in 0..MaxAsks /\ (f.type \in {"done", "error"} => childRun.status \in Ended)
  BY <1>1, <1>3 DEF Frames, OpenFrames, EndFrames
<1>5. PICK pc \in {"last", "reading"} :
        MoveChild(pc) /\ (pc = "last" => f.type \in {"done", "error"})
  BY <1>1 DEF TakeFrame
<1>6. pc \in {"last"} \cup Following /\ childCall.pc \in Following
  BY DEF ChildFrame, Following
<1>7. /\ childCall' \in CallTypes /\ childCall'.pc = pc /\ childCall'.id = childCall.id
      /\ childCall'.aborted = childCall.aborted
  BY <1>5, <1>6, CallUpdate DEF MoveChild
<1>8. childDialog' \in 0..MaxAsks
  BY <1>1, <1>2, <1>4
<1>9. childWire \subseteq childWire' /\ (StartMsg \in childWire' => StartMsg \in childWire)
  BY <1>1 DEF StartMsg
<1>. QED
  BY <1>1, <1>3, <1>4, <1>5, <1>6, <1>7, <1>8, <1>9, FollowKeeps DEF ChildFrame

(* The call ends with a result.                                            *)
LEMMA ReturnUpdate ==
  ASSUME ChildInv, NEW result \in {"aborted", "failed", "budget", "findings"}, ReturnChild(result)
  PROVE  /\ childCall' \in CallTypes /\ childCall'.pc = "over" /\ childCall'.id = childCall.id
         /\ childCall'.aborted = childCall.aborted /\ childCall'.result = result
  BY DEF ChildInv, ChildTypes, CallTypes, ReturnChild

LEMMA ChildReturnKeeps ==
  ASSUME ChildInv, NEW result \in {"aborted", "failed", "budget", "findings"},
         ReturnChild(result), UNCHANGED <<childRun, childFrames, childDialog>>,
         childCall.pc \notin {"idle"},
         childWire \subseteq childWire', StartMsg \in childWire' => StartMsg \in childWire,
         \/ childTrouble'
         \/ /\ childTrouble' = childTrouble /\ childCall.id
            /\ childRun.status = "live" => StopMsg \in childWire'
            /\ result \in {"findings", "budget"} => childRun.status \in {"done", "steps"}
  PROVE  ChildInv'
<1>1. /\ childCall' \in CallTypes /\ childCall'.pc = "over" /\ childCall'.id = childCall.id
      /\ childCall'.aborted = childCall.aborted /\ childCall'.result = result
  BY ReturnUpdate
<1>2. ChildTypes'
  BY <1>1 DEF ChildInv, ChildTypes, Frames
<1>3. CASE childTrouble'
  BY <1>1, <1>2, <1>3, TroubleKeeps
<1>4. CASE ~childTrouble'
  <2>1. ServedOnce'
    BY <1>1, <1>4 DEF ChildInv, ServedOnce
  <2>2. AbortStops'
    BY <1>1, <1>4 DEF ChildInv, AbortStops
  <2>3. NoOrphanChild'
    BY <1>1, <1>4 DEF NoOrphanChild, StopMsg
  <2>. QED
    BY <1>2, <2>1, <2>2, <2>3 DEF ChildInv
<1>. QED
  BY <1>3, <1>4

LEMMA AnswerKeeps ==
  ASSUME AttachAssumption, ChildInv, ReturnAnswer
  PROVE  ChildInv'
<1>1. /\ childWire \subseteq PostStop /\ (StartMsg \in PostStop => StartMsg \in childWire)
      /\ childCall.id => StopMsg \in PostStop
  BY DEF PostStop, StopMsg, StartMsg
<1>2. childCall.pc = "last"
  BY DEF ReturnAnswer
<1>3. CASE ReturnChild("failed") /\ childTrouble' = TRUE
  BY <1>1, <1>2, <1>3, ChildReturnKeeps DEF ReturnAnswer
<1>4. CASE ReturnChild(ChildVerdict) /\ UNCHANGED <<childWire, childTrouble>>
  <2>1. PICK result : result = ChildVerdict
    OBVIOUS
  <2>2. result \in {"aborted", "failed", "budget", "findings"}
    BY <2>1 DEF ChildVerdict
  <2>3. CASE childTrouble
    BY <1>2, <1>4, <2>1, <2>2, <2>3, ChildReturnKeeps DEF ReturnAnswer
  <2>4. CASE ~childTrouble
    <3>1. childCall.id /\ (childCall.aborted \/ childRun.status \in Ended)
      BY <1>2, <2>4 DEF ChildInv, ServedOnce, AbortStops
    <3>2. childRun.status = "live" => StopMsg \in childWire
      BY <2>4, <3>1 DEF ChildInv, AbortStops, Ended
    <3>3. result \in {"findings", "budget"} => childRun.status \in {"done", "steps"}
      BY <2>1, <3>1 DEF ChildVerdict, Ended
    <3>. QED
      BY <1>2, <1>4, <2>1, <2>2, <3>1, <3>2, <3>3, ChildReturnKeeps DEF ReturnAnswer
  <2>. QED
    BY <2>3, <2>4
<1>. QED
  BY <1>3, <1>4 DEF ReturnAnswer

LEMMA AngleKeeps ==
  ASSUME AttachAssumption, ChildInv, PollAngle \/ PollFails
  PROVE  ChildInv'
<1>1. /\ childWire \subseteq PostStop /\ (StartMsg \in PostStop => StartMsg \in childWire)
      /\ childCall.id => StopMsg \in PostStop
  BY DEF PostStop, StopMsg, StartMsg
<1>2. childCall.pc = "poll" /\ (childTrouble \/ childCall.id)
  BY DEF PollAngle, PollFails, ChildInv, ServedOnce
<1>3. CASE PollFails
  BY <1>1, <1>2, <1>3, ChildReturnKeeps DEF PollFails
<1>4. CASE PollAngle /\ ReturnChild("aborted") /\ childWire' = PostStop
  BY <1>1, <1>2, <1>4, ChildReturnKeeps DEF PollAngle
<1>5. CASE PollAngle /\ childRun.status \in Ended /\ ReturnChild(AngleVerdict) /\ UNCHANGED childWire
  <2>1. PICK result : result = AngleVerdict
    OBVIOUS
  <2>2. /\ result \in {"aborted", "failed", "budget", "findings"} /\ childRun.status # "live"
        /\ result \in {"findings", "budget"} => childRun.status \in {"done", "steps"}
    BY <1>5, <2>1 DEF AngleVerdict, Ended
  <2>. QED
    BY <1>2, <1>5, <2>1, <2>2, ChildReturnKeeps DEF PollAngle
<1>6. CASE /\ PollAngle /\ UNCHANGED childCall
           /\ childWire' = childWire \cup {[type |-> "deny", n |-> childRun.asking]}
  <2>1. ChildTypes'
    BY <1>6 DEF PollAngle, ChildInv, ChildTypes, Frames
  <2>2. childWire \subseteq childWire' /\ (StartMsg \in childWire' => StartMsg \in childWire)
    BY <1>6 DEF StartMsg
  <2>. QED
    BY <1>6, <2>1, <2>2 DEF PollAngle, ChildInv, ServedOnce, AbortStops, NoOrphanChild
<1>. QED
  BY <1>3, <1>4, <1>5, <1>6 DEF PollAngle

(* The start of a run, and what the user does.                             *)
LEMMA StartKeeps ==
  ASSUME AttachAssumption, ChildInv, StartCall \/ Started \/ StartFails
  PROVE  ChildInv'
<1>1. CASE StartCall
  <2>1. /\ childCall' \in CallTypes /\ childCall'.pc = "starting" /\ childCall'.id = childCall.id
        /\ childCall'.aborted = childCall.aborted
    BY <1>1 DEF StartCall, MoveChild, ChildInv, ChildTypes, CallTypes
  <2>2. ChildTypes'
    BY <1>1, <2>1 DEF StartCall, ChildInv, ChildTypes, Frames
  <2>3. childRun.status = "none" /\ ~childCall.id
    BY <1>1 DEF StartCall, ChildInv, ServedOnce
  <2>4. ServedOnce'
    BY <1>1, <2>1, <2>3 DEF StartCall, ServedOnce
  <2>. QED
    BY <1>1, <2>1, <2>2, <2>3, <2>4 DEF StartCall, ChildInv, AbortStops, NoOrphanChild
<1>2. CASE Started /\ childCall.aborted
  <2>1. childCall' = [childCall EXCEPT !.pc = "over", !.id = TRUE, !.result = "aborted"]
    BY <1>2 DEF Started
  <2>2. /\ childCall' \in CallTypes /\ childCall'.pc = "over" /\ childCall'.id
        /\ childCall'.result = "aborted"
    BY <2>1 DEF ChildInv, ChildTypes, CallTypes
  <2>3. ChildTypes'
    BY <1>2, <2>2 DEF Started, ChildInv, ChildTypes, Frames
  <2>4. StopMsg \in childWire' /\ (StartMsg \in childWire' => StartMsg \in childWire)
    BY <1>2 DEF Started, StopMsg, StartMsg
  <2>5. ServedOnce'
    BY <1>2, <2>2, <2>4 DEF Started, ChildInv, ServedOnce
  <2>6. AbortStops'
    BY <1>2, <2>2, <2>4 DEF AbortStops
  <2>7. NoOrphanChild'
    BY <1>2, <2>2, <2>4 DEF NoOrphanChild, StopMsg
  <2>. QED
    BY <2>3, <2>5, <2>6, <2>7 DEF ChildInv
<1>3. CASE Started /\ ~childCall.aborted
  <2>1. PICK pc \in {"poll", "get"} : childCall' = [childCall EXCEPT !.pc = pc, !.id = TRUE]
    BY <1>3 DEF Started
  <2>2. /\ childCall' \in CallTypes /\ childCall'.pc = pc /\ childCall'.id
        /\ ~childCall'.aborted
    BY <1>3, <2>1 DEF ChildInv, ChildTypes, CallTypes, Following
  <2>3. ChildTypes'
    BY <1>3, <2>2 DEF Started, ChildInv, ChildTypes, Frames
  <2>. QED
    BY <1>3, <2>2, <2>3 DEF Started, ChildInv, ServedOnce, AbortStops, NoOrphanChild
<1>4. CASE StartFails
  BY <1>4, ChildReturnKeeps DEF StartFails
<1>. QED
  BY <1>1, <1>2, <1>3, <1>4

LEMMA UserKeeps ==
  ASSUME AttachAssumption, ChildInv, DecideChild \/ AbortChild
  PROVE  ChildInv'
<1>0. 0 \in 0..MaxAsks
  BY DEF AttachAssumption
<1>1. CASE DecideChild
  <2>1. ChildTypes'
    BY <1>0, <1>1 DEF DecideChild, ChildInv, ChildTypes, Frames
  <2>2. childWire \subseteq childWire' /\ (StartMsg \in childWire' => StartMsg \in childWire)
    BY <1>1 DEF DecideChild, StartMsg
  <2>. QED
    BY <1>1, <2>1, <2>2 DEF DecideChild, ChildInv, ServedOnce, AbortStops, NoOrphanChild
<1>2. CASE AbortChild
  <2>1. /\ childCall' \in CallTypes /\ childCall'.pc = childCall.pc /\ childCall'.id = childCall.id
    BY <1>2 DEF AbortChild, ChildInv, ChildTypes, CallTypes
  <2>2. ChildTypes'
    BY <1>0, <1>2, <2>1 DEF AbortChild, ChildInv, ChildTypes, Frames
  <2>3. /\ childWire \subseteq childWire' /\ (StartMsg \in childWire' => StartMsg \in childWire)
        /\ childCall.id => StopMsg \in childWire'
    BY <1>2 DEF AbortChild, PostStop, DenyDialog, StartMsg, StopMsg
  <2>4. ServedOnce'
    BY <1>2, <2>1, <2>3 DEF AbortChild, ChildInv, ServedOnce
  <2>5. AbortStops'
    BY <1>2, <2>1, <2>3 DEF AbortChild, ChildInv, AbortStops, ServedOnce
  <2>6. NoOrphanChild'
    BY <1>2, <2>1 DEF AbortChild, NoOrphanChild
  <2>. QED
    BY <2>2, <2>4, <2>5, <2>6 DEF ChildInv
<1>. QED
  BY <1>1, <1>2

LEMMA LossKeeps ==
  ASSUME ChildInv, NEW m \in childWire, LoseRequest(m)
  PROVE  ChildInv'
<1>1. ChildTypes'
  BY DEF LoseRequest, ChildInv, ChildTypes, Frames
<1>2. /\ childCall.id => childCall.pc \notin {"idle", "starting"}
      /\ StartMsg \in childWire' => StartMsg \in childWire /\ childCall.pc # "idle"
  BY DEF LoseRequest, ChildInv, ServedOnce
<1>. QED
  BY <1>1, <1>2, TroubleKeeps DEF LoseRequest

LEMMA ChildInvStarts ==
  ASSUME AttachAssumption, AttachInit
  PROVE  ChildInv
<1>1. childRun \in RunTypes /\ childRun.asking = 0 /\ childRun.asks = 0 /\ 0 \in 0..MaxAsks
  BY DEF AttachInit, AttachAssumption, RunTypes
<1>2. childCall \in CallTypes
  BY DEF AttachInit, CallTypes
<1>3. ChildTypes
  BY <1>1, <1>2, NoFrames DEF AttachInit, ChildTypes
<1>. QED
  BY <1>3 DEF AttachInit, ChildInv, ServedOnce, AbortStops, NoOrphanChild, StartMsg

LEMMA ChildInvStep ==
  ASSUME AttachAssumption, ChildInv, [AttachNext]_attachVars
  PROVE  ChildInv'
<1>1. CASE ChildEnds
  BY <1>1, EndKeeps DEF ChildEnds, Ended
<1>2. CASE UNCHANGED attachVars
  BY <1>2 DEF attachVars, ChildInv, ChildTypes, Frames, ServedOnce, AbortStops, NoOrphanChild
<1>. QED
  BY <1>1, <1>2, ServeStartKeeps, AsksKeeps, DecisionKeeps, ServeStopKeeps, StreamKeeps,
     FrameKeeps, AnswerKeeps, AngleKeeps, StartKeeps, UserKeeps, LossKeeps DEF AttachNext

(* Whatever the order of starts, aborts, cuts, resynchronisations, lost    *)
(* frames and ends, and for any number of them: a call that is over leaves *)
(* no run working, and its findings are those of a run that has ended.     *)
THEOREM NoChildIsLeft ==
  AttachSpec => []NoOrphanChild
<1>1. AttachInit => ChildInv
  BY ChildInvStarts, AttachAssumption
<1>2. ChildInv /\ [AttachNext]_attachVars => ChildInv'
  BY ChildInvStep, AttachAssumption
<1>3. ChildInv => NoOrphanChild
  BY DEF ChildInv
<1>. QED
  BY <1>1, <1>2, <1>3, PTL DEF AttachSpec

-----------------------------------------------------------------------------
(* Editor tabs and the texts they hold.                                    *)

Statuses == {"loading", "ready", "error", "notfound", "binary", "conflict"}

(* A tab of a file of a workspace; of[id] is the file a tab was opened for. *)
TabOn(w, id, f) ==
  [id : {id}, file : {f}, doc : TextsOf(w, f), base : TextsOf(w, f), dirty : BOOLEAN,
   status : Statuses, truncated : BOOLEAN, shown : TextsOf(w, f)]
OwnTabs(w, of) == UNION {TabOn(w, id, of[id]) : id \in DOMAIN of}

OwnDocs(ds, w, of) ==
  DOMAIN ds \subseteq DOMAIN of /\ \A id \in DOMAIN ds : ds[id] \in TextsOf(w, of[id])

OwnSnap(s, of) ==
  /\ s.ws \in Workspaces /\ s.tabs \in Seq(OwnTabs(s.ws, of)) /\ OwnDocs(s.docs, s.ws, of)
  /\ \A t \in Range(s.tabs) : t.id \in DOMAIN s.docs

(* What is on its way for this generation of tabs belongs to it.           *)
OwnRead(r, w, of, gen) ==
  /\ r.gen \in Nat /\ r.gen <= gen /\ r.force \in BOOLEAN
  /\ r.gen = gen => r.id \in DOMAIN of /\ r.content \in TextsOf(w, of[r.id])
OwnSave(s, w, of, gen) ==
  /\ s.gen \in Nat /\ s.gen <= gen
  /\ s.gen = gen => s.id \in DOMAIN of /\ s.doc \in TextsOf(w, of[s.id])

OwnDisk(d) ==
  /\ DOMAIN d = Workspaces
  /\ \A w \in Workspaces :
       /\ DOMAIN d[w] = Files
       /\ \A f \in Files : d[w][f] \in Seq(TextsOf(w, f)) /\ d[w][f] # <<>>

OwnView(of) ==
  /\ tabs \in Seq(OwnTabs(tabWs, of)) /\ OwnDocs(docs, tabWs, of)
  /\ snaps \in Seq(Range(snaps)) /\ \A s \in Range(snaps) : OwnSnap(s, of)
OwnTraffic(of) ==
  /\ \A r \in reads : OwnRead(r, tabWs, of, tabGen)
  /\ \A s \in saves : OwnSave(s, tabWs, of, tabGen)
OwnRest ==
  /\ OwnDisk(disk) /\ {tabWs, tabApplied} \subseteq Workspaces
  /\ tabGen \in Nat /\ texts \in Nat /\ opens \in Nat

TabsInv ==
  /\ OwnRest
  /\ \E of \in [1..opens -> Files] : OwnView(of) /\ OwnTraffic(of)

-----------------------------------------------------------------------------
(* One tab, painted and stored.                                            *)

LEMMA NoTextIsOwn ==
  ASSUME NEW w, NEW f PROVE NoText \in TextsOf(w, f)
  BY DEF TextsOf

LEMMA TabFields ==
  ASSUME NEW w, NEW id, NEW f, NEW t \in TabOn(w, id, f)
  PROVE  /\ t = [id |-> t.id, file |-> t.file, doc |-> t.doc, base |-> t.base, dirty |-> t.dirty,
                status |-> t.status, truncated |-> t.truncated, shown |-> t.shown]
         /\ t.id = id /\ t.file = f /\ {t.doc, t.base, t.shown} \subseteq TextsOf(w, f)
         /\ t.dirty \in BOOLEAN /\ t.truncated \in BOOLEAN /\ t.status \in Statuses
  BY DEF TabOn

LEMMA PaintedIsOwn ==
  ASSUME NEW w, NEW id, NEW f, NEW new \in TabOn(w, id, f), NEW old, NEW remount,
         old.shown \in TextsOf(w, f) \/ remount
  PROVE  Painted(old, new, remount) \in TabOn(w, id, f)
<1>1. PICK shown : shown = IF ~Shows(new) THEN NoText
                           ELSE IF Shows(old) /\ ~remount THEN old.shown
                           ELSE new.doc
  OBVIOUS
<1>2. shown \in TextsOf(w, f)
  BY <1>1, NoTextIsOwn, TabFields
<1>3. [new EXCEPT !.shown = shown] \in TabOn(w, id, f)
  BY <1>2 DEF TabOn
<1>. QED
  BY <1>1, <1>3 DEF Painted

LEMMA SavedTab ==
  ASSUME NEW w, NEW id, NEW f, NEW t \in TabOn(w, id, f), NEW dirty \in BOOLEAN,
         NEW doc \in TextsOf(w, f), NEW base \in TextsOf(w, f)
  PROVE  [t EXCEPT !.dirty = dirty, !.doc = doc, !.base = base, !.status = "ready"]
           \in TabOn(w, id, f)
  BY DEF TabOn, Statuses

(* A tab of the row is of the file it was opened for.                      *)
LEMMA RowTab ==
  ASSUME NEW w, NEW of, NEW row \in Seq(OwnTabs(w, of)), NEW i \in DOMAIN row
  PROVE  row[i].id \in DOMAIN of /\ row[i] \in TabOn(w, row[i].id, of[row[i].id])
<1>1. i \in 1..Len(row)
  BY LenProperties
<1>2. row[i] \in OwnTabs(w, of)
  BY <1>1, ElementOfSeq
<1>3. PICK id \in DOMAIN of : row[i] \in TabOn(w, id, of[id])
  BY <1>2 DEF OwnTabs
<1>. QED
  BY <1>3, TabFields

LEMMA RangeTab ==
  ASSUME NEW w, NEW of, NEW row \in Seq(OwnTabs(w, of)), NEW t \in Range(row)
  PROVE  t.id \in DOMAIN of /\ t \in TabOn(w, t.id, of[t.id])
  BY RowTab DEF Range

(* The tab of an id that is open.                                          *)
LEMMA OpenTab ==
  ASSUME NEW w, NEW of, tabs \in Seq(OwnTabs(w, of)), NEW id, \E t \in Range(tabs) : t.id = id
  PROVE  id \in DOMAIN of /\ TabOf(id) \in TabOn(w, id, of[id]) /\ TabOf(id) \in Range(tabs)
<1>1. TabOf(id) \in Range(tabs) /\ TabOf(id).id = id
  BY DEF TabOf
<1>2. PICK t : t = TabOf(id)
  OBVIOUS
<1>. QED
  BY <1>1, <1>2, RangeTab

LEMMA LiveIsOwn ==
  ASSUME NEW w, NEW of, OwnDocs(docs, w, of), NEW t, t.id \in DOMAIN of,
         t \in TabOn(w, t.id, of[t.id])
  PROVE  LiveDoc(t) \in TextsOf(w, of[t.id])
  BY TabFields DEF LiveDoc, OwnDocs

(* What a step makes of one tab.                                           *)
LEMMA RowUpdate ==
  ASSUME NEW w, NEW of, NEW row \in Seq(OwnTabs(w, of)), NEW id, NEW new, NEW fresh,
         (\E t \in Range(row) : t.id = id) => new \in TabOn(w, id, of[id]),
         fresh = [i \in DOMAIN row |-> IF row[i].id = id THEN Painted(row[i], new, FALSE) ELSE row[i]]
           \/ fresh = [i \in DOMAIN row |-> IF row[i].id = id
                                            THEN Painted(row[i], new, new.doc # row[i].doc) ELSE row[i]]
  PROVE  fresh \in Seq(OwnTabs(w, of))
<1>1. ASSUME NEW i \in DOMAIN row, NEW remount
      PROVE  (IF row[i].id = id THEN Painted(row[i], new, remount) ELSE row[i]) \in OwnTabs(w, of)
  <2>1. row[i].id \in DOMAIN of /\ row[i] \in TabOn(w, row[i].id, of[row[i].id])
    BY RowTab
  <2>2. CASE row[i].id = id
    <3>1. new \in TabOn(w, id, of[id])
      BY <2>2 DEF Range
    <3>2. row[i].shown \in TextsOf(w, of[id])
      BY <2>1, <2>2, TabFields
    <3>3. PICK old : old = row[i]
      OBVIOUS
    <3>4. Painted(old, new, remount) \in TabOn(w, id, of[id])
      BY <3>1, <3>2, <3>3, PaintedIsOwn
    <3>. QED
      BY <2>1, <2>2, <3>3, <3>4 DEF OwnTabs
  <2>3. CASE row[i].id # id
    BY <2>1, <2>3 DEF OwnTabs
  <2>. QED
    BY <2>2, <2>3
<1>2. DOMAIN row = 1..Len(row) /\ Len(row) \in Nat
  BY LenProperties
<1>3. fresh \in [1..Len(row) -> OwnTabs(w, of)]
  <2>1. CASE fresh = [i \in DOMAIN row |->
                        IF row[i].id = id THEN Painted(row[i], new, FALSE) ELSE row[i]]
    BY <1>1, <1>2, <2>1
  <2>2. CASE fresh = [i \in DOMAIN row |->
                        IF row[i].id = id THEN Painted(row[i], new, new.doc # row[i].doc) ELSE row[i]]
    BY <1>1, <1>2, <2>2
  <2>. QED
    BY <2>1, <2>2
<1>. QED
  BY <1>2, <1>3, SeqDef

-----------------------------------------------------------------------------
(* Reads: what a request takes from the disk, and what its answer does.    *)

LEMMA DiskIsOwn ==
  ASSUME NEW d, OwnDisk(d), NEW w \in Workspaces, NEW f \in Files
  PROVE  d[w][f] \in Seq(TextsOf(w, f)) /\ Last(d[w][f]) \in TextsOf(w, f)
<1>1. PICK held : held = d[w][f]
  OBVIOUS
<1>2. held \in Seq(TextsOf(w, f)) /\ held # <<>>
  BY <1>1 DEF OwnDisk
<1>3. Len(held) \in 1..Len(held)
  BY <1>2, LenProperties, EmptySeq
<1>4. held[Len(held)] \in TextsOf(w, f)
  BY <1>2, <1>3, ElementOfSeq
<1>. QED
  BY <1>1, <1>2, <1>4 DEF Last

LEMMA ReadSendKeeps ==
  ASSUME OwnRest, NEW of \in [1..opens -> Files], OwnView(of), OwnTraffic(of),
         NEW ids, \A id \in ids : \E t \in Range(tabs) : t.id = id,
         NEW force \in BOOLEAN, NEW at, ids # {} => at = tabWs, SendReads(ids, force, at)
  PROVE  \A r \in reads' : OwnRead(r, tabWs, of, tabGen)
<1>1. ASSUME NEW r \in ReadsOf(ids, force, at)
      PROVE  OwnRead(r, tabWs, of, tabGen)
  <2>1. PICK id \in ids : r = [id |-> id, file |-> TabOf(id).file, gen |-> tabGen,
                               seq |-> Seq0(id) + 1, force |-> force,
                               content |-> OnDisk(at, TabOf(id).file)]
    BY DEF ReadsOf
  <2>2. id \in DOMAIN of /\ TabOf(id) \in TabOn(tabWs, id, of[id])
    BY OpenTab DEF OwnView
  <2>3. TabOf(id).file = of[id] /\ of[id] \in Files
    BY <2>2, TabFields
  <2>4. OnDisk(tabWs, of[id]) \in TextsOf(tabWs, of[id])
    BY <2>3, DiskIsOwn DEF OnDisk, OwnRest
  <2>. QED
    BY <2>1, <2>2, <2>3, <2>4 DEF OwnRead, OwnRest
<1>. QED
  BY <1>1 DEF SendReads, OwnTraffic

(* Steps that only send reads, perhaps as the control plane arrives.       *)
LEMMA ReadsKeep ==
  ASSUME OwnRest, NEW of \in [1..opens -> Files], OwnView(of), OwnTraffic(of),
         UNCHANGED <<tabs, docs, tabGen, snaps, saves, tabWs, disk, texts, opens>>,
         tabApplied' \in {tabApplied, tabWs},
         \A r \in reads' : OwnRead(r, tabWs, of, tabGen)
  PROVE  TabsInv'
<1>1. OwnRest'
  BY DEF OwnRest, OwnDisk
<1>2. OwnView(of)'
  BY DEF OwnView, OwnDocs, OwnSnap
<1>3. OwnTraffic(of)'
  BY DEF OwnTraffic
<1>. QED
  BY <1>1, <1>2, <1>3 DEF TabsInv

LEMMA RefreshableIsOpen ==
  \A id \in Refreshable : \E t \in Range(tabs) : t.id = id
  BY DEF Refreshable

(* Steps that only ask for files of open tabs, from where they belong.     *)
OnlySends ==
  /\ \E ids, force, at :
       /\ \A id \in ids : \E t \in Range(tabs) : t.id = id
       /\ force \in BOOLEAN /\ (ids # {} => at = tabWs) /\ SendReads(ids, force, at)
  /\ UNCHANGED <<tabs, docs, tabGen, snaps, saves, tabWs, disk, texts, opens>>
  /\ tabApplied' \in {tabApplied, tabWs}

LEMMA SendsAre ==
  ASSUME \/ \E id : SetActive(id)
         \/ Flush \/ RefreshOpenTabs \/ Poll
         \/ \E id \in {t.id : t \in Range(tabs)} : Reload(id)
  PROVE  OnlySends
<1>. DEFINE Sends == \E ids, force, at :
              /\ \A id \in ids : \E t \in Range(tabs) : t.id = id
              /\ force \in BOOLEAN /\ (ids # {} => at = tabWs) /\ SendReads(ids, force, at)
<1>0. ASSUME NEW ids, NEW force \in BOOLEAN, NEW at, SendReads(ids, force, at),
             ids # {} => at = tabWs, \A id \in ids : \E t \in Range(tabs) : t.id = id
      PROVE  Sends
  BY <1>0
<1>1. ASSUME NEW ids, NEW force \in BOOLEAN, ReadDisk(ids, force),
             \A id \in ids : \E t \in Range(tabs) : t.id = id
      PROVE  Sends
  <2>1. PICK sent : sent = IF Backend THEN ids ELSE {}
    OBVIOUS
  <2>2. SendReads(sent, force, tabApplied)
    BY <1>1, <2>1 DEF ReadDisk
  <2>3. (sent # {} => tabApplied = tabWs) /\ \A id \in sent : \E t \in Range(tabs) : t.id = id
    BY <1>1, <2>1 DEF Backend
  <2>. QED
    BY <1>0, <2>2, <2>3
<1>. HIDE DEF Sends
<1>2. ASSUME NEW id, SetActive(id) PROVE Sends
  BY <1>1, <1>2, RefreshableIsOpen DEF SetActive
<1>3. ASSUME Flush PROVE Sends
  <2>1. PICK ids, at : ids = Refreshable /\ at = tabWs /\ SendReads(ids, FALSE, at)
    BY <1>3 DEF Flush
  <2>. QED
    BY <1>0, <2>1, RefreshableIsOpen
<1>4. ASSUME RefreshOpenTabs PROVE Sends
  <2>1. PICK ids : ids = Refreshable /\ ReadDisk(ids, FALSE)
    BY <1>4 DEF RefreshOpenTabs
  <2>. QED
    BY <1>1, <2>1, RefreshableIsOpen
<1>5. ASSUME Poll PROVE Sends
  <2>1. PICK t \in Open(activeTab) : ReadDisk({t.id}, FALSE)
    BY <1>5 DEF Poll
  <2>2. PICK ids : ids = {t.id} /\ ReadDisk(ids, FALSE)
    BY <2>1
  <2>3. \A id \in ids : \E u \in Range(tabs) : u.id = id
    BY <2>2 DEF Open
  <2>. QED
    BY <1>1, <2>2, <2>3
<1>6. ASSUME NEW id \in {t.id : t \in Range(tabs)}, Reload(id) PROVE Sends
  <2>1. PICK ids : ids = {id} /\ ReadDisk(ids, TRUE)
    BY <1>6 DEF Reload
  <2>2. \A x \in ids : \E t \in Range(tabs) : t.id = x
    BY <1>6, <2>1
  <2>. QED
    BY <1>1, <2>1, <2>2
<1>7. Sends
  BY <1>2, <1>3, <1>4, <1>5, <1>6
<1>8. /\ UNCHANGED <<tabs, docs, tabGen, snaps, saves, tabWs, disk, texts, opens>>
      /\ tabApplied' \in {tabApplied, tabWs}
  BY DEF SetActive, Flush, RefreshOpenTabs, Poll, Reload, viewVars, diskVars
<1>. QED
  BY <1>7, <1>8 DEF OnlySends, Sends

LEMMA SendsKeep ==
  ASSUME OwnRest, NEW of \in [1..opens -> Files], OwnView(of), OwnTraffic(of), OnlySends
  PROVE  TabsInv'
<1>1. \A r \in reads' : OwnRead(r, tabWs, of, tabGen)
  BY ReadSendKeeps DEF OnlySends
<1>. QED
  BY <1>1, ReadsKeep DEF OnlySends

(* Steps that change tabs and their texts, but neither where they belong   *)
(* nor the disk.                                                           *)
LEMMA TabsKeep ==
  ASSUME OwnRest, NEW of \in [1..opens -> Files], OwnView(of), OwnTraffic(of),
         tabs' \in Seq(OwnTabs(tabWs, of)), OwnDocs(docs', tabWs, of),
         reads' \subseteq reads, saves' \subseteq saves, UNCHANGED <<viewVars, diskVars, opens>>
  PROVE  TabsInv'
<1>1. OwnRest'
  BY DEF OwnRest, OwnDisk, viewVars, diskVars
<1>2. OwnView(of)'
  BY DEF OwnView, viewVars
<1>3. OwnTraffic(of)'
  BY DEF OwnTraffic, viewVars
<1>. QED
  BY <1>1, <1>2, <1>3 DEF TabsInv

LEMMA WithKeeps ==
  ASSUME NEW ds, NEW w, NEW of, OwnDocs(ds, w, of), NEW id \in DOMAIN of,
         NEW x \in TextsOf(w, of[id])
  PROVE  OwnDocs(With(ds, id, x), w, of)
  BY DEF OwnDocs, With

LEMMA AnsweredIsOwn ==
  ASSUME NEW w, NEW id, NEW f, NEW t \in TabOn(w, id, f), NEW r,
         r.content \in TextsOf(w, f), r.force \in BOOLEAN
  PROVE  Answered(t, r) \in TabOn(w, id, f)
<1>1. \A status \in Statuses : [t EXCEPT !.status = status] \in TabOn(w, id, f)
  BY DEF TabOn
<1>2. \A x \in TextsOf(w, f), cut \in BOOLEAN, dirty \in BOOLEAN :
        [t EXCEPT !.doc = x, !.base = x, !.status = "ready", !.truncated = cut, !.dirty = dirty]
          \in TabOn(w, id, f)
  BY DEF TabOn, Statuses
<1>3. Adopted(t, r) \in TabOn(w, id, f)
  <2>1. PICK x, cut, dirty : /\ x = r.content /\ cut = (r.content.form = "big")
                            /\ dirty = (t.dirty /\ ~r.force /\ ~t.truncated /\ r.content.form = "text")
    OBVIOUS
  <2>2. cut \in BOOLEAN /\ dirty \in BOOLEAN /\ x \in TextsOf(w, f)
    BY <2>1
  <2>. QED
    BY <1>2, <2>1, <2>2 DEF Adopted
<1>. QED
  BY <1>1, <1>3 DEF Answered, Statuses

LEMMA StatusKeeps ==
  ASSUME NEW w, NEW id, NEW f, NEW t \in TabOn(w, id, f), NEW status \in Statuses
  PROVE  [t EXCEPT !.status = status] \in TabOn(w, id, f)
  BY DEF TabOn

LEMMA AnswerIsOwn ==
  ASSUME OwnRest, NEW of \in [1..opens -> Files], OwnView(of), OwnTraffic(of),
         NEW r \in reads, ReadAnswer(r)
  PROVE  TabsInv'
<1>1. PICK valid : valid = (StillValid(r) /\ Open(r.id) # {}) /\ valid \in BOOLEAN
  OBVIOUS
<1>2. /\ tabs' = IF valid THEN PushDocTab(r.id, Answered(TabOf(r.id), r)) ELSE tabs
      /\ docs' = IF valid /\ Adopts(TabOf(r.id), r) THEN With(docs, r.id, r.content) ELSE docs
      /\ reads' \subseteq reads /\ UNCHANGED <<saves, viewVars, diskVars, opens>>
  BY <1>1 DEF ReadAnswer, TakeAnswer
<1>3. tabs \in Seq(OwnTabs(tabWs, of)) /\ OwnDocs(docs, tabWs, of)
  BY DEF OwnView
<1>4. CASE ~valid
  BY <1>2, <1>3, <1>4, TabsKeep
<1>5. CASE valid
  <2>1. r.gen = tabGen /\ (\E t \in Range(tabs) : t.id = r.id)
    BY <1>1, <1>5 DEF StillValid, Open
  <2>2. r.id \in DOMAIN of /\ r.content \in TextsOf(tabWs, of[r.id]) /\ r.force \in BOOLEAN
    BY <2>1 DEF OwnTraffic, OwnRead
  <2>3. PICK id, t, new, w : /\ id = r.id /\ t = TabOf(r.id) /\ new = Answered(t, r) /\ w = tabWs
    OBVIOUS
  <2>4. t \in TabOn(w, id, of[id])
    BY <1>3, <2>1, <2>3, OpenTab
  <2>5. new \in TabOn(w, id, of[id])
    BY <2>2, <2>3, <2>4, AnsweredIsOwn
  <2>6. tabs' \in Seq(OwnTabs(w, of))
    <3>1. PICK row : row = tabs
      OBVIOUS
    <3>2. tabs' = [i \in DOMAIN row |-> IF row[i].id = id
                                       THEN Painted(row[i], new, new.doc # row[i].doc) ELSE row[i]]
      BY <1>2, <1>5, <2>3, <3>1 DEF PushDocTab
    <3>3. row \in Seq(OwnTabs(w, of))
      BY <1>3, <2>3, <3>1
    <3>. QED
      BY <2>5, <3>2, <3>3, RowUpdate
  <2>7. OwnDocs(docs', w, of)
    BY <1>2, <1>3, <2>2, <2>3, WithKeeps
  <2>. QED
    BY <1>2, <2>3, <2>6, <2>7, TabsKeep
<1>. QED
  BY <1>1, <1>4, <1>5

(* One tab gets another status.                                            *)
LEMMA StatusIsOwn ==
  ASSUME OwnRest, NEW of \in [1..opens -> Files], OwnView(of), OwnTraffic(of),
         (\E r \in reads : ReadFails(r)) \/ (\E id : KeepMine(id))
  PROVE  TabsInv'
<1>1. tabs \in Seq(OwnTabs(tabWs, of)) /\ OwnDocs(docs, tabWs, of)
  BY DEF OwnView
<1>2. ASSUME NEW id, NEW status, tabs' = PatchTab(id, [TabOf(id) EXCEPT !.status = status]),
             (\E t \in Range(tabs) : t.id = id) => status \in Statuses
      PROVE  tabs' \in Seq(OwnTabs(tabWs, of))
  <2>1. PICK new : new = [TabOf(id) EXCEPT !.status = status]
    OBVIOUS
  <2>2. (\E t \in Range(tabs) : t.id = id) => new \in TabOn(tabWs, id, of[id])
    <3>1. SUFFICES ASSUME \E t \in Range(tabs) : t.id = id
                   PROVE  new \in TabOn(tabWs, id, of[id])
      OBVIOUS
    <3>2. PICK t : t = TabOf(id)
      OBVIOUS
    <3>3. t \in TabOn(tabWs, id, of[id])
      BY <1>1, <3>1, <3>2, OpenTab
    <3>. QED
      BY <1>2, <2>1, <3>1, <3>2, <3>3, StatusKeeps
  <2>. QED
    BY <1>1, <1>2, <2>1, <2>2, RowUpdate DEF PatchTab
<1>3. ASSUME NEW r \in reads, ReadFails(r)
      PROVE  TabsInv'
  <2>1. CASE ~StillValid(r)
    BY <1>1, <1>3, <2>1, TabsKeep DEF ReadFails
  <2>2. CASE StillValid(r)
    <3>1. PICK id, status : /\ id = r.id
                           /\ status = IF TabOf(r.id).status = "loading" THEN "error"
                                       ELSE TabOf(r.id).status
      OBVIOUS
    <3>2. tabs' = PatchTab(id, [TabOf(id) EXCEPT !.status = status])
      BY <1>3, <2>2, <3>1 DEF ReadFails
    <3>3. (\E t \in Range(tabs) : t.id = id) => status \in Statuses
      BY <1>1, <3>1, OpenTab, TabFields DEF Statuses
    <3>. QED
      BY <1>1, <1>2, <1>3, <3>2, <3>3, TabsKeep DEF ReadFails
  <2>. QED
    BY <2>1, <2>2
<1>4. ASSUME NEW id, KeepMine(id)
      PROVE  TabsInv'
  <2>1. tabs' \in Seq(OwnTabs(tabWs, of))
    BY <1>2, <1>4 DEF KeepMine, Statuses
  <2>. QED
    BY <1>1, <1>4, <2>1, TabsKeep DEF KeepMine
<1>. QED
  BY <1>3, <1>4

-----------------------------------------------------------------------------
(* The user closes a tab, types and saves.                                 *)

(* The first of some positions, and a row without it.                      *)
LEMMA LeastNat ==
  ASSUME NEW S \in SUBSET Nat, S # {}
  PROVE  \E x \in S : \A y \in S : x <= y
<1>1. PICK x \in S : \A y \in S : ~(<<y, x>> \in OpToRel(<, Nat))
  BY WFMin, NatLessThanWellFounded
<1>2. \A y \in S : ~(y < x)
  BY <1>1 DEF OpToRel
<1>. QED
  BY <1>2

LEMMA LeastIsMin ==
  ASSUME NEW S \in SUBSET Nat, S # {}
  PROVE  Min(S) \in S
  BY LeastNat DEF Min

LEMMA TabRemovedKeeps ==
  ASSUME NEW T, NEW s \in Seq(T), NEW p \in DOMAIN s
  PROVE  RemoveAt(s, p) \in Seq(T)
<1>1. Len(s) \in Nat /\ p \in 1..Len(s) /\ \A i \in 1..Len(s) : s[i] \in T
  BY LenProperties, ElementOfSeq
<1>2. SubSeq(s, 1, p - 1) \in Seq(T)
  BY <1>1, SubSeqProperties
<1>3. SubSeq(s, p + 1, Len(s)) \in Seq(T)
  BY <1>1, SubSeqProperties
<1>. QED
  BY <1>2, <1>3, ConcatProperties DEF RemoveAt

(* What is left without its first element at some positions.              *)
LEMMA DropFirst ==
  ASSUME NEW T, NEW row \in Seq(T), NEW at \in SUBSET (1..Len(row)), at # {}
  PROVE  RemoveAt(row, Min(at)) \in Seq(T)
<1>1. PICK p : p = Min(at)
  OBVIOUS
<1>2. at \in SUBSET Nat /\ DOMAIN row = 1..Len(row)
  BY LenProperties
<1>3. p \in DOMAIN row
  BY <1>1, <1>2, LeastIsMin
<1>. QED
  BY <1>1, <1>3, TabRemovedKeeps

LEMMA CloseKeeps ==
  ASSUME OwnRest, NEW of \in [1..opens -> Files], OwnView(of), OwnTraffic(of),
         NEW id, CloseTab(id)
  PROVE  TabsInv'
<1>1. PICK row, S : row = tabs /\ S = OwnTabs(tabWs, of) /\ row \in Seq(S)
  BY DEF OwnView
<1>2. PICK at : at = {i \in 1..Len(row) : row[i].id = id}
  OBVIOUS
<1>3. tabs' = IF at # {} THEN RemoveAt(row, Min(at)) ELSE row
  <2>1. CASE \E i \in 1..Len(row) : row[i].id = id
    BY <1>1, <1>2, <2>1 DEF CloseTab, RemoveFirstMatch, SelectInSeq
  <2>2. CASE ~\E i \in 1..Len(row) : row[i].id = id
    BY <1>1, <1>2, <2>2 DEF CloseTab, RemoveFirstMatch, SelectInSeq
  <2>. QED
    BY <2>1, <2>2
<1>4. tabs' \in Seq(S)
  BY <1>1, <1>2, <1>3, DropFirst
<1>5. OwnDocs(docs', tabWs, of)
  BY DEF OwnView, OwnDocs, CloseTab, Without
<1>. QED
  BY <1>1, <1>4, <1>5, TabsKeep DEF CloseTab

LEMMA TextsBound ==
  ASSUME TabsAssumption PROVE MaxTexts \in Nat
  BY DEF TabsAssumption

(* A text of a file of the workspace on screen.                            *)
LEMMA TypeKeeps ==
  ASSUME TabsAssumption, OwnRest, NEW of \in [1..opens -> Files], OwnView(of), OwnTraffic(of),
         NEW id, Type(id)
  PROVE  TabsInv'
<1>1. tabs \in Seq(OwnTabs(tabWs, of)) /\ OwnDocs(docs, tabWs, of)
  BY DEF OwnView
<1>0. PICK t \in Open(id) :
         LET x == Text(tabWs, t.file, texts + 1, "text")
         IN /\ docs' = With(docs, id, x)
            /\ tabs' = [i \in DOMAIN tabs |->
                          IF tabs[i].id = id THEN [tabs[i] EXCEPT !.dirty = TRUE, !.shown = x]
                          ELSE tabs[i]]
  BY DEF Type
<1>2. PICK w, x, f :
        /\ t \in Range(tabs) /\ t.id = id /\ w = tabWs /\ f = of[id]
        /\ x = Text(tabWs, t.file, texts + 1, "text") /\ docs' = With(docs, id, x)
        /\ tabs' = [i \in DOMAIN tabs |->
                      IF tabs[i].id = id THEN [tabs[i] EXCEPT !.dirty = TRUE, !.shown = x]
                      ELSE tabs[i]]
  BY <1>0 DEF Open
<1>3. id \in DOMAIN of /\ t \in TabOn(w, id, f)
  BY <1>1, <1>2, RangeTab
<1>4. x \in TextsOf(w, f)
  <2>1. texts + 1 \in 0..MaxTexts
    <3>1. texts < MaxTexts /\ texts \in Nat
      BY DEF Type, OwnRest
    <3>. QED
      BY <3>1, TextsBound
  <2>2. x = Text(w, f, texts + 1, "text")
    <3>1. t.file = f
      BY <1>3, TabFields
    <3>. QED
      BY <1>2, <3>1
  <2>. QED
    BY <2>1, <2>2 DEF TextsOf
<1>5. OwnDocs(docs', w, of)
  BY <1>1, <1>2, <1>3, <1>4, WithKeeps
<1>6. PICK row : row = tabs
  OBVIOUS
<1>7. ASSUME NEW i \in DOMAIN row
      PROVE  (IF row[i].id = id THEN [row[i] EXCEPT !.dirty = TRUE, !.shown = x] ELSE row[i])
               \in OwnTabs(w, of)
  <2>1. row[i].id \in DOMAIN of /\ row[i] \in TabOn(w, row[i].id, of[row[i].id])
    BY <1>1, <1>2, <1>6, RowTab
  <2>2. CASE row[i].id = id
    <3>1. [row[i] EXCEPT !.dirty = TRUE, !.shown = x] \in TabOn(w, id, f)
      BY <1>2, <1>4, <2>1, <2>2 DEF TabOn
    <3>. QED
      BY <1>2, <1>3, <2>2, <3>1 DEF OwnTabs
  <2>. QED
    BY <2>1, <2>2 DEF OwnTabs
<1>8. tabs' \in Seq(OwnTabs(w, of))
  <2>1. DOMAIN row = 1..Len(row) /\ Len(row) \in Nat
    BY <1>1, <1>6, LenProperties
  <2>2. tabs' \in [1..Len(row) -> OwnTabs(w, of)]
    BY <1>2, <1>6, <1>7, <2>1
  <2>. QED
    BY <2>1, <2>2, SeqDef
<1>9. PICK n : n = texts + 1 /\ n \in Nat
  BY DEF OwnRest
<1>10. OwnRest' /\ OwnView(of)'
  BY <1>2, <1>5, <1>8, <1>9 DEF OwnRest, OwnDisk, OwnView, Type, viewVars
<1>11. OwnTraffic(of)' /\ of \in [1..opens' -> Files]
  BY DEF OwnTraffic, Type, viewVars
<1>. QED
  BY <1>10, <1>11 DEF TabsInv

(* What is written is the live text, into the tab's own file.              *)
LEMMA DiskAppend ==
  ASSUME NEW d, OwnDisk(d), NEW w \in Workspaces, NEW f \in Files, NEW x \in TextsOf(w, f)
  PROVE  OwnDisk([d EXCEPT ![w][f] = Append(@, x)])
<1>1. PICK held, now : held = d[w][f] /\ now = Append(held, x)
  OBVIOUS
<1>2. held \in Seq(TextsOf(w, f))
  BY <1>1 DEF OwnDisk
<1>3. now \in Seq(TextsOf(w, f)) /\ now # <<>>
  <2>1. now \in Seq(TextsOf(w, f)) /\ Len(now) = Len(held) + 1 /\ Len(held) \in Nat
    BY <1>1, <1>2, AppendProperties, LenProperties
  <2>. QED
    BY <2>1, EmptySeq
<1>4. OwnDisk([d EXCEPT ![w][f] = now])
  BY <1>3 DEF OwnDisk
<1>. QED
  BY <1>1, <1>4

LEMMA SaveKeeps ==
  ASSUME OwnRest, NEW of \in [1..opens -> Files], OwnView(of), OwnTraffic(of),
         NEW id, SaveTab(id)
  PROVE  TabsInv'
<1>1. tabs \in Seq(OwnTabs(tabWs, of)) /\ OwnDocs(docs, tabWs, of) /\ tabWs \in Workspaces
  BY DEF OwnView, OwnRest
<1>0. PICK t \in Open(id) :
        \/ tabs' = PatchTab(id, [t EXCEPT !.dirty = FALSE]) /\ UNCHANGED <<saves, disk>>
        \/ /\ \E ok \in BOOLEAN :
                /\ saves' = saves \cup {[id |-> id, gen |-> tabGen, doc |-> LiveDoc(t), ok |-> ok]}
                /\ disk' = IF ok THEN [disk EXCEPT ![tabWs][t.file] = Append(@, LiveDoc(t))]
                           ELSE disk
           /\ UNCHANGED tabs
  BY DEF SaveTab
<1>2. PICK w, f, live :
        /\ t \in Range(tabs) /\ t.id = id /\ w = tabWs /\ f = of[id] /\ live = LiveDoc(t)
  BY DEF Open
<1>3. id \in DOMAIN of /\ f \in Files /\ t \in TabOn(w, id, f) /\ t.file = f
      /\ live \in TextsOf(w, f)
  <2>1. id \in DOMAIN of /\ t \in TabOn(w, id, f)
    BY <1>1, <1>2, RangeTab
  <2>2. t.file = f /\ f \in Files
    BY <1>2, <2>1, TabFields
  <2>3. LiveDoc(t) \in TextsOf(tabWs, of[t.id])
    BY <1>1, <1>2, <2>1, LiveIsOwn
  <2>. QED
    BY <1>2, <2>1, <2>2, <2>3
<1>4. UNCHANGED <<docs, reads, viewVars, texts, opens>>
  BY DEF SaveTab
<1>5. CASE tabs' = PatchTab(id, [t EXCEPT !.dirty = FALSE]) /\ UNCHANGED <<saves, disk>>
  <2>1. PICK new, row : new = [t EXCEPT !.dirty = FALSE] /\ row = tabs
    OBVIOUS
  <2>2. new \in TabOn(w, id, of[id]) /\ row \in Seq(OwnTabs(w, of))
    BY <1>1, <1>2, <1>3, <2>1 DEF TabOn
  <2>3. tabs' = [i \in DOMAIN row |-> IF row[i].id = id THEN Painted(row[i], new, FALSE) ELSE row[i]]
    BY <1>5, <2>1 DEF PatchTab
  <2>4. tabs' \in Seq(OwnTabs(w, of))
    BY <2>2, <2>3, RowUpdate
  <2>. QED
    BY <1>1, <1>2, <1>4, <1>5, <2>4, TabsKeep DEF diskVars
<1>6. ASSUME NEW ok \in BOOLEAN,
             saves' = saves \cup {[id |-> id, gen |-> tabGen, doc |-> LiveDoc(t), ok |-> ok]},
             disk' = IF ok THEN [disk EXCEPT ![tabWs][t.file] = Append(@, LiveDoc(t))] ELSE disk,
             UNCHANGED tabs
      PROVE  TabsInv'
  <2>1. OwnDisk(disk')
    BY <1>1, <1>2, <1>3, <1>6, DiskAppend DEF OwnRest
  <2>2. OwnRest'
    BY <1>4, <2>1 DEF OwnRest, viewVars
  <2>3. OwnView(of)'
    BY <1>1, <1>4, <1>6 DEF OwnView, viewVars
  <2>4. OwnTraffic(of)'
    <3>1. \A s \in saves' : s \in saves \/ OwnSave(s, tabWs, of, tabGen)
      BY <1>2, <1>3, <1>6 DEF OwnSave, OwnRest
    <3>. QED
      BY <1>4, <3>1 DEF OwnTraffic, viewVars
  <2>. QED
    BY <1>4, <2>2, <2>3, <2>4 DEF TabsInv
<1>. QED
  BY <1>0, <1>5, <1>6

LEMMA SavedKeeps ==
  ASSUME OwnRest, NEW of \in [1..opens -> Files], OwnView(of), OwnTraffic(of),
         NEW s \in saves, SaveAnswer(s)
  PROVE  TabsInv'
<1>1. tabs \in Seq(OwnTabs(tabWs, of)) /\ OwnDocs(docs, tabWs, of)
  BY DEF OwnView
<1>2. PICK acked, dirty, live, id, w :
        /\ acked = (s.ok /\ s.gen = tabGen) /\ acked \in BOOLEAN
        /\ dirty = (s.id \in DOMAIN docs /\ docs[s.id] # s.doc) /\ dirty \in BOOLEAN
        /\ live = IF s.id \in DOMAIN docs THEN docs[s.id] ELSE s.doc
        /\ id = s.id /\ w = tabWs
  OBVIOUS
<1>3. /\ saves' \subseteq saves /\ UNCHANGED <<reads, viewVars, diskVars, opens>>
      /\ tabs' = IF acked
                 THEN PatchTab(id, [TabOf(id) EXCEPT !.dirty = dirty, !.doc = live,
                                                      !.base = s.doc, !.status = "ready"])
                 ELSE tabs
      /\ docs' = IF acked THEN With(docs, id, live) ELSE docs
  BY <1>2 DEF SaveAnswer, TakeSaved
<1>4. CASE ~acked
  BY <1>1, <1>2, <1>3, <1>4, TabsKeep
<1>5. CASE acked
  <2>1. id \in DOMAIN of /\ {live, s.doc} \subseteq TextsOf(w, of[id])
    BY <1>1, <1>2, <1>5 DEF OwnTraffic, OwnSave, OwnDocs
  <2>2. OwnDocs(docs', w, of)
    BY <1>1, <1>2, <1>3, <1>5, <2>1, WithKeeps
  <2>3. PICK new, row, t :
          /\ row = tabs /\ t = TabOf(id)
          /\ new = [t EXCEPT !.dirty = dirty, !.doc = live, !.base = s.doc, !.status = "ready"]
    OBVIOUS
  <2>4. ASSUME \E u \in Range(row) : u.id = id
        PROVE  new \in TabOn(w, id, of[id])
    <3>1. t \in TabOn(w, id, of[id])
      BY <1>1, <1>2, <2>3, <2>4, OpenTab
    <3>2. dirty \in BOOLEAN /\ live \in TextsOf(w, of[id]) /\ s.doc \in TextsOf(w, of[id])
      BY <1>2, <2>1
    <3>. QED
      BY <2>3, <3>1, <3>2, SavedTab
  <2>5. tabs' = [i \in DOMAIN row |-> IF row[i].id = id THEN Painted(row[i], new, FALSE) ELSE row[i]]
    BY <1>3, <1>5, <2>3 DEF PatchTab
  <2>6. row \in Seq(OwnTabs(w, of))
    BY <1>1, <1>2, <2>3
  <2>7. tabs' \in Seq(OwnTabs(w, of))
    BY <2>4, <2>5, <2>6, RowUpdate
  <2>. QED
    BY <1>2, <1>3, <2>2, <2>7, TabsKeep
<1>. QED
  BY <1>2, <1>4, <1>5

LEMMA AgentKeeps ==
  ASSUME TabsAssumption, OwnRest, NEW of \in [1..opens -> Files], OwnView(of), OwnTraffic(of),
         NEW w \in Workspaces, NEW f \in Written, AgentWrites(w, f)
  PROVE  TabsInv'
<1>1. PICK shape \in Forms : disk' = [disk EXCEPT ![w][f] = Append(@, Text(w, f, texts + 1, shape))]
  BY DEF AgentWrites
<1>2. PICK n, x : n = texts + 1 /\ x = Text(w, f, n, shape)
  OBVIOUS
<1>3. n \in 0..MaxTexts /\ n \in Nat
  BY <1>2, TextsBound DEF AgentWrites, OwnRest
<1>4. x \in TextsOf(w, f)
  BY <1>2, <1>3 DEF TextsOf
<1>5. f \in Files
  BY DEF TabsAssumption
<1>6. OwnDisk(disk')
  BY <1>1, <1>2, <1>4, <1>5, DiskAppend DEF OwnRest
<1>7. OwnRest' /\ OwnView(of)' /\ OwnTraffic(of)'
  BY <1>2, <1>3, <1>6 DEF OwnRest, OwnView, OwnTraffic, AgentWrites, viewVars
<1>. QED
  BY <1>7 DEF TabsInv, AgentWrites

-----------------------------------------------------------------------------
(* A new tab, and another workspace.                                       *)

LEMMA WiderOwn ==
  ASSUME NEW of, NEW on, DOMAIN of \subseteq DOMAIN on, \A id \in DOMAIN of : on[id] = of[id]
  PROVE  /\ \A w : OwnTabs(w, of) \subseteq OwnTabs(w, on)
         /\ \A w, row : row \in Seq(OwnTabs(w, of)) => row \in Seq(OwnTabs(w, on))
         /\ \A w, ds : OwnDocs(ds, w, of) => OwnDocs(ds, w, on)
         /\ \A s : OwnSnap(s, of) => OwnSnap(s, on)
         /\ \A r, w, gen : OwnRead(r, w, of, gen) => OwnRead(r, w, on, gen)
         /\ \A s, w, gen : OwnSave(s, w, of, gen) => OwnSave(s, w, on, gen)
<1>1. ASSUME NEW w PROVE OwnTabs(w, of) \subseteq OwnTabs(w, on)
  BY DEF OwnTabs
<1>2. ASSUME NEW w, NEW row \in Seq(OwnTabs(w, of)) PROVE row \in Seq(OwnTabs(w, on))
  BY <1>1, SeqMonotonic
<1>3. ASSUME NEW w, NEW ds, OwnDocs(ds, w, of) PROVE OwnDocs(ds, w, on)
  BY <1>3 DEF OwnDocs
<1>4. ASSUME NEW s, OwnSnap(s, of) PROVE OwnSnap(s, on)
  BY <1>2, <1>3, <1>4 DEF OwnSnap
<1>5. ASSUME NEW r, NEW w, NEW gen, OwnRead(r, w, of, gen) PROVE OwnRead(r, w, on, gen)
  BY <1>5 DEF OwnRead
<1>6. ASSUME NEW s, NEW w, NEW gen, OwnSave(s, w, of, gen) PROVE OwnSave(s, w, on, gen)
  BY <1>6 DEF OwnSave
<1>. QED
  BY <1>1, <1>2, <1>3, <1>4, <1>5, <1>6

LEMMA OpenKeeps ==
  ASSUME OwnRest, NEW of \in [1..opens -> Files], OwnView(of), OwnTraffic(of),
         NEW f \in Files, OpenFile(f)
  PROVE  TabsInv'
<1>0. PICK gone, id :
        /\ id = opens + 1
        /\ docs' = With(Without(docs, gone), id, NoText) /\ tabs' = Append(tabs, Tab(id, f))
        /\ opens' = id
        /\ reads' = reads \cup {[id |-> id, file |-> f, gen |-> tabGen, seq |-> 1, force |-> FALSE,
                                 content |-> OnDisk(tabApplied, f)]}
        /\ tabApplied = tabWs /\ UNCHANGED <<saves, viewVars, diskVars>>
  BY DEF OpenFile, Backend
<1>1. PICK on, w : on = [i \in 1..opens + 1 |-> IF i = opens + 1 THEN f ELSE of[i]] /\ w = tabWs
  OBVIOUS
<1>2. /\ on \in [1..id -> Files] /\ id \in DOMAIN on /\ on[id] = f /\ id \in Nat
      /\ DOMAIN of \subseteq DOMAIN on /\ \A x \in DOMAIN of : on[x] = of[x]
  BY <1>0, <1>1 DEF OwnRest
<1>3. /\ tabs \in Seq(OwnTabs(w, on)) /\ OwnDocs(docs, w, on)
      /\ \A s \in Range(snaps) : OwnSnap(s, on)
      /\ \A r \in reads : OwnRead(r, w, on, tabGen)
      /\ \A s \in saves : OwnSave(s, w, on, tabGen)
  BY <1>1, <1>2, WiderOwn DEF OwnView, OwnTraffic
<1>4. tabs' \in Seq(OwnTabs(w, on))
  <2>1. Tab(id, f) \in TabOn(w, id, f)
    BY NoTextIsOwn DEF Tab, TabOn, Statuses
  <2>2. Tab(id, f) \in OwnTabs(w, on)
    BY <1>2, <2>1 DEF OwnTabs
  <2>. QED
    BY <1>0, <1>3, <2>2, AppendProperties
<1>5. OwnDocs(docs', w, on)
  <2>1. OwnDocs(Without(docs, gone), w, on)
    BY <1>3 DEF OwnDocs, Without
  <2>. QED
    BY <1>0, <1>2, <2>1, WithKeeps, NoTextIsOwn
<1>6. OnDisk(w, f) \in TextsOf(w, f)
  BY <1>1, DiskIsOwn DEF OnDisk, OwnRest
<1>7. \A r \in reads' : OwnRead(r, w, on, tabGen)
  <2>1. PICK r : r = [id |-> id, file |-> f, gen |-> tabGen, seq |-> 1, force |-> FALSE,
                      content |-> OnDisk(tabApplied, f)]
    OBVIOUS
  <2>2. OwnRead(r, w, on, tabGen)
    BY <1>0, <1>1, <1>2, <1>6, <2>1 DEF OwnRead, OwnRest
  <2>. QED
    BY <1>0, <1>3, <2>1, <2>2
<1>8. OwnRest'
  BY <1>0, <1>2 DEF OwnRest, OwnDisk, viewVars, diskVars
<1>9. OwnView(on)'
  BY <1>0, <1>1, <1>3, <1>4, <1>5 DEF OwnView, viewVars
<1>10. OwnTraffic(on)'
  BY <1>0, <1>1, <1>3, <1>7 DEF OwnTraffic, viewVars
<1>. QED
  BY <1>0, <1>2, <1>8, <1>9, <1>10 DEF TabsInv

(* What is remembered of the workspace that is left.                       *)
LEMMA RememberedIsOwn ==
  ASSUME NEW w, NEW of, tabs \in Seq(OwnTabs(w, of)), OwnDocs(docs, w, of), w \in Workspaces,
         NEW s, s = [ws |-> w, tabs |-> [i \in DOMAIN tabs |-> Remembered(tabs[i])],
                     docs |-> [id \in {t.id : t \in Range(tabs)} |-> LiveDoc(TabOf(id))],
                     active |-> activeTab]
  PROVE  OwnSnap(s, of)
<1>1. ASSUME NEW i \in DOMAIN tabs
      PROVE  Remembered(tabs[i]) \in OwnTabs(w, of) /\ Remembered(tabs[i]).id = tabs[i].id
  <2>1. PICK t, id, live, status :
          /\ t = tabs[i] /\ id = tabs[i].id /\ live = LiveDoc(tabs[i])
          /\ status = IF t.status = "loading" THEN "ready" ELSE t.status
    OBVIOUS
  <2>2. id \in DOMAIN of /\ t \in TabOn(w, id, of[id]) /\ t.id = id
    BY <2>1, RowTab
  <2>3. live \in TextsOf(w, of[id]) /\ status \in Statuses
    BY <2>1, <2>2, LiveIsOwn, TabFields DEF Statuses
  <2>4. Remembered(t) = [t EXCEPT !.doc = live, !.shown = NoText, !.status = status]
    BY <2>1 DEF Remembered
  <2>5. Remembered(t) \in TabOn(w, id, of[id])
    <3>1. PICK f : f = of[id]
      OBVIOUS
    <3>2. NoText \in TextsOf(w, f) /\ live \in TextsOf(w, f) /\ t \in TabOn(w, id, f)
      BY <2>2, <2>3, <3>1, NoTextIsOwn
    <3>3. [t EXCEPT !.doc = live, !.shown = NoText, !.status = status] \in TabOn(w, id, f)
      BY <2>3, <3>2 DEF TabOn
    <3>. QED
      BY <2>4, <3>1, <3>3
  <2>6. Remembered(t).id = id
    BY <2>5, TabFields
  <2>. QED
    BY <2>1, <2>2, <2>5, <2>6 DEF OwnTabs
<1>2. DOMAIN tabs = 1..Len(tabs) /\ Len(tabs) \in Nat
  BY LenProperties
<1>3. PICK row, ds : row = s.tabs /\ ds = s.docs
  OBVIOUS
<1>4. row \in Seq(OwnTabs(w, of))
  <2>1. row \in [1..Len(tabs) -> OwnTabs(w, of)]
    BY <1>1, <1>2, <1>3
  <2>. QED
    BY <1>2, <2>1, SeqDef
<1>5. OwnDocs(ds, w, of)
  <2>1. ASSUME NEW id \in DOMAIN ds
        PROVE  id \in DOMAIN of /\ ds[id] \in TextsOf(w, of[id])
    <3>1. (\E t \in Range(tabs) : t.id = id) /\ ds[id] = LiveDoc(TabOf(id))
      BY <1>3, <2>1
    <3>2. PICK t : t = TabOf(id)
      OBVIOUS
    <3>3. id \in DOMAIN of /\ t \in TabOn(w, id, of[id])
      BY <3>1, <3>2, OpenTab
    <3>4. t.id = id
      BY <3>3, TabFields
    <3>. QED
      BY <3>1, <3>2, <3>3, <3>4, LiveIsOwn
  <2>. QED
    BY <2>1 DEF OwnDocs
<1>6. \A t \in Range(row) : t.id \in DOMAIN ds
  <2>1. ASSUME NEW i \in DOMAIN row PROVE row[i].id \in DOMAIN ds
    <3>1. i \in DOMAIN tabs /\ row[i].id = tabs[i].id
      BY <1>1, <1>3, <2>1
    <3>. QED
      BY <1>3, <3>1 DEF Range
  <2>. QED
    BY <2>1 DEF Range
<1>. QED
  BY <1>3, <1>4, <1>5, <1>6 DEF OwnSnap

(* What is drawn and read of the workspace that is entered.                *)
LEMMA RestoredIsOwn ==
  ASSUME NEW of, NEW s, OwnSnap(s, of)
  PROVE  Restored(s) \in Seq(OwnTabs(s.ws, of))
<1>1. PICK row, w : row = s.tabs /\ w = s.ws
  OBVIOUS
<1>2. row \in Seq(OwnTabs(w, of))
  BY <1>1 DEF OwnSnap
<1>3. ASSUME NEW i \in DOMAIN row
      PROVE  Painted(Tab(NoTab, ""), row[i], TRUE) \in OwnTabs(w, of)
  <2>1. row[i].id \in DOMAIN of /\ row[i] \in TabOn(w, row[i].id, of[row[i].id])
    BY <1>2, RowTab
  <2>2. PICK t, id, f, blank : t = row[i] /\ id = row[i].id /\ f = of[id] /\ blank = Tab(NoTab, "")
    OBVIOUS
  <2>3. Painted(blank, t, TRUE) \in TabOn(w, id, f)
    BY <2>1, <2>2, PaintedIsOwn
  <2>. QED
    BY <2>1, <2>2, <2>3 DEF OwnTabs
<1>4. DOMAIN row = 1..Len(row) /\ Len(row) \in Nat
  BY <1>2, LenProperties
<1>5. Restored(s) \in [1..Len(row) -> OwnTabs(w, of)]
  BY <1>1, <1>3, <1>4 DEF Restored
<1>. QED
  BY <1>1, <1>4, <1>5, SeqDef

LEMMA RestoreIsOwn ==
  ASSUME OwnRest, NEW of \in [1..opens -> Files], NEW s, OwnSnap(s, of), NEW w, s.ws = w,
         NEW r \in RestoreReads(s, w)
  PROVE  OwnRead(r, w, of, tabGen + 1)
<1>1. PICK t \in Range(s.tabs) :
        r = [id |-> t.id, file |-> t.file, gen |-> tabGen + 1, seq |-> 1, force |-> FALSE,
             content |-> OnDisk(w, t.file)]
  BY DEF RestoreReads
<1>2. PICK row : row = s.tabs
  OBVIOUS
<1>3. row \in Seq(OwnTabs(w, of)) /\ t \in Range(row) /\ w \in Workspaces
  BY <1>1, <1>2 DEF OwnSnap
<1>4. t.id \in DOMAIN of /\ t \in TabOn(w, t.id, of[t.id])
  BY <1>3, RangeTab
<1>5. t.file = of[t.id] /\ of[t.id] \in Files
  BY <1>4, TabFields
<1>6. OnDisk(w, t.file) \in TextsOf(w, of[t.id])
  BY <1>3, <1>5, DiskIsOwn DEF OnDisk, OwnRest
<1>. QED
  BY <1>1, <1>4, <1>6 DEF OwnRead, OwnRest

LEMMA SeqOfItsOwn ==
  ASSUME NEW T, NEW s \in Seq(T)
  PROVE  s \in Seq(Range(s)) /\ Range(s) \subseteq T
<1>1. DOMAIN s = 1..Len(s) /\ Len(s) \in Nat /\ \A i \in 1..Len(s) : s[i] \in T
  BY LenProperties, ElementOfSeq
<1>2. s \in [1..Len(s) -> Range(s)]
  <2>1. s = [i \in DOMAIN s |-> s[i]]
    BY SeqDef
  <2>. QED
    BY <1>1, <2>1 DEF Range
<1>3. s \in Seq(Range(s))
  BY <1>1, <1>2, SeqDef
<1>4. Range(s) \subseteq T
  BY <1>1 DEF Range
<1>. QED
  BY <1>3, <1>4

LEMMA TabSwitchKeeps ==
  ASSUME OwnRest, NEW of \in [1..opens -> Files], OwnView(of), OwnTraffic(of),
         NEW w \in Workspaces, SwitchWorkspace(w)
  PROVE  TabsInv'
<1>1. PICK new, T, all, kept, at :
        /\ new = [ws |-> tabWs, tabs |-> [i \in DOMAIN tabs |-> Remembered(tabs[i])],
                  docs |-> [id \in {t.id : t \in Range(tabs)} |-> LiveDoc(TabOf(id))],
                  active |-> activeTab]
        /\ T = Range(snaps) \cup {new} /\ all = Remember
        /\ at = {i \in 1..Len(all) : all[i].ws = w}
        /\ kept = RemoveFirstMatch(all, LAMBDA s : s.ws = w)
  OBVIOUS
<1>2. /\ tabWs' = w /\ tabGen' = tabGen + 1 /\ UNCHANGED <<saves, tabApplied, diskVars, opens>>
      /\ IF SnapOf(w, all) = {}
         THEN snaps' = all /\ tabs' = <<>> /\ docs' = <<>> /\ reads' = reads
         ELSE Enter(w, CHOOSE s \in SnapOf(w, all) : TRUE, kept)
  BY <1>1 DEF SwitchWorkspace
<1>3. \A s \in T : OwnSnap(s, of)
  <2>1. OwnSnap(new, of)
    BY <1>1, RememberedIsOwn DEF OwnView, OwnRest
  <2>. QED
    BY <1>1, <2>1 DEF OwnView
<1>4. all \in Seq(T)
  <2>1. PICK long : long = Append(snaps, new) /\ all = IF Len(long) > MaxSnapshots THEN Tail(long)
                                                      ELSE long
    BY <1>1 DEF Remember
  <2>2. snaps \in Seq(T)
    BY <1>1, SeqMonotonic DEF OwnView
  <2>3. long \in Seq(T) /\ Len(long) = Len(snaps) + 1 /\ Len(snaps) \in Nat
    BY <1>1, <2>1, <2>2, AppendProperties, LenProperties
  <2>4. long # <<>>
    BY <2>3, EmptySeq
  <2>5. Tail(long) \in Seq(T)
    BY <2>3, <2>4, HeadTailProperties
  <2>. QED
    BY <2>1, <2>3, <2>5
<1>5. kept \in Seq(T)
  <2>1. kept = IF at # {} THEN RemoveAt(all, Min(at)) ELSE all
    <3>1. CASE \E i \in 1..Len(all) : all[i].ws = w
      BY <1>1, <3>1 DEF RemoveFirstMatch, SelectInSeq
    <3>2. CASE ~\E i \in 1..Len(all) : all[i].ws = w
      BY <1>1, <3>2 DEF RemoveFirstMatch, SelectInSeq
    <3>. QED
      BY <3>1, <3>2
  <2>. QED
    BY <1>1, <1>4, <2>1, DropFirst
<1>6. snaps' \in Seq(Range(snaps')) /\ \A s \in Range(snaps') : OwnSnap(s, of)
  <2>1. snaps' \in {all, kept}
    BY <1>2 DEF Enter
  <2>. QED
    BY <1>3, <1>4, <1>5, <2>1, SeqOfItsOwn
<1>7. /\ tabs' \in Seq(OwnTabs(w, of)) /\ OwnDocs(docs', w, of)
      /\ \A r \in reads' : r \in reads \/ OwnRead(r, w, of, tabGen + 1)
  <2>1. CASE SnapOf(w, all) = {}
    <3>1. tabs' = <<>> /\ docs' = <<>> /\ reads' = reads
      BY <1>2, <2>1
    <3>. QED
      BY <3>1 DEF OwnDocs
  <2>2. CASE SnapOf(w, all) # {}
    <3>1. PICK s : s = (CHOOSE x \in SnapOf(w, all) : TRUE)
      OBVIOUS
    <3>2. s \in Range(all) /\ s.ws = w
      BY <2>2, <3>1 DEF SnapOf
    <3>3. OwnSnap(s, of)
      BY <1>3, <1>4, <3>2, SeqOfItsOwn
    <3>4. tabs' = Restored(s) /\ docs' = s.docs /\ reads' = reads \cup RestoreReads(s, w)
      BY <1>2, <2>2, <3>1 DEF Enter
    <3>5. OwnDocs(s.docs, w, of)
      BY <3>2, <3>3 DEF OwnSnap
    <3>. QED
      BY <3>2, <3>3, <3>4, <3>5, RestoredIsOwn, RestoreIsOwn
  <2>. QED
    BY <2>1, <2>2
<1>8. OwnRest'
  BY <1>2 DEF OwnRest, OwnDisk, diskVars
<1>9. OwnView(of)'
  BY <1>2, <1>6, <1>7 DEF OwnView
<1>10. OwnTraffic(of)'
  <2>1. \A r \in reads' : OwnRead(r, w, of, tabGen + 1)
    BY <1>7 DEF OwnTraffic, OwnRead, OwnRest
  <2>2. \A s \in saves : OwnSave(s, w, of, tabGen + 1)
    BY DEF OwnTraffic, OwnSave, OwnRest
  <2>. QED
    BY <1>2, <2>1, <2>2 DEF OwnTraffic
<1>. QED
  BY <1>2, <1>8, <1>9, <1>10 DEF TabsInv

-----------------------------------------------------------------------------
LEMMA TabsInvStarts ==
  ASSUME TabsAssumption, TabsInit
  PROVE  TabsInv
<1>1. Workspaces # {} /\ MaxTexts \in Nat
  BY TextsBound DEF TabsAssumption
<1>2. OwnDisk(disk)
  <2>1. \A w, f : Text(w, f, 0, "text") \in TextsOf(w, f)
    BY <1>1 DEF TextsOf
  <2>2. \A w, f : <<Text(w, f, 0, "text")>> \in Seq(TextsOf(w, f)) /\ <<Text(w, f, 0, "text")>> # <<>>
    BY <2>1
  <2>. QED
    BY <2>2 DEF OwnDisk, TabsInit
<1>3. OwnRest
  BY <1>1, <1>2 DEF OwnRest, TabsInit
<1>4. PICK of : of \in [1..opens -> Files]
  <2>1. 1..opens = {}
    BY DEF TabsInit
  <2>2. [id \in 1..opens |-> CHOOSE f \in Files : TRUE] \in [1..opens -> Files]
    BY <2>1
  <2>. QED
    BY <2>2
<1>5. OwnView(of) /\ OwnTraffic(of)
  BY DEF OwnView, OwnTraffic, OwnDocs, TabsInit, Range
<1>. QED
  BY <1>3, <1>4, <1>5 DEF TabsInv

LEMMA TabsInvStep ==
  ASSUME TabsAssumption, TabsInv, [TabsNext]_tabsVars
  PROVE  TabsInv'
<1>1. OwnRest
  BY DEF TabsInv
<1>2. PICK of \in [1..opens -> Files] : OwnView(of) /\ OwnTraffic(of)
  BY DEF TabsInv
<1>3. CASE UNCHANGED tabsVars
  BY <1>1, <1>2, <1>3, ReadsKeep DEF tabsVars, OwnTraffic
<1>4. ASSUME NEW id \in {t.id : t \in Range(tabs)}, UserStep(id)
      PROVE  TabsInv'
  BY <1>1, <1>2, <1>4, SendsAre, SendsKeep, CloseKeeps, TypeKeeps, SaveKeeps, StatusIsOwn
     DEF UserStep
<1>5. CASE SetActive(NoTab) \/ Flush \/ RefreshOpenTabs \/ Poll
  BY <1>1, <1>2, <1>5, SendsAre, SendsKeep
<1>6. ASSUME NEW r \in reads, ReadAnswer(r) \/ ReadFails(r)
      PROVE  TabsInv'
  BY <1>1, <1>2, <1>6, AnswerIsOwn, StatusIsOwn
<1>. QED
  BY <1>1, <1>2, <1>3, <1>4, <1>5, <1>6, OpenKeeps, TabSwitchKeeps, SavedKeeps, AgentKeeps
     DEF TabsNext

LEMMA InvIsOwn ==
  ASSUME TabsInv
  PROVE  TabTextIsOwn
<1>1. PICK of \in [1..opens -> Files] : OwnView(of)
  BY DEF TabsInv
<1>2. ASSUME NEW t \in Range(tabs)
      PROVE  {t.doc, t.base, t.shown, LiveDoc(t)} \subseteq TextsOf(tabWs, t.file)
  <2>1. t.id \in DOMAIN of /\ t \in TabOn(tabWs, t.id, of[t.id])
    BY <1>1, RangeTab DEF OwnView
  <2>2. LiveDoc(t) \in TextsOf(tabWs, of[t.id])
    BY <1>1, <2>1, LiveIsOwn DEF OwnView
  <2>. QED
    BY <2>1, <2>2, TabFields
<1>3. ASSUME NEW s \in Range(snaps), NEW t \in Range(s.tabs)
      PROVE  {t.doc, t.base, s.docs[t.id]} \subseteq TextsOf(s.ws, t.file)
  <2>1. PICK row, w, ds : row = s.tabs /\ w = s.ws /\ ds = s.docs
    OBVIOUS
  <2>2. /\ row \in Seq(OwnTabs(w, of)) /\ t \in Range(row) /\ t.id \in DOMAIN ds
        /\ OwnDocs(ds, w, of)
    BY <1>1, <1>3, <2>1 DEF OwnView, OwnSnap
  <2>3. t.id \in DOMAIN of /\ t \in TabOn(w, t.id, of[t.id])
    BY <2>2, RangeTab
  <2>4. t.file = of[t.id] /\ {t.doc, t.base} \subseteq TextsOf(w, of[t.id])
    BY <2>3, TabFields
  <2>5. ds[t.id] \in TextsOf(w, of[t.id])
    BY <2>2 DEF OwnDocs
  <2>. QED
    BY <2>1, <2>4, <2>5
<1>4. ASSUME NEW w \in Workspaces, NEW f \in Files, NEW i \in DOMAIN disk[w][f]
      PROVE  disk[w][f][i] \in TextsOf(w, f)
  <2>1. PICK held : held = disk[w][f]
    OBVIOUS
  <2>2. held \in Seq(TextsOf(w, f))
    BY <2>1 DEF TabsInv, OwnRest, OwnDisk
  <2>3. i \in 1..Len(held)
    BY <1>4, <2>1, <2>2, LenProperties
  <2>. QED
    BY <2>1, <2>2, <2>3, ElementOfSeq
<1>. QED
  BY <1>2, <1>3, <1>4 DEF TabTextIsOwn

(* A tab, its live text and a remembered tab hold only text of their own   *)
(* file in their own workspace, however switches, held re-points and late  *)
(* answers overlap, for any workspaces, files, tabs and number of reads.   *)
THEOREM TabsHoldTheirOwn ==
  TabsSpec => []TabTextIsOwn
<1>1. TabsInit => TabsInv
  BY TabsInvStarts, TabsAssumption
<1>2. TabsInv /\ [TabsNext]_tabsVars => TabsInv'
  BY TabsInvStep, TabsAssumption
<1>3. TabsInv => TabTextIsOwn
  BY InvIsOwn
<1>. QED
  BY <1>1, <1>2, <1>3, PTL DEF TabsSpec

-----------------------------------------------------------------------------
(* What the user has typed.                                                *)

(* A text that its file has held. A text knows its workspace and file.     *)
Placed(d, x) ==
  x # NoText /\ x.ws \in Workspaces /\ x.file \in Files /\ x \in Range(d[x.ws][x.file])

(* What is unsaved is in the live texts, and is a text; a cut text can     *)
(* only be one of the disk.                                                *)
GoodTab(t, ds, d) ==
  /\ t.base = NoText \/ Placed(d, t.base)
  /\ t.dirty => t.id \in DOMAIN ds /\ ds[t.id] # NoText
  /\ t.truncated => Placed(d, t.doc) /\ (t.id \in DOMAIN ds => Placed(d, ds[t.id]))
GoodRow(row, ds, d) ==
  /\ \A i, j \in DOMAIN row : row[i].id = row[j].id => i = j
  /\ \A i \in DOMAIN row : GoodTab(row[i], ds, d)
OnlyTexts(d) == \A w \in Workspaces, f \in Files : NoText \notin Range(d[w][f])

UserInv ==
  /\ OnlyTexts(disk) /\ GoodRow(tabs, docs, disk)
  /\ \A s \in Range(snaps) : GoodRow(s.tabs, s.docs, disk)
  /\ \A r \in reads : Placed(disk, r.content)
  /\ \A s \in saves :
       /\ s.ok => Placed(disk, s.doc)
       /\ s.gen = tabGen /\ s.id \in DOMAIN docs => docs[s.id] # NoText

-----------------------------------------------------------------------------
(* Texts of the disk.                                                      *)

LEMMA PlacedGrows ==
  ASSUME NEW d, NEW e,
         \A w \in Workspaces, f \in Files : Range(d[w][f]) \subseteq Range(e[w][f])
  PROVE  /\ \A x : Placed(d, x) => Placed(e, x)
         /\ \A t, ds : GoodTab(t, ds, d) => GoodTab(t, ds, e)
         /\ \A row, ds : GoodRow(row, ds, d) => GoodRow(row, ds, e)
<1>1. \A x : Placed(d, x) => Placed(e, x)
  BY DEF Placed
<1>2. \A t, ds : GoodTab(t, ds, d) => GoodTab(t, ds, e)
  BY <1>1 DEF GoodTab
<1>. QED
  BY <1>1, <1>2 DEF GoodRow

LEMMA TextIsPlaced ==
  ASSUME NEW w \in Workspaces, NEW f \in Files, NEW x \in TextsOf(w, f)
  PROVE  x # NoText => x.ws = w /\ x.file = f
  BY DEF TextsOf, Text

(* A text of the file is the disk's when it is placed.                     *)
LEMMA PlacedIsHere ==
  ASSUME NEW d, NEW w \in Workspaces, NEW f \in Files, NEW x \in TextsOf(w, f)
  PROVE  /\ Placed(d, x) => x \in Range(d[w][f])
         /\ x # NoText /\ x \in Range(d[w][f]) => Placed(d, x)
  BY TextIsPlaced DEF Placed

LEMMA DiskIsPlaced ==
  ASSUME NEW d, OwnDisk(d), OnlyTexts(d), NEW w \in Workspaces, NEW f \in Files
  PROVE  Placed(d, Last(d[w][f]))
<1>1. PICK held, x : held = d[w][f] /\ x = Last(held)
  OBVIOUS
<1>2. held \in Seq(TextsOf(w, f)) /\ held # <<>>
  BY <1>1 DEF OwnDisk
<1>3. Len(held) \in DOMAIN held
  BY <1>2, LenProperties, EmptySeq
<1>4. x \in Range(held)
  BY <1>1, <1>3 DEF Last, Range
<1>5. x \in TextsOf(w, f)
  BY <1>1, DiskIsOwn
<1>6. x # NoText
  BY <1>1, <1>4 DEF OnlyTexts
<1>. QED
  BY <1>1, <1>4, <1>5, <1>6, PlacedIsHere

(* What a write adds.                                                      *)
Grown(d, w, f, x) == [d EXCEPT ![w][f] = Append(@, x)]

LEMMA DiskGrows ==
  ASSUME NEW d, OwnDisk(d), OnlyTexts(d), NEW w \in Workspaces, NEW f \in Files,
         NEW x \in TextsOf(w, f), x # NoText, NEW e, e = Grown(d, w, f, x)
  PROVE  /\ OnlyTexts(e) /\ Placed(e, x)
         /\ \A u \in Workspaces, g \in Files : Range(d[u][g]) \subseteq Range(e[u][g])
<1>1. PICK held, now : held = d[w][f] /\ now = Append(held, x)
  OBVIOUS
<1>2. held \in Seq(TextsOf(w, f))
  BY <1>1 DEF OwnDisk
<1>3. Range(now) = Range(held) \cup {x}
  <2>1. /\ DOMAIN held = 1..Len(held) /\ DOMAIN now = 1..(Len(held) + 1) /\ Len(held) \in Nat
        /\ now[Len(held) + 1] = x /\ \A i \in 1..Len(held) : now[i] = held[i]
    BY <1>1, <1>2, AppendProperties, LenProperties
  <2>. QED
    BY <2>1 DEF Range
<1>4. e[w][f] = now /\ \A u \in Workspaces, g \in Files : <<u, g>> # <<w, f>> => e[u][g] = d[u][g]
  BY <1>1 DEF OwnDisk, Grown
<1>5. \A u \in Workspaces, g \in Files : Range(d[u][g]) \subseteq Range(e[u][g])
  <2>1. ASSUME NEW u \in Workspaces, NEW g \in Files
        PROVE  Range(d[u][g]) \subseteq Range(e[u][g])
    BY <1>1, <1>3, <1>4
  <2>. QED
    BY <2>1
<1>6. OnlyTexts(e)
  <2>1. ASSUME NEW u \in Workspaces, NEW g \in Files
        PROVE  NoText \notin Range(e[u][g])
    BY <1>1, <1>3, <1>4 DEF OnlyTexts
  <2>. QED
    BY <2>1 DEF OnlyTexts
<1>7. x \in Range(e[w][f])
  BY <1>3, <1>4
<1>8. Placed(e, x)
  BY <1>7, TextIsPlaced DEF Placed
<1>. QED
  BY <1>5, <1>6, <1>8

-----------------------------------------------------------------------------
(* Tabs, one by one.                                                       *)

LEMMA PaintedFields ==
  ASSUME NEW w, NEW id, NEW f, NEW new \in TabOn(w, id, f), NEW old, NEW remount
  PROVE  LET p == Painted(old, new, remount)
         IN  /\ p.id = new.id /\ p.doc = new.doc /\ p.base = new.base /\ p.dirty = new.dirty
             /\ p.truncated = new.truncated
  BY DEF Painted, TabOn

LEMMA GoodPainted ==
  ASSUME NEW w, NEW id, NEW f, NEW new \in TabOn(w, id, f), NEW old, NEW remount,
         NEW ds, NEW d, GoodTab(new, ds, d)
  PROVE  GoodTab(Painted(old, new, remount), ds, d)
<1>1. PICK p : p = Painted(old, new, remount)
  OBVIOUS
<1>2. /\ p.id = new.id /\ p.doc = new.doc /\ p.base = new.base /\ p.dirty = new.dirty
      /\ p.truncated = new.truncated
  BY <1>1, PaintedFields
<1>. QED
  BY <1>1, <1>2 DEF GoodTab

(* A row in which one tab is replaced.                                     *)
Replaced(row, fresh, id, new) ==
  /\ DOMAIN fresh = DOMAIN row
  /\ \A i \in DOMAIN row :
       IF row[i].id = id THEN \E remount : fresh[i] = Painted(row[i], new, remount)
       ELSE fresh[i] = row[i]
Besides(ds, es, id) ==
  \A x : x # id => (x \in DOMAIN es <=> x \in DOMAIN ds) /\ (x \in DOMAIN ds => es[x] = ds[x])

LEMMA ReplacedIsGood ==
  ASSUME NEW row, NEW fresh, NEW id, NEW new, Replaced(row, fresh, id, new),
         NEW ds, NEW es, Besides(ds, es, id), NEW d, GoodRow(row, ds, d),
         NEW w, NEW f,
         (\E t \in Range(row) : t.id = id) => new \in TabOn(w, id, f) /\ GoodTab(new, es, d)
  PROVE  /\ GoodRow(fresh, es, d)
         /\ \A t \in Range(row) :
              t.dirty => \/ \E u \in Range(fresh) : u.id = t.id /\ u.dirty
                         \/ t.id = id /\ ~new.dirty
<1>1. ASSUME NEW i \in DOMAIN row
      PROVE  /\ fresh[i].id = row[i].id /\ GoodTab(fresh[i], es, d)
             /\ row[i].dirty => fresh[i].dirty \/ (row[i].id = id /\ ~new.dirty)
  <2>1. CASE row[i].id = id
    <3>1. new \in TabOn(w, id, f) /\ GoodTab(new, es, d)
      BY <2>1 DEF Range
    <3>2. PICK old, remount, p : old = row[i] /\ p = Painted(old, new, remount) /\ fresh[i] = p
      BY <2>1 DEF Replaced
    <3>3. GoodTab(p, es, d) /\ p.id = new.id /\ p.dirty = new.dirty
      BY <3>1, <3>2, GoodPainted, PaintedFields
    <3>4. new.id = id
      BY <3>1, TabFields
    <3>. QED
      BY <2>1, <3>2, <3>3, <3>4
  <2>2. CASE row[i].id # id
    <3>1. fresh[i] = row[i] /\ GoodTab(row[i], ds, d)
      BY <2>2 DEF Replaced, GoodRow
    <3>2. PICK t : t = row[i] /\ t.id # id /\ GoodTab(t, ds, d)
      BY <2>2, <3>1
    <3>3. GoodTab(t, es, d)
      BY <3>2 DEF GoodTab, Besides
    <3>. QED
      BY <3>1, <3>2, <3>3
  <2>. QED
    BY <2>1, <2>2
<1>2. GoodRow(fresh, es, d)
  BY <1>1 DEF GoodRow, Replaced
<1>. QED
  BY <1>1, <1>2 DEF Replaced, Range

LEMMA PatchReplaces ==
  ASSUME NEW id, NEW new, tabs' = PatchTab(id, new) \/ tabs' = PushDocTab(id, new)
  PROVE  Replaced(tabs, tabs', id, new)
<1>1. CASE tabs' = PatchTab(id, new)
  BY <1>1 DEF PatchTab, Replaced
<1>2. CASE tabs' = PushDocTab(id, new)
  BY <1>2 DEF PushDocTab, Replaced
<1>. QED
  BY <1>1, <1>2

(* With unique ids, a tab of the row is the one of its id.                 *)
LEMMA TheTabOf ==
  ASSUME NEW ds, NEW d, GoodRow(tabs, ds, d), NEW t \in Range(tabs)
  PROVE  TabOf(t.id) = t /\ GoodTab(t, ds, d)
<1>1. PICK i \in DOMAIN tabs : t = tabs[i]
  BY DEF Range
<1>2. ASSUME NEW u \in Range(tabs), u.id = t.id PROVE u = t
  <2>1. PICK j \in DOMAIN tabs : u = tabs[j]
    BY DEF Range
  <2>. QED
    BY <1>1, <1>2, <2>1 DEF GoodRow
<1>3. TabOf(t.id) \in Range(tabs) /\ TabOf(t.id).id = t.id
  BY DEF TabOf
<1>. QED
  BY <1>1, <1>2, <1>3 DEF GoodRow

-----------------------------------------------------------------------------
(* What a step may do to unsaved text.                                     *)

Excused(t) ==
  \/ LiveDoc(t) \in Range(disk[tabWs][t.file])
  \/ \E r \in reads \ reads' : r.id = t.id /\ r.force
  \/ CloseTab(t.id)
  \/ tabWs' # tabWs /\ (Kept(t, tabWs, snaps') \/ MaxSnapshots = 0)
UnsavedStays ==
  \A t \in Range(tabs) :
    t.dirty => (\E u \in Range(tabs') : u.id = t.id /\ u.dirty) \/ Excused(t)
UserStepKeeps == UserInv' /\ UnsavedStays

(* The live text of a dirty tab, and of a cut one.                         *)
LEMMA LiveOfTab ==
  ASSUME TabsInv, UserInv, NEW t \in Range(tabs)
  PROVE  /\ t.file \in Files /\ tabWs \in Workspaces /\ t.dirty \in BOOLEAN
         /\ {t.doc, t.base, LiveDoc(t)} \subseteq TextsOf(tabWs, t.file)
         /\ t.dirty => t.id \in DOMAIN docs /\ LiveDoc(t) = docs[t.id] /\ LiveDoc(t) # NoText
         /\ t.truncated => Placed(disk, LiveDoc(t))
         /\ Placed(disk, LiveDoc(t)) => Excused(t)
<1>1. PICK of \in [1..opens -> Files] : OwnView(of)
  BY DEF TabsInv
<1>2. t.id \in DOMAIN of /\ t \in TabOn(tabWs, t.id, of[t.id])
  BY <1>1, RangeTab DEF OwnView
<1>3. t.file = of[t.id] /\ t.file \in Files /\ t.dirty \in BOOLEAN
  BY <1>2, TabFields
<1>4. tabWs \in Workspaces
  BY DEF TabsInv, OwnRest
<1>5. {t.doc, t.base, LiveDoc(t)} \subseteq TextsOf(tabWs, t.file)
  BY InvIsOwn DEF TabTextIsOwn
<1>6. GoodTab(t, docs, disk)
  BY TheTabOf DEF UserInv
<1>7. Placed(disk, LiveDoc(t)) => Excused(t)
  <2>1. PICK x, w, f : x = LiveDoc(t) /\ w = tabWs /\ f = t.file
    OBVIOUS
  <2>2. Placed(disk, x) => x \in Range(disk[w][f])
    BY <1>3, <1>4, <1>5, <2>1, PlacedIsHere
  <2>. QED
    BY <2>1, <2>2 DEF Excused
<1>. QED
  BY <1>3, <1>4, <1>5, <1>6, <1>7 DEF GoodTab, LiveDoc

(* Steps that only send reads.                                             *)
LEMMA SendsKeepUser ==
  ASSUME TabsInv, UserInv, OnlySends
  PROVE  UserStepKeeps
<1>1. PICK of \in [1..opens -> Files] : OwnView(of)
  BY DEF TabsInv
<1>2. PICK ids, force, at :
        /\ \A id \in ids : \E t \in Range(tabs) : t.id = id
        /\ ids # {} => at = tabWs
        /\ reads' = reads \cup ReadsOf(ids, force, at)
  BY DEF OnlySends, SendReads
<1>3. ASSUME NEW r \in ReadsOf(ids, force, at)
      PROVE  Placed(disk, r.content)
  <2>1. PICK id \in ids : r = [id |-> id, file |-> TabOf(id).file, gen |-> tabGen,
                               seq |-> Seq0(id) + 1, force |-> force,
                               content |-> OnDisk(at, TabOf(id).file)]
    BY DEF ReadsOf
  <2>2. id \in DOMAIN of /\ TabOf(id) \in TabOn(tabWs, id, of[id])
    BY <1>1, <1>2, OpenTab DEF OwnView
  <2>3. TabOf(id).file = of[id] /\ of[id] \in Files /\ at = tabWs
    BY <1>2, <2>2, TabFields
  <2>4. r.content = OnDisk(tabWs, of[id])
    BY <2>1, <2>3
  <2>5. Placed(disk, OnDisk(tabWs, of[id]))
    BY <2>3, DiskIsPlaced DEF OnDisk, TabsInv, OwnRest, UserInv
  <2>. QED
    BY <2>4, <2>5
<1>4. UNCHANGED <<tabs, docs, tabGen, snaps, saves, tabWs, disk>>
  BY DEF OnlySends
<1>5. UserInv'
  <2>1. PICK d, row, ds, ss : d = disk /\ row = tabs /\ ds = docs /\ ss = snaps
    OBVIOUS
  <2>2. d = disk' /\ row = tabs' /\ ds = docs' /\ ss = snaps'
    BY <1>4, <2>1
  <2>3. /\ OnlyTexts(d) /\ GoodRow(row, ds, d)
        /\ \A s \in Range(ss) : GoodRow(s.tabs, s.docs, d)
        /\ \A r \in reads' : Placed(d, r.content)
        /\ \A s \in saves' : /\ s.ok => Placed(d, s.doc)
                             /\ s.gen = tabGen' /\ s.id \in DOMAIN ds => ds[s.id] # NoText
    BY <1>2, <1>3, <1>4, <2>1 DEF UserInv
  <2>. QED
    BY <2>2, <2>3 DEF UserInv
<1>. QED
  BY <1>4, <1>5 DEF UserStepKeeps, UnsavedStays

(* Steps that replace one tab.                                             *)
LEMMA ReplaceKeepsUser ==
  ASSUME TabsInv, UserInv, NEW id, NEW new, Replaced(tabs, tabs', id, new),
         Besides(docs, docs', id), id \in DOMAIN docs' => docs' = docs \/ docs'[id] # NoText,
         NEW w, NEW f,
         (\E t \in Range(tabs) : t.id = id) => new \in TabOn(w, id, f) /\ GoodTab(new, docs', disk),
         (\E t \in Range(tabs) : t.id = id) /\ TabOf(id).dirty /\ ~new.dirty => Excused(TabOf(id)),
         reads' \subseteq reads, saves' \subseteq saves, UNCHANGED <<viewVars, disk>>
  PROVE  UserStepKeeps
<1>1. PICK row, ds, d : row = tabs /\ ds = docs /\ d = disk
  OBVIOUS
<1>2. /\ GoodRow(tabs', docs', d)
      /\ \A t \in Range(row) :
           t.dirty => \/ \E u \in Range(tabs') : u.id = t.id /\ u.dirty
                      \/ t.id = id /\ ~new.dirty
  <2>1. Replaced(row, tabs', id, new) /\ Besides(ds, docs', id) /\ GoodRow(row, ds, d)
    BY <1>1 DEF UserInv
  <2>2. (\E t \in Range(row) : t.id = id) => new \in TabOn(w, id, f) /\ GoodTab(new, docs', d)
    BY <1>1
  <2>. QED
    BY <2>1, <2>2, ReplacedIsGood
<1>3. UnsavedStays
  <2>1. ASSUME NEW t \in Range(tabs), t.dirty, t.id = id, ~new.dirty
        PROVE  Excused(t)
    <3>1. TabOf(id) = t
      BY <2>1, TheTabOf DEF UserInv
    <3>. QED
      BY <2>1, <3>1
  <2>. QED
    BY <1>1, <1>2, <2>1 DEF UnsavedStays
<1>4. \A s \in saves' : /\ s.ok => Placed(d, s.doc)
                        /\ s.gen = tabGen /\ s.id \in DOMAIN docs' => docs'[s.id] # NoText
  BY <1>1 DEF UserInv, Besides
<1>5. OnlyTexts(d) /\ (\A s \in Range(snaps) : GoodRow(s.tabs, s.docs, d))
      /\ \A r \in reads' : Placed(d, r.content)
  BY <1>1 DEF UserInv
<1>. QED
  BY <1>1, <1>2, <1>3, <1>4, <1>5 DEF UserStepKeeps, UserInv, viewVars

LEMMA AnsweredIsGood ==
  ASSUME NEW w, NEW f, NEW t, NEW id, t \in TabOn(w, id, f), NEW r, r.content \in TextsOf(w, f),
         NEW d, Placed(d, r.content), NEW ds, GoodTab(t, ds, d), r.force \in BOOLEAN, NEW es,
         es = IF Adopts(t, r) THEN With(ds, id, r.content) ELSE ds
  PROVE  /\ GoodTab(Answered(t, r), es, d)
         /\ t.dirty /\ ~Answered(t, r).dirty => r.force \/ t.truncated
<1>1. t.id = id /\ t.dirty \in BOOLEAN /\ t.truncated \in BOOLEAN
  BY TabFields
<1>2. CASE Adopts(t, r)
  <2>1. Answered(t, r) = Adopted(t, r)
    BY <1>2 DEF Answered, Adopts
  <2>2. PICK x, cut, dirty, q :
          /\ x = r.content /\ cut = (r.content.form = "big")
          /\ dirty = (t.dirty /\ ~r.force /\ ~t.truncated /\ r.content.form = "text")
          /\ q = [t EXCEPT !.doc = x, !.base = x, !.status = "ready", !.truncated = cut, !.dirty = dirty]
    OBVIOUS
  <2>3. q = Adopted(t, r)
    BY <2>2 DEF Adopted
  <2>4. /\ q.id = id /\ q.doc = x /\ q.base = x /\ q.truncated = cut /\ q.dirty = dirty
    BY <1>1, <2>2 DEF TabOn
  <2>5. es = With(ds, id, x) /\ id \in DOMAIN es /\ es[id] = x
    BY <1>2, <2>2 DEF With
  <2>6. Placed(d, x) /\ x # NoText
    BY <2>2 DEF Placed
  <2>7. GoodTab(q, es, d)
    BY <2>4, <2>5, <2>6 DEF GoodTab
  <2>8. t.dirty /\ ~q.dirty => r.force \/ t.truncated
    <3>1. r.content.form = "text" \/ (r.content.form = "big" /\ (~t.dirty \/ r.force \/ t.truncated))
      BY <1>2 DEF Adopts
    <3>. QED
      BY <2>2, <2>4, <3>1
  <2>. QED
    BY <2>1, <2>3, <2>7, <2>8
<1>3. CASE ~Adopts(t, r)
  <2>1. PICK status : Answered(t, r) = [t EXCEPT !.status = status]
    <3>1. Answered(t, r) \in {[t EXCEPT !.status = x] : x \in Statuses}
      BY <1>3 DEF Answered, Statuses
    <3>. QED
      BY <3>1
  <2>2. PICK q : q = [t EXCEPT !.status = status]
    OBVIOUS
  <2>3. /\ q.id = t.id /\ q.doc = t.doc /\ q.base = t.base /\ q.truncated = t.truncated
        /\ q.dirty = t.dirty
    BY <2>2 DEF TabOn
  <2>4. GoodTab(q, ds, d)
    BY <2>3 DEF GoodTab
  <2>. QED
    BY <1>3, <2>1, <2>2, <2>3, <2>4
<1>. QED
  BY <1>2, <1>3

(* Nothing is changed but what is on its way.                              *)
LEMMA QuietUser ==
  ASSUME UserInv, UNCHANGED <<tabs, docs, viewVars, disk>>, reads' \subseteq reads,
         saves' \subseteq saves
  PROVE  UserStepKeeps
<1>1. PICK d, row, ds, ss : d = disk /\ row = tabs /\ ds = docs /\ ss = snaps
  OBVIOUS
<1>2. d = disk' /\ row = tabs' /\ ds = docs' /\ ss = snaps' /\ tabGen' = tabGen
  BY <1>1 DEF viewVars
<1>3. /\ OnlyTexts(d) /\ GoodRow(row, ds, d)
      /\ \A s \in Range(ss) : GoodRow(s.tabs, s.docs, d)
      /\ \A r \in reads' : Placed(d, r.content)
      /\ \A s \in saves' : /\ s.ok => Placed(d, s.doc)
                           /\ s.gen = tabGen' /\ s.id \in DOMAIN ds => ds[s.id] # NoText
  BY <1>1, <1>2 DEF UserInv
<1>4. UserInv'
  BY <1>2, <1>3 DEF UserInv
<1>5. UnsavedStays
  BY <1>2, <1>1 DEF UnsavedStays
<1>. QED
  BY <1>4, <1>5 DEF UserStepKeeps

LEMMA WithBesides ==
  ASSUME NEW ds, NEW id, NEW x
  PROVE  /\ Besides(ds, With(ds, id, x), id)
         /\ id \in DOMAIN With(ds, id, x) /\ With(ds, id, x)[id] = x
<1>1. \A y : y # id /\ y \in DOMAIN ds => With(ds, id, x)[y] = ds[y]
  BY DEF With
<1>2. \A y : y # id => (y \in DOMAIN With(ds, id, x) <=> y \in DOMAIN ds)
  BY DEF With
<1>. QED
  BY <1>1, <1>2 DEF With, Besides

LEMMA AnswerKeepsUser ==
  ASSUME TabsInv, UserInv, NEW r \in reads, ReadAnswer(r)
  PROVE  UserStepKeeps
<1>0. PICK of \in [1..opens -> Files] : OwnView(of) /\ OwnTraffic(of)
  BY DEF TabsInv
<1>1. PICK valid : valid = (StillValid(r) /\ Open(r.id) # {}) /\ valid \in BOOLEAN
  OBVIOUS
<1>2. /\ tabs' = IF valid THEN PushDocTab(r.id, Answered(TabOf(r.id), r)) ELSE tabs
      /\ docs' = IF valid /\ Adopts(TabOf(r.id), r) THEN With(docs, r.id, r.content) ELSE docs
      /\ reads' = reads \ {r} /\ UNCHANGED <<saves, viewVars, disk>>
  BY <1>1 DEF ReadAnswer, TakeAnswer, diskVars
<1>3. CASE ~valid
  BY <1>2, <1>3, QuietUser
<1>4. CASE valid
  <2>1. r.gen = tabGen /\ (\E t \in Range(tabs) : t.id = r.id)
    BY <1>1, <1>4 DEF StillValid, Open
  <2>2. /\ r.id \in DOMAIN of /\ r.content \in TextsOf(tabWs, of[r.id]) /\ r.force \in BOOLEAN
        /\ Placed(disk, r.content)
    BY <1>0, <2>1 DEF OwnTraffic, OwnRead, UserInv
  <2>3. PICK id, t, new, w, f : /\ id = r.id /\ t = TabOf(r.id) /\ new = Answered(t, r) /\ w = tabWs
                               /\ f = of[id]
    OBVIOUS
  <2>4. t \in TabOn(w, id, f) /\ t \in Range(tabs) /\ t.id = id
    <3>1. \E u \in Range(tabs) : u.id = id
      BY <2>1, <2>3
    <3>2. TabOf(id) \in TabOn(tabWs, id, of[id]) /\ TabOf(id) \in Range(tabs) /\ t = TabOf(id)
      BY <1>0, <2>3, <3>1, OpenTab DEF OwnView
    <3>. QED
      BY <2>3, <3>2, TabFields
  <2>5. new \in TabOn(w, id, f)
    BY <2>2, <2>3, <2>4, AnsweredIsOwn
  <2>6. GoodTab(t, docs, disk)
    BY <2>4, TheTabOf DEF UserInv
  <2>7. docs' = IF Adopts(t, r) THEN With(docs, id, r.content) ELSE docs
    BY <1>2, <1>4, <2>3
  <2>8. PICK d, ds : d = disk /\ ds = docs
    OBVIOUS
  <2>9. GoodTab(new, docs', d) /\ (t.dirty /\ ~new.dirty => r.force \/ t.truncated)
    BY <2>2, <2>3, <2>4, <2>6, <2>7, <2>8, AnsweredIsGood
  <2>10. Replaced(tabs, tabs', id, new)
    BY <1>2, <1>4, <2>3, PatchReplaces
  <2>11. Besides(docs, docs', id) /\ (id \in DOMAIN docs' => docs' = docs \/ docs'[id] # NoText)
    <3>1. PICK x : x = r.content /\ x # NoText
      BY <2>2 DEF Placed
    <3>2. CASE docs' = docs
      BY <3>2 DEF Besides
    <3>3. CASE docs' = With(docs, id, x)
      BY <3>1, <3>3, WithBesides
    <3>. QED
      BY <2>7, <3>1, <3>2, <3>3
  <2>12. t.dirty /\ ~new.dirty => Excused(t)
    <3>1. r.force => Excused(t)
      BY <1>2, <2>3, <2>4 DEF Excused
    <3>2. t.truncated => Excused(t)
      BY <2>4, LiveOfTab
    <3>. QED
      BY <2>9, <3>1, <3>2
  <2>. QED
    BY <1>2, <2>3, <2>5, <2>8, <2>9, <2>10, <2>11, <2>12, ReplaceKeepsUser
<1>. QED
  BY <1>1, <1>3, <1>4

(* A tab of another status.                                                *)
LEMMA PatchKeepsUser ==
  ASSUME TabsInv, UserInv, NEW id, NEW status \in Statuses,
         tabs' = PatchTab(id, [TabOf(id) EXCEPT !.status = status]), UNCHANGED docs,
         reads' \subseteq reads, saves' \subseteq saves, UNCHANGED <<viewVars, disk>>
  PROVE  UserStepKeeps
<1>0. PICK of \in [1..opens -> Files] : OwnView(of)
  BY DEF TabsInv
<1>1. PICK t, new, w, f : t = TabOf(id) /\ new = [t EXCEPT !.status = status] /\ w = tabWs /\ f = of[id]
  OBVIOUS
<1>2. ASSUME \E u \in Range(tabs) : u.id = id
      PROVE  /\ new \in TabOn(w, id, f) /\ GoodTab(new, docs', disk) /\ new.dirty = t.dirty
  <2>1. t \in TabOn(w, id, f) /\ t \in Range(tabs)
    BY <1>0, <1>1, <1>2, OpenTab DEF OwnView
  <2>2. GoodTab(t, docs', disk)
    BY <2>1, TheTabOf DEF UserInv
  <2>3. new \in TabOn(w, id, f)
    BY <1>1, <2>1, StatusKeeps
  <2>4. /\ new.id = t.id /\ new.doc = t.doc /\ new.base = t.base /\ new.dirty = t.dirty
        /\ new.truncated = t.truncated
    BY <1>1, <2>1 DEF TabOn
  <2>. QED
    BY <2>2, <2>3, <2>4 DEF GoodTab
<1>3. Replaced(tabs, tabs', id, new)
  BY <1>1, PatchReplaces
<1>4. Besides(docs, docs', id)
  BY DEF Besides
<1>. QED
  BY <1>1, <1>2, <1>3, <1>4, ReplaceKeepsUser

LEMMA StatusKeepsUser ==
  ASSUME TabsInv, UserInv, (\E r \in reads : ReadFails(r)) \/ (\E id : KeepMine(id))
  PROVE  UserStepKeeps
<1>0. PICK of \in [1..opens -> Files] : OwnView(of)
  BY DEF TabsInv
<1>1. ASSUME NEW r \in reads, ReadFails(r)
      PROVE  UserStepKeeps
  <2>0. reads' \subseteq reads /\ UNCHANGED <<docs, saves, viewVars, disk>>
    BY <1>1 DEF ReadFails, diskVars
  <2>1. CASE ~StillValid(r)
    BY <1>1, <2>0, <2>1, QuietUser DEF ReadFails
  <2>2. CASE StillValid(r)
    <3>1. PICK id, status : /\ id = r.id
                           /\ status = IF TabOf(r.id).status = "loading" THEN "error"
                                       ELSE TabOf(r.id).status
      OBVIOUS
    <3>2. tabs' = PatchTab(id, [TabOf(id) EXCEPT !.status = status])
      BY <1>1, <2>2, <3>1 DEF ReadFails
    <3>3. CASE \E t \in Range(tabs) : t.id = id
      <4>1. PICK t : t = TabOf(id)
        OBVIOUS
      <4>2. t \in TabOn(tabWs, id, of[id])
        BY <1>0, <3>3, <4>1, OpenTab DEF OwnView
      <4>3. status \in Statuses
        BY <3>1, <4>1, <4>2, TabFields DEF Statuses
      <4>. QED
        BY <2>0, <3>2, <4>3, PatchKeepsUser
    <3>4. CASE ~\E t \in Range(tabs) : t.id = id
      <4>1. PICK row, n : row = tabs /\ n = Len(tabs) /\ n \in Nat /\ row \in [1..n -> Range(row)]
        <5>1. tabs \in Seq(Range(tabs))
          BY <1>0, SeqOfItsOwn DEF OwnView
        <5>2. Len(tabs) \in Nat /\ tabs \in [1..Len(tabs) -> Range(tabs)]
          BY <5>1, LenProperties, SeqDef
        <5>. QED
          BY <5>2
      <4>2. tabs' = [i \in DOMAIN row |-> row[i]]
        BY <3>2, <3>4, <4>1 DEF PatchTab, Range
      <4>3. tabs' = tabs
        BY <4>1, <4>2
      <4>. QED
        BY <2>0, <4>3, QuietUser
    <3>. QED
      BY <3>3, <3>4
  <2>. QED
    BY <2>1, <2>2
<1>2. ASSUME NEW id, KeepMine(id)
      PROVE  UserStepKeeps
  BY <1>2, PatchKeepsUser DEF KeepMine, Statuses, diskVars
<1>. QED
  BY <1>1, <1>2

(* The disk takes a text more.                                             *)
LEMMA GrowKeepsUser ==
  ASSUME UserInv, UNCHANGED <<tabs, docs, snaps, tabGen, reads>>, NEW e, e = disk', OnlyTexts(e),
         \A u \in Workspaces, g \in Files : Range(disk[u][g]) \subseteq Range(e[u][g]),
         \A s \in saves' : \/ s \in saves
                          \/ /\ s.ok => Placed(e, s.doc)
                             /\ s.id \in DOMAIN docs => docs[s.id] # NoText
  PROVE  UserStepKeeps
<1>1. PICK d, row, ds, ss : d = disk /\ row = tabs /\ ds = docs /\ ss = snaps
  OBVIOUS
<1>2. e = disk' /\ row = tabs' /\ ds = docs' /\ ss = snaps' /\ tabGen' = tabGen
  BY <1>1
<1>3. /\ \A x : Placed(d, x) => Placed(e, x)
      /\ \A r, es : GoodRow(r, es, d) => GoodRow(r, es, e)
  BY <1>1, PlacedGrows
<1>4. /\ GoodRow(row, ds, e) /\ \A s \in Range(ss) : GoodRow(s.tabs, s.docs, e)
      /\ \A r \in reads' : Placed(e, r.content)
      /\ \A s \in saves' : /\ s.ok => Placed(e, s.doc)
                           /\ s.gen = tabGen' /\ s.id \in DOMAIN ds => ds[s.id] # NoText
  BY <1>1, <1>3 DEF UserInv
<1>5. UserInv'
  BY <1>2, <1>4 DEF UserInv
<1>. QED
  BY <1>5 DEF UserStepKeeps, UnsavedStays

LEMMA SaveKeepsUser ==
  ASSUME TabsInv, UserInv, NEW id, SaveTab(id)
  PROVE  UserStepKeeps
<1>0. PICK of \in [1..opens -> Files] : OwnView(of)
  BY DEF TabsInv
<1>1. PICK t \in Open(id) :
        /\ t.dirty
        /\ \/ /\ LiveDoc(t) = t.base
              /\ tabs' = PatchTab(id, [t EXCEPT !.dirty = FALSE]) /\ UNCHANGED <<saves, disk>>
           \/ /\ \E ok \in BOOLEAN :
                   /\ saves' = saves \cup {[id |-> id, gen |-> tabGen, doc |-> LiveDoc(t), ok |-> ok]}
                   /\ disk' = IF ok THEN [disk EXCEPT ![tabWs][t.file] = Append(@, LiveDoc(t))]
                              ELSE disk
              /\ UNCHANGED tabs
  BY DEF SaveTab
<1>2. UNCHANGED <<docs, reads, viewVars>>
  BY DEF SaveTab
<1>3. PICK w, f, live, file :
        /\ t \in Range(tabs) /\ t.id = id /\ w = tabWs /\ f = of[id] /\ live = LiveDoc(t)
        /\ file = t.file
  BY DEF Open
<1>4. /\ file \in Files /\ w \in Workspaces /\ live \in TextsOf(w, file) /\ live # NoText
      /\ id \in DOMAIN docs /\ live = docs[id]
  BY <1>1, <1>3, LiveOfTab
<1>5. t \in TabOn(w, id, f) /\ TabOf(id) = t /\ GoodTab(t, docs, disk)
  BY <1>0, <1>3, RangeTab, TheTabOf DEF OwnView, UserInv
<1>6. ASSUME LiveDoc(t) = t.base, tabs' = PatchTab(id, [t EXCEPT !.dirty = FALSE]),
             UNCHANGED <<saves, disk>>
      PROVE  UserStepKeeps
  <2>1. PICK new : new = [t EXCEPT !.dirty = FALSE]
    OBVIOUS
  <2>2. new \in TabOn(w, id, f)
    BY <1>5, <2>1 DEF TabOn
  <2>3. /\ new.id = t.id /\ new.doc = t.doc /\ new.base = t.base /\ new.dirty = FALSE
        /\ new.truncated = t.truncated
    BY <1>5, <2>1 DEF TabOn
  <2>4. GoodTab(new, docs', disk)
    BY <1>2, <1>5, <2>3 DEF GoodTab
  <2>5. Excused(t)
    <3>1. Placed(disk, LiveDoc(t))
      BY <1>3, <1>4, <1>5, <1>6 DEF GoodTab
    <3>. QED
      BY <1>3, <3>1, LiveOfTab
  <2>6. Replaced(tabs, tabs', id, new)
    BY <1>6, <2>1, PatchReplaces
  <2>7. Besides(docs, docs', id)
    BY <1>2 DEF Besides
  <2>. QED
    BY <1>2, <1>5, <1>6, <2>2, <2>4, <2>5, <2>6, <2>7, ReplaceKeepsUser
<1>7. ASSUME NEW ok \in BOOLEAN,
             saves' = saves \cup {[id |-> id, gen |-> tabGen, doc |-> LiveDoc(t), ok |-> ok]},
             disk' = IF ok THEN [disk EXCEPT ![tabWs][t.file] = Append(@, LiveDoc(t))] ELSE disk,
             UNCHANGED tabs
      PROVE  UserStepKeeps
  <2>1. PICK e, d : e = disk' /\ d = disk /\ OwnDisk(d) /\ OnlyTexts(d)
    BY DEF TabsInv, OwnRest, UserInv
  <2>2. /\ OnlyTexts(e) /\ (ok => Placed(e, live))
        /\ \A u \in Workspaces, g \in Files : Range(d[u][g]) \subseteq Range(e[u][g])
    <3>1. CASE ok
      <4>1. e = Grown(d, w, file, live)
        BY <1>3, <1>7, <2>1, <3>1 DEF Grown
      <4>. QED
        BY <1>4, <2>1, <4>1, DiskGrows
    <3>2. CASE ~ok
      BY <1>7, <2>1, <3>2
    <3>. QED
      BY <3>1, <3>2
  <2>3. \A s \in saves' : \/ s \in saves
                         \/ /\ s.ok => Placed(e, s.doc)
                            /\ s.id \in DOMAIN docs => docs[s.id] # NoText
    <3>1. PICK q : q = [id |-> id, gen |-> tabGen, doc |-> live, ok |-> ok]
      OBVIOUS
    <3>2. saves' = saves \cup {q}
      BY <1>3, <1>7, <3>1
    <3>3. q.id = id /\ q.doc = live /\ q.ok = ok
      BY <3>1
    <3>. QED
      BY <1>4, <2>2, <3>2, <3>3
  <2>. QED
    BY <1>2, <1>7, <2>1, <2>2, <2>3, GrowKeepsUser DEF viewVars
<1>. QED
  BY <1>1, <1>6, <1>7

LEMMA AgentKeepsUser ==
  ASSUME TabsAssumption, TabsInv, UserInv, NEW w \in Workspaces, NEW f \in Written,
         AgentWrites(w, f)
  PROVE  UserStepKeeps
<1>1. PICK shape \in Forms : disk' = [disk EXCEPT ![w][f] = Append(@, Text(w, f, texts + 1, shape))]
  BY DEF AgentWrites
<1>2. PICK n, x, e, d : /\ n = texts + 1 /\ x = Text(w, f, n, shape) /\ e = disk' /\ d = disk
                        /\ OwnDisk(d) /\ OnlyTexts(d)
  BY DEF TabsInv, OwnRest, UserInv
<1>3. n \in 0..MaxTexts /\ f \in Files
  BY <1>2, TextsBound DEF AgentWrites, TabsInv, OwnRest, TabsAssumption
<1>4. x \in TextsOf(w, f) /\ x # NoText
  <2>1. w # "none"
    BY DEF TabsAssumption
  <2>. QED
    <3>1. x \in TextsOf(w, f)
      BY <1>2, <1>3 DEF TextsOf
    <3>2. x.ws = w /\ NoText.ws = "none"
      BY <1>2 DEF Text, NoText
    <3>. QED
      BY <2>1, <3>1, <3>2
<1>5. /\ OnlyTexts(e)
      /\ \A u \in Workspaces, g \in Files : Range(d[u][g]) \subseteq Range(e[u][g])
  <2>1. e = Grown(d, w, f, x)
    BY <1>1, <1>2 DEF Grown
  <2>. QED
    BY <1>2, <1>3, <1>4, <2>1, DiskGrows
<1>6. UNCHANGED <<tabs, docs, snaps, tabGen, reads, saves>>
  BY DEF AgentWrites, viewVars
<1>. QED
  BY <1>2, <1>5, <1>6, GrowKeepsUser

LEMMA SavedKeepsUser ==
  ASSUME TabsInv, UserInv, NEW s \in saves, SaveAnswer(s)
  PROVE  UserStepKeeps
<1>0. PICK of \in [1..opens -> Files] : OwnView(of) /\ OwnTraffic(of)
  BY DEF TabsInv
<1>2. PICK acked, dirty, live, id, w, f :
        /\ acked = (s.ok /\ s.gen = tabGen) /\ acked \in BOOLEAN
        /\ dirty = (s.id \in DOMAIN docs /\ docs[s.id] # s.doc) /\ dirty \in BOOLEAN
        /\ live = IF s.id \in DOMAIN docs THEN docs[s.id] ELSE s.doc
        /\ id = s.id /\ w = tabWs /\ f = of[id]
  OBVIOUS
<1>3. /\ saves' \subseteq saves /\ UNCHANGED <<reads, viewVars, disk>>
      /\ tabs' = IF acked
                 THEN PatchTab(id, [TabOf(id) EXCEPT !.dirty = dirty, !.doc = live,
                                                      !.base = s.doc, !.status = "ready"])
                 ELSE tabs
      /\ docs' = IF acked THEN With(docs, id, live) ELSE docs
  BY <1>2 DEF SaveAnswer, TakeSaved, diskVars
<1>4. CASE ~acked
  BY <1>3, <1>4, QuietUser
<1>5. CASE acked
  <2>1. /\ id \in DOMAIN of /\ {live, s.doc} \subseteq TextsOf(w, f) /\ Placed(disk, s.doc)
        /\ live # NoText
    <3>1. id \in DOMAIN of /\ {live, s.doc} \subseteq TextsOf(w, f)
      BY <1>0, <1>2, <1>5 DEF OwnTraffic, OwnSave, OwnView, OwnDocs
    <3>2. Placed(disk, s.doc) /\ (id \in DOMAIN docs => docs[id] # NoText)
      BY <1>2, <1>5 DEF UserInv
    <3>. QED
      BY <1>2, <3>1, <3>2 DEF Placed
  <2>2. PICK new, t, ds, d, es :
          /\ t = TabOf(id) /\ ds = docs /\ d = disk /\ es = With(ds, id, live)
          /\ new = [t EXCEPT !.dirty = dirty, !.doc = live, !.base = s.doc, !.status = "ready"]
    OBVIOUS
  <2>3. docs' = es /\ id \in DOMAIN es /\ es[id] = live /\ Besides(ds, es, id)
    BY <1>3, <1>5, <2>2, WithBesides
  <2>4. ASSUME \E u \in Range(tabs) : u.id = id
        PROVE  /\ new \in TabOn(w, id, f) /\ GoodTab(new, es, d)
               /\ t.dirty /\ ~new.dirty => Excused(t)
    <3>1. t \in TabOn(w, id, f) /\ t \in Range(tabs)
      BY <1>0, <1>2, <2>2, <2>4, OpenTab DEF OwnView
    <3>2. new \in TabOn(w, id, f)
      <4>1. dirty \in BOOLEAN /\ live \in TextsOf(w, f) /\ s.doc \in TextsOf(w, f)
        BY <1>2, <2>1
      <4>. QED
        BY <2>2, <3>1, <4>1, SavedTab
    <3>3. /\ new.id = id /\ t.id = id /\ new.doc = live /\ new.base = s.doc /\ new.dirty = dirty
          /\ new.truncated = t.truncated
      BY <2>2, <3>1 DEF TabOn
    <3>4. GoodTab(t, ds, d)
      BY <2>2, <3>1, TheTabOf DEF UserInv
    <3>5. t.truncated => Placed(d, live)
      BY <1>2, <2>1, <2>2, <3>3, <3>4 DEF GoodTab
    <3>6. GoodTab(new, es, d)
      BY <2>1, <2>2, <2>3, <3>3, <3>5 DEF GoodTab
    <3>7. t.dirty /\ ~dirty => Placed(disk, LiveDoc(t))
      BY <1>2, <2>1, <2>2, <3>3, <3>4 DEF GoodTab, LiveDoc
    <3>8. t.dirty /\ ~new.dirty => Excused(t)
      BY <3>1, <3>3, <3>7, LiveOfTab
    <3>. QED
      BY <3>2, <3>6, <3>8
  <2>5. Replaced(tabs, tabs', id, new)
    BY <1>3, <1>5, <2>2, PatchReplaces
  <2>6. Besides(docs, docs', id) /\ docs'[id] # NoText
    BY <2>1, <2>2, <2>3
  <2>. QED
    BY <1>3, <2>2, <2>3, <2>4, <2>5, <2>6, ReplaceKeepsUser
<1>. QED
  BY <1>2, <1>4, <1>5

LEMMA TypeKeepsUser ==
  ASSUME TabsAssumption, TabsInv, UserInv, NEW id, Type(id)
  PROVE  UserStepKeeps
<1>0. PICK of \in [1..opens -> Files] : OwnView(of)
  BY DEF TabsInv
<1>1. PICK t \in Open(id) :
        /\ ~t.truncated
        /\ LET x == Text(tabWs, t.file, texts + 1, "text")
           IN /\ docs' = With(docs, id, x)
              /\ tabs' = [i \in DOMAIN tabs |->
                            IF tabs[i].id = id THEN [tabs[i] EXCEPT !.dirty = TRUE, !.shown = x]
                            ELSE tabs[i]]
  BY DEF Type
<1>2. PICK x, row, ds, es, d, w :
        /\ x = Text(tabWs, t.file, texts + 1, "text") /\ row = tabs /\ ds = docs
        /\ es = With(ds, id, x) /\ docs' = es /\ d = disk /\ w = tabWs
        /\ tabs' = [i \in DOMAIN row |-> IF row[i].id = id
                                        THEN [row[i] EXCEPT !.dirty = TRUE, !.shown = x] ELSE row[i]]
  BY <1>1
<1>3. x # NoText
  <2>1. x.ws = tabWs /\ tabWs \in Workspaces /\ NoText.ws = "none"
    BY <1>2 DEF Text, NoText, TabsInv, OwnRest
  <2>. QED
    BY <2>1 DEF TabsAssumption
<1>4. /\ Besides(ds, es, id) /\ id \in DOMAIN es /\ es[id] = x
      /\ row \in Seq(OwnTabs(w, of)) /\ GoodRow(row, ds, d)
  <2>1. Besides(ds, es, id) /\ id \in DOMAIN es /\ es[id] = x
    <3>1. es = With(ds, id, x)
      BY <1>2
    <3>. QED
      BY <3>1, WithBesides
  <2>2. tabs \in Seq(OwnTabs(tabWs, of)) /\ GoodRow(tabs, docs, disk)
    BY <1>0 DEF UserInv, OwnView
  <2>. QED
    BY <1>2, <2>1, <2>2
<1>5. t \in Range(row) /\ t.id = id
  BY <1>2 DEF Open
<1>6. ASSUME NEW i \in DOMAIN row
      PROVE  /\ tabs'[i].id = row[i].id /\ GoodTab(tabs'[i], es, d)
             /\ row[i].dirty => tabs'[i].dirty
  <2>1. CASE row[i].id = id
    <3>1. row[i] = t
      <4>1. PICK j \in DOMAIN row : t = row[j]
        BY <1>5 DEF Range
      <4>. QED
        BY <1>4, <1>5, <2>1, <4>1 DEF GoodRow
    <3>2. PICK q : q = [t EXCEPT !.dirty = TRUE, !.shown = x]
      OBVIOUS
    <3>3. t \in TabOn(w, t.id, of[t.id])
      BY <1>4, <1>5, RangeTab
    <3>4. /\ q.id = t.id /\ q.base = t.base /\ q.truncated = t.truncated /\ q.dirty = TRUE
      BY <3>2, <3>3 DEF TabOn
    <3>5. GoodTab(t, ds, d)
      BY <1>4, <3>1 DEF GoodRow
    <3>6. GoodTab(q, es, d)
      BY <1>1, <1>3, <1>4, <1>5, <3>4, <3>5 DEF GoodTab
    <3>7. tabs'[i] = q
      BY <1>2, <2>1, <3>1, <3>2
    <3>. QED
      BY <3>1, <3>4, <3>6, <3>7
  <2>2. CASE row[i].id # id
    <3>1. tabs'[i] = row[i]
      BY <1>2, <2>2
    <3>2. PICK u : u = row[i] /\ u.id # id /\ GoodTab(u, ds, d)
      BY <1>4, <2>2 DEF GoodRow
    <3>3. GoodTab(u, es, d)
      BY <1>4, <3>2 DEF GoodTab, Besides
    <3>. QED
      BY <3>1, <3>2, <3>3
  <2>. QED
    BY <2>1, <2>2
<1>7. DOMAIN tabs' = DOMAIN row
  BY <1>2
<1>8. GoodRow(tabs', es, d)
  BY <1>4, <1>6, <1>7 DEF GoodRow
<1>9. UnsavedStays
  <2>1. ASSUME NEW u \in Range(row), u.dirty
        PROVE  \E v \in Range(tabs') : v.id = u.id /\ v.dirty
    <3>1. PICK i \in DOMAIN row : u = row[i]
      BY DEF Range
    <3>2. tabs'[i] \in Range(tabs')
      BY <1>7 DEF Range
    <3>. QED
      BY <1>6, <2>1, <3>1, <3>2
  <2>. QED
    BY <1>2, <2>1 DEF UnsavedStays
<1>10. UNCHANGED <<snaps, tabGen, disk, reads, saves>>
  BY DEF Type, viewVars
<1>11. \A s \in saves : /\ s.ok => Placed(d, s.doc)
                        /\ s.gen = tabGen /\ s.id \in DOMAIN es => es[s.id] # NoText
  BY <1>2, <1>3, <1>4 DEF UserInv, Besides
<1>12. /\ OnlyTexts(d) /\ \A s \in Range(snaps) : GoodRow(s.tabs, s.docs, d)
       /\ \A r \in reads : Placed(d, r.content)
  BY <1>2 DEF UserInv
<1>13. UserInv'
  BY <1>2, <1>8, <1>10, <1>11, <1>12 DEF UserInv
<1>. QED
  BY <1>9, <1>13 DEF UserStepKeeps

(* A row without one tab.                                                  *)
LEMMA RemovedAt ==
  ASSUME NEW T, NEW row \in Seq(T), NEW p \in DOMAIN row, NEW out, out = RemoveAt(row, p)
  PROVE  /\ DOMAIN out = 1..(Len(row) - 1) /\ Len(row) \in Nat /\ DOMAIN row = 1..Len(row)
         /\ \A j \in DOMAIN out : out[j] = row[IF j < p THEN j ELSE j + 1]
<1>1. Len(row) \in Nat /\ p \in 1..Len(row) /\ \A i \in 1..Len(row) : row[i] \in T
  BY LenProperties, ElementOfSeq
<1>2. PICK a, b, n : a = SubSeq(row, 1, p - 1) /\ b = SubSeq(row, p + 1, Len(row)) /\ n = Len(row)
  OBVIOUS
<1>3. a \in Seq(T) /\ Len(a) = p - 1 /\ \A i \in 1..(p - 1) : a[i] = row[i]
  BY <1>1, <1>2, SubSeqProperties
<1>4. b \in Seq(T) /\ Len(b) = n - p /\ \A i \in 1..(n - p) : b[i] = row[i + p]
  BY <1>1, <1>2, SubSeqProperties
<1>5. out = a \o b
  BY <1>2 DEF RemoveAt
<1>6. Len(out) = n - 1 /\ out \in Seq(T)
      /\ \A i \in 1..(n - 1) : out[i] = IF i <= p - 1 THEN a[i] ELSE b[i - (p - 1)]
  <2>1. /\ out \in Seq(T) /\ Len(out) = Len(a) + Len(b)
        /\ \A i \in 1..(Len(a) + Len(b)) : out[i] = IF i <= Len(a) THEN a[i] ELSE b[i - Len(a)]
    BY <1>3, <1>4, <1>5, ConcatProperties
  <2>2. Len(a) = p - 1 /\ Len(b) = n - p /\ n \in Int /\ p \in Int
    <3>1. Len(a) = p - 1
      BY <1>3
    <3>2. Len(b) = n - p
      BY <1>4
    <3>3. n \in Int /\ p \in Int
      BY <1>1, <1>2
    <3>. QED
      BY <3>1, <3>2, <3>3
  <2>3. Len(a) + Len(b) = n - 1
    BY <2>2
  <2>. QED
    BY <2>1, <2>2, <2>3
<1>7. DOMAIN out = 1..(n - 1) /\ DOMAIN row = 1..n
  BY <1>2, <1>6, LenProperties
<1>8. ASSUME NEW j \in 1..(n - 1)
      PROVE  out[j] = row[IF j < p THEN j ELSE j + 1]
  <2>1. CASE j < p
    BY <1>1, <1>2, <1>3, <1>6, <2>1
  <2>2. CASE ~(j < p)
    <3>1. PICK k : k = j - (p - 1) /\ k \in 1..(n - p) /\ k + p = j + 1
      BY <1>1, <1>2, <2>2
    <3>2. out[j] = b[k]
      BY <1>1, <1>2, <1>6, <2>2, <3>1
    <3>3. b[k] = row[k + p]
      BY <1>4, <3>1
    <3>. QED
      BY <2>2, <3>1, <3>2, <3>3
  <2>. QED
    BY <2>1, <2>2
<1>. QED
  BY <1>1, <1>2, <1>7, <1>8

LEMMA OthersStay ==
  ASSUME NEW T, NEW row \in Seq(T), NEW p \in DOMAIN row, NEW out, out = RemoveAt(row, p)
  PROVE  \A i \in DOMAIN row : i # p => row[i] \in Range(out)
<1>1. /\ DOMAIN out = 1..(Len(row) - 1) /\ Len(row) \in Nat /\ DOMAIN row = 1..Len(row)
      /\ \A j \in DOMAIN out : out[j] = row[IF j < p THEN j ELSE j + 1]
  BY RemovedAt
<1>2. ASSUME NEW i \in DOMAIN row, i # p
      PROVE  row[i] \in Range(out)
  <2>1. PICK j : j = IF i < p THEN i ELSE i - 1
    OBVIOUS
  <2>2. j \in DOMAIN out /\ (IF j < p THEN j ELSE j + 1) = i
    BY <1>1, <1>2, <2>1
  <2>3. out[j] = row[i]
    BY <1>1, <2>2
  <2>. QED
    BY <2>2, <2>3 DEF Range
<1>. QED
  BY <1>2

LEMMA RemovedIsGood ==
  ASSUME NEW T, NEW row \in Seq(T), NEW p \in DOMAIN row, NEW ds, NEW d, GoodRow(row, ds, d),
         NEW out, out = RemoveAt(row, p), NEW id, id = row[p].id
  PROVE  /\ GoodRow(out, Without(ds, {id}), d)
         /\ \A t \in Range(row) : t.id = id \/ t \in Range(out)
<1>1. /\ DOMAIN out = 1..(Len(row) - 1) /\ Len(row) \in Nat /\ DOMAIN row = 1..Len(row)
      /\ \A j \in DOMAIN out : out[j] = row[IF j < p THEN j ELSE j + 1]
  BY RemovedAt
<1>2. ASSUME NEW t, GoodTab(t, ds, d), t.id # id
      PROVE  GoodTab(t, Without(ds, {id}), d)
  <2>1. PICK es : es = Without(ds, {id})
    OBVIOUS
  <2>2. DOMAIN es = DOMAIN ds \ {id} /\ \A x \in DOMAIN es : es[x] = ds[x]
    BY <2>1 DEF Without
  <2>3. GoodTab(t, es, d)
    BY <1>2, <2>2 DEF GoodTab
  <2>. QED
    BY <2>1, <2>3
<1>3. ASSUME NEW j \in DOMAIN out
      PROVE  /\ (IF j < p THEN j ELSE j + 1) \in DOMAIN row \ {p}
             /\ out[j] = row[IF j < p THEN j ELSE j + 1]
  BY <1>1
<1>4. ASSUME NEW j \in DOMAIN out
      PROVE  out[j].id # id /\ GoodTab(out[j], ds, d)
  <2>1. PICK i \in DOMAIN row \ {p} : out[j] = row[i]
    BY <1>3
  <2>. QED
    BY <2>1 DEF GoodRow
<1>5. ASSUME NEW i \in DOMAIN out, NEW j \in DOMAIN out, out[i].id = out[j].id
      PROVE  i = j
  <2>1. (IF i < p THEN i ELSE i + 1) = (IF j < p THEN j ELSE j + 1)
    BY <1>3, <1>5 DEF GoodRow
  <2>. QED
    BY <1>1, <2>1
<1>6. GoodRow(out, Without(ds, {id}), d)
  BY <1>2, <1>4, <1>5 DEF GoodRow
<1>7. \A i \in DOMAIN row : i # p => row[i] \in Range(out)
  BY OthersStay
<1>. QED
  BY <1>6, <1>7 DEF Range

LEMMA CloseKeepsUser ==
  ASSUME TabsInv, UserInv, NEW id, CloseTab(id)
  PROVE  UserStepKeeps
<1>0. PICK of \in [1..opens -> Files] : OwnView(of)
  BY DEF TabsInv
<1>1. PICK row, T, ds, es, d :
        /\ row = tabs /\ T = OwnTabs(tabWs, of) /\ ds = docs /\ es = Without(ds, {id}) /\ d = disk
        /\ row \in Seq(T) /\ GoodRow(row, ds, d)
  BY <1>0 DEF OwnView, UserInv
<1>2. PICK at, p : at = {i \in 1..Len(row) : row[i].id = id} /\ p = Min(at)
  OBVIOUS
<1>3. DOMAIN row = 1..Len(row) /\ Len(row) \in Nat
  BY <1>1, LenProperties
<1>4. at # {} /\ at \in SUBSET Nat
  <2>1. PICK i \in DOMAIN row : row[i].id = id
    BY <1>1 DEF CloseTab, Open, Range
  <2>. QED
    BY <1>2, <1>3, <2>1
<1>5. p \in DOMAIN row /\ row[p].id = id
  BY <1>2, <1>3, <1>4, LeastIsMin
<1>6. tabs' = RemoveAt(row, p)
  <2>1. \E i \in 1..Len(row) : row[i].id = id
    BY <1>2, <1>4
  <2>. QED
    BY <1>1, <1>2, <2>1 DEF CloseTab, RemoveFirstMatch, SelectInSeq
<1>7. GoodRow(tabs', es, d) /\ \A t \in Range(row) : t.id = id \/ t \in Range(tabs')
  BY <1>1, <1>5, <1>6, RemovedIsGood
<1>8. docs' = es /\ UNCHANGED <<snaps, tabGen, disk, reads, saves>>
  BY <1>1 DEF CloseTab, viewVars, diskVars
<1>9. UnsavedStays
  <2>1. ASSUME NEW t \in Range(tabs), t.dirty, t.id = id PROVE Excused(t)
    BY <2>1 DEF Excused
  <2>. QED
    BY <1>1, <1>7, <2>1 DEF UnsavedStays
<1>10. DOMAIN es \subseteq DOMAIN ds /\ \A x \in DOMAIN es : es[x] = ds[x]
  BY <1>1 DEF Without
<1>11. \A s \in saves : /\ s.ok => Placed(d, s.doc)
                        /\ s.gen = tabGen /\ s.id \in DOMAIN es => es[s.id] # NoText
  BY <1>1, <1>10 DEF UserInv
<1>12. /\ OnlyTexts(d) /\ \A s \in Range(snaps) : GoodRow(s.tabs, s.docs, d)
       /\ \A r \in reads : Placed(d, r.content)
  BY <1>1 DEF UserInv
<1>13. UserInv'
  BY <1>1, <1>7, <1>8, <1>11, <1>12 DEF UserInv
<1>. QED
  BY <1>9, <1>13 DEF UserStepKeeps

-----------------------------------------------------------------------------
(* A tab more; at the cap a clean one loses its live text.                 *)

LEMMA AppendedIsGood ==
  ASSUME NEW T, NEW row \in Seq(T), NEW t, NEW ds, NEW d,
         \A i, j \in DOMAIN row : row[i].id = row[j].id => i = j,
         \A i \in DOMAIN row : GoodTab(row[i], ds, d) /\ row[i].id # t.id,
         GoodTab(t, ds, d), NEW out, out = Append(row, t)
  PROVE  GoodRow(out, ds, d) /\ Range(row) \subseteq Range(out)
<1>1. /\ DOMAIN row = 1..Len(row) /\ DOMAIN out = 1..(Len(row) + 1) /\ Len(row) \in Nat
      /\ out[Len(row) + 1] = t /\ \A i \in 1..Len(row) : out[i] = row[i]
  <2>1. row \in Seq(T \cup {t}) /\ t \in T \cup {t}
    BY SeqMonotonic
  <2>. QED
    BY <2>1, AppendProperties, LenProperties
<1>2. \A i \in DOMAIN out : GoodTab(out[i], ds, d)
  <2>1. ASSUME NEW i \in DOMAIN out PROVE GoodTab(out[i], ds, d)
    <3>1. CASE i = Len(row) + 1
      BY <1>1, <3>1
    <3>2. CASE i # Len(row) + 1
      BY <1>1, <3>2
    <3>. QED
      BY <3>1, <3>2
  <2>. QED
    BY <2>1
<1>3. ASSUME NEW i \in DOMAIN out, NEW j \in DOMAIN out, out[i].id = out[j].id
      PROVE  i = j
  <2>1. CASE i = Len(row) + 1
    BY <1>1, <1>3, <2>1
  <2>2. CASE j = Len(row) + 1
    BY <1>1, <1>3, <2>2
  <2>3. CASE i # Len(row) + 1 /\ j # Len(row) + 1
    BY <1>1, <1>3, <2>3
  <2>. QED
    BY <2>1, <2>2, <2>3
<1>4. Range(row) \subseteq Range(out)
  BY <1>1 DEF Range
<1>. QED
  BY <1>2, <1>3, <1>4 DEF GoodRow

LEMMA OpenKeepsUser ==
  ASSUME TabsInv, UserInv, NEW f \in Files, OpenFile(f)
  PROVE  UserStepKeeps
<1>0. PICK of \in [1..opens -> Files] : OwnView(of) /\ OwnTraffic(of)
  BY DEF TabsInv
<1>1. PICK gone, id, r :
        /\ gone = (IF AtCap THEN {tabs[Min(Victims)].id} ELSE {}) /\ id = opens + 1
        /\ docs' = With(Without(docs, gone), id, NoText) /\ tabs' = Append(tabs, Tab(id, f))
        /\ r = [id |-> id, file |-> f, gen |-> tabGen, seq |-> 1, force |-> FALSE,
                content |-> OnDisk(tabApplied, f)]
        /\ reads' = reads \cup {r} /\ tabApplied = tabWs /\ (AtCap => Victims # {})
        /\ UNCHANGED <<saves, viewVars, diskVars>>
  BY DEF OpenFile, Backend
<1>2. PICK row, T, ds, es, d, new :
        /\ row = tabs /\ T = OwnTabs(tabWs, of) /\ ds = docs /\ d = disk /\ new = Tab(id, f)
        /\ es = With(Without(ds, gone), id, NoText)
        /\ row \in Seq(T) /\ GoodRow(row, ds, d)
  BY <1>0 DEF OwnView, UserInv
<1>3. DOMAIN row = 1..Len(row) /\ Len(row) \in Nat
  BY <1>2, LenProperties
<1>4. \A x \in 1..opens : x # id
  BY <1>1 DEF TabsInv, OwnRest
<1>5. \A i \in DOMAIN row : row[i].id # id
  <2>1. ASSUME NEW i \in DOMAIN row PROVE row[i].id \in 1..opens
    BY <1>2, RowTab
  <2>. QED
    BY <1>4, <2>1
<1>6. \A i \in DOMAIN row : row[i].id \in gone => ~row[i].dirty
  <2>1. CASE ~AtCap
    BY <1>1, <2>1
  <2>2. CASE AtCap
    <3>1. PICK v, at : at = Victims /\ v = Min(at)
      OBVIOUS
    <3>2. at # {} /\ at \in SUBSET Nat
      <4>1. at # {}
        BY <1>1, <2>2, <3>1
      <4>2. at \subseteq DOMAIN row
        BY <1>2, <3>1 DEF Victims
      <4>. QED
        BY <1>3, <4>1, <4>2
    <3>3. v \in at
      BY <3>1, <3>2, LeastIsMin
    <3>4. v \in DOMAIN row /\ ~row[v].dirty /\ gone = {row[v].id}
      BY <1>1, <1>2, <2>2, <3>1, <3>3 DEF Victims
    <3>. QED
      BY <1>2, <3>4 DEF GoodRow
  <2>. QED
    BY <2>1, <2>2
<1>7. /\ \A x \in DOMAIN es : x # id => x \in DOMAIN ds /\ es[x] = ds[x]
      /\ \A x \in DOMAIN ds : x \notin gone => x \in DOMAIN es
  BY <1>2 DEF With, Without
<1>8. ASSUME NEW i \in DOMAIN row
      PROVE  GoodTab(row[i], es, d) /\ row[i].id # new.id
  <2>1. PICK t : t = row[i] /\ t.id # id /\ GoodTab(t, ds, d) /\ (t.id \in gone => ~t.dirty)
    BY <1>2, <1>5, <1>6 DEF GoodRow
  <2>2. GoodTab(t, es, d)
    BY <1>7, <2>1 DEF GoodTab
  <2>3. new.id = id
    BY <1>2 DEF Tab
  <2>. QED
    BY <2>1, <2>2, <2>3
<1>9. GoodTab(new, es, d)
  BY <1>2 DEF GoodTab, Tab
<1>10. GoodRow(tabs', es, d) /\ Range(row) \subseteq Range(tabs')
  <2>1. \A i, j \in DOMAIN row : row[i].id = row[j].id => i = j
    BY <1>2 DEF GoodRow
  <2>2. tabs' = Append(row, new)
    BY <1>1, <1>2
  <2>3. \A i \in DOMAIN row : GoodTab(row[i], es, d) /\ row[i].id # new.id
    BY <1>8
  <2>4. PICK out : out = tabs'
    OBVIOUS
  <2>5. out = Append(row, new)
    BY <2>2, <2>4
  <2>6. row \in Seq(T)
    BY <1>2
  <2>7. GoodRow(out, es, d) /\ Range(row) \subseteq Range(out)
    BY <1>9, <2>1, <2>3, <2>5, <2>6, AppendedIsGood
  <2>. QED
    BY <2>4, <2>7
<1>11. Placed(d, r.content)
  <2>1. Placed(disk, OnDisk(tabWs, f))
    BY DiskIsPlaced DEF OnDisk, TabsInv, OwnRest, UserInv
  <2>. QED
    BY <1>1, <1>2, <2>1
<1>12. \A s \in saves : /\ s.ok => Placed(d, s.doc)
                        /\ s.gen = tabGen /\ s.id \in DOMAIN es => es[s.id] # NoText
  <2>1. ASSUME NEW s \in saves, s.gen = tabGen PROVE s.id # id
    BY <1>0, <1>4, <2>1 DEF OwnTraffic, OwnSave
  <2>. QED
    BY <1>2, <1>7, <2>1 DEF UserInv
<1>13. /\ OnlyTexts(d) /\ \A s \in Range(snaps) : GoodRow(s.tabs, s.docs, d)
       /\ \A q \in reads' : Placed(d, q.content)
  BY <1>1, <1>2, <1>11 DEF UserInv
<1>14. docs' = es /\ UNCHANGED <<snaps, tabGen, disk, saves>>
  BY <1>1, <1>2 DEF viewVars, diskVars
<1>15. UserInv'
  BY <1>2, <1>10, <1>12, <1>13, <1>14 DEF UserInv
<1>16. UnsavedStays
  BY <1>2, <1>10 DEF UnsavedStays
<1>. QED
  BY <1>15, <1>16 DEF UserStepKeeps

-----------------------------------------------------------------------------
(* Another workspace: what is unsaved is remembered.                       *)

LEMMA RememberedIsGood ==
  ASSUME TabsInv, UserInv,
         NEW s, s = [ws |-> tabWs, tabs |-> [i \in DOMAIN tabs |-> Remembered(tabs[i])],
                     docs |-> [id \in {t.id : t \in Range(tabs)} |-> LiveDoc(TabOf(id))],
                     active |-> activeTab]
  PROVE  /\ GoodRow(s.tabs, s.docs, disk)
         /\ \A t \in Range(tabs) : s.docs[t.id] = LiveDoc(t)
<1>1. PICK of \in [1..opens -> Files] : OwnView(of)
  BY DEF TabsInv
<1>2. PICK row, back, es : row = tabs /\ back = s.tabs /\ es = s.docs
  OBVIOUS
<1>3. ASSUME NEW t \in Range(tabs)
      PROVE  t.id \in DOMAIN es /\ es[t.id] = LiveDoc(t)
  <2>1. TabOf(t.id) = t
    BY TheTabOf DEF UserInv
  <2>2. t.id \in DOMAIN es /\ es[t.id] = LiveDoc(TabOf(t.id))
    BY <1>2
  <2>. QED
    BY <2>1, <2>2
<1>4. DOMAIN back = DOMAIN row
  BY <1>2
<1>5. ASSUME NEW i \in DOMAIN row
      PROVE  back[i].id = row[i].id /\ GoodTab(back[i], es, disk)
  <2>1. PICK t, live, q : t = row[i] /\ live = LiveDoc(t) /\ q = Remembered(t)
    OBVIOUS
  <2>2. t \in Range(tabs) /\ back[i] = q
    BY <1>2, <2>1 DEF Range
  <2>3. t \in TabOn(tabWs, t.id, of[t.id])
    BY <1>1, <2>2, RangeTab DEF OwnView
  <2>4. /\ q.id = t.id /\ q.doc = live /\ q.base = t.base /\ q.dirty = t.dirty
        /\ q.truncated = t.truncated
    BY <2>1, <2>3 DEF Remembered, TabOn
  <2>5. GoodTab(t, docs, disk)
    BY <2>2, TheTabOf DEF UserInv
  <2>6. (t.dirty => live # NoText) /\ (t.truncated => Placed(disk, live))
    BY <2>1, <2>2, LiveOfTab
  <2>7. t.id \in DOMAIN es /\ es[t.id] = live
    BY <1>3, <2>1, <2>2
  <2>8. GoodTab(q, es, disk)
    BY <2>4, <2>5, <2>6, <2>7 DEF GoodTab
  <2>. QED
    BY <2>1, <2>2, <2>4, <2>8
<1>6. \A i, j \in DOMAIN row : row[i].id = row[j].id => i = j
  BY <1>2 DEF UserInv, GoodRow
<1>7. GoodRow(back, es, disk)
  BY <1>4, <1>5, <1>6 DEF GoodRow
<1>. QED
  BY <1>2, <1>3, <1>7

LEMMA RestoredIsGood ==
  ASSUME NEW of, NEW s, OwnSnap(s, of), NEW d, GoodRow(s.tabs, s.docs, d)
  PROVE  GoodRow(Restored(s), s.docs, d)
<1>1. PICK row, w, ds, out, blank :
        /\ row = s.tabs /\ w = s.ws /\ ds = s.docs /\ out = Restored(s) /\ blank = Tab(NoTab, "")
        /\ row \in Seq(OwnTabs(w, of)) /\ GoodRow(row, ds, d)
  BY DEF OwnSnap
<1>2. DOMAIN out = DOMAIN row /\ \A i \in DOMAIN row : out[i] = Painted(blank, row[i], TRUE)
  BY <1>1 DEF Restored
<1>3. ASSUME NEW i \in DOMAIN row
      PROVE  out[i].id = row[i].id /\ GoodTab(out[i], ds, d)
  <2>1. PICK t, id, f : t = row[i] /\ id = t.id /\ f = of[id]
    OBVIOUS
  <2>2. t \in TabOn(w, id, f) /\ GoodTab(t, ds, d)
    BY <1>1, <2>1, RowTab DEF GoodRow
  <2>3. PICK q : q = Painted(blank, t, TRUE)
    OBVIOUS
  <2>4. q.id = t.id
    <3>1. t \in TabOn(w, id, f)
      BY <2>2
    <3>. QED
      BY <2>3, <3>1 DEF Painted, TabOn
  <2>5. GoodTab(q, ds, d)
    BY <2>2, <2>3, GoodPainted
  <2>6. out[i] = q
    BY <1>2, <2>1, <2>3
  <2>. QED
    BY <2>1, <2>4, <2>5, <2>6
<1>4. GoodRow(out, ds, d)
  <2>1. \A i, j \in DOMAIN row : row[i].id = row[j].id => i = j
    BY <1>1 DEF GoodRow
  <2>2. \A i, j \in DOMAIN out : out[i].id = out[j].id => i = j
    BY <1>2, <1>3, <2>1
  <2>3. \A i \in DOMAIN out : GoodTab(out[i], ds, d)
    BY <1>2, <1>3
  <2>. QED
    BY <2>2, <2>3 DEF GoodRow
<1>. QED
  BY <1>1, <1>4

OwnFiles(of) == \A id \in DOMAIN of : of[id] \in Files

LEMMA RestoreIsPlaced ==
  ASSUME OwnDisk(disk), OnlyTexts(disk), NEW of, OwnFiles(of), NEW s, OwnSnap(s, of), NEW w,
         s.ws = w, NEW r \in RestoreReads(s, w)
  PROVE  Placed(disk, r.content)
<1>1. PICK t \in Range(s.tabs) :
        r = [id |-> t.id, file |-> t.file, gen |-> tabGen + 1, seq |-> 1, force |-> FALSE,
             content |-> OnDisk(w, t.file)]
  BY DEF RestoreReads
<1>2. PICK row : row = s.tabs
  OBVIOUS
<1>3. row \in Seq(OwnTabs(w, of)) /\ t \in Range(row) /\ w \in Workspaces
  BY <1>1, <1>2 DEF OwnSnap
<1>4. t.id \in DOMAIN of /\ t \in TabOn(w, t.id, of[t.id])
  BY <1>3, RangeTab
<1>5. t.file \in Files
  BY <1>4, TabFields DEF OwnFiles
<1>6. Placed(disk, OnDisk(w, t.file))
  BY <1>3, <1>5, DiskIsPlaced DEF OnDisk
<1>. QED
  BY <1>1, <1>6

(* What is remembered last survives the bound on snapshots and the one     *)
(* that is taken out.                                                      *)
LEMMA LastStays ==
  ASSUME MaxSnapshots \in Nat \ {0}, NEW T, NEW row \in Seq(T), NEW new \in T,
         NEW long, long = Append(row, new),
         NEW all, all = IF Len(long) > MaxSnapshots THEN Tail(long) ELSE long
  PROVE  new \in Range(all) /\ all \in Seq(T)
<1>1. /\ long \in Seq(T) /\ Len(long) = Len(row) + 1 /\ Len(row) \in Nat
      /\ long[Len(row) + 1] = new
  BY AppendProperties, LenProperties
<1>2. DOMAIN long = 1..Len(long)
  BY <1>1, LenProperties
<1>3. CASE Len(long) > MaxSnapshots
  <2>1. long # <<>>
    BY <1>1, EmptySeq
  <2>2. /\ all \in Seq(T) /\ Len(all) = Len(long) - 1
        /\ \A i \in 1..Len(all) : all[i] = long[i + 1]
    BY <1>1, <1>3, <2>1, HeadTailProperties
  <2>3. Len(row) \in 1..Len(all)
    BY <1>1, <1>3, <2>2
  <2>4. all[Len(row)] = new /\ Len(row) \in DOMAIN all
    BY <1>1, <2>2, <2>3, LenProperties
  <2>. QED
    BY <2>2, <2>4 DEF Range
<1>4. CASE ~(Len(long) > MaxSnapshots)
  BY <1>1, <1>2, <1>4 DEF Range
<1>. QED
  BY <1>3, <1>4

(* Whatever is shown then, when it is good and the tabs are remembered.    *)
LEMMA SwitchedIsGood ==
  ASSUME TabsInv, UserInv, NEW of, OwnTraffic(of),
         tabWs' # tabWs, tabGen' = tabGen + 1, UNCHANGED <<saves, tabApplied, diskVars, opens>>,
         NEW T, \A s \in T : OwnSnap(s, of) /\ GoodRow(s.tabs, s.docs, disk),
         NEW kept \in Seq(T), snaps' = kept, GoodRow(tabs', docs', disk),
         \A r \in reads' : r \in reads \/ Placed(disk, r.content),
         NEW new, new.ws = tabWs, \A t \in Range(tabs) : new.docs[t.id] = LiveDoc(t),
         MaxSnapshots # 0 => new \in Range(kept)
  PROVE  UserStepKeeps
<1>1. PICK d : d = disk /\ d = disk'
  BY DEF diskVars
<1>2. Range(kept) \subseteq T
  BY SeqOfItsOwn
<1>3. \A s \in saves : s.gen # tabGen'
  BY DEF OwnTraffic, OwnSave, TabsInv, OwnRest
<1>4. UserInv'
  <2>1. OnlyTexts(d) /\ GoodRow(tabs', docs', d) /\ \A s \in Range(kept) : GoodRow(s.tabs, s.docs, d)
    BY <1>1, <1>2 DEF UserInv
  <2>2. \A r \in reads' : Placed(d, r.content)
    BY <1>1 DEF UserInv
  <2>3. \A s \in saves' : /\ s.ok => Placed(d, s.doc)
                          /\ s.gen = tabGen' /\ s.id \in DOMAIN docs' => docs'[s.id] # NoText
    BY <1>1, <1>3 DEF UserInv
  <2>. QED
    BY <1>1, <2>1, <2>2, <2>3 DEF UserInv
<1>5. ASSUME NEW t \in Range(tabs) PROVE Excused(t)
  <2>1. CASE MaxSnapshots = 0
    BY <2>1 DEF Excused
  <2>2. CASE MaxSnapshots # 0
    <3>1. new \in SnapOf(tabWs, kept)
      BY <2>2 DEF SnapOf
    <3>2. Kept(t, tabWs, kept)
      BY <3>1 DEF Kept
    <3>. QED
      BY <3>2 DEF Excused
  <2>. QED
    BY <2>1, <2>2
<1>6. UnsavedStays
  BY <1>5 DEF UnsavedStays
<1>. QED
  BY <1>4, <1>6 DEF UserStepKeeps

LEMMA SwitchKeepsUser ==
  ASSUME TabsAssumption, TabsInv, UserInv, NEW w \in Workspaces, SwitchWorkspace(w)
  PROVE  UserStepKeeps
<1>0. PICK of \in [1..opens -> Files] : OwnView(of) /\ OwnTraffic(of)
  BY DEF TabsInv
<1>1. PICK new, T, all, kept, at, p :
        /\ new = [ws |-> tabWs, tabs |-> [i \in DOMAIN tabs |-> Remembered(tabs[i])],
                  docs |-> [id \in {t.id : t \in Range(tabs)} |-> LiveDoc(TabOf(id))],
                  active |-> activeTab]
        /\ T = Range(snaps) \cup {new} /\ all = Remember
        /\ at = {i \in 1..Len(all) : all[i].ws = w} /\ p = Min(at)
        /\ kept = RemoveFirstMatch(all, LAMBDA s : s.ws = w)
  OBVIOUS
<1>2. /\ tabWs' = w /\ w # tabWs /\ tabGen' = tabGen + 1
      /\ UNCHANGED <<saves, tabApplied, diskVars, opens>>
      /\ IF SnapOf(w, all) = {}
         THEN snaps' = all /\ tabs' = <<>> /\ docs' = <<>> /\ reads' = reads
         ELSE Enter(w, CHOOSE s \in SnapOf(w, all) : TRUE, kept)
  BY <1>1 DEF SwitchWorkspace
<1>3. new.ws = tabWs /\ \A t \in Range(tabs) : new.docs[t.id] = LiveDoc(t)
  BY <1>1, RememberedIsGood
<1>4. \A s \in T : OwnSnap(s, of) /\ GoodRow(s.tabs, s.docs, disk)
  <2>1. OwnSnap(new, of)
    BY <1>0, <1>1, RememberedIsOwn DEF OwnView, TabsInv, OwnRest
  <2>2. GoodRow(new.tabs, new.docs, disk)
    BY <1>1, RememberedIsGood
  <2>. QED
    BY <1>0, <1>1, <2>1, <2>2 DEF OwnView, UserInv
<1>5. all \in Seq(T) /\ (MaxSnapshots # 0 => new \in Range(all))
  <2>1. PICK long : /\ long = Append(snaps, new)
                    /\ all = IF Len(long) > MaxSnapshots THEN Tail(long) ELSE long
    BY <1>1 DEF Remember
  <2>2. snaps \in Seq(T) /\ new \in T
    BY <1>0, <1>1, SeqMonotonic DEF OwnView
  <2>3. CASE MaxSnapshots # 0
    BY <2>1, <2>2, <2>3, LastStays DEF TabsAssumption
  <2>4. CASE MaxSnapshots = 0
    <3>1. long \in Seq(T) /\ Len(long) = Len(snaps) + 1 /\ Len(snaps) \in Nat
      BY <2>1, <2>2, AppendProperties, LenProperties
    <3>2. long # <<>>
      BY <3>1, EmptySeq
    <3>3. Tail(long) \in Seq(T)
      BY <3>1, <3>2, HeadTailProperties
    <3>. QED
      BY <2>1, <2>4, <3>1, <3>3
  <2>. QED
    BY <2>3, <2>4
<1>6. DOMAIN all = 1..Len(all) /\ Len(all) \in Nat
  BY <1>5, LenProperties
<1>7. CASE SnapOf(w, all) = {}
  <2>1. snaps' = all /\ tabs' = <<>> /\ docs' = <<>> /\ reads' = reads
    BY <1>2, <1>7
  <2>2. GoodRow(tabs', docs', disk)
    BY <2>1 DEF GoodRow
  <2>3. \A r \in reads' : r \in reads \/ Placed(disk, r.content)
    BY <2>1
  <2>4. snaps' = all
    BY <2>1
  <2>. QED
    BY <1>0, <1>2, <1>3, <1>4, <1>5, <2>2, <2>3, <2>4, SwitchedIsGood
<1>8. CASE SnapOf(w, all) # {}
  <2>1. PICK s : s = (CHOOSE x \in SnapOf(w, all) : TRUE)
    OBVIOUS
  <2>2. s \in Range(all) /\ s.ws = w
    BY <1>8, <2>1 DEF SnapOf
  <2>3. OwnSnap(s, of) /\ GoodRow(s.tabs, s.docs, disk)
    BY <1>4, <1>5, <2>2, SeqOfItsOwn
  <2>4. tabs' = Restored(s) /\ docs' = s.docs /\ reads' = reads \cup RestoreReads(s, w)
        /\ snaps' = kept
    BY <1>2, <1>8, <2>1 DEF Enter
  <2>5. GoodRow(tabs', docs', disk)
    BY <2>3, <2>4, RestoredIsGood
  <2>6. \A r \in reads' : r \in reads \/ Placed(disk, r.content)
    <3>1. OwnFiles(of)
      BY <1>0 DEF OwnFiles
    <3>2. \A r \in RestoreReads(s, w) : Placed(disk, r.content)
      BY <2>2, <2>3, <3>1, RestoreIsPlaced DEF TabsInv, OwnRest, UserInv
    <3>. QED
      BY <2>4, <3>2
  <2>7. at # {} /\ at \in SUBSET Nat
    <3>1. PICK i \in DOMAIN all : all[i].ws = w
      BY <2>2 DEF Range
    <3>. QED
      BY <1>1, <1>6, <3>1
  <2>8. p \in DOMAIN all /\ all[p].ws = w
    BY <1>1, <1>6, <2>7, LeastIsMin
  <2>9. kept = RemoveAt(all, p)
    <3>1. \E i \in 1..Len(all) : all[i].ws = w
      BY <1>1, <2>7
    <3>. QED
      BY <1>1, <3>1 DEF RemoveFirstMatch, SelectInSeq
  <2>10. kept \in Seq(T) /\ \A i \in DOMAIN all : i # p => all[i] \in Range(kept)
    BY <1>5, <2>8, <2>9, TabRemovedKeeps, OthersStay
  <2>11. MaxSnapshots # 0 => new \in Range(kept)
    <3>1. ASSUME MaxSnapshots # 0 PROVE new \in Range(kept)
      <4>1. PICK i \in DOMAIN all : all[i] = new
        BY <1>5, <3>1 DEF Range
      <4>2. i # p
        BY <1>2, <1>3, <2>8, <4>1
      <4>. QED
        BY <2>10, <4>1, <4>2
    <3>. QED
      BY <3>1
  <2>. QED
    BY <1>0, <1>1, <1>2, <1>3, <1>4, <2>4, <2>5, <2>6, <2>10, <2>11, SwitchedIsGood
<1>. QED
  BY <1>7, <1>8

-----------------------------------------------------------------------------
LEMMA UserInvStarts ==
  ASSUME TabsAssumption, TabsInit
  PROVE  UserInv
<1>1. OnlyTexts(disk)
  <2>1. ASSUME NEW w \in Workspaces, NEW f \in Files PROVE NoText \notin Range(disk[w][f])
    <3>1. PICK x, held : x = Text(w, f, 0, "text") /\ held = <<x>>
      OBVIOUS
    <3>2. disk[w][f] = held
      BY <3>1 DEF TabsInit
    <3>3. x # NoText
      BY <3>1 DEF Text, NoText, TabsAssumption
    <3>4. Range(held) = {x}
      BY <3>1 DEF Range
    <3>. QED
      BY <3>2, <3>3, <3>4
  <2>. QED
    BY <2>1 DEF OnlyTexts
<1>2. GoodRow(tabs, docs, disk) /\ \A s \in Range(snaps) : GoodRow(s.tabs, s.docs, disk)
  BY DEF TabsInit, GoodRow, Range
<1>. QED
  BY <1>1, <1>2 DEF UserInv, TabsInit

LEMMA UserInvStep ==
  ASSUME TabsAssumption, TabsInv, UserInv, [TabsNext]_tabsVars
  PROVE  UserStepKeeps
<1>1. CASE UNCHANGED tabsVars
  BY <1>1, QuietUser DEF tabsVars, viewVars
<1>2. ASSUME NEW id \in {t.id : t \in Range(tabs)}, UserStep(id)
      PROVE  UserStepKeeps
  BY <1>2, SendsAre, SendsKeepUser, CloseKeepsUser, TypeKeepsUser, SaveKeepsUser,
     StatusKeepsUser DEF UserStep
<1>3. CASE SetActive(NoTab) \/ Flush \/ RefreshOpenTabs \/ Poll
  BY <1>3, SendsAre, SendsKeepUser
<1>4. ASSUME NEW r \in reads, ReadAnswer(r) \/ ReadFails(r)
      PROVE  UserStepKeeps
  BY <1>4, AnswerKeepsUser, StatusKeepsUser
<1>. QED
  BY <1>1, <1>2, <1>3, <1>4, OpenKeepsUser, SwitchKeepsUser, SavedKeepsUser, AgentKeepsUser
     DEF TabsNext

(* A dirty tab stays dirty until its live text is on disk, the user closes *)
(* it or takes the file's text, or its workspace is left with the text     *)
(* remembered: no background read, late write, flush or tab opened at the  *)
(* cap cleans it, for any workspaces, files, tabs and number of reads.     *)
THEOREM UnsavedTextIsTheUsers ==
  TabsSpec => DirtyIsTheUsers
<1> DEFINE Inv == TabsInv /\ UserInv
<1>1. TabsInit => Inv
  BY TabsInvStarts, UserInvStarts, TabsAssumption
<1>2. Inv /\ [TabsNext]_tabsVars => Inv' /\ UnsavedStays
  BY TabsInvStep, UserInvStep, TabsAssumption DEF UserStepKeeps
<1>3. UnsavedStays =>
        [\A t \in Range(tabs) :
           /\ t.dirty
           /\ ~\E u \in Range(tabs') : u.id = t.id /\ u.dirty
           => \/ LiveDoc(t) \in Range(disk[tabWs][t.file])
              \/ \E r \in reads \ reads' : r.id = t.id /\ r.force
              \/ CloseTab(t.id)
              \/ tabWs' # tabWs /\ (Kept(t, tabWs, snaps') \/ MaxSnapshots = 0)]_tabsVars
  BY DEF UnsavedStays, Excused
<1>. HIDE DEF Inv
<1>. QED
  BY <1>1, <1>2, <1>3, PTL DEF TabsSpec, DirtyIsTheUsers

-----------------------------------------------------------------------------
(* The engine form and what the last session left.                         *)

FormStates == [profile : Profile, artifact : InCatalog \cup {NoArtifact}, saved : SUBSET {"named"}]
LeftStates ==
  {[profile |-> NotStored, artifact |-> NoArtifact, saved |-> {}]} \cup
  [profile : {[from |-> "last", drafts |-> TRUE]}, artifact : {NoArtifact, Artifacts[1]}, saved : {{"named"}}]

(* What a state of the form keeps of what the last session left.           *)
Faithful(x, left) ==
  /\ x.saved = left.saved
  /\ left.profile # NotStored => x.profile.from = left.profile.from
  /\ left.artifact # NoArtifact => /\ x.profile = left.profile \/ left.profile = NotStored
                           /\ x.artifact = left.artifact
FaithfulSaves == [whole : {TRUE}, of : {x \in FormStates : Faithful(x, lastSession)}]

(* Nothing is saved before the restore; afterwards the form, the saves on  *)
(* their way and what is stored all keep it.                               *)
Untouched == ~userActed /\ profileGet # "failed"
ChoicesInv ==
  Untouched =>
    /\ lastSession \in LeftStates /\ form \in FormStates
    /\ profileGet \in {"open", "served", "over"}
    /\ formSaves \in Seq(FaithfulSaves) /\ Faithful(stored, lastSession)
    /\ profileGet # "over" => ~hydrated /\ ~saveDue /\ formSaves = <<>> /\ stored = lastSession
    /\ profileGet = "over" => hydrated /\ Faithful(form, lastSession)

LEMMA ArtifactsListed ==
  ASSUME FormAssumption
  PROVE  Artifacts[1] \in InCatalog /\ Artifacts[Len(Artifacts)] \in InCatalog
         /\ Artifacts[1] \in Drafting
<1>1. Artifacts \in Seq(STRING \ {NoArtifact}) /\ Len(Artifacts) > 0 /\ Artifacts[1] \in Drafting
  BY DEF FormAssumption
<1>2. Len(Artifacts) \in Nat /\ DOMAIN Artifacts = 1..Len(Artifacts)
  BY <1>1, LenProperties
<1>3. 1 \in DOMAIN Artifacts /\ Len(Artifacts) \in DOMAIN Artifacts
  BY <1>1, <1>2
<1>. QED
  BY <1>1, <1>3 DEF InCatalog

(* The effects of a render keep a form a form, and a faithful one so: an   *)
(* artifact that was chosen lists the drafting backend.                    *)
LEMMA RenderedIsFaithful ==
  ASSUME FormAssumption, NEW f \in FormStates, NEW fd,
         NEW g, g = Reconciled(Selected(f, fd), fd)
  PROVE  /\ g \in FormStates
         /\ \A left \in LeftStates : Faithful(f, left) => Faithful(g, left)
<1>1. PICK h : h = Selected(f, fd)
  OBVIOUS
<1>2. /\ h \in FormStates /\ h.profile = f.profile /\ h.saved = f.saved
      /\ f.artifact # NoArtifact => h.artifact = f.artifact
  BY <1>1, ArtifactsListed DEF Selected, FormStates
<1>3. /\ g \in FormStates /\ g.profile.from = h.profile.from /\ g.saved = h.saved
      /\ g.artifact = h.artifact /\ (h.artifact \in Drafting => g.profile = h.profile)
  <2>1. CASE fd /\ h.artifact \in InCatalog \ Drafting
    <3>1. g = [h EXCEPT !.profile.drafts = FALSE]
      BY <1>1, <2>1 DEF Reconciled
    <3>2. h \in FormStates /\ h.artifact \notin Drafting
      BY <1>2, <2>1
    <3>3. PICK p : p = [h.profile EXCEPT !.drafts = FALSE]
      OBVIOUS
    <3>4. p \in Profile /\ p.from = h.profile.from
      BY <3>2, <3>3 DEF FormStates, Profile
    <3>5. g = [h EXCEPT !.profile = p]
      BY <3>1, <3>3
    <3>6. /\ g \in FormStates /\ g.profile = p /\ g.saved = h.saved
          /\ g.artifact = h.artifact
      BY <3>2, <3>4, <3>5 DEF FormStates
    <3>. QED
      BY <3>2, <3>4, <3>6
  <2>2. CASE ~(fd /\ h.artifact \in InCatalog \ Drafting)
    <3>1. g = h
      BY <1>1, <2>2 DEF Reconciled
    <3>. QED
      BY <1>2, <3>1
  <2>. QED
    BY <2>1, <2>2
<1>4. ASSUME NEW left \in LeftStates, Faithful(f, left)
      PROVE  Faithful(g, left)
  <2>1. left.artifact \in {NoArtifact, Artifacts[1]}
    BY DEF LeftStates
  <2>2. CASE left.artifact = NoArtifact
    BY <1>2, <1>3, <1>4, <2>2 DEF Faithful
  <2>3. CASE left.artifact # NoArtifact
    <3>1. f.artifact = left.artifact /\ f.artifact # NoArtifact /\ f.artifact \in Drafting
      BY <1>4, <2>1, <2>3, ArtifactsListed DEF Faithful
    <3>. QED
      BY <1>2, <1>3, <1>4, <3>1 DEF Faithful
  <2>. QED
    BY <2>2, <2>3
<1>. QED
  BY <1>3, <1>4

LEMMA ChoicesStart ==
  ASSUME FormAssumption, FormInit
  PROVE  ChoicesInv
<1>1. form \in FormStates
  BY DEF FormInit, FormStates, DefaultPreset, Profile
<1>2. stored \in LeftStates /\ lastSession = stored
  BY DEF FormInit, LeftStates
<1>3. /\ formSaves = <<>> /\ profileGet = "open" /\ ~hydrated /\ ~saveDue
  BY DEF FormInit
<1>4. Faithful(stored, lastSession)
  BY <1>2 DEF Faithful
<1>. QED
  BY <1>1, <1>2, <1>3, <1>4 DEF ChoicesInv

(* The restore, and what is drawn when it is over or the feed comes.       *)
LEMMA FetchKeepsChoices ==
  ASSUME FormAssumption, ChoicesInv, ServeProfile \/ Hydrate \/ HydrateFails \/ FeedArrives
  PROVE  ChoicesInv'
<1>1. CASE ServeProfile
  BY <1>1 DEF ServeProfile, ChoicesInv, Untouched, FaithfulSaves, shownVars, savedVars, userVars
<1>2. ASSUME Hydrate, Untouched PROVE ChoicesInv'
  <2>1. PICK f, left : /\ left = lastSession
          /\ f = [profile |-> IF left.profile = NotStored THEN DefaultPreset ELSE left.profile,
                  artifact |-> IF left.artifact = NoArtifact THEN form.artifact ELSE left.artifact,
                  saved |-> left.saved]
    OBVIOUS
  <2>2. left \in LeftStates /\ form \in FormStates /\ formSaves = <<>> /\ stored = left
    BY <1>2, <2>1 DEF ChoicesInv, Hydrate
  <2>3. f \in FormStates
    <3>1. /\ left.profile \in {NotStored, [from |-> "last", drafts |-> TRUE]}
          /\ left.artifact \in {NoArtifact, Artifacts[1]} /\ left.saved \subseteq {"named"}
      BY <2>2 DEF LeftStates
    <3>2. f.profile \in Profile
      <4>1. f.profile = IF left.profile = NotStored THEN DefaultPreset ELSE left.profile
        BY <2>1
      <4>2. DefaultPreset \in Profile /\ [from |-> "last", drafts |-> TRUE] \in Profile
        BY DEF Profile, DefaultPreset
      <4>. QED
        BY <3>1, <4>1, <4>2
    <3>3. f.artifact \in InCatalog \cup {NoArtifact}
      BY <2>1, <2>2, <3>1, ArtifactsListed DEF FormStates
    <3>4. f = [profile |-> f.profile, artifact |-> f.artifact, saved |-> f.saved] /\ f.saved = left.saved
      BY <2>1
    <3>. QED
      BY <3>1, <3>2, <3>3, <3>4 DEF FormStates
  <2>4. Faithful(f, left) /\ Faithful(left, left)
    BY <2>1, <2>2 DEF Faithful
  <2>5. form' \in FormStates /\ Faithful(form', left)
    BY <1>2, <2>1, <2>2, <2>3, <2>4, RenderedIsFaithful DEF Hydrate, ShowForm
  <2>6. /\ profileGet' = "over" /\ hydrated' = TRUE /\ lastSession' = left /\ formSaves' = <<>>
        /\ stored' = left
    BY <1>2, <2>1, <2>2 DEF Hydrate, ShowForm, savedVars
  <2>. QED
    BY <2>2, <2>4, <2>5, <2>6 DEF ChoicesInv
<1>3. CASE HydrateFails
  BY <1>3 DEF HydrateFails, ChoicesInv, Untouched
<1>4. ASSUME FeedArrives, Untouched PROVE ChoicesInv'
  <2>1. PICK f, left : f = form /\ left = lastSession
    OBVIOUS
  <2>2. f \in FormStates /\ left \in LeftStates
    BY <1>4, <2>1 DEF ChoicesInv
  <2>3. form' \in FormStates /\ (Faithful(f, left) => Faithful(form', left))
    BY <1>4, <2>1, <2>2, RenderedIsFaithful DEF FeedArrives, ShowForm
  <2>4. /\ hydrated' = hydrated /\ UNCHANGED <<fetchVars, savedVars, userVars>>
        /\ ~hydrated => ~saveDue'
    BY <1>4 DEF FeedArrives, ShowForm
  <2>. QED
    BY <1>4, <2>1, <2>2, <2>3, <2>4
       DEF ChoicesInv, Untouched, FaithfulSaves, fetchVars, savedVars, userVars
<1>5. CASE ~Untouched /\ ~HydrateFails
  BY <1>5 DEF ServeProfile, Hydrate, FeedArrives, ChoicesInv, Untouched, fetchVars, userVars
<1>. QED
  BY <1>1, <1>2, <1>3, <1>4, <1>5

LEMMA SavesKeepChoices ==
  ASSUME ChoicesInv, AutoSave \/ SaveLands
  PROVE  ChoicesInv'
<1>0. UNCHANGED <<form, hydrated, fetchVars, userVars>>
  BY DEF AutoSave, SaveLands, shownVars
<1>1. CASE ~Untouched
  BY <1>0, <1>1 DEF ChoicesInv, Untouched, fetchVars, userVars
<1>2. ASSUME Untouched, AutoSave PROVE ChoicesInv'
  <2>1. PICK x, S : x = [whole |-> TRUE, of |-> form] /\ S = FaithfulSaves
    OBVIOUS
  <2>2. profileGet = "over" /\ Faithful(form, lastSession) /\ form \in FormStates
    BY <1>2 DEF ChoicesInv, AutoSave
  <2>3. x \in S /\ formSaves \in Seq(S)
    BY <1>2, <2>1, <2>2 DEF FaithfulSaves, ChoicesInv
  <2>4. Append(formSaves, x) \in Seq(S)
    BY <2>3, AppendProperties
  <2>5. formSaves' \in Seq(S) /\ stored' = stored
    BY <1>2, <2>1, <2>4 DEF AutoSave
  <2>. QED
    BY <1>0, <1>2, <2>1, <2>2, <2>5 DEF ChoicesInv, Untouched, FaithfulSaves, fetchVars, userVars
<1>3. ASSUME Untouched, SaveLands PROVE ChoicesInv'
  <2>1. PICK s, S : s = Head(formSaves) /\ S = FaithfulSaves
    OBVIOUS
  <2>2. formSaves \in Seq(S) /\ formSaves # <<>>
    BY <1>3, <2>1 DEF ChoicesInv, SaveLands
  <2>3. s \in S /\ Tail(formSaves) \in Seq(S)
    BY <2>1, <2>2, HeadTailProperties
  <2>4. stored' \in {stored, s.of} /\ formSaves' \in Seq(S)
    <3>1. s.whole
      BY <2>1, <2>3 DEF FaithfulSaves
    <3>. QED
      BY <1>3, <2>1, <2>3, <3>1 DEF SaveLands
  <2>5. Faithful(stored, lastSession) /\ Faithful(s.of, lastSession) /\ profileGet = "over"
    BY <1>3, <2>1, <2>2, <2>3 DEF ChoicesInv, FaithfulSaves
  <2>6. Faithful(stored', lastSession)
    BY <2>4, <2>5
  <2>. QED
    BY <1>0, <1>3, <2>1, <2>4, <2>5, <2>6
       DEF ChoicesInv, Untouched, FaithfulSaves, fetchVars, userVars
<1>. QED
  BY <1>1, <1>2, <1>3

LEMMA ChoicesStep ==
  ASSUME FormAssumption, ChoicesInv, [FormNext]_formVars
  PROVE  ChoicesInv'
<1>1. CASE ServeProfile \/ Hydrate \/ HydrateFails \/ FeedArrives
  BY <1>1, FetchKeepsChoices
<1>2. CASE AutoSave \/ SaveLands
  BY <1>2, SavesKeepChoices
<1>3. ASSUME userActed' PROVE ChoicesInv'
  BY <1>3 DEF ChoicesInv, Untouched
<1>4. CASE \/ SetField \/ PickArtifact \/ ApplyPreset \/ SaveCurrent \/ LoadNamed \/ DeleteNamed
           \/ \E a \in InCatalog : LaunchElsewhere(a)
  BY <1>3, <1>4 DEF SetField, PickArtifact, ApplyPreset, SaveCurrent, LoadNamed, DeleteNamed,
     Edit, LaunchElsewhere
<1>5. ASSUME UNCHANGED <<form, hydrated, saveDue, fetchVars, savedVars, userActed>>
      PROVE  ChoicesInv'
  BY <1>5 DEF ChoicesInv, Untouched, FaithfulSaves, fetchVars, savedVars
<1>6. CASE UNCHANGED formVars
  BY <1>5, <1>6 DEF formVars, fetchVars, savedVars
<1>7. CASE AskArgs \/ ArgsAnswered \/ (\E k \in {"start", "stop", "restart"} : BeginTask(k))
           \/ TaskStops \/ TaskStarts \/ EngineMoves \/ Status
  BY <1>5, <1>7 DEF AskArgs, ArgsAnswered, BeginTask, TaskStops, TaskStarts, EngineMoves, Status,
     shownVars, userVars
<1>. QED
  BY <1>1, <1>2, <1>4, <1>6, <1>7 DEF FormNext

(* As long as the user has changed nothing and the stored state could be   *)
(* read, what the last session left on disk stays: no default of the first *)
(* render and no artifact selected by the feed replaces it, for any list   *)
(* of artifacts and any number of engine operations.                       *)
THEOREM ChoicesOutliveTheSession ==
  FormSpec => []SavedChoicesSurvive
<1>1. FormInit => ChoicesInv
  BY ChoicesStart, FormAssumption
<1>2. ChoicesInv /\ [FormNext]_formVars => ChoicesInv'
  BY ChoicesStep, FormAssumption
<1>3. ChoicesInv => SavedChoicesSurvive
  BY DEF ChoicesInv, Untouched, Faithful, SavedChoicesSurvive
<1>. QED
  BY <1>1, <1>2, <1>3, PTL DEF FormSpec

-----------------------------------------------------------------------------
(* Types of the settings. A mask is only where a key does, so that a model or *)
(* a URL is never one; what was merged is a whole record.                  *)
ShownRecords ==
  {c \in [Fields -> Values \cup {SECRET_MASK}] : \A f \in Plain : c[f] \in Values}

PatchTypes(p) ==
  /\ \A f \in DOMAIN p : p[f] \in Values \cup {SECRET_MASK}
  /\ \A f \in DOMAIN p \cap Plain : p[f] \in Values

AskTypes(r) ==
  /\ DOMAIN r = {"kind", "who", "patch", "at", "answer"}
  /\ r.kind \in {"get", "save", "test"} /\ PatchTypes(r.patch)
  /\ r.answer \in ShownRecords \cup {NotFetched}
  /\ r.at = "merged" => r.answer \in ShownRecords
  /\ r.kind = "test" => r.who \in {"test", "retrieve"}

ClientTypes ==
  /\ {engineForm, settings} \subseteq ShownRecords \cup {NotFetched}
  /\ apiKeyDraft \in TypedKeys \cup {Unset} /\ apiDraft \in TypedKeys \cup {Unset}
  /\ primaryDraft \in Values
  /\ DOMAIN pendingPatch \subseteq {"cloudProviderApiKey", "cloudProviderBaseUrl"}
  /\ PatchTypes(pendingPatch)
  /\ probing \subseteq {"test", "retrieve"}

RecordsInv ==
  /\ config \in ShownRecords /\ ClientTypes
  /\ IsFiniteSet(requests) /\ Cardinality(requests) <= MaxRequests
  /\ \A r \in requests : AskTypes(r)
  /\ edits \in 0..MaxSettingsEdits

LEMMA RedactedIsShown == ASSUME NEW c \in ShownRecords PROVE Redacted(c) \in ShownRecords
  BY DEF Redacted, ShownRecords, Secrets, Plain, Fields

LEMMA MergedIsShown ==
  ASSUME NEW c \in ShownRecords, NEW p, PatchTypes(p)
  PROVE  Merged(c, p) \in ShownRecords
  BY DEF Merged, ShownRecords, PatchTypes, Fields

LEMMA PatchedIsShown ==
  ASSUME NEW c \in ShownRecords \cup {NotFetched}, NEW p, PatchTypes(p)
  PROVE  Patched(c, p) \in ShownRecords \cup {NotFetched}
<1>1. CASE c = NotFetched
  <2>1. Patched(c, p) = NotFetched
    BY <1>1 DEF Patched, NotFetched
  <2>. QED  BY <2>1
<1>2. CASE c \in ShownRecords
  BY <1>2 DEF Patched, ShownRecords, PatchTypes, Fields
<1>. QED  BY <1>1, <1>2

(* A request that is sent, that moves on and that is done with.            *)
LEMMA SendTypes ==
  ASSUME RecordsInv, NEW kind \in {"get", "save", "test"}, NEW who, NEW p, PatchTypes(p),
         kind = "test" => who \in {"test", "retrieve"}, Room, Send(NewRequest(kind, who, p))
  PROVE  /\ IsFiniteSet(requests') /\ Cardinality(requests') <= MaxRequests
         /\ \A r \in requests' : AskTypes(r)
<1>1. Cardinality(requests) \in Nat /\ MaxRequests \in Nat
  BY SettingsAssumption, FS_CardinalityType DEF SettingsAssumption, RecordsInv
<1>2. IsFiniteSet(requests') /\ Cardinality(requests') <= MaxRequests
  BY <1>1, FS_AddElement DEF RecordsInv, Room, Send
<1>3. AskTypes(NewRequest(kind, who, p))
  BY DEF AskTypes, NewRequest
<1>. QED  BY <1>2, <1>3 DEF Send, RecordsInv

LEMMA DoneTypes ==
  ASSUME RecordsInv, NEW r \in requests, Done(r)
  PROVE  /\ IsFiniteSet(requests') /\ Cardinality(requests') <= MaxRequests
         /\ \A q \in requests' : AskTypes(q)
<1>1. Cardinality(requests) \in Nat /\ MaxRequests \in Nat
  BY SettingsAssumption, FS_CardinalityType DEF SettingsAssumption, RecordsInv
<1>2. IsFiniteSet(requests') /\ Cardinality(requests') <= MaxRequests
  BY <1>1, FS_RemoveElement DEF RecordsInv, Done
<1>. QED  BY <1>2 DEF Done, RecordsInv

LEMMA MoveTypes ==
  ASSUME RecordsInv, NEW r \in requests, NEW at, NEW given \in ShownRecords \cup {NotFetched},
         at = "merged" => given \in ShownRecords, Moves(r, at, given)
  PROVE  /\ IsFiniteSet(requests') /\ Cardinality(requests') <= MaxRequests
         /\ \A q \in requests' : AskTypes(q)
<1>. DEFINE moved == [r EXCEPT !.at = at, !.answer = given]
            others == requests \ {r}
<1>0. AskTypes(r)
  BY DEF RecordsInv
<1>1. Cardinality(requests) \in Nat /\ MaxRequests \in Nat
  BY SettingsAssumption, FS_CardinalityType DEF SettingsAssumption, RecordsInv
<1>2. IsFiniteSet(others) /\ Cardinality(others) = Cardinality(requests) - 1
  BY FS_RemoveElement DEF RecordsInv
<1>3. requests' = others \cup {moved}
  BY DEF Moves
<1>4. AskTypes(moved)
  BY <1>0 DEF AskTypes
<1>. HIDE DEF moved, others
<1>5. IsFiniteSet(requests') /\ Cardinality(requests') <= MaxRequests
  <2>1. /\ IsFiniteSet(others \cup {moved})
        /\ Cardinality(others \cup {moved})
           = IF moved \in others THEN Cardinality(others) ELSE Cardinality(others) + 1
    BY <1>2, FS_AddElement
  <2>. QED  BY <1>1, <1>2, <1>3, <2>1 DEF RecordsInv
<1>. QED  BY <1>3, <1>4, <1>5 DEF RecordsInv, others

LEMMA FollowTypes ==
  ASSUME {settings, settings'} \subseteq ShownRecords \cup {NotFetched}, primaryDraft \in Values, Follow
  PROVE  primaryDraft' \in Values
<1>1. \A s \in ShownRecords : s["cloudProviderPrimaryModel"] \in Values
  BY DEF ShownRecords, Plain
<1>. QED  BY <1>1 DEF Follow, Values

LEMMA UpdateTypes ==
  ASSUME RecordsInv, NEW p, PatchTypes(p), Room, Update(p), Follow
  PROVE  /\ settings' \in ShownRecords \cup {NotFetched} /\ primaryDraft' \in Values
         /\ IsFiniteSet(requests') /\ Cardinality(requests') <= MaxRequests
         /\ \A r \in requests' : AskTypes(r)
<1>1. settings' \in ShownRecords \cup {NotFetched}
  BY PatchedIsShown DEF Update, RecordsInv, ClientTypes
<1>2. primaryDraft' \in Values
  BY <1>1, FollowTypes DEF RecordsInv, ClientTypes
<1>. QED  BY <1>1, <1>2, SendTypes DEF Update

LEMMA EditIsCounted == ASSUME RecordsInv, SettingsEdit PROVE edits' \in 0..MaxSettingsEdits
  BY SettingsAssumption DEF SettingsAssumption, RecordsInv, SettingsEdit

LEMMA EngineTabTypes == ASSUME RecordsInv, EngineTabStep PROVE RecordsInv'
<1>. USE DEF RecordsInv, ClientTypes, clientVars
<1>0. engineForm # NotFetched => engineForm \in ShownRecords
  OBVIOUS
<1>1. CASE FormFromStatus
  BY <1>1, RedactedIsShown DEF FormFromStatus
<1>2. CASE ShowEngineTab
  <2>1. PatchTypes(NoPatch)
    BY DEF PatchTypes, NoPatch, NotFetched
  <2>. QED  BY <1>2, <2>1, SendTypes, EditIsCounted DEF ShowEngineTab
<1>3. CASE SaveForm
  <2>1. PatchTypes(SavedForm)
    BY <1>0, <1>3 DEF SaveForm, PatchTypes, SavedForm, ShownRecords, Plain, Secrets, Fields, Values
  <2>. QED  BY <1>3, <2>1, SendTypes, EditIsCounted DEF SaveForm
<1>4. CASE ClearEngineKey
  <2>1. PatchTypes([f \in {"apiKey"} |-> Unset])
    BY DEF PatchTypes, Values
  <2>. QED  BY <1>4, <2>1, SendTypes, EditIsCounted DEF ClearEngineKey
<1>5. ASSUME NEW v \in Texts, SetFormField(v) PROVE RecordsInv'
  <2>1. engineForm' \in ShownRecords
    BY <1>0, <1>5 DEF SetFormField, ShownRecords, Values, Plain, Fields
  <2>. QED  BY <1>5, <2>1, EditIsCounted DEF SetFormField
<1>6. ASSUME NEW v \in Texts, UseAndPull(v) PROVE RecordsInv'
  <2>1. PatchTypes([f \in {"ninferPath"} |-> v])
    BY DEF PatchTypes, Values
  <2>. QED  BY <1>6, <2>1, SendTypes, EditIsCounted DEF UseAndPull
<1>7. ASSUME NEW k \in TypedKeys, TypeEngineKey(k) PROVE RecordsInv'
  BY <1>7, EditIsCounted DEF TypeEngineKey
<1>. QED  BY <1>1, <1>2, <1>3, <1>4, <1>5, <1>6, <1>7 DEF EngineTabStep

LEMMA CloudTabTypes == ASSUME RecordsInv, CloudTabStep PROVE RecordsInv'
<1>. USE DEF RecordsInv, ClientTypes
<1>0. PatchTypes(NoPatch) /\ DOMAIN NoPatch = {}
  BY DEF PatchTypes, NoPatch, NotFetched
<1>1. CASE DebounceEnds
  BY <1>0, <1>1, UpdateTypes DEF DebounceEnds
<1>2. CASE ClearCloudKey
  <2>1. PatchTypes([f \in {"cloudProviderApiKey"} |-> Unset])
    BY DEF PatchTypes, Values
  <2>. QED  BY <1>2, <2>1, UpdateTypes, EditIsCounted DEF ClearCloudKey
<1>3. CASE SaveModels
  <2>1. PatchTypes([f \in {"cloudProviderPrimaryModel"} |-> primaryDraft])
    BY DEF PatchTypes
  <2>. QED  BY <1>3, <2>1, UpdateTypes, EditIsCounted DEF SaveModels
<1>4. ASSUME NEW k \in TypedKeys \cup {Unset}, TypeCloudKey(k) PROVE RecordsInv'
  <2>1. PatchTypes([f \in {"cloudProviderApiKey"} |-> k])
    BY DEF PatchTypes, Values
  <2>. QED  BY <1>4, <2>1, EditIsCounted DEF TypeCloudKey, Debounce
<1>5. ASSUME NEW v \in Texts, TypeBaseUrl(v) PROVE RecordsInv'
  <2>1. PatchTypes([f \in {"cloudProviderBaseUrl"} |-> v])
    BY DEF PatchTypes, Values
  <2>. QED  BY <1>5, <2>1, EditIsCounted DEF TypeBaseUrl, Debounce
<1>6. ASSUME NEW v \in Texts, PickModel(v) PROVE RecordsInv'
  BY <1>6, EditIsCounted DEF PickModel, Values
<1>7. ASSUME NEW p \in Presets, ApplyProvider(p) PROVE RecordsInv'
  <2>1. PatchTypes([f \in {"cloudProviderBaseUrl", "cloudProviderPrimaryModel"} |-> p])
    BY DEF PatchTypes, Values
  <2>. QED  BY <1>0, <1>7, <2>1, UpdateTypes, EditIsCounted DEF ApplyProvider
<1>8. ASSUME NEW button \in {"test", "retrieve"}, Probe(button) PROVE RecordsInv'
  <2>1. PatchTypes([f \in {"cloudProviderApiKey"} |-> apiDraft])
    BY DEF PatchTypes, Values, Plain
  <2>. QED  BY <1>8, <2>1, SendTypes, EditIsCounted DEF Probe
<1>. QED  BY <1>1, <1>2, <1>3, <1>4, <1>5, <1>6, <1>7, <1>8 DEF CloudTabStep

LEMMA AnswerTypes ==
  ASSUME RecordsInv, NEW r \in requests,
         \/ GetConfig(r) \/ MergeConfig(r) \/ PersistConfig(r) \/ TestCloud(r)
         \/ AnswerForm(r) \/ AnswerPanel(r) \/ AnswerProbe(r) \/ RequestFails(r)
  PROVE  RecordsInv'
<1>. USE DEF RecordsInv, ClientTypes
<1>0. AskTypes(r)
  OBVIOUS
<1>1. CASE GetConfig(r)
  BY <1>1, RedactedIsShown, MoveTypes DEF GetConfig, clientVars
<1>2. CASE MergeConfig(r)
  BY <1>0, <1>2, MergedIsShown, MoveTypes DEF MergeConfig, clientVars, AskTypes
<1>3. CASE PersistConfig(r)
  BY <1>0, <1>3, RedactedIsShown, MoveTypes DEF PersistConfig, clientVars, AskTypes
<1>4. CASE TestCloud(r)
  BY <1>4, MoveTypes DEF TestCloud, clientVars
<1>5. CASE AnswerForm(r)
  BY <1>0, <1>5, DoneTypes DEF AnswerForm, AskTypes
<1>6. CASE AnswerPanel(r)
  <2>1. settings' \in ShownRecords \cup {NotFetched}
    BY <1>0, <1>6 DEF AnswerPanel, AskTypes
  <2>. QED  BY <1>6, <2>1, DoneTypes, FollowTypes DEF AnswerPanel
<1>7. CASE AnswerProbe(r)
  BY <1>7, DoneTypes DEF AnswerProbe
<1>8. CASE RequestFails(r)
  BY <1>8, DoneTypes, MoveTypes DEF RequestFails, clientVars
<1>. QED  BY <1>1, <1>2, <1>3, <1>4, <1>5, <1>6, <1>7, <1>8

LEMMA RecordsStart == ASSUME SettingsInit PROVE RecordsInv
<1>. DEFINE ask(who) == NewRequest("get", who, NoPatch)
<1>1. PatchTypes(NoPatch) /\ DOMAIN NoPatch = {}
  BY DEF PatchTypes, NoPatch, NotFetched
<1>2. \A r \in requests : AskTypes(r)
  BY <1>1 DEF SettingsInit, AskTypes, NewRequest
<1>3. IsFiniteSet(requests) /\ Cardinality(requests) <= MaxRequests
  <2>1. requests = ({} \cup {ask("form")}) \cup {ask("panel")}
    BY DEF SettingsInit
  <2>. HIDE DEF ask
  <2>2. IsFiniteSet({} \cup {ask("form")}) /\ Cardinality({} \cup {ask("form")}) = 1
    BY FS_EmptySet, FS_AddElement
  <2>3. IsFiniteSet(requests) /\ Cardinality(requests) \in {1, 2}
    BY <2>1, <2>2, FS_AddElement
  <2>. QED  BY <2>3, SettingsAssumption DEF SettingsAssumption
<1>4. config \in ShownRecords
  BY DEF SettingsInit, ShownRecords, Values, Plain, Fields, Secrets
<1>5. ClientTypes /\ edits \in 0..MaxSettingsEdits
  BY <1>1, SettingsAssumption DEF SettingsInit, ClientTypes, SettingsAssumption, Values
<1>. QED  BY <1>2, <1>3, <1>4, <1>5 DEF RecordsInv

LEMMA RecordsStay == ASSUME RecordsInv, [SettingsNext]_settingsVars PROVE RecordsInv'
<1>1. CASE UNCHANGED settingsVars
  BY <1>1 DEF settingsVars, clientVars, RecordsInv, ClientTypes
<1>. QED  BY <1>1, EngineTabTypes, CloudTabTypes, AnswerTypes DEF SettingsNext

LEMMA RecordsInvTypes == RecordsInv => SettingsTypeOK
<1>. SUFFICES ASSUME RecordsInv PROVE SettingsTypeOK
  OBVIOUS
<1>1. ShownRecords \cup {NotFetched} \subseteq Records
  BY DEF ShownRecords, Records
<1>. QED  BY <1>1 DEF RecordsInv, ClientTypes, AskTypes, ShownRecords, SettingsTypeOK
-----------------------------------------------------------------------------
(* Types of the engine form, whatever is done in it: it may store what was *)
(* there before any form was.                                              *)
StoredStates ==
  [profile : Profile \cup {NotStored}, artifact : InCatalog \cup {NoArtifact}, saved : SUBSET {"named"}]
SaveTypes == [whole : BOOLEAN, of : FormStates]
EngineIs == {"down", "starting", "up", "leaving"}

FormInv ==
  /\ form \in FormStates /\ {stored, lastSession} \subseteq StoredStates
  /\ formSaves \in Seq(SaveTypes)
  /\ profileGet \in {"open", "served", "over", "failed"}
  /\ hydrated \in BOOLEAN /\ (hydrated <=> profileGet \in {"over", "failed"})
  /\ argsSeq \in Nat \ {0} /\ \A k \in asks : k.seq \in 1..argsSeq
  /\ DOMAIN engine = {"is", "runs"} /\ engine.is \in EngineIs
  /\ DOMAIN task = {"kind", "does", "with", "tries"} /\ task.tries \in 0..MaxTries
  /\ saveDue \in BOOLEAN /\ argsDue \in BOOLEAN /\ feedSeen \in BOOLEAN /\ userActed \in BOOLEAN

(* What a render leaves of a form, and of the questions asked about it.    *)
LEMMA RenderTypes ==
  ASSUME FormInv, NEW f \in FormStates, NEW ld \in BOOLEAN, NEW fd \in BOOLEAN, ShowForm(f, ld, fd)
  PROVE  /\ form' \in FormStates /\ hydrated' = ld /\ saveDue' \in BOOLEAN
        /\ argsDue' \in BOOLEAN /\ feedSeen' \in BOOLEAN
         /\ argsSeq' \in Nat \ {0} /\ argsSeq <= argsSeq'
<1>1. form' \in FormStates
  BY RenderedIsFaithful, FormAssumption DEF ShowForm
<1>2. hydrated' = ld /\ saveDue' \in BOOLEAN /\ feedSeen' \in BOOLEAN
  BY DEF ShowForm
<1>3. (argsSeq' = argsSeq + 1 /\ argsDue' = TRUE) \/ UNCHANGED <<argsSeq, argsDue>>
  BY Zenon DEF ShowForm
<1>4. argsDue' \in BOOLEAN
  BY <1>3, Zenon DEF FormInv
<1>5. argsSeq' \in Nat \ {0} /\ argsSeq <= argsSeq'
  <2>1. argsSeq' = argsSeq + 1 \/ argsSeq' = argsSeq
    BY <1>3
  <2>2. argsSeq \in Nat /\ argsSeq # 0
    BY DEF FormInv
  <2>. QED  BY <2>1, <2>2
<1>. QED  BY <1>1, <1>2, <1>4, <1>5

LEMMA FormEdits ==
  ASSUME FormInv, NEW f \in FormStates, Edit(f)
  PROVE  FormInv'
<1>1. hydrated \in BOOLEAN /\ feedSeen \in BOOLEAN
  BY DEF FormInv
<1>2. /\ form' \in FormStates /\ hydrated' = hydrated /\ saveDue' \in BOOLEAN
        /\ argsDue' \in BOOLEAN /\ feedSeen' \in BOOLEAN
      /\ argsSeq' \in Nat \ {0} /\ argsSeq <= argsSeq'
  BY <1>1, RenderTypes DEF Edit
<1>. QED
  BY <1>2 DEF Edit, FormInv, fetchVars, savedVars, verdictVars, powerVars

LEMMA FormFetches ==
  ASSUME FormInv, ServeProfile \/ Hydrate \/ HydrateFails \/ FeedArrives
  PROVE  FormInv'
<1>. USE DEF shownVars, fetchVars, savedVars, verdictVars, powerVars, userVars
<1>1. CASE ServeProfile
  BY <1>1 DEF ServeProfile, FormInv
<1>2. CASE Hydrate
  <2>1. PICK f : f = [profile |-> IF lastSession.profile = NotStored THEN DefaultPreset
                                  ELSE lastSession.profile,
               artifact |-> IF lastSession.artifact = NoArtifact THEN form.artifact
                            ELSE lastSession.artifact,
               saved |-> lastSession.saved]
    OBVIOUS
  <2>2. DefaultPreset \in Profile
    BY DEF DefaultPreset, Profile
  <2>3. f \in FormStates
    BY <2>1, <2>2 DEF FormInv, FormStates, StoredStates
  <2>4. feedSeen \in BOOLEAN
    BY DEF FormInv
  <2>5. ShowForm(f, TRUE, feedSeen)
    BY <1>2, <2>1 DEF Hydrate
  <2>6. /\ form' \in FormStates /\ hydrated' = TRUE /\ saveDue' \in BOOLEAN
        /\ argsDue' \in BOOLEAN /\ feedSeen' \in BOOLEAN
        /\ argsSeq' \in Nat \ {0} /\ argsSeq <= argsSeq'
    BY <2>3, <2>4, <2>5, RenderTypes
  <2>. QED  BY <1>2, <2>6 DEF Hydrate, FormInv
<1>3. CASE HydrateFails
  <2>1. /\ form' \in FormStates /\ hydrated' = TRUE /\ saveDue' \in BOOLEAN
        /\ argsDue' \in BOOLEAN /\ feedSeen' \in BOOLEAN
        /\ argsSeq' \in Nat \ {0} /\ argsSeq <= argsSeq'
    BY <1>3, RenderTypes DEF HydrateFails, FormInv
  <2>. QED  BY <1>3, <2>1 DEF HydrateFails, FormInv
<1>4. CASE FeedArrives
  <2>1. /\ form' \in FormStates /\ hydrated' = hydrated /\ saveDue' \in BOOLEAN
        /\ argsDue' \in BOOLEAN /\ feedSeen' \in BOOLEAN
        /\ argsSeq' \in Nat \ {0} /\ argsSeq <= argsSeq'
    BY <1>4, RenderTypes DEF FeedArrives, FormInv
  <2>. QED  BY <1>4, <2>1 DEF FeedArrives, FormInv
<1>. QED  BY <1>1, <1>2, <1>3, <1>4

LEMMA FormSaveSteps ==
  ASSUME FormInv, AutoSave \/ SaveLands \/ \E a \in InCatalog : LaunchElsewhere(a)
  PROVE  FormInv'
<1>. USE DEF shownVars, fetchVars, savedVars, verdictVars, powerVars, userVars
<1>1. CASE AutoSave
  <2>1. formSaves' \in Seq(SaveTypes)
    BY <1>1, AppendProperties DEF AutoSave, FormInv, SaveTypes
  <2>. QED  BY <1>1, <2>1 DEF AutoSave, FormInv
<1>2. CASE SaveLands
  <2>1. Head(formSaves) \in SaveTypes /\ formSaves' \in Seq(SaveTypes)
    BY <1>2, HeadTailProperties DEF SaveLands, FormInv
  <2>2. stored' \in StoredStates
    <3>1. PICK s : s = Head(formSaves)
      OBVIOUS
    <3>2. s.of \in StoredStates
      BY <2>1, <3>1 DEF SaveTypes, FormStates, StoredStates
    <3>3. stored' \in {stored, s.of, [stored EXCEPT !.artifact = s.of.artifact]}
      BY <1>2, <3>1 DEF SaveLands
    <3>4. [stored EXCEPT !.artifact = s.of.artifact] \in StoredStates
      BY <3>2 DEF FormInv, StoredStates
    <3>. QED  BY <3>2, <3>3, <3>4 DEF FormInv
  <2>3. UNCHANGED <<shownVars, fetchVars, verdictVars, powerVars, userVars>>
    BY <1>2 DEF SaveLands
  <2>. QED  BY <2>1, <2>2, <2>3 DEF FormInv
<1>3. ASSUME NEW a \in InCatalog, LaunchElsewhere(a) PROVE FormInv'
  <2>1. [whole |-> FALSE, of |-> [form EXCEPT !.artifact = a]] \in SaveTypes
    BY DEF FormInv, FormStates, SaveTypes
  <2>2. formSaves' \in Seq(SaveTypes)
    BY <1>3, <2>1, AppendProperties DEF LaunchElsewhere, FormInv
  <2>. QED  BY <1>3, <2>2 DEF LaunchElsewhere, FormInv
<1>. QED  BY <1>1, <1>2, <1>3

LEMMA FormUser ==
  ASSUME FormInv, \/ SetField \/ PickArtifact \/ ApplyPreset \/ SaveCurrent
                  \/ LoadNamed \/ DeleteNamed
  PROVE  FormInv'
<1>0. form \in FormStates
  BY DEF FormInv
<1>1. ASSUME NEW d \in BOOLEAN, Edit([form EXCEPT !.profile = [from |-> "user", drafts |-> d]])
      PROVE  FormInv'
  BY <1>0, <1>1, FormEdits DEF FormStates, Profile
<1>2. ASSUME NEW a \in InCatalog, Edit([form EXCEPT !.artifact = a]) PROVE FormInv'
  BY <1>0, <1>2, FormEdits DEF FormStates
<1>3. CASE ApplyPreset
  BY <1>0, <1>3, FormEdits DEF ApplyPreset, FormStates, Profile, DefaultPreset
<1>4. CASE SaveCurrent
  BY <1>0, <1>4, FormEdits DEF SaveCurrent, FormStates
<1>5. CASE LoadNamed
  BY <1>0, <1>5, FormEdits DEF LoadNamed, FormStates, Profile
<1>6. CASE DeleteNamed
  BY <1>0, <1>6, FormEdits DEF DeleteNamed, FormStates
<1>. QED  BY <1>1, <1>2, <1>3, <1>4, <1>5, <1>6 DEF SetField, PickArtifact

LEMMA FormAsks == ASSUME FormInv, AskArgs \/ ArgsAnswered PROVE FormInv'
<1>1. CASE AskArgs
  <2>1. argsDue' = FALSE /\ asks' = asks \cup {[seq |-> argsSeq, of |-> Settings]}
        /\ UNCHANGED <<form, hydrated, feedSeen, saveDue, argsSeq, fetchVars, savedVars, powerVars,
                      userVars>>
    BY <1>1 DEF AskArgs
  <2>2. \A k \in asks' : k.seq \in 1..argsSeq'
    BY <2>1 DEF FormInv
  <2>. QED  BY <2>1, <2>2 DEF FormInv, fetchVars, savedVars, powerVars, userVars
<1>2. CASE ArgsAnswered
  BY <1>2 DEF ArgsAnswered, FormInv, shownVars, fetchVars, savedVars, powerVars, userVars
<1>. QED  BY <1>1, <1>2

LEMMA FormPowers ==
  ASSUME FormInv, \/ \E k \in {"start", "stop", "restart"} : BeginTask(k)
                  \/ TaskStops \/ TaskStarts \/ EngineMoves \/ Status
  PROVE  FormInv'
<1>. USE DEF shownVars, fetchVars, savedVars, verdictVars, userVars
<1>0. MaxTries \in Nat
  BY FormAssumption DEF FormAssumption
<1>1. ASSUME NEW k \in {"start", "stop", "restart"}, BeginTask(k) PROVE FormInv'
  BY <1>0, <1>1 DEF BeginTask, FormInv
<1>2. CASE TaskStops
  <2>1. DOMAIN engine' = {"is", "runs"} /\ engine'.is \in EngineIs
    BY <1>2 DEF TaskStops, FormInv, EngineIs
  <2>2. DOMAIN task' = {"kind", "does", "with", "tries"} /\ task'.tries \in 0..MaxTries
    BY <1>0, <1>2 DEF TaskStops, FormInv, NoTask
  <2>. QED  BY <1>2, <2>1, <2>2 DEF TaskStops, FormInv
<1>3. CASE TaskStarts
  <2>1. DOMAIN engine' = {"is", "runs"} /\ engine'.is \in EngineIs
    BY <1>3 DEF TaskStarts, FormInv, EngineIs
  <2>2. DOMAIN task' = {"kind", "does", "with", "tries"} /\ task'.tries \in 0..MaxTries
    BY <1>0, <1>3 DEF TaskStarts, FormInv, NoTask
  <2>. QED  BY <1>3, <2>1, <2>2 DEF TaskStarts, FormInv
<1>4. CASE EngineMoves
  <2>1. DOMAIN engine' = {"is", "runs"} /\ engine'.is \in EngineIs
    BY <1>4 DEF EngineMoves, FormInv, EngineIs
  <2>. QED  BY <1>4, <2>1 DEF EngineMoves, FormInv
<1>5. CASE Status
  BY <1>5 DEF Status, FormInv
<1>. QED  BY <1>1, <1>2, <1>3, <1>4, <1>5

LEMMA FormStarts == ASSUME FormInit PROVE FormInv
<1>1. MaxTries \in Nat /\ Artifacts[1] \in InCatalog
  BY FormAssumption, ArtifactsListed DEF FormAssumption
<1>2. form \in FormStates
  BY DEF FormInit, FormStates, Profile, DefaultPreset
<1>3. stored \in StoredStates /\ lastSession = stored
  <2>1. LeftStates \subseteq StoredStates
    <3>1. PICK last, none, named : /\ last = [from |-> "last", drafts |-> TRUE]
                                   /\ none = NotStored /\ named = {{"named"}}
      OBVIOUS
    <3>2. last \in Profile /\ named \subseteq SUBSET {"named"}
      BY <3>1 DEF Profile
    <3>3. [profile |-> none, artifact |-> NoArtifact, saved |-> {}] \in StoredStates
      BY <3>1 DEF StoredStates
    <3>4. \A x \in [profile : {last}, artifact : {NoArtifact, Artifacts[1]}, saved : named] :
            x \in StoredStates
      BY <1>1, <3>2 DEF StoredStates
    <3>. QED  BY <3>1, <3>3, <3>4 DEF LeftStates
  <2>. QED  BY <2>1 DEF FormInit, LeftStates
<1>4. formSaves \in Seq(SaveTypes)
  BY DEF FormInit
<1>5. DOMAIN engine = {"is", "runs"} /\ engine.is \in EngineIs
  BY DEF FormInit, EngineIs
<1>6. DOMAIN task = {"kind", "does", "with", "tries"} /\ task.tries \in 0..MaxTries
  BY <1>1 DEF FormInit, NoTask
<1>7. argsSeq = 1 /\ asks = {} /\ profileGet = "open" /\ hydrated = FALSE /\ saveDue = FALSE
      /\ argsDue = TRUE /\ feedSeen = FALSE /\ userActed = FALSE
  BY DEF FormInit
<1>8. hydrated \in BOOLEAN /\ (hydrated <=> profileGet \in {"over", "failed"})
  BY <1>7
<1>9. saveDue \in BOOLEAN /\ argsDue \in BOOLEAN /\ feedSeen \in BOOLEAN /\ userActed \in BOOLEAN
  BY <1>7, Zenon
<1>10. argsSeq \in Nat \ {0} /\ \A k \in asks : k.seq \in 1..argsSeq
  BY <1>7
<1>. QED  BY <1>2, <1>3, <1>4, <1>5, <1>6, <1>7, <1>8, <1>9, <1>10 DEF FormInv

LEMMA FormStays == ASSUME FormInv, [FormNext]_formVars PROVE FormInv'
<1>1. CASE UNCHANGED formVars
  BY <1>1 DEF formVars, FormInv
<1>. QED
  BY <1>1, FormFetches, FormSaveSteps, FormUser, FormAsks, FormPowers DEF FormNext

LEMMA FormInvTypes == FormInv => FormTypeOK
<1>1. FormInv => hydrated = (profileGet \in {"over", "failed"})
  <2>. SUFFICES ASSUME FormInv PROVE hydrated = (profileGet \in {"over", "failed"})
    OBVIOUS
  <2>1. hydrated = TRUE \/ hydrated = FALSE
    BY DEF FormInv
  <2>2. hydrated <=> profileGet \in {"over", "failed"}
    BY DEF FormInv
  <2>3. CASE profileGet \in {"over", "failed"}
    BY <2>1, <2>2, <2>3, Zenon
  <2>4. CASE profileGet \notin {"over", "failed"}
    BY <2>1, <2>2, <2>4, Zenon
  <2>. QED  BY <2>3, <2>4
<1>. QED  BY <1>1 DEF FormInv, FormStates, StoredStates, EngineIs, FormTypeOK
-----------------------------------------------------------------------------
(* Types of a child run and its call.                                      *)
LEMMA ChildInvTypes == ChildInv => AttachTypeOK
<1>. SUFFICES ASSUME ChildInv PROVE AttachTypeOK
  OBVIOUS
<1>1. ChildTypes
  BY DEF ChildInv
<1>2. childRun.status \in {"none", "live"} \cup Ended /\ childRun.asks \in 0..MaxAsks
      /\ childRun.asking \in 0..MaxAsks /\ childRun.asking <= childRun.asks
  BY <1>1 DEF ChildTypes, RunTypes
<1>3. childRun.asking \in 0..childRun.asks
  BY <1>2, AttachAssumption DEF AttachAssumption
<1>4. /\ childCall.pc \in {"idle", "starting", "poll", "last", "over"} \cup Following
      /\ childCall.result \in {"none", "aborted", "failed", "budget", "findings"}
  BY <1>1 DEF ChildTypes, CallTypes
<1>. QED  BY <1>1, <1>2, <1>3, <1>4 DEF ChildTypes, AttachTypeOK
-----------------------------------------------------------------------------
(* Types of the editor's tabs: the active one is open, and what is         *)
(* remembered is of other workspaces, each of them once.                   *)
HasTab(row, id) == id = NoTab \/ \E t \in Range(row) : t.id = id
Apart(ss) == \A i, j \in DOMAIN ss : ss[i].ws = ss[j].ws => i = j

ActiveInv ==
  /\ HasTab(tabs, activeTab)
  /\ \A s \in Range(snaps) : s.ws # tabWs /\ HasTab(s.tabs, s.active)
  /\ Apart(snaps)

SameIds(row, fresh) ==
  DOMAIN fresh = DOMAIN row /\ \A i \in DOMAIN row : fresh[i].id = row[i].id

LEMMA SameIdsHave ==
  ASSUME NEW row, NEW fresh, SameIds(row, fresh), NEW id, HasTab(row, id)
  PROVE  HasTab(fresh, id)
  BY DEF SameIds, HasTab, Range

(* Steps after which the tabs are those there were.                        *)
LEMMA IdsStay ==
  ASSUME ActiveInv, SameIds(tabs, tabs'), UNCHANGED <<activeTab, viewVars>>
  PROVE  ActiveInv'
<1>1. HasTab(tabs', activeTab')
  BY SameIdsHave DEF ActiveInv
<1>. QED  BY <1>1 DEF ActiveInv, viewVars

LEMMA PatchKeepsIds ==
  ASSUME NEW id, NEW new, tabs' = PatchTab(id, new) \/ tabs' = PushDocTab(id, new),
         (\E t \in Range(tabs) : t.id = id) => "id" \in DOMAIN new /\ new.id = id
  PROVE  SameIds(tabs, tabs')
<1>1. Replaced(tabs, tabs', id, new)
  BY PatchReplaces
<1>2. ASSUME NEW i \in DOMAIN tabs, tabs[i].id = id PROVE tabs'[i].id = id
  <2>1. "id" \in DOMAIN new /\ new.id = id
    BY <1>2 DEF Range
  <2>2. PICK remount : tabs'[i] = Painted(tabs[i], new, remount)
    BY <1>1, <1>2 DEF Replaced
  <2>. QED  BY <2>1, <2>2 DEF Painted
<1>. QED  BY <1>1, <1>2 DEF Replaced, SameIds

(* What becomes of a tab keeps its id.                                     *)
LEMMA TabOfId ==
  ASSUME TabsInv, NEW id, \E t \in Range(tabs) : t.id = id
  PROVE  "id" \in DOMAIN TabOf(id) /\ TabOf(id).id = id
<1>1. PICK of \in [1..opens -> Files] : OwnView(of)
  BY DEF TabsInv
<1>2. PICK t : t = TabOf(id)
  OBVIOUS
<1>3. t \in TabOn(tabWs, id, of[id])
  BY <1>1, <1>2, OpenTab DEF OwnView
<1>. QED  BY <1>2, <1>3 DEF TabOn

LEMMA AnsweredId ==
  ASSUME NEW t, NEW r, "id" \in DOMAIN t
  PROVE  "id" \in DOMAIN Answered(t, r) /\ Answered(t, r).id = t.id
<1>1. \A status : LET u == [t EXCEPT !.status = status] IN "id" \in DOMAIN u /\ u.id = t.id
  OBVIOUS
<1>2. "id" \in DOMAIN Adopted(t, r) /\ Adopted(t, r).id = t.id
  BY DEF Adopted
<1>. QED  BY <1>1, <1>2 DEF Answered

LEMMA AnswersKeepActive ==
  ASSUME TabsInv, ActiveInv, NEW r \in reads, ReadAnswer(r) \/ ReadFails(r)
  PROVE  ActiveInv'
<1>0. SameIds(tabs, tabs) /\ UNCHANGED <<activeTab, viewVars>>
  BY DEF SameIds, ReadAnswer, TakeAnswer, ReadFails
<1>1. CASE tabs' = tabs
  BY <1>0, <1>1, IdsStay
<1>2. CASE tabs' = PushDocTab(r.id, Answered(TabOf(r.id), r)) /\ Open(r.id) # {}
  <2>1. SameIds(tabs, tabs')
    BY <1>2, PatchKeepsIds, TabOfId, AnsweredId
  <2>. QED  BY <1>0, <2>1, IdsStay
<1>3. CASE tabs' = PatchTab(r.id, [TabOf(r.id) EXCEPT !.status = IF @ = "loading" THEN "error" ELSE @])
  <2>1. PICK t, new : /\ t = TabOf(r.id)
                      /\ new = [t EXCEPT !.status = IF @ = "loading" THEN "error" ELSE @]
    OBVIOUS
  <2>2. SameIds(tabs, tabs')
    BY <1>3, <2>1, PatchKeepsIds, TabOfId
  <2>. QED  BY <1>0, <2>2, IdsStay
<1>. QED  BY <1>1, <1>2, <1>3 DEF ReadAnswer, TakeAnswer, ReadFails

LEMMA SavesKeepActive ==
  ASSUME TabsInv, ActiveInv, (\E s \in saves : SaveAnswer(s)) \/ \E id : SaveTab(id) \/ KeepMine(id)
  PROVE  ActiveInv'
<1>0. SameIds(tabs, tabs) /\ UNCHANGED <<activeTab, viewVars>>
  BY DEF SameIds, SaveAnswer, TakeSaved, SaveTab, KeepMine
<1>1. CASE tabs' = tabs
  BY <1>0, <1>1, IdsStay
<1>2. ASSUME NEW id, NEW dirty, NEW doc, NEW base,
             tabs' = PatchTab(id, [TabOf(id) EXCEPT !.dirty = dirty, !.doc = doc, !.base = base,
                                                    !.status = "ready"])
      PROVE  ActiveInv'
  <2>1. PICK t, new : /\ t = TabOf(id)
                      /\ new = [t EXCEPT !.dirty = dirty, !.doc = doc, !.base = base, !.status = "ready"]
    OBVIOUS
  <2>2. SameIds(tabs, tabs')
    BY <1>2, <2>1, PatchKeepsIds, TabOfId
  <2>. QED  BY <1>0, <2>2, IdsStay
<1>3. ASSUME NEW id, tabs' = PatchTab(id, [TabOf(id) EXCEPT !.status = "ready"]) PROVE ActiveInv'
  <2>1. PICK t, new : t = TabOf(id) /\ new = [t EXCEPT !.status = "ready"]
    OBVIOUS
  <2>2. SameIds(tabs, tabs')
    BY <1>3, <2>1, PatchKeepsIds, TabOfId
  <2>. QED  BY <1>0, <2>2, IdsStay
<1>4. ASSUME NEW id, SaveTab(id), tabs' # tabs PROVE ActiveInv'
  <2>1. PICK t \in Open(id) : tabs' = PatchTab(id, [t EXCEPT !.dirty = FALSE])
    BY <1>4 DEF SaveTab
  <2>2. PICK of \in [1..opens -> Files] : OwnView(of)
    BY DEF TabsInv
  <2>3. t \in Range(tabs) /\ t.id = id
    BY DEF Open
  <2>4. t \in TabOn(tabWs, t.id, of[t.id])
    BY <2>2, <2>3, RangeTab DEF OwnView
  <2>5. PICK new : new = [t EXCEPT !.dirty = FALSE]
    OBVIOUS
  <2>6. "id" \in DOMAIN new /\ new.id = id
    BY <2>3, <2>4, <2>5 DEF TabOn
  <2>7. SameIds(tabs, tabs')
    BY <2>1, <2>5, <2>6, PatchKeepsIds
  <2>. QED  BY <1>0, <2>7, IdsStay
<1>5. ASSUME NEW s \in saves, SaveAnswer(s) PROVE ActiveInv'
  <2>1. PICK dirty, live, acked :
          tabs' = IF acked THEN PatchTab(s.id, [TabOf(s.id) EXCEPT !.dirty = dirty, !.doc = live,
                                                !.base = s.doc, !.status = "ready"])
                  ELSE tabs
    BY <1>5 DEF SaveAnswer, TakeSaved
  <2>. QED  BY <1>1, <1>2, <2>1
<1>6. ASSUME NEW id, KeepMine(id) PROVE ActiveInv'
  BY <1>3, <1>6 DEF KeepMine
<1>. QED  BY <1>1, <1>4, <1>5, <1>6

LEMMA TypingKeepsActive ==
  ASSUME TabsInv, ActiveInv, NEW id, Type(id)
  PROVE  ActiveInv'
<1>0. PICK of \in [1..opens -> Files] : OwnView(of)
  BY DEF TabsInv
<1>1. PICK x : tabs' = [i \in DOMAIN tabs |->
                 IF tabs[i].id = id THEN [tabs[i] EXCEPT !.dirty = TRUE, !.shown = x] ELSE tabs[i]]
  BY DEF Type
<1>2. \A i \in DOMAIN tabs : "id" \in DOMAIN tabs[i]
  <2>1. \A i \in DOMAIN tabs : tabs[i] \in TabOn(tabWs, tabs[i].id, of[tabs[i].id])
    BY <1>0, RowTab DEF OwnView
  <2>. QED  BY <2>1 DEF TabOn
<1>3. SameIds(tabs, tabs')
  BY <1>1, <1>2 DEF SameIds
<1>. QED  BY <1>3, IdsStay DEF Type

LEMMA SendsKeepActive ==
  ASSUME ActiveInv, \/ SetActive(NoTab) \/ Flush \/ RefreshOpenTabs \/ Poll
                    \/ \E id \in {t.id : t \in Range(tabs)} : SetActive(id) \/ Reload(id)
                    \/ \E w \in Workspaces, f \in Written : AgentWrites(w, f)
                    \/ UNCHANGED tabsVars
  PROVE  ActiveInv'
<1>1. UNCHANGED <<tabs, snaps, tabWs>>
  BY DEF SetActive, Flush, RefreshOpenTabs, Poll, Reload, AgentWrites, tabsVars, viewVars
<1>2. HasTab(tabs', activeTab')
  BY <1>1 DEF SetActive, Flush, RefreshOpenTabs, Poll, Reload, AgentWrites, tabsVars,
     ActiveInv, HasTab
<1>. QED  BY <1>1, <1>2 DEF ActiveInv

(* A tab is closed: the first of its id goes, and no other.                *)
LEMMA RemovedHas ==
  ASSUME NEW T, NEW row \in Seq(T), NEW p \in DOMAIN row, NEW out, out = RemoveAt(row, p),
         NEW id, HasTab(row, id), id # row[p].id
  PROVE  HasTab(out, id)
<1>1. \A i \in DOMAIN row : i # p => row[i] \in Range(out)
  BY OthersStay
<1>2. CASE id # NoTab
  <2>1. PICK i \in DOMAIN row : row[i].id = id
    BY <1>2 DEF HasTab, Range
  <2>. QED  BY <1>1, <2>1 DEF HasTab
<1>. QED  BY <1>2 DEF HasTab

LEMMA CloseKeepsActive ==
  ASSUME TabsInv, ActiveInv, NEW id, CloseTab(id)
  PROVE  ActiveInv'
<1>0. PICK of \in [1..opens -> Files] : OwnView(of)
  BY DEF TabsInv
<1>1. PICK row, T, at, p : /\ row = tabs /\ T = OwnTabs(tabWs, of) /\ row \in Seq(T)
                           /\ at = {i \in 1..Len(row) : row[i].id = id} /\ p = Min(at)
  BY <1>0 DEF OwnView
<1>2. DOMAIN row = 1..Len(row) /\ Len(row) \in Nat
  BY <1>1, LenProperties
<1>3. at # {} /\ at \in SUBSET Nat
  <2>1. PICK i \in DOMAIN row : row[i].id = id
    BY <1>1 DEF CloseTab, Open, Range
  <2>. QED  BY <1>1, <1>2, <2>1
<1>4. p \in DOMAIN row /\ row[p].id = id
  BY <1>1, <1>2, <1>3, LeastIsMin
<1>5. tabs' = RemoveAt(row, p)
  <2>1. \E i \in 1..Len(row) : row[i].id = id
    BY <1>1, <1>3
  <2>. QED  BY <1>1, <2>1 DEF CloseTab, RemoveFirstMatch, SelectInSeq
<1>6. activeTab' = (IF activeTab = id THEN NoTab ELSE activeTab) /\ UNCHANGED viewVars
  BY DEF CloseTab
<1>7. PICK on : on = activeTab'
  OBVIOUS
<1>8. HasTab(tabs', on)
  <2>1. CASE on = NoTab
    BY <2>1 DEF HasTab
  <2>2. CASE on # NoTab
    <3>1. HasTab(row, on) /\ on # row[p].id
      BY <1>1, <1>4, <1>6, <1>7, <2>2 DEF ActiveInv
    <3>. QED  BY <1>1, <1>4, <1>5, <3>1, RemovedHas
  <2>. QED  BY <2>1, <2>2
<1>. QED  BY <1>6, <1>7, <1>8 DEF ActiveInv, viewVars

LEMMA OpenKeepsActive ==
  ASSUME TabsInv, ActiveInv, NEW f \in Files, OpenFile(f)
  PROVE  ActiveInv'
<1>0. PICK of \in [1..opens -> Files] : OwnView(of)
  BY DEF TabsInv
<1>1. PICK id, new : new = Tab(id, f) /\ tabs' = Append(tabs, new) /\ activeTab' = id
  BY DEF OpenFile
<1>2. UNCHANGED viewVars
  BY DEF OpenFile
<1>3. new.id = id
  BY <1>1 DEF Tab
<1>4. PICK row, out : row = tabs /\ out = Append(row, new)
  OBVIOUS
<1>5. new \in Range(out)
  <2>0. PICK S, T : S = OwnTabs(tabWs, of) /\ T = S \cup {new} /\ row \in Seq(S)
    BY <1>0, <1>4 DEF OwnView
  <2>1. row \in Seq(T) /\ new \in T
    BY <2>0, SeqMonotonic
  <2>2. out \in Seq(T) /\ Len(out) = Len(row) + 1 /\ out[Len(row) + 1] = new
    BY <1>4, <2>1, AppendProperties
  <2>3. Len(row) + 1 \in DOMAIN out
    BY <2>1, <2>2, LenProperties
  <2>. QED  BY <2>2, <2>3 DEF Range
<1>6. HasTab(out, id)
  BY <1>3, <1>5 DEF HasTab
<1>. QED  BY <1>1, <1>2, <1>4, <1>6 DEF ActiveInv, viewVars

(* Workspaces remembered once are remembered once without the oldest, and  *)
(* without the one that is entered, which then is not remembered.          *)
LEMMA RemovedApart ==
  ASSUME NEW T, NEW all \in Seq(T), Apart(all), NEW p \in DOMAIN all
  PROVE  /\ Apart(RemoveAt(all, p))
         /\ \A s \in Range(RemoveAt(all, p)) : s \in Range(all) /\ s.ws # all[p].ws
<1>1. PICK out : out = RemoveAt(all, p)
  OBVIOUS
<1>2. /\ DOMAIN out = 1..(Len(all) - 1) /\ Len(all) \in Nat /\ DOMAIN all = 1..Len(all)
      /\ \A j \in DOMAIN out : out[j] = all[IF j < p THEN j ELSE j + 1]
  BY <1>1, RemovedAt
<1>3. ASSUME NEW j \in DOMAIN out
      PROVE  /\ (IF j < p THEN j ELSE j + 1) \in DOMAIN all \ {p}
             /\ out[j] = all[IF j < p THEN j ELSE j + 1]
  BY <1>2
<1>4. Apart(out)
  <2>1. ASSUME NEW i \in DOMAIN out, NEW j \in DOMAIN out, out[i].ws = out[j].ws PROVE i = j
    <3>1. (IF i < p THEN i ELSE i + 1) = (IF j < p THEN j ELSE j + 1)
      BY <1>3, <2>1 DEF Apart
    <3>. QED  BY <1>2, <3>1
  <2>. QED  BY <2>1 DEF Apart
<1>5. ASSUME NEW j \in DOMAIN out PROVE out[j] \in Range(all) /\ out[j].ws # all[p].ws
  <2>1. PICK i \in DOMAIN all \ {p} : out[j] = all[i]
    BY <1>3
  <2>. QED  BY <2>1 DEF Apart, Range
<1>. QED  BY <1>1, <1>4, <1>5 DEF Range

LEMMA TailApart ==
  ASSUME NEW T, NEW all \in Seq(T), all # <<>>, Apart(all)
  PROVE  Tail(all) \in Seq(T) /\ Apart(Tail(all)) /\ Range(Tail(all)) \subseteq Range(all)
<1>1. PICK out : out = Tail(all)
  OBVIOUS
<1>2. out \in Seq(T) /\ Len(out) = Len(all) - 1 /\ \A i \in 1..Len(out) : out[i] = all[i + 1]
  BY <1>1, HeadTailProperties
<1>3. DOMAIN out = 1..Len(out) /\ DOMAIN all = 1..Len(all) /\ Len(all) \in Nat /\ Len(out) \in Nat
  BY <1>2, LenProperties
<1>4. \A i \in DOMAIN out : i + 1 \in DOMAIN all /\ out[i] = all[i + 1] /\ i \in Nat
  BY <1>2, <1>3
<1>5. Apart(out)
  <2>1. ASSUME NEW i \in DOMAIN out, NEW j \in DOMAIN out, out[i].ws = out[j].ws PROVE i = j
    <3>1. i + 1 = j + 1
      BY <1>4, <2>1 DEF Apart
    <3>. QED  BY <1>4, <3>1
  <2>. QED  BY <2>1 DEF Apart
<1>6. Range(out) \subseteq Range(all)
  BY <1>4 DEF Range
<1>. QED  BY <1>1, <1>2, <1>5, <1>6

LEMMA AddedApart ==
  ASSUME NEW T, NEW ss \in Seq(T), NEW new \in T, Apart(ss), \A s \in Range(ss) : s.ws # new.ws
  PROVE  /\ Append(ss, new) \in Seq(T) /\ Append(ss, new) # <<>> /\ Apart(Append(ss, new))
         /\ Range(Append(ss, new)) = Range(ss) \cup {new}
<1>1. PICK out, n : out = Append(ss, new) /\ n = Len(ss)
  OBVIOUS
<1>2. /\ out \in Seq(T) /\ Len(out) = n + 1 /\ out[n + 1] = new /\ \A i \in 1..n : out[i] = ss[i]
  BY <1>1, AppendProperties
<1>3. DOMAIN out = 1..(n + 1) /\ DOMAIN ss = 1..n /\ n \in Nat
  BY <1>1, <1>2, LenProperties
<1>4. \A i \in DOMAIN out : (i = n + 1 /\ out[i] = new) \/ (i \in DOMAIN ss /\ out[i] = ss[i])
  BY <1>2, <1>3
<1>5. Apart(out)
  <2>1. ASSUME NEW i \in DOMAIN out, NEW j \in DOMAIN out, out[i].ws = out[j].ws PROVE i = j
    <3>1. \A k \in DOMAIN ss : ss[k].ws # new.ws
      BY DEF Range
    <3>. QED  BY <1>4, <2>1, <3>1 DEF Apart
  <2>. QED  BY <2>1 DEF Apart
<1>6. Range(out) = Range(ss) \cup {new}
  <2>1. \A i \in DOMAIN ss : i \in DOMAIN out /\ out[i] = ss[i]
    BY <1>2, <1>3
  <2>2. n + 1 \in DOMAIN out
    BY <1>3
  <2>. QED  BY <1>2, <1>4, <2>1, <2>2 DEF Range
<1>7. out # <<>>
  BY <1>2, <1>3, EmptySeq
<1>. QED  BY <1>1, <1>2, <1>5, <1>6, <1>7

(* What is remembered when a workspace is left.                            *)
LEMMA RememberedApart ==
  ASSUME TabsInv, ActiveInv, NEW of \in [1..opens -> Files], OwnView(of)
  PROVE  /\ Remember \in Seq(Range(Remember)) /\ Apart(Remember)
         /\ \A s \in Range(Remember) : HasTab(s.tabs, s.active) /\ OwnSnap(s, of)
<1>1. PICK row, new, T, long, all :
        /\ row = [i \in DOMAIN tabs |-> Remembered(tabs[i])]
        /\ new = [ws |-> tabWs, tabs |-> row,
                  docs |-> [id \in {t.id : t \in Range(tabs)} |-> LiveDoc(TabOf(id))],
                  active |-> activeTab]
        /\ T = Range(snaps) \cup {new} /\ long = Append(snaps, new)
        /\ all = IF Len(long) > MaxSnapshots THEN Tail(long) ELSE long
  OBVIOUS
<1>2. all = Remember
  BY <1>1 DEF Remember
<1>3. snaps \in Seq(T) /\ new \in T /\ OwnSnap(new, of)
  <2>1. OwnSnap(new, of)
    BY <1>1, RememberedIsOwn DEF OwnView, TabsInv, OwnRest
  <2>. QED  BY <1>1, <2>1, SeqMonotonic DEF OwnView
<1>4. new.ws = tabWs /\ new.tabs = row /\ new.active = activeTab
  BY <1>1
<1>5. long \in Seq(T) /\ long # <<>> /\ Apart(long) /\ Range(long) = Range(snaps) \cup {new}
  <2>1. PICK ss : ss = snaps /\ ss \in Seq(T) /\ Apart(ss)
    BY <1>3 DEF ActiveInv
  <2>2. \A s \in Range(ss) : s.ws # new.ws
    BY <1>4, <2>1 DEF ActiveInv
  <2>3. long = Append(ss, new)
    BY <1>1, <2>1
  <2>. QED  BY <1>3, <2>1, <2>2, <2>3, AddedApart
<1>6. all \in Seq(T) /\ Apart(all) /\ Range(all) \subseteq Range(long)
  BY <1>1, <1>5, TailApart
<1>7. HasTab(new.tabs, new.active)
  <2>1. ASSUME NEW i \in DOMAIN tabs PROVE Remembered(tabs[i]).id = tabs[i].id
    <3>1. PICK t, live : t = tabs[i] /\ live = LiveDoc(t)
      OBVIOUS
    <3>2. t \in TabOn(tabWs, t.id, of[t.id])
      BY <3>1, RowTab DEF OwnView
    <3>3. PICK status, u : /\ u = [t EXCEPT !.doc = live, !.shown = NoText, !.status = status]
                           /\ u = Remembered(t)
      BY <3>1 DEF Remembered
    <3>4. u.id = t.id
      BY <3>2, <3>3 DEF TabOn
    <3>. QED  BY <3>1, <3>3, <3>4
  <2>2. SameIds(tabs, row)
    BY <1>1, <2>1 DEF SameIds
  <2>. QED  BY <1>4, <2>2, SameIdsHave DEF ActiveInv
<1>8. \A s \in Range(all) : HasTab(s.tabs, s.active) /\ OwnSnap(s, of)
  BY <1>3, <1>5, <1>6, <1>7 DEF ActiveInv, OwnView
<1>9. all \in Seq(Range(all))
  <2>1. DOMAIN all = 1..Len(all) /\ Len(all) \in Nat
    BY <1>6, LenProperties
  <2>. QED  BY <1>6, SeqOfItsOwn
<1>. QED  BY <1>2, <1>6, <1>8, <1>9

LEMMA SwitchKeepsActive ==
  ASSUME TabsInv, ActiveInv, NEW w \in Workspaces, SwitchWorkspace(w)
  PROVE  ActiveInv'
<1>0. PICK of \in [1..opens -> Files] : OwnView(of)
  BY DEF TabsInv
<1>1. PICK all, T, rest, at, p :
        /\ all = Remember /\ T = Range(all)
        /\ at = {i \in 1..Len(all) : all[i].ws = w} /\ p = Min(at)
        /\ rest = RemoveFirstMatch(all, LAMBDA s : s.ws = w)
  OBVIOUS
<1>2. /\ tabWs' = w
      /\ IF SnapOf(w, all) = {}
         THEN snaps' = all /\ tabs' = <<>> /\ activeTab' = NoTab
         ELSE Enter(w, CHOOSE s \in SnapOf(w, all) : TRUE, rest)
  BY <1>1 DEF SwitchWorkspace
<1>3. all \in Seq(T) /\ Apart(all) /\ \A s \in T : HasTab(s.tabs, s.active) /\ OwnSnap(s, of)
  BY <1>0, <1>1, RememberedApart
<1>4. DOMAIN all = 1..Len(all) /\ Len(all) \in Nat
  BY <1>3, LenProperties
<1>5. CASE SnapOf(w, all) = {}
  <2>1. \A s \in T : s.ws # w
    BY <1>1, <1>5 DEF SnapOf
  <2>2. T = Range(all)
    BY <1>1
  <2>. QED  BY <1>2, <1>3, <1>5, <2>1, <2>2 DEF ActiveInv, HasTab
<1>6. CASE SnapOf(w, all) # {}
  <2>1. PICK s : s = (CHOOSE x \in SnapOf(w, all) : TRUE)
    OBVIOUS
  <2>2. s \in Range(all) /\ s.ws = w
    BY <1>6, <2>1 DEF SnapOf
  <2>3. tabs' = Restored(s) /\ activeTab' = s.active /\ snaps' = rest
    BY <1>2, <1>6, <2>1 DEF Enter
  <2>4. at # {} /\ at \in SUBSET Nat
    <3>1. PICK i \in DOMAIN all : all[i].ws = w
      BY <2>2 DEF Range
    <3>. QED  BY <1>1, <1>4, <3>1
  <2>5. p \in DOMAIN all /\ all[p].ws = w
    BY <1>1, <1>4, <2>4, LeastIsMin
  <2>6. rest = RemoveAt(all, p)
    <3>1. \E i \in 1..Len(all) : all[i].ws = w
      BY <1>1, <2>4
    <3>. QED  BY <1>1, <3>1 DEF RemoveFirstMatch, SelectInSeq
  <2>7. Apart(rest) /\ \A x \in Range(rest) : x \in T /\ x.ws # w
    <3>1. /\ Apart(RemoveAt(all, p))
          /\ \A x \in Range(RemoveAt(all, p)) : x \in Range(all) /\ x.ws # all[p].ws
      BY <1>3, <2>5, RemovedApart
    <3>. QED  BY <1>1, <2>5, <2>6, <3>1
  <2>8. SameIds(s.tabs, Restored(s))
    <3>1. PICK row, out, blank : /\ row = s.tabs /\ out = Restored(s) /\ blank = Tab(NoTab, "")
                                 /\ row \in Seq(OwnTabs(s.ws, of))
      BY <1>1, <1>3, <2>2 DEF OwnSnap
    <3>2. ASSUME NEW i \in DOMAIN row PROVE Painted(blank, row[i], TRUE).id = row[i].id
      <4>1. PICK t, id, f : t = row[i] /\ id = t.id /\ f = of[id]
        OBVIOUS
      <4>2. t \in TabOn(s.ws, id, f)
        BY <3>1, <4>1, RowTab
      <4>3. PICK q : q = Painted(blank, t, TRUE)
        OBVIOUS
      <4>4. q.id = t.id
        BY <4>2, <4>3 DEF Painted, TabOn
      <4>. QED  BY <4>1, <4>3, <4>4
    <3>3. DOMAIN out = DOMAIN row /\ \A i \in DOMAIN row : out[i] = Painted(blank, row[i], TRUE)
      BY <3>1 DEF Restored
    <3>. QED  BY <3>1, <3>2, <3>3 DEF SameIds
  <2>9. HasTab(Restored(s), s.active)
    BY <1>1, <1>3, <2>2, <2>8, SameIdsHave
  <2>. QED  BY <1>2, <1>3, <2>3, <2>7, <2>9 DEF ActiveInv
<1>. QED  BY <1>5, <1>6

LEMMA ActiveStarts ==
  ASSUME TabsInit
  PROVE  ActiveInv
  BY DEF TabsInit, ActiveInv, HasTab, Apart, Range

LEMMA ActiveStays ==
  ASSUME TabsInv, ActiveInv, [TabsNext]_tabsVars
  PROVE  ActiveInv'
<1>1. ASSUME NEW id \in {t.id : t \in Range(tabs)}, UserStep(id)
      PROVE  ActiveInv'
  BY <1>1, SendsKeepActive, CloseKeepsActive, TypingKeepsActive, SavesKeepActive DEF UserStep
<1>2. ASSUME NEW r \in reads, ReadAnswer(r) \/ ReadFails(r) PROVE ActiveInv'
  BY <1>2, AnswersKeepActive
<1>3. ASSUME NEW f \in Files, OpenFile(f) PROVE ActiveInv'
  BY <1>3, OpenKeepsActive
<1>4. ASSUME NEW w \in Workspaces, SwitchWorkspace(w) PROVE ActiveInv'
  BY <1>4, SwitchKeepsActive
<1>5. CASE \/ SetActive(NoTab) \/ Flush \/ RefreshOpenTabs \/ Poll \/ UNCHANGED tabsVars
           \/ \E w \in Workspaces, f \in Written : AgentWrites(w, f)
  BY <1>5, SendsKeepActive
<1>6. CASE \E s \in saves : SaveAnswer(s)
  BY <1>6, SavesKeepActive
<1>. QED  BY <1>1, <1>2, <1>3, <1>4, <1>5, <1>6 DEF TabsNext

LEMMA TabsInvTypes ==
  ASSUME TabsInv, UserInv, ActiveInv
  PROVE  TabsTypeOK
<1>0. PICK of \in [1..opens -> Files] : OwnView(of)
  BY DEF TabsInv
<1>1. ASSUME NEW t \in Range(tabs)
      PROVE  /\ t.id \in 1..opens /\ t.file \in Files /\ t.status \in Statuses
             /\ t.dirty \in BOOLEAN /\ t.truncated \in BOOLEAN
  <2>1. t.id \in DOMAIN of /\ t \in TabOn(tabWs, t.id, of[t.id])
    BY <1>0, <1>1, RangeTab DEF OwnView
  <2>2. t.file = of[t.id] /\ t.dirty \in BOOLEAN /\ t.truncated \in BOOLEAN /\ t.status \in Statuses
    BY <2>1, TabFields
  <2>. QED  BY <1>0, <2>1, <2>2
<1>2. \A t \in Range(tabs) : {t.dirty, t.truncated} \subseteq BOOLEAN
  BY <1>1
<1>3. activeTab \in {NoTab} \cup {t.id : t \in Range(tabs)}
  BY DEF ActiveInv, HasTab
<1>4. DOMAIN docs \subseteq 1..opens
  BY <1>0 DEF OwnView, OwnDocs
<1>5. \A s \in Range(snaps) : s.ws \in Workspaces \ {tabWs}
  BY <1>0 DEF OwnView, OwnSnap, ActiveInv
<1>6. {tabWs, tabApplied} \subseteq Workspaces
  BY DEF TabsInv, OwnRest
<1>7. \A i, j \in DOMAIN tabs : tabs[i].id = tabs[j].id => i = j
  BY DEF UserInv, GoodRow
<1>. QED  BY <1>1, <1>2, <1>3, <1>4, <1>5, <1>6, <1>7 DEF TabsTypeOK, Statuses
=============================================================================
