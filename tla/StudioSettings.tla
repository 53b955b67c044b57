--------------------------- MODULE StudioSettings ---------------------------
(***************************************************************************)
(* The settings the control plane keeps, and the two places of the client  *)
(* that edit them: Settings > Engine, a form that is sent as a whole when  *)
(* the user saves it, and Engine > Cloud, where an edit of a text field is *)
(* sent half a second after the last keystroke and any other edit at once. *)
(* The client never holds a stored key. It is shown a mask in its place    *)
(* and sends the mask back for a key the user did not touch.               *)
(*                                                                         *)
(* Requests cross the network and the control plane in any order, and may  *)
(* be lost at every point. Saving reads the stored settings, merges the    *)
(* request into its copy and stores the copy, with no lock across the two. *)
(***************************************************************************)
EXTENDS Naturals, FiniteSets

CONSTANTS
  TypedKeys,          \* what a user types as a key
  Texts,              \* what a user types elsewhere
  Presets,            \* PRESETS: each one's base URL and model
  MaxSettingsEdits,   \* bound: clicks and keystrokes that ask or edit
  MaxRequests         \* bound: requests in flight

(* Both places ask for the settings as they start.                         *)
ASSUME SettingsAssumption == MaxSettingsEdits \in Nat /\ MaxRequests \in Nat \ {0, 1}

Unset == ""
SECRET_MASK == "mask"
Secrets == {"apiKey", "cloudProviderApiKey"}
Plain == {"ninferPath", "cloudProviderBaseUrl", "cloudProviderPrimaryModel"}
Fields == Secrets \cup Plain

NotFetched == [f \in {} |-> Unset]
NoPatch == NotFetched

VARIABLES
  config,       \* state.config: what is stored
  engineForm,   \* EngineTab: the form
  apiKeyDraft,  \* EngineTab: the key field
  settings,     \* EngineScreen: its copy, which the cloud tab shows
  apiDraft,     \* CloudTab: the key field
  primaryDraft, \* CloudTab: the model picked and not saved
  pendingPatch, \* CloudTab: the edit the debounce timer will send
  probing,      \* CloudTab: testing and retrieving
  requests,     \* in flight: who asked for what, and how far it got
  typed,        \* the values a user ever typed into each key field
  presented,    \* the keys the provider was ever shown
  edits         \* counts up to MaxSettingsEdits

clientVars == <<engineForm, apiKeyDraft, settings, apiDraft, primaryDraft, pendingPatch, probing>>
settingsVars == <<config, clientVars, requests, typed, presented, edits>>

(* redact_config: a client is shown the mask of a key that is set.         *)
Redacted(c) ==
  [f \in Fields |-> IF f \in Secrets /\ c[f] # Unset THEN SECRET_MASK ELSE c[f]]

(* Taking the request at its word would store the mask.                    *)
MergedVerbatim(c, patch) ==
  [f \in Fields |-> IF f \in DOMAIN patch THEN patch[f] ELSE c[f]]

(* set_config: the fields the request names, but for a key it only echoes. *)
Merged(c, patch) ==
  [f \in Fields |->
     IF f \in DOMAIN patch /\ ~(f \in Secrets /\ patch[f] = SECRET_MASK) THEN patch[f] ELSE c[f]]

(* resolve_secret: nothing typed stands for the stored key.                *)
Resolved(raw, kept) == IF raw \in {Unset, SECRET_MASK} THEN kept ELSE raw

Patched(record, patch) ==
  [f \in DOMAIN record |-> IF f \in DOMAIN patch THEN patch[f] ELSE record[f]]

NewRequest(kind, who, patch) == [kind |-> kind, who |-> who, patch |-> patch, at |-> "sent", answer |-> NotFetched]
Send(r) == requests' = requests \cup {r}
Room == Cardinality(requests) < MaxRequests
SettingsEdit == edits < MaxSettingsEdits /\ edits' = edits + 1
Moves(r, at, answer) == requests' = (requests \ {r}) \cup {[r EXCEPT !.at = at, !.answer = answer]}
Done(r) == requests' = requests \ {r}

TypesKey(field, v) == typed' = [typed EXCEPT ![field] = @ \cup {v}]
-----------------------------------------------------------------------------
(* EngineScreen asks for the settings once, EngineTab each time it is      *)
(* shown; the first time is at its start.                                  *)
SettingsInit ==
  /\ \E k \in TypedKeys \cup {Unset} :
       /\ config = [f \in Fields |-> IF f = "apiKey" THEN k ELSE Unset]
       /\ typed = [s \in Secrets |-> IF s = "apiKey" THEN {k} \ {Unset} ELSE {}]
  /\ engineForm = NotFetched /\ settings = NotFetched
  /\ apiKeyDraft = Unset /\ apiDraft = Unset /\ primaryDraft = Unset
  /\ pendingPatch = NoPatch
  /\ probing = {}
  /\ requests = {NewRequest("get", "form", NoPatch), NewRequest("get", "panel", NoPatch)}
  /\ presented = {}
  /\ edits = 0

-----------------------------------------------------------------------------
(* Settings > Engine                                                       *)

(* Until it has a form it takes the one the status feed carries.           *)
FormFromStatus ==
  /\ engineForm = NotFetched
  /\ engineForm' = Redacted(config)
  /\ UNCHANGED <<config, apiKeyDraft, settings, apiDraft, primaryDraft, pendingPatch, probing,
                 requests, typed, presented, edits>>

ShowEngineTab ==
  /\ SettingsEdit /\ Room
  /\ Send(NewRequest("get", "form", NoPatch))
  /\ UNCHANGED <<config, clientVars, typed, presented>>

SetFormField(v) ==
  /\ engineForm # NotFetched /\ SettingsEdit
  /\ engineForm["ninferPath"] # v
  /\ engineForm' = [engineForm EXCEPT !["ninferPath"] = v]
  /\ UNCHANGED <<config, apiKeyDraft, settings, apiDraft, primaryDraft, pendingPatch, probing,
                 requests, typed, presented>>

TypeEngineKey(k) ==
  /\ engineForm # NotFetched /\ SettingsEdit
  /\ apiKeyDraft' = k
  /\ TypesKey("apiKey", k)
  /\ UNCHANGED <<config, engineForm, settings, apiDraft, primaryDraft, pendingPatch, probing, requests,
                 presented>>

(* The whole form, with the mask for a key that was not typed anew.        *)
SavedForm ==
  [f \in {"ninferPath", "apiKey"} |->
     IF f = "apiKey" /\ apiKeyDraft # Unset THEN apiKeyDraft ELSE engineForm[f]]

SaveForm ==
  /\ engineForm # NotFetched /\ SettingsEdit /\ Room
  /\ Send(NewRequest("save", "form", SavedForm))
  /\ UNCHANGED <<config, clientVars, typed, presented>>

ClearEngineKey ==
  /\ engineForm # NotFetched /\ SettingsEdit /\ Room
  /\ engineForm["apiKey"] # Unset /\ apiKeyDraft = Unset
  /\ Send(NewRequest("save", "form", [f \in {"apiKey"} |-> Unset]))
  /\ UNCHANGED <<config, clientVars, typed, presented>>

(* With no path set, "pull" asks for one and saves it alone.               *)
UseAndPull(v) ==
  /\ engineForm # NotFetched /\ SettingsEdit /\ Room
  /\ engineForm["ninferPath"] = Unset
  /\ Send(NewRequest("save", "path", [f \in {"ninferPath"} |-> v]))
  /\ UNCHANGED <<config, clientVars, typed, presented>>

-----------------------------------------------------------------------------
(* Engine > Cloud                                                          *)

(* onUpdate: shown at once; what becomes of the request is not looked at.  *)
Update(patch) ==
  /\ settings' = Patched(settings, patch)
  /\ Send(NewRequest("save", "panel", patch))

(* The model picked follows the one in the settings when that one changes. *)
Follow ==
  LET model(s) == IF s = NotFetched THEN Unset ELSE s["cloudProviderPrimaryModel"]
  IN  primaryDraft' = IF model(settings') # model(settings) THEN model(settings') ELSE primaryDraft

(* debouncedOnUpdate keeps the last edit only, of whichever field.         *)
Debounce(patch) == pendingPatch' = patch

TypeCloudKey(k) ==
  /\ settings # NotFetched /\ SettingsEdit
  /\ apiDraft' = k
  /\ TypesKey("cloudProviderApiKey", k)
  /\ Debounce([f \in {"cloudProviderApiKey"} |-> k])
  /\ UNCHANGED <<config, engineForm, apiKeyDraft, settings, primaryDraft, probing, requests, presented>>

(* The base URL, or the extra headers: the field goes on showing what the  *)
(* settings hold until the edit is sent.                                   *)
TypeBaseUrl(v) ==
  /\ settings # NotFetched /\ SettingsEdit
  /\ Debounce([f \in {"cloudProviderBaseUrl"} |-> v])
  /\ UNCHANGED <<config, engineForm, apiKeyDraft, settings, apiDraft, primaryDraft, probing, requests,
                 typed, presented>>

DebounceEnds ==
  /\ pendingPatch # NoPatch /\ Room
  /\ pendingPatch' = NoPatch
  /\ Update(pendingPatch) /\ Follow
  /\ UNCHANGED <<config, engineForm, apiKeyDraft, apiDraft, probing, typed, presented, edits>>

(* A preset stops the timer, and with it the edit that was waiting.        *)
ApplyProvider(p) ==
  /\ settings # NotFetched /\ SettingsEdit /\ Room
  /\ pendingPatch' = NoPatch
  /\ Update([f \in {"cloudProviderBaseUrl", "cloudProviderPrimaryModel"} |-> p])
  /\ Follow
  /\ UNCHANGED <<config, engineForm, apiKeyDraft, apiDraft, probing, typed, presented>>

ClearCloudKey ==
  /\ settings # NotFetched /\ SettingsEdit /\ Room
  /\ settings["cloudProviderApiKey"] # Unset /\ apiDraft = Unset
  /\ Update([f \in {"cloudProviderApiKey"} |-> Unset]) /\ Follow
  /\ UNCHANGED <<config, engineForm, apiKeyDraft, apiDraft, pendingPatch, probing, typed, presented>>

PickModel(v) ==
  /\ settings # NotFetched /\ SettingsEdit
  /\ primaryDraft # v
  /\ primaryDraft' = v
  /\ UNCHANGED <<config, engineForm, apiKeyDraft, settings, apiDraft, pendingPatch, probing, requests,
                 typed, presented>>

SaveModels ==
  /\ settings # NotFetched /\ SettingsEdit /\ Room
  /\ primaryDraft # settings["cloudProviderPrimaryModel"]
  /\ Update([f \in {"cloudProviderPrimaryModel"} |-> primaryDraft]) /\ Follow
  /\ UNCHANGED <<config, engineForm, apiKeyDraft, apiDraft, pendingPatch, probing, typed, presented>>

(* "Run Benchmark" and "Retrieve Models" send the key field as it is.      *)
Probe(button) ==
  /\ settings # NotFetched /\ SettingsEdit /\ Room
  /\ button \notin probing
  /\ probing' = probing \cup {button}
  /\ Send(NewRequest("test", button, [f \in {"cloudProviderApiKey"} |-> apiDraft]))
  /\ UNCHANGED <<config, engineForm, apiKeyDraft, settings, apiDraft, primaryDraft, pendingPatch, typed,
                 presented>>

-----------------------------------------------------------------------------
(* The control plane                                                       *)

GetConfig(r) ==
  /\ r.kind = "get" /\ r.at = "sent"
  /\ Moves(r, "answered", Redacted(config))
  /\ UNCHANGED <<config, clientVars, typed, presented, edits>>

MergeConfig(r) ==
  /\ r.kind = "save" /\ r.at = "sent"
  /\ Moves(r, "merged", Merged(config, r.patch))
  /\ UNCHANGED <<config, clientVars, typed, presented, edits>>

PersistConfig(r) ==
  /\ r.at = "merged"
  /\ config' = r.answer
  /\ Moves(r, "answered", Redacted(r.answer))
  /\ UNCHANGED <<clientVars, typed, presented, edits>>

(* The provider is asked for its models with the key.                      *)
TestCloud(r) ==
  /\ r.kind = "test" /\ r.at = "sent"
  /\ presented' = presented \cup
       ({Resolved(r.patch["cloudProviderApiKey"], config["cloudProviderApiKey"])} \ {Unset})
  /\ Moves(r, "answered", NotFetched)
  /\ UNCHANGED <<config, clientVars, typed, edits>>

-----------------------------------------------------------------------------
(* Answers                                                                 *)

(* An answer to EngineTab replaces the form, and after a save empties the  *)
(* key field, but for the save that only names the path; one to            *)
(* EngineScreen is its settings the first time and then ignored.           *)
AnswerForm(r) ==
  /\ r.at = "answered" /\ r.who \in {"form", "path"}
  /\ engineForm' = r.answer
  /\ apiKeyDraft' = IF r.kind = "save" /\ r.who = "form" THEN Unset ELSE apiKeyDraft
  /\ Done(r)
  /\ UNCHANGED <<config, settings, apiDraft, primaryDraft, pendingPatch, probing, typed, presented,
                 edits>>

AnswerPanel(r) ==
  /\ r.at = "answered" /\ r.who = "panel"
  /\ settings' = IF r.kind = "get" THEN r.answer ELSE settings
  /\ Follow
  /\ Done(r)
  /\ UNCHANGED <<config, engineForm, apiKeyDraft, apiDraft, pendingPatch, probing, typed, presented, edits>>

AnswerProbe(r) ==
  /\ r.kind = "test" /\ r.at \in {"answered", "lost"}
  /\ probing' = probing \ {r.who}
  /\ Done(r)
  /\ UNCHANGED <<config, engineForm, apiKeyDraft, settings, apiDraft, primaryDraft, pendingPatch, typed,
                 presented, edits>>

(* A request fails on its way, while it is handled or on its way back: a   *)
(* probe says so and ends; a save or a get leaves the client as it is.     *)
RequestFails(r) ==
  /\ r.at # "lost"
  /\ IF r.kind = "test" THEN Moves(r, "lost", NotFetched) ELSE Done(r)
  /\ UNCHANGED <<config, clientVars, typed, presented, edits>>

EngineTabStep ==
  \/ FormFromStatus \/ ShowEngineTab \/ SaveForm \/ ClearEngineKey
  \/ \E v \in Texts : SetFormField(v) \/ UseAndPull(v)
  \/ \E k \in TypedKeys : TypeEngineKey(k)

CloudTabStep ==
  \/ DebounceEnds \/ ClearCloudKey \/ SaveModels
  \/ \E k \in TypedKeys \cup {Unset} : TypeCloudKey(k)
  \/ \E v \in Texts : TypeBaseUrl(v) \/ PickModel(v)
  \/ \E p \in Presets : ApplyProvider(p)
  \/ \E button \in {"test", "retrieve"} : Probe(button)

SettingsNext ==
  \/ EngineTabStep
  \/ CloudTabStep
  \/ \E r \in requests :
       \/ GetConfig(r) \/ MergeConfig(r) \/ PersistConfig(r) \/ TestCloud(r)
       \/ AnswerForm(r) \/ AnswerPanel(r) \/ AnswerProbe(r) \/ RequestFails(r)

SettingsSpec == SettingsInit /\ [][SettingsNext]_settingsVars
-----------------------------------------------------------------------------
Values == TypedKeys \cup Texts \cup Presets \cup {Unset}
Records == {NotFetched} \cup [Fields -> Values \cup {SECRET_MASK}]

SettingsTypeOK ==
  /\ config \in [Fields -> Values \cup {SECRET_MASK}]
  /\ {engineForm, settings} \subseteq Records
  /\ apiKeyDraft \in TypedKeys \cup {Unset} /\ apiDraft \in TypedKeys \cup {Unset}
  /\ primaryDraft \in Values
  /\ DOMAIN pendingPatch \subseteq {"cloudProviderApiKey", "cloudProviderBaseUrl"}
  /\ probing \subseteq {"test", "retrieve"}
  /\ Cardinality(requests) <= MaxRequests
  /\ \A r \in requests : r.kind \in {"get", "save", "test"} /\ r.answer \in Records
  /\ edits \in 0..MaxSettingsEdits

(* What is stored as a key, and what a provider is shown as one, is what a *)
(* user typed into the field of that key, now or before. The mask passes   *)
(* through forms, copies and late answers, and a save may carry it back    *)
(* after the key was cleared or replaced: it is never taken for a key.     *)
KeysAreTyped ==
  /\ \A s \in Secrets : config[s] \in typed[s] \cup {Unset}
  /\ presented \subseteq typed["cloudProviderApiKey"]
=============================================================================
