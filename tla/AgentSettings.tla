--------------------------- MODULE AgentSettings ----------------------------
(***************************************************************************)
(* What the agent of the Chat screen may do: its switches, and the tiers   *)
(* and denied paths of its Computer Use tools. A provider above all        *)
(* screens holds them (chatAgent.tsx), Settings > Agent shows and edits    *)
(* them, and the permissions are mirrored to the control plane, for the    *)
(* directory in use, where they are enforced.                              *)
(*                                                                         *)
(* The safety switches of the Coder (coderSafety.tsx) are held in the same *)
(* way; each is asked for by a request of its own.                         *)
(*                                                                         *)
(* A value set is rendered first; then the effects that depend on it run:  *)
(* the cleanups of their last run, which still see the values of the       *)
(* rendering before, and then the effects.                                 *)
(*                                                                         *)
(* The control plane stores the switches and the directory. Each change of *)
(* the permissions is also sent to be stored, and never is: set_config     *)
(* takes that field for one tier and ignores every other text. So nothing  *)
(* of them is loaded when the program starts.                              *)
(***************************************************************************)
EXTENDS Naturals

CONSTANTS
  Tools,            \* Computer Use tools, MCP tools and MCP servers
  Paths,            \* what may be denied
  Dirs,             \* directories for Computer Use
  Switches,         \* research, memory, reflection, computer use, ...
  SafetySwitches,   \* safe mode, sandbox, commit approval
  MaxChoices        \* bound: choices of the user

Tiers == {"allow", "ask", "deny"}
Untouched == "untouched"
NoPerms == [tools |-> [t \in Tools |-> Untouched], denyPaths |-> {}]
NoDir == "none"
Loading == [kind |-> "get"]
SafetyLoading == [kind : {"get safety"}, name : SafetySwitches]
AllSwitches == Switches \cup SafetySwitches
(* What the client assumes until it is told.                               *)
OnByDefault == {"safeMode", "sandbox"}

VARIABLES
  computerUsePerms,  \* the tiers and denied paths in use
  fresh,             \* which of "tools", "denyPaths" were set since the last rendering
  denyPathsInput,    \* AgentTab: the field of denied paths
  rendered,          \* AgentTab: the permissions of its last rendering
  computerUseDir,
  dirFresh,          \* computerUseDir was set since the last rendering
  shown,             \* the switches as the client has them
  stored,            \* the switches as the control plane has them
  enforced,          \* the control plane's map of permissions, by directory
  posts,             \* requests in flight
  visited,           \* AgentTab was opened; from then on it stays mounted
  chosen,            \* the tiers as the user left them
  choices            \* counts up to MaxChoices

permVars == <<computerUsePerms, fresh, denyPathsInput, rendered>>
dirVars == <<computerUseDir, dirFresh>>
planeVars == <<stored, enforced>>
agentVars == <<permVars, dirVars, shown, planeVars, posts, visited, chosen, choices>>

Choice == visited /\ choices < MaxChoices /\ choices' = choices + 1

-----------------------------------------------------------------------------
AgentInit ==
  /\ computerUsePerms = NoPerms /\ rendered = NoPerms
  /\ fresh = {} /\ denyPathsInput = {}
  /\ computerUseDir = NoDir /\ dirFresh = FALSE
  /\ shown = [s \in AllSwitches |-> s \in OnByDefault]
  /\ stored \in [AllSwitches -> BOOLEAN]
  /\ enforced = [d \in Dirs |-> NoPerms]
  /\ posts = {Loading} \cup SafetyLoading
  /\ visited = FALSE
  /\ chosen = NoPerms.tools
  /\ choices = 0

(* The provider asks for everything once, when the program starts; the     *)
(* answer overwrites what was chosen meanwhile.                            *)
Load(d) ==
  /\ Loading \in posts
  /\ posts' = posts \ {Loading}
  /\ shown' = [s \in AllSwitches |-> IF s \in Switches THEN stored[s] ELSE shown[s]]
  /\ computerUseDir' = d /\ dirFresh' = (d # computerUseDir \/ dirFresh)
  /\ UNCHANGED <<permVars, planeVars, visited, chosen, choices>>

LoadFails ==
  /\ Loading \in posts
  /\ posts' = posts \ {Loading}
  /\ UNCHANGED <<permVars, dirVars, shown, planeVars, visited, chosen, choices>>

LoadSafety(p) ==
  /\ p.kind = "get safety"
  /\ posts' = posts \ {p}
  /\ shown' = [shown EXCEPT ![p.name] = stored[p.name]]
  /\ UNCHANGED <<permVars, dirVars, planeVars, visited, chosen, choices>>

OpenAgentTab ==
  /\ ~visited
  /\ visited' = TRUE
  /\ denyPathsInput' = computerUsePerms.denyPaths
  /\ rendered' = computerUsePerms
  /\ UNCHANGED <<computerUsePerms, fresh, dirVars, shown, planeVars, posts, chosen, choices>>

-----------------------------------------------------------------------------
(* The user. What a click changes is the permissions as last rendered.     *)

(* A switch is shown flipped at once; its request may fail unseen.         *)
ShowAndPost(s) ==
  /\ shown' = [shown EXCEPT ![s] = ~@]
  /\ posts' = posts \cup {[kind |-> "switch", name |-> s, on |-> ~shown[s]]}
  /\ UNCHANGED <<permVars, dirVars, planeVars, visited, chosen>>

Flip(s) == s \in Switches /\ Choice /\ ShowAndPost(s)

(* From Settings or from the sidebar of the Coder.                         *)
FlipSafety(s) ==
  /\ s \in SafetySwitches
  /\ choices < MaxChoices /\ choices' = choices + 1
  /\ ShowAndPost(s)

PickTier(t, tier) ==
  /\ Choice
  /\ computerUsePerms' = [rendered EXCEPT !.tools[t] = tier]
  /\ fresh' = fresh \cup {"tools"}
  /\ chosen' = [chosen EXCEPT ![t] = tier]
  /\ UNCHANGED <<denyPathsInput, rendered, dirVars, shown, planeVars, posts, visited>>

TypeDenyPaths(paths) ==
  /\ Choice
  /\ denyPathsInput' = paths
  /\ UNCHANGED <<computerUsePerms, fresh, rendered, dirVars, shown, planeVars, posts, visited, chosen>>

(* commitDenyPaths: the denied paths of the field, over the permissions of *)
(* the rendering that made the callback.                                   *)
CommitDenyPaths ==
  /\ computerUsePerms' = [rendered EXCEPT !.denyPaths = denyPathsInput]
  /\ fresh' = {"tools", "denyPaths"}

LeaveDenyPaths ==
  /\ Choice
  /\ CommitDenyPaths
  /\ UNCHANGED <<denyPathsInput, rendered, dirVars, shown, planeVars, posts, visited, chosen>>

SetDir(d) ==
  /\ Choice
  /\ d # computerUseDir
  /\ computerUseDir' = d /\ dirFresh' = TRUE
  /\ UNCHANGED <<permVars, shown, planeVars, posts, visited, chosen>>

-----------------------------------------------------------------------------
(* Rendering                                                               *)

Mirror ==
  posts' = IF computerUseDir = NoDir THEN posts
           ELSE posts \cup {[kind |-> "mirror", dir |-> computerUseDir, perms |-> computerUsePerms]}

RenderDir ==
  /\ dirFresh /\ fresh = {}
  /\ Mirror
  /\ dirFresh' = FALSE
  /\ UNCHANGED <<permVars, computerUseDir, shown, planeVars, visited, chosen, choices>>

(* The effect that commits the denied paths when the tab goes away depends *)
(* on the permissions. So its cleanup runs when they change, and commits   *)
(* over those of the rendering before; that is a change, to be rendered in *)
(* its turn.                                                               *)
RenderPerms ==
  /\ fresh # {}
  /\ Mirror
  /\ CommitDenyPaths
  /\ rendered' = computerUsePerms
  /\ denyPathsInput' = IF "denyPaths" \in fresh THEN computerUsePerms.denyPaths ELSE denyPathsInput
  /\ dirFresh' = FALSE
  /\ UNCHANGED <<computerUseDir, shown, planeVars, visited, chosen, choices>>

-----------------------------------------------------------------------------
(* The control plane                                                       *)

(* perms_set: a tier that is not named stays as it is.                     *)
PermsSet(entry, perms) ==
  [tools |-> [t \in Tools |-> IF perms.tools[t] = Untouched THEN entry.tools[t] ELSE perms.tools[t]],
   denyPaths |-> perms.denyPaths]

StoreSwitch(p) ==
  /\ p.kind = "switch"
  /\ posts' = posts \ {p}
  /\ stored' = [stored EXCEPT ![p.name] = p.on]
  /\ UNCHANGED <<permVars, dirVars, shown, enforced, visited, chosen, choices>>

StorePerms(p) ==
  /\ p.kind = "mirror"
  /\ posts' = posts \ {p}
  /\ enforced' = [enforced EXCEPT ![p.dir] = PermsSet(@, p.perms)]
  /\ UNCHANGED <<permVars, dirVars, shown, stored, visited, chosen, choices>>

PostFails(p) ==
  /\ p # Loading
  /\ posts' = posts \ {p}
  /\ UNCHANGED <<permVars, dirVars, shown, planeVars, visited, chosen, choices>>

Render == RenderDir \/ RenderPerms
Answer == LoadFails \/ (\E d \in Dirs : Load(d)) \/ \E p \in posts : LoadSafety(p) \/ StoreSwitch(p) \/ StorePerms(p)

AgentNext ==
  \/ Render
  \/ Answer
  \/ OpenAgentTab
  \/ LeaveDenyPaths
  \/ \E s \in AllSwitches : Flip(s) \/ FlipSafety(s)
  \/ \E t \in Tools, tier \in Tiers : PickTier(t, tier)
  \/ \E paths \in SUBSET Paths : TypeDenyPaths(paths)
  \/ \E d \in Dirs : SetDir(d)
  \/ \E p \in posts : PostFails(p)

(* What was set is rendered, and what was sent is answered or fails.       *)
AgentSpec ==
  /\ AgentInit /\ [][AgentNext]_agentVars
  /\ WF_agentVars(Render)
  /\ WF_agentVars(Answer)
-----------------------------------------------------------------------------
(* chatAgent.tsx says of the tiers: "Mirror Computer Use's tiers to the    *)
(* control plane so `deny` is enforced server-side too", "Re-synced on     *)
(* every edit and on directory change". Choices of the user are finite, so *)
(* from some time on the tiers in use, which are what is mirrored, are     *)
(* those of the user's last choice.                                        *)
EditsSettle == <>[](computerUsePerms.tools = chosen)
=============================================================================
