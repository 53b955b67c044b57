------------------------------- MODULE MCWeb -------------------------------
(***************************************************************************)
(* The components of the web client on small instances. They share no      *)
(* state, so a behaviour is a behaviour of one of them ("part"), chosen at *)
(* the start, while the others stay as they begin.                         *)
(***************************************************************************)
EXTENDS EditorTabs, RunAttach, CoderTurn, ChatThread, ChatStream, CoderSession,
        CoderPanels, ToolOutput, EngineForm, StudioSettings, ApiRequest, TurnReply,
        PromptContext

VARIABLE part

Parts == {"tabs", "attach", "turn", "chat", "stream", "session", "panels", "output", "form",
          "settings", "request", "reply", "context"}

(* Either many clicks and two runs of the agent, or more runs and messages *)
(* waiting for their turn.                                                 *)
MCBounds == {[agents |-> 2, items |-> 0, clicks |-> 2], [agents |-> 3, items |-> 2, clicks |-> 1]}

(* Short and long outputs, with and without line ends, some alarming.      *)
MCOutputs ==
  {[bytes |-> <<"x">>, exit |-> "zero", alarming |-> FALSE],
   [bytes |-> <<"x", "n", "n", "x", "x">>, exit |-> "zero", alarming |-> TRUE],
   [bytes |-> <<"n", "x", "n", "n">>, exit |-> "none", alarming |-> TRUE],
   [bytes |-> <<"x", "x", "n", "x", "x", "n", "x">>, exit |-> "nonzero", alarming |-> FALSE]}

(* Default, sampled with constraints, with a knob only Chat Completions    *)
(* has, and deterministic with and without such a knob.                    *)
MCParams(set, greedy, effort, thinking, format) ==
  [set |-> set, greedy |-> greedy, effort |-> effort, thinking |-> thinking, format |-> format]
MCParamSets ==
  {MCParams({}, FALSE, Unsaid, TRUE, "none"),
   MCParams({"temperature", "top_p", "max_tokens"}, FALSE, "high", FALSE, "valid"),
   MCParams({"seed"}, FALSE, "none", TRUE, "broken"),
   MCParams({"temperature", "top_k", "presence_penalty"}, TRUE, Unsaid, FALSE, "none"),
   MCParams({"temperature"}, TRUE, Unsaid, FALSE, "none")}

MCReplyBlocks ==
  {[form |-> f, tool |-> NoTool] : f \in {"prose", "essay", "fence"}}
  \cup {[form |-> f, tool |-> "read"] : f \in {"tag", "fence", "json"}}
  \cup {[form |-> "tag", tool |-> "other"]}

MCArtifacts == <<"y", "z">>
MCFormBudgets ==
  {[edits |-> 2, powers |-> 0, up |-> FALSE], [edits |-> 0, powers |-> 1, up |-> TRUE],
   [edits |-> 0, powers |-> 1, up |-> FALSE]}

-----------------------------------------------------------------------------
(* The parts that have a choice of initial states make none elsewhere.     *)
WebInit ==
  /\ part \in Parts
  /\ TabsInit /\ AttachInit /\ TurnInit /\ ChatInit /\ StreamInit
  /\ SessInit /\ PanelsInit /\ OutputInit /\ FormInit /\ SettingsInit
  /\ RequestInit /\ ReplyInit /\ ContextInit
  /\ part # "attach" => childKind = "scout"
  /\ part # "turn" => ~fileThere
  /\ part # "chat" => active = 0 /\ bound.clicks = 1
  /\ part # "form" => stored.profile = NotStored /\ budget.edits = 2
  /\ part # "settings" => config["apiKey"] = Unset

Still(p, theirVars) == IF part = p THEN TRUE ELSE UNCHANGED theirVars

OnlyPartMoves ==
  /\ UNCHANGED part
  /\ Still("tabs", tabsVars) /\ Still("attach", attachVars) /\ Still("turn", turnVars)
  /\ Still("chat", chatVars) /\ Still("stream", streamVars) /\ Still("session", sessVars)
  /\ Still("panels", panelVars) /\ Still("output", outputVars) /\ Still("form", formVars)
  /\ Still("settings", settingsVars) /\ Still("request", requestVarsAll)
  /\ Still("reply", replyVars) /\ Still("context", ctxVars)

WebNext ==
  \/ part = "tabs" /\ TabsNext /\ OnlyPartMoves
  \/ part = "attach" /\ AttachNext /\ OnlyPartMoves
  \/ part = "turn" /\ TurnNext /\ OnlyPartMoves
  \/ part = "chat" /\ ChatNext /\ OnlyPartMoves
  \/ part = "stream" /\ StreamNext /\ OnlyPartMoves
  \/ part = "session" /\ SessNext /\ OnlyPartMoves
  \/ part = "panels" /\ PanelsNext /\ OnlyPartMoves
  \/ part = "output" /\ OutputNext /\ OnlyPartMoves
  \/ part = "form" /\ FormNext /\ OnlyPartMoves
  \/ part = "settings" /\ SettingsNext /\ OnlyPartMoves
  \/ part = "request" /\ RequestNext /\ OnlyPartMoves
  \/ part = "reply" /\ ReplyNext /\ OnlyPartMoves
  \/ part = "context" /\ ContextNext /\ OnlyPartMoves

webVars == <<part, tabsVars, attachVars, turnVars, chatVars, streamVars,
             sessVars, panelVars, outputVars, formVars, settingsVars, requestVarsAll,
             replyVars, ctxVars>>

WebSpec == WebInit /\ [][WebNext]_webVars

-----------------------------------------------------------------------------
(* The type invariant of the part that runs.                               *)
WebTypeOK ==
  /\ part = "tabs" => TabsTypeOK
  /\ part = "attach" => AttachTypeOK
  /\ part = "turn" => TurnTypeOK
  /\ part = "chat" => ChatTypeOK
  /\ part = "stream" => StreamTypeOK
  /\ part = "session" => SessTypeOK
  /\ part = "panels" => PanelsTypeOK
  /\ part = "output" => OutputTypeOK
  /\ part = "form" => FormTypeOK
  /\ part = "settings" => SettingsTypeOK
  /\ part = "request" => RequestTypeOK
  /\ part = "reply" => ReplyTypeOK
  /\ part = "context" => ContextTypeOK
=============================================================================
