----------------------------- MODULE TurnReply ------------------------------
(***************************************************************************)
(* What becomes of one streamed reply: the recovery of tool calls a model  *)
(* wrote as text (streamTurn, parseMarkupToolCalls, lib/agentLoop.ts), the *)
(* nudge after calls of tools that are not offered (runToolLoop), and, for *)
(* a final reply, the critique and the revision of it (lib/api/chat.ts,    *)
(* ChatScreen.tsx) and the rewriting that removes the tone of a machine    *)
(* (humanizePassText; humanizeRewriteText, lib/notai.ts).                  *)
(*                                                                         *)
(* A text is a sequence of blocks: short or long prose, <tool_call> markup,*)
(* labelled fences and bare JSON, the latter three with the tool they name *)
(* or NoTool when they name none. What recovery leaves of a text is the    *)
(* set of its blocks: it takes out every copy or none, and keeps the       *)
(* order. Texts of the reviews are told apart by who wrote them and        *)
(* whether they were written to the end.                                   *)
(***************************************************************************)
EXTENDS Naturals, Sequences, SequencesExt, FiniteSetsExt

CONSTANTS
  OfferedTools,   \* the tools of the request
  ReplyBlocks,    \* the blocks a model writes: [form, tool]
  MaxBlocks,      \* bound on the blocks of a reply
  MaxRewrites     \* HUMANIZE_MAX_DEPTH

NoTool == ""

ASSUME ReplyAssumption ==
  /\ NoTool \notin OfferedTools /\ MaxBlocks \in Nat /\ MaxRewrites \in Nat
  /\ \A b \in ReplyBlocks : b.form \in {"prose", "essay", "tag", "fence", "json"}

VARIABLES
  turnStep,   \* "stream", "reflect", "revise", "gate", "rewrite", "over"
  heard,      \* what arrived: [content, reasoning, native (the calls of the engine)]
  recovered,  \* of streamTurn: [content, reasoning (the blocks left), calls, dropped]
  cutShort,   \* the signal is aborted
  answer,     \* the reply's text so far: [by, whole]
  rewrites    \* attempts

replyVars == <<turnStep, heard, recovered, cutShort, answer, rewrites>>

Quiet == [content |-> <<>>, reasoning |-> <<>>, native |-> {}]
NoResult == [content |-> {}, reasoning |-> {}, calls |-> {}, dropped |-> {}]

-----------------------------------------------------------------------------
(* parseMarkupToolCalls: the blocks taken for calls. Markup wins over      *)
(* fences, which count only when little else was said, and over JSON,      *)
(* which counts only alone.                                                *)
Naming(text, form) == {i \in 1..Len(text) : text[i].form = form /\ text[i].tool # NoTool}

Markup(text) ==
  LET tags == Naming(text, "tag")
      fences == IF \E i \in 1..Len(text) : text[i].form = "essay" THEN {} ELSE Naming(text, "fence")
  IN IF tags # {} THEN tags ELSE IF fences # {} THEN fences
     ELSE IF Len(text) = 1 THEN Naming(text, "json") ELSE {}

(* stripToolMarkup takes out every copy of what was consumed.              *)
StripMarkup(text, consumed) == ToSet(text) \ {text[i] : i \in consumed}

(* The end of streamTurn. The reasoning is searched when nothing was said. *)
RecoverFrom(h, stripped) ==
  LET inReasoning == h.content = <<>>
      text == IF inReasoning THEN h.reasoning ELSE h.content
      found == Markup(text)
      usable == {i \in found : text[i].tool \in OfferedTools}
      none == [content |-> ToSet(h.content), reasoning |-> ToSet(h.reasoning),
               calls |-> h.native, dropped |-> {}]
      rest == IF usable = {} \/ ~stripped THEN ToSet(text) ELSE StripMarkup(text, found)
  IN IF h.native # {} THEN none
     ELSE [content |-> IF inReasoning THEN {} ELSE rest,
           reasoning |-> IF inReasoning THEN rest ELSE ToSet(h.reasoning),
           calls |-> {text[i].tool : i \in usable},
           dropped |-> {text[i].tool : i \in found \ usable}]
RecoverKeeping(h) == RecoverFrom(h, FALSE)
Recover(h) == RecoverFrom(h, TRUE)

-----------------------------------------------------------------------------
Heard(field, value) == heard' = [heard EXCEPT ![field] = value]

(* onReasoningDelta, onContentDelta, onToolCalls.                          *)
ReplyDelta ==
  /\ turnStep = "stream" /\ ~cutShort
  /\ Len(heard.content) + Len(heard.reasoning) < MaxBlocks
  /\ \E b \in ReplyBlocks :
       \/ heard.content = <<>> /\ Heard("reasoning", Append(heard.reasoning, b))
       \/ Heard("content", Append(heard.content, b))
  /\ UNCHANGED <<turnStep, recovered, cutShort, answer, rewrites>>

NativeCalls ==
  /\ turnStep = "stream" /\ ~cutShort /\ heard.native = {}
  /\ \E calls \in SUBSET OfferedTools \ {{}} : Heard("native", calls)
  /\ UNCHANGED <<turnStep, recovered, cutShort, answer, rewrites>>

(* The stream ends, also by a stop, with what it has: calls are run, an    *)
(* empty reply ends the loop, dropped calls are answered with a nudge, and *)
(* a final reply is reviewed.                                              *)
ReplyEnds ==
  /\ turnStep = "stream"
  /\ recovered' = Recover(heard)
  /\ turnStep' = IF \/ recovered'.calls # {} \/ recovered'.content = {}
                    \/ cutShort \/ recovered'.dropped # {}
                 THEN "over" ELSE "reflect"
  /\ UNCHANGED <<heard, cutShort, answer, rewrites>>

(* critiqueChatReply: approved, or no verdict, or failed, or off.          *)
Critiqued ==
  /\ turnStep = "reflect"
  /\ turnStep' \in {"gate"} \cup (IF cutShort THEN {} ELSE {"revise"})
  /\ UNCHANGED <<heard, recovered, cutShort, answer, rewrites>>

(* regenerateChatReply: nothing when it fails or is stopped; a reply that  *)
(* holds raw calls is discarded.                                           *)
Regenerated == IF cutShort THEN {} ELSE {[by |-> "revision", whole |-> TRUE]}
Revised ==
  /\ turnStep = "revise" /\ turnStep' = "gate"
  /\ UNCHANGED answer \/ answer' \in Regenerated
  /\ UNCHANGED <<heard, recovered, cutShort, rewrites>>

(* humanizePassText: needsHumanize of what there is.                       *)
Gate ==
  /\ turnStep = "gate"
  /\ turnStep' \in {"over"} \cup (IF cutShort \/ rewrites = MaxRewrites THEN {} ELSE {"rewrite"})
  /\ UNCHANGED <<heard, recovered, cutShort, answer, rewrites>>

(* humanizeRewriteText: streamChat resolves when it is stopped, with the   *)
(* part it has; nothing, the same text or an error ends the pass.          *)
RewriteReturned == ~cutShort
Rewrite == [by |-> "rewrite", whole |-> ~cutShort]
Rewritten ==
  /\ turnStep = "rewrite"
  /\ \/ turnStep' = "over" /\ UNCHANGED <<answer, rewrites>>
     \/ /\ RewriteReturned /\ answer' = Rewrite
        /\ rewrites' = rewrites + 1 /\ turnStep' = "gate"
  /\ UNCHANGED <<heard, recovered, cutShort>>

StopReply ==
  /\ ~cutShort /\ turnStep # "over" /\ cutShort' = TRUE
  /\ UNCHANGED <<turnStep, heard, recovered, answer, rewrites>>

-----------------------------------------------------------------------------
ReplyInit ==
  /\ turnStep = "stream" /\ heard = Quiet /\ recovered = NoResult /\ cutShort = FALSE
  /\ answer = [by |-> "turn", whole |-> TRUE] /\ rewrites = 0

ReplyNext ==
  \/ ReplyDelta \/ NativeCalls \/ ReplyEnds \/ Critiqued \/ Revised \/ Gate \/ Rewritten
  \/ StopReply

ReplySpec == ReplyInit /\ [][ReplyNext]_replyVars

-----------------------------------------------------------------------------
ReplyTypeOK ==
  /\ turnStep \in {"stream", "reflect", "revise", "gate", "rewrite", "over"}
  /\ rewrites \in 0..MaxRewrites /\ recovered.calls \subseteq OfferedTools

(* Each block of a reply ends in one place: a call that is run is no       *)
(* longer shown or thought, one that is not run is still in the text or is *)
(* reported as dropped, and prose is never taken away. No finished reply   *)
(* is replaced by half a rewrite because the user pressed Stop             *)
(* (lib/notai.ts, "a partial rewrite would otherwise replace ...").        *)
RepliesAreUnwrapped ==
  turnStep # "stream" =>
    LET gone(c) == ToSet(heard[c]) \ recovered[c]
        lost == gone("content") \cup gone("reasoning")
    IN /\ \A b \in lost : b.tool \in recovered.calls \cup recovered.dropped
       /\ heard.native = {} => recovered.calls \subseteq {b.tool : b \in lost}
       /\ answer.whole
=============================================================================
