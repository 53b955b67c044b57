---------------------------- MODULE RequestProofs ----------------------------
(***************************************************************************)
(* What is sent for a turn and what becomes of the reply, for any tools,   *)
(* blocks, parameters and bounds.                                          *)
(***************************************************************************)
EXTENDS TurnReply, ApiRequest, SequenceTheorems, TLAPS

(***************************************************************************)
(* One streamed reply. While it streams nothing is recovered; afterwards   *)
(* what is recovered is a function of what was heard.                      *)
(***************************************************************************)
Steps == {"stream", "reflect", "revise", "gate", "rewrite", "over"}
Heards == [content : Seq(ReplyBlocks), reasoning : Seq(ReplyBlocks), native : SUBSET OfferedTools]

ReplyInv ==
  /\ turnStep \in Steps /\ heard \in Heards
  /\ recovered = IF turnStep = "stream" THEN NoResult ELSE Recover(heard)
  /\ answer.whole = TRUE
  /\ rewrites \in 0..MaxRewrites /\ (turnStep = "rewrite" => rewrites < MaxRewrites)

LEMMA ReplyStart == ReplyInit => ReplyInv
<1>. SUFFICES ASSUME ReplyInit PROVE ReplyInv
  OBVIOUS
<1>1. <<>> \in Seq(ReplyBlocks)
  OBVIOUS
<1>2. heard \in Heards
  BY <1>1 DEF ReplyInit, Quiet, Heards
<1>3. rewrites \in 0..MaxRewrites
  BY ReplyAssumption DEF ReplyInit, ReplyAssumption
<1>. QED  BY <1>2, <1>3 DEF ReplyInit, ReplyInv, Steps

LEMMA ReplyStays ==
  ASSUME ReplyInv, [ReplyNext]_replyVars
  PROVE  ReplyInv'
<1>1. MaxRewrites \in Nat /\ rewrites \in Nat
  BY ReplyAssumption DEF ReplyAssumption, ReplyInv
<1>2. CASE ReplyDelta
  <2>1. PICK b \in ReplyBlocks :
          \/ heard' = [heard EXCEPT !["reasoning"] = Append(heard.reasoning, b)]
          \/ heard' = [heard EXCEPT !["content"] = Append(heard.content, b)]
    BY <1>2 DEF ReplyDelta, Heard
  <2>2. Append(heard.reasoning, b) \in Seq(ReplyBlocks) /\ Append(heard.content, b) \in Seq(ReplyBlocks)
    BY AppendProperties DEF ReplyInv, Heards
  <2>3. heard' \in Heards
    BY <2>1, <2>2 DEF ReplyInv, Heards
  <2>. QED  BY <1>2, <2>3 DEF ReplyDelta, ReplyInv
<1>3. CASE NativeCalls
  <2>1. PICK calls \in SUBSET OfferedTools : heard' = [heard EXCEPT !["native"] = calls]
    BY <1>3 DEF NativeCalls, Heard
  <2>2. heard' \in Heards
    BY <2>1 DEF ReplyInv, Heards
  <2>. QED  BY <1>3, <2>2 DEF NativeCalls, ReplyInv
<1>4. CASE ReplyEnds
  <2>1. turnStep' \in {"over", "reflect"}
    BY <1>4 DEF ReplyEnds
  <2>. QED  BY <1>4, <2>1 DEF ReplyEnds, ReplyInv, Steps
<1>5. CASE Critiqued \/ Gate
  <2>1. /\ UNCHANGED <<heard, recovered, answer, rewrites>> /\ turnStep # "stream"
        /\ turnStep' \in {"gate", "revise", "over", "rewrite"}
        /\ turnStep' = "rewrite" => rewrites # MaxRewrites
    BY <1>5 DEF Critiqued, Gate
  <2>2. turnStep' = "rewrite" => rewrites < MaxRewrites
    BY <1>1, <2>1 DEF ReplyInv
  <2>. QED  BY <2>1, <2>2 DEF ReplyInv, Steps
<1>6. CASE Revised
  <2>1. answer'.whole = TRUE
    BY <1>6 DEF Revised, Regenerated, ReplyInv
  <2>. QED  BY <1>6, <2>1 DEF Revised, ReplyInv, Steps
<1>7. CASE Rewritten
  <2>1. CASE turnStep' = "over" /\ UNCHANGED <<answer, rewrites>>
    BY <1>7, <2>1 DEF Rewritten, ReplyInv, Steps
  <2>2. CASE RewriteReturned /\ answer' = Rewrite /\ rewrites' = rewrites + 1 /\ turnStep' = "gate"
    <3>1. answer'.whole = TRUE
      BY <2>2 DEF RewriteReturned, Rewrite
    <3>2. rewrites' \in 0..MaxRewrites
      BY <1>1, <1>7, <2>2 DEF Rewritten, ReplyInv
    <3>. QED  BY <1>7, <2>2, <3>1, <3>2 DEF Rewritten, ReplyInv, Steps
  <2>. QED  BY <1>7, <2>1, <2>2 DEF Rewritten
<1>8. CASE StopReply \/ UNCHANGED replyVars
  BY <1>8 DEF StopReply, replyVars, ReplyInv
<1>. QED  BY <1>2, <1>3, <1>4, <1>5, <1>6, <1>7, <1>8 DEF ReplyNext

(* Recovery takes blocks only where it takes calls, and takes every block  *)
(* it takes a call from.                                                   *)
UsableOf(text, found) == {i \in found : text[i].tool \in OfferedTools}
ToolsOf(text, where) == {text[i].tool : i \in where}
ToolsIn(blocks) == {b.tool : b \in blocks}

LEMMA TextIsTakenApart ==
  ASSUME NEW text \in Seq(ReplyBlocks), NEW found, found = Markup(text),
         NEW usable, usable = UsableOf(text, found),
         NEW rest, rest = IF usable = {} THEN ToSet(text) ELSE StripMarkup(text, found),
         NEW lost, lost = ToSet(text) \ rest
  PROVE  /\ ToolsOf(text, usable) \subseteq OfferedTools
         /\ \A b \in lost : b.tool \in ToolsOf(text, usable) \cup ToolsOf(text, found \ usable)
         /\ ToolsOf(text, usable) \subseteq ToolsIn(lost)
<1>1. found \subseteq DOMAIN text
  <2>1. DOMAIN text = 1..Len(text)
    BY LenProperties
  <2>2. \A form : Naming(text, form) \subseteq 1..Len(text)
    BY DEF Naming
  <2>. QED  BY <2>1, <2>2 DEF Markup
<1>2. \A i \in found : text[i] \in ToSet(text)
  BY <1>1 DEF ToSet
<1>3. CASE usable = {}
  BY <1>3 DEF ToolsOf
<1>4. CASE usable # {}
  <2>1. lost = {text[i] : i \in found}
    BY <1>2, <1>4 DEF StripMarkup
  <2>. QED  BY <2>1 DEF ToolsOf, ToolsIn, UsableOf
<1>. QED  BY <1>3, <1>4

LEMMA RecoveryIsExact ==
  ASSUME NEW h \in Heards, NEW r, r = Recover(h),
         NEW lost, lost = (ToSet(h.content) \ r.content) \cup (ToSet(h.reasoning) \ r.reasoning)
  PROVE  /\ r.calls \subseteq OfferedTools
         /\ \A b \in lost : b.tool \in r.calls \cup r.dropped
         /\ h.native = {} => r.calls \subseteq {b.tool : b \in lost}
<1>0. h.content \in Seq(ReplyBlocks) /\ h.reasoning \in Seq(ReplyBlocks) /\ h.native \subseteq OfferedTools
  BY DEF Heards
<1>1. CASE h.native # {}
  <2>1. r = [content |-> ToSet(h.content), reasoning |-> ToSet(h.reasoning),
             calls |-> h.native, dropped |-> {}]
    BY <1>1 DEF Recover, RecoverFrom
  <2>. QED  BY <1>0, <1>1, <2>1
<1>2. CASE h.native = {}
  <2>1. PICK text : text = IF h.content = <<>> THEN h.reasoning ELSE h.content
    OBVIOUS
  <2>2. PICK found : found = Markup(text)
    OBVIOUS
  <2>3. PICK usable : usable = UsableOf(text, found)
    OBVIOUS
  <2>4. PICK calls, dropped : calls = ToolsOf(text, usable) /\ dropped = ToolsOf(text, found \ usable)
    OBVIOUS
  <2>5. PICK rest : rest = IF usable = {} THEN ToSet(text) ELSE StripMarkup(text, found)
    OBVIOUS
  <2>6. r = [content |-> IF h.content = <<>> THEN {} ELSE rest,
             reasoning |-> IF h.content = <<>> THEN rest ELSE ToSet(h.reasoning),
             calls |-> calls, dropped |-> dropped]
    BY <1>2, <2>1, <2>2, <2>3, <2>4, <2>5 DEF Recover, RecoverFrom, UsableOf, ToolsOf
  <2>7. lost = ToSet(text) \ rest
    <3>1. h.content = <<>> => ToSet(h.content) = {}
      BY DEF ToSet
    <3>. QED  BY <2>1, <2>6, <3>1
  <2>8. text \in Seq(ReplyBlocks)
    BY <1>0, <2>1
  <2>9. /\ calls \subseteq OfferedTools
        /\ \A b \in lost : b.tool \in calls \cup dropped
        /\ calls \subseteq ToolsIn(lost)
    BY <2>2, <2>3, <2>4, <2>5, <2>7, <2>8, TextIsTakenApart
  <2>10. r.calls = calls /\ r.dropped = dropped
    BY <2>6
  <2>. QED  BY <2>9, <2>10 DEF ToolsIn
<1>. QED  BY <1>1, <1>2

(* Each block of a reply ends in one place, and no finished reply is       *)
(* replaced by half a rewrite (streamTurn, humanizeRewriteText).           *)
THEOREM RepliesComeApart == ReplySpec => []RepliesAreUnwrapped
<1>1. ReplyInv => RepliesAreUnwrapped
  <2>. SUFFICES ASSUME ReplyInv, turnStep # "stream"
                PROVE  RepliesAreUnwrapped
    BY DEF RepliesAreUnwrapped
  <2>1. PICK lost : lost = (ToSet(heard.content) \ recovered.content)
                           \cup (ToSet(heard.reasoning) \ recovered.reasoning)
    OBVIOUS
  <2>2. heard \in Heards /\ recovered = Recover(heard) /\ answer.whole = TRUE
    BY DEF ReplyInv
  <2>3. /\ \A b \in lost : b.tool \in recovered.calls \cup recovered.dropped
        /\ heard.native = {} => recovered.calls \subseteq {b.tool : b \in lost}
    BY <2>1, <2>2, RecoveryIsExact
  <2>. QED  BY <2>1, <2>2, <2>3 DEF RepliesAreUnwrapped
<1>. QED  BY <1>1, ReplyStart, ReplyStays, PTL DEF ReplySpec

(* The types of a reply, for the composition of the web client.            *)
LEMMA ReplyInvTypes == ReplyInv => ReplyTypeOK
<1>. SUFFICES ASSUME ReplyInv PROVE ReplyTypeOK
  OBVIOUS
<1>1. recovered.calls \subseteq OfferedTools
  <2>1. CASE turnStep = "stream"
    BY <2>1 DEF ReplyInv, NoResult
  <2>2. CASE turnStep # "stream"
    <3>1. PICK lost : lost = (ToSet(heard.content) \ recovered.content)
                             \cup (ToSet(heard.reasoning) \ recovered.reasoning)
      OBVIOUS
    <3>. QED  BY <2>2, <3>1, RecoveryIsExact DEF ReplyInv
  <2>. QED  BY <2>1, <2>2
<1>. QED  BY <1>1 DEF ReplyInv, ReplyTypeOK, Steps

-----------------------------------------------------------------------------
(***************************************************************************)
(* The request of a turn: its body is that of the parameters it was made   *)
(* from, for the transport it takes.                                       *)
(***************************************************************************)
From(p) == [set |-> p.set, greedy |-> p.greedy]

MadeFrom(p) ==
  /\ request.from = From(p)
  /\ \/ request.api = "chat" /\ request.body = ChatBody(p)
     \/ /\ request.api = "responses" /\ SupportedByResponses(p)
        /\ request.body = ResponsesBody(ChatBody(p))

Roles == {"user", "assistant", "tool"}
TranscriptInv ==
  /\ \E S : transcript \in Seq(S) /\ \A m \in S : m.role \in Roles
  /\ Len(transcript) <= MaxTranscript

RequestInv == TranscriptInv /\ (request = Unsent \/ \E p \in ParamSets : MadeFrom(p))

(* The body of the chat API says each field that is set, except that a     *)
(* deterministic one decides the sampling itself.                          *)
LEMMA ChatBodySays ==
  ASSUME NEW p \in ParamSets
  PROVE  /\ \A f \in p.set \ (IF p.greedy THEN SampledBy ELSE {}) : <<f, "users">> \in ChatBody(p)
         /\ p.greedy => {f \in ChatBody(p) : f[1] \in SampledBy}
                            = {<<"temperature", "zero">>, <<"top_p", "one">>}
<1>1. p.set \subseteq ChatFields /\ p.greedy \in BOOLEAN
  BY RequestAssumption DEF RequestAssumption
<1>2. PICK thinks : ChatBody(p) =
        {<<"enable_thinking", thinks>>}
        \cup (IF p.effort = Unsaid THEN {} ELSE {<<"reasoning_effort", p.effort>>})
        \cup (IF p.greedy THEN {<<"temperature", "zero">>, <<"top_p", "one">>}
              ELSE SetBy(p, SampledBy))
        \cup SetBy(p, ChatFields \ SampledBy)
        \cup FormatFields(p)
  BY DEF ChatBody
<1>3. ASSUME NEW f \in p.set \ (IF p.greedy THEN SampledBy ELSE {})
      PROVE  <<f, "users">> \in ChatBody(p)
  <2>1. CASE f \in SampledBy
    BY <1>1, <1>2, <1>3, <2>1 DEF SetBy
  <2>2. CASE f \notin SampledBy
    BY <1>1, <1>2, <1>3, <2>2 DEF SetBy
  <2>. QED  BY <2>1, <2>2
<1>4. ASSUME p.greedy
      PROVE  {f \in ChatBody(p) : f[1] \in SampledBy}
               = {<<"temperature", "zero">>, <<"top_p", "one">>}
  <2>1. \A f \in SetBy(p, ChatFields \ SampledBy) : f[1] \notin SampledBy
    BY DEF SetBy
  <2>2. \A f \in FormatFields(p) : f[1] \notin SampledBy
    BY DEF FormatFields, SampledBy
  <2>. QED  BY <1>2, <1>4, <2>1, <2>2 DEF SampledBy
<1>. QED  BY <1>3, <1>4

(* The Responses API loses of it only what it would not be used for.       *)
LEMMA ResponsesBodySays ==
  ASSUME NEW p \in ParamSets, SupportedByResponses(p), NEW body, body = ChatBody(p),
         NEW sent, sent = ResponsesBody(body)
  PROVE  /\ \A f \in p.set \ (IF p.greedy THEN SampledBy ELSE {}) : <<f, "users">> \in sent
         /\ p.greedy => {f \in sent : f[1] \in SampledBy}
                            = {<<"temperature", "zero">>, <<"top_p", "one">>}
<1>1. p.set \subseteq ChatFields /\ p.set \cap UnsupportedSampling = {}
  BY RequestAssumption DEF RequestAssumption, SupportedByResponses
<1>2. p.set \subseteq {"max_tokens", "temperature", "top_p"}
  BY <1>1 DEF ChatFields, SampledBy, UnsupportedSampling
<1>3. {f \in body : f[1] \in {"max_tokens", "temperature", "top_p"}} \subseteq sent
  BY DEF ResponsesBody
<1>4. \A f \in sent : \/ f \in body /\ f[1] \in {"max_tokens", "temperature", "top_p"}
                      \/ f[1] = "reasoning_effort"
  BY DEF ResponsesBody
<1>5. ASSUME NEW f \in p.set \ (IF p.greedy THEN SampledBy ELSE {})
      PROVE  <<f, "users">> \in sent
  BY <1>2, <1>3, <1>5, ChatBodySays
<1>6. ASSUME p.greedy
      PROVE  {f \in sent : f[1] \in SampledBy} = {<<"temperature", "zero">>, <<"top_p", "one">>}
  <2>1. {f \in body : f[1] \in SampledBy} = {<<"temperature", "zero">>, <<"top_p", "one">>}
    BY <1>6, ChatBodySays
  <2>2. \A f \in sent : f[1] \in SampledBy => f \in body
    BY <1>4 DEF SampledBy
  <2>3. <<"temperature", "zero">> \in sent /\ <<"top_p", "one">> \in sent
    BY <1>3, <2>1
  <2>. QED  BY <2>1, <2>2, <2>3 DEF SampledBy
<1>. QED  BY <1>5, <1>6

LEMMA MadeFromSays ==
  ASSUME NEW p \in ParamSets, MadeFrom(p)
  PROVE  SamplingIsAsSet
<1>1. request.from.set = p.set /\ request.from.greedy = p.greedy
  BY DEF MadeFrom, From
<1>2. CASE request.body = ChatBody(p)
  BY <1>1, <1>2, ChatBodySays DEF SamplingIsAsSet
<1>3. CASE SupportedByResponses(p) /\ request.body = ResponsesBody(ChatBody(p))
  BY <1>1, <1>3, ResponsesBodySays DEF SamplingIsAsSet
<1>. QED  BY <1>2, <1>3 DEF MadeFrom

LEMMA RequestStart == RequestInit => RequestInv
<1>. SUFFICES ASSUME RequestInit PROVE RequestInv
  OBVIOUS
<1>1. transcript \in Seq({}) /\ Len(transcript) = 0
  BY DEF RequestInit
<1>2. TranscriptInv
  BY <1>1, RequestAssumption DEF TranscriptInv, RequestAssumption
<1>. QED  BY <1>2 DEF RequestInit, RequestInv

LEMMA TranscriptGrows ==
  ASSUME TranscriptInv, NEW m, m.role \in Roles, Grow(m)
  PROVE  RequestInv'
<1>1. PICK S : transcript \in Seq(S) /\ \A n \in S : n.role \in Roles
  BY DEF TranscriptInv
<1>2. PICK T : T = S \cup {m}
  OBVIOUS
<1>3. transcript \in Seq(T)
  BY <1>1, <1>2
<1>4. transcript' \in Seq(T) /\ Len(transcript') = Len(transcript) + 1
  BY <1>2, <1>3, AppendProperties DEF Grow
<1>5. Len(transcript') <= MaxTranscript
  BY <1>3, <1>4, RequestAssumption, LenProperties DEF Grow, RequestAssumption
<1>. QED  BY <1>1, <1>2, <1>4, <1>5 DEF RequestInv, TranscriptInv, Grow

LEMMA RequestStays ==
  ASSUME RequestInv, [RequestNext]_requestVarsAll
  PROVE  RequestInv'
<1>0. TranscriptInv
  BY DEF RequestInv
<1>1. CASE SendTurn
  <2>. DEFINE SentWith(route, messages) ==
         \E p \in ParamSets, api \in {"chat", "responses"} :
           /\ api = Transport(route, p)
           /\ request' = [api |-> api, from |-> [set |-> p.set, greedy |-> p.greedy],
                          messages |-> IF api = "chat" THEN messages ELSE ToItems(messages),
                          body |-> IF api = "chat" THEN ChatBody(p) ELSE ResponsesBody(ChatBody(p))]
  <2>1. \E route : \E cut \in BOOLEAN : SentWith(route, ChatMessages(Shipped(cut)))
    BY <1>1 DEF SendTurn
  <2>2. PICK route, messages : SentWith(route, messages)
    <3>. HIDE DEF SentWith
    <3>. QED  BY <2>1
  <2>3. PICK p \in ParamSets, api \in {"chat", "responses"} :
          /\ api = Transport(route, p)
          /\ request' = [api |-> api, from |-> From(p),
                         messages |-> IF api = "chat" THEN messages ELSE ToItems(messages),
                         body |-> IF api = "chat" THEN ChatBody(p) ELSE ResponsesBody(ChatBody(p))]
    BY <2>2 DEF From
  <2>4. request'.api = api /\ request'.from = From(p)
        /\ request'.body = IF api = "chat" THEN ChatBody(p) ELSE ResponsesBody(ChatBody(p))
    BY <2>3
  <2>5. api = "responses" => SupportedByResponses(p)
    BY <2>3 DEF Transport
  <2>6. UNCHANGED transcript
    BY <1>1 DEF SendTurn
  <2>. QED  BY <1>0, <2>4, <2>5, <2>6 DEF RequestInv, MadeFrom, TranscriptInv
<1>2. CASE ProbeResponses \/ UNCHANGED requestVarsAll
  <2>1. UNCHANGED <<transcript, request>>
    BY <1>2 DEF ProbeResponses, requestVarsAll
  <2>. QED  BY <2>1 DEF RequestInv, TranscriptInv, MadeFrom
<1>3. CASE AskQuestion \/ Replied \/ ToolAnswered
  <2>1. PICK m : Grow(m) /\ m.role \in Roles
    <3>1. ASSUME NEW calls, NEW id, NEW size, NEW role \in Roles
          PROVE  Message(role, calls, id, size).role \in Roles
      BY DEF Message
    <3>2. "user" \in Roles /\ "assistant" \in Roles /\ "tool" \in Roles
      BY DEF Roles
    <3>3. CASE AskQuestion
      BY <3>1, <3>2, <3>3 DEF AskQuestion
    <3>4. CASE Replied
      <4>1. PICK calls : Grow(Message("assistant", calls, NoCall, 1))
        BY <3>4, Zenon DEF Replied
      <4>. QED  BY <3>1, <3>2, <4>1
    <3>5. CASE ToolAnswered
      <4>1. PICK id, size : Grow(Message("tool", {}, id, size))
        BY <3>5, Zenon DEF ToolAnswered
      <4>. QED  BY <3>1, <3>2, <4>1
    <3>. QED  BY <1>3, <3>3, <3>4, <3>5
  <2>. QED  BY <1>0, <2>1, TranscriptGrows
<1>4. CASE DeleteFromHere
  <2>1. PICK n \in 0..Len(transcript)-1 : transcript' = SubSeq(transcript, 1, n)
    BY <1>4 DEF DeleteFromHere
  <2>2. PICK S : transcript \in Seq(S) /\ \A m \in S : m.role \in Roles
    BY <1>0 DEF TranscriptInv
  <2>3. Len(transcript) \in Nat
    BY <2>2, LenProperties
  <2>4. transcript' \in Seq(S) /\ Len(transcript') = n
    BY <2>1, <2>2, <2>3, SubSeqProperties
  <2>5. Len(transcript') <= MaxTranscript
    BY <1>0, <2>1, <2>3, <2>4, RequestAssumption DEF TranscriptInv, RequestAssumption
  <2>. QED  BY <1>4, <2>2, <2>4, <2>5 DEF DeleteFromHere, RequestInv, TranscriptInv
<1>. QED  BY <1>1, <1>2, <1>3, <1>4 DEF RequestNext

(* No transport drops the sampling the user set, and a deterministic run   *)
(* is greedy on each (buildChatRequest, buildResponsesBody): the half of   *)
(* RequestsAreValid that is about the body.                                *)
THEOREM SamplingIsSent == RequestSpec => []SamplingIsAsSet
<1>1. RequestInv => SamplingIsAsSet
  <2>. SUFFICES ASSUME RequestInv PROVE SamplingIsAsSet
    OBVIOUS
  <2>1. CASE request = Unsent
    BY <2>1 DEF Unsent, SamplingIsAsSet
  <2>2. CASE \E p \in ParamSets : MadeFrom(p)
    BY <2>2, MadeFromSays
  <2>. QED  BY <2>1, <2>2 DEF RequestInv
<1>. QED  BY <1>1, RequestStart, RequestStays, PTL DEF RequestSpec

(* The types of a request, for the composition of the web client.          *)
LEMMA RequestInvTypes == RequestInv => RequestTypeOK
<1>. SUFFICES ASSUME RequestInv PROVE RequestTypeOK
  OBVIOUS
<1>1. request.api \in {"none", "chat", "responses"}
  BY DEF RequestInv, MadeFrom, Unsent
<1>2. \A i \in 1..Len(transcript) : transcript[i].role \in {"user", "assistant", "tool"}
  BY DEF RequestInv, TranscriptInv, Roles
<1>. QED  BY <1>1, <1>2 DEF RequestInv, TranscriptInv, RequestTypeOK
=============================================================================
