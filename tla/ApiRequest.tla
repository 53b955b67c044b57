----------------------------- MODULE ApiRequest -----------------------------
(***************************************************************************)
(* The request of a turn: the route to a provider (resolveProviderConfig), *)
(* the pruning of a transcript for the cloud (pruneContextForCloud), its   *)
(* repair (sanitizeMessagesForApi; all in lib/chatHelpers.ts), the body    *)
(* (buildChatRequest, lib/api/chat.ts), the choice of transport            *)
(* (lib/agentLoop.ts) and the body of the Responses API                    *)
(* (lib/api/responses.ts).                                                 *)
(*                                                                         *)
(* The transcript grows as the chat's runs grow it: a stop may leave calls *)
(* without an answer, and messages are deleted from the end. A message is  *)
(* its role, its calls or the call it answers, and its size. Left out: the *)
(* texts, attachments, system prompt, cache marks and context notes.       *)
(***************************************************************************)
EXTENDS Naturals, Sequences, SequencesExt, FiniteSetsExt

CONSTANTS
  MaxTranscript,  \* bound on the messages of a transcript
  CallsPerTurn,   \* bound on the calls of a reply
  Sizes,          \* sizes of a tool's answer; other messages have size 1
  CloudChars,     \* MAX_CLOUD_CHARS, in these sizes
  ParamSets       \* the parameters users choose: [set, greedy, effort, thinking, format]

Unsaid == ""      \* no provider, no effort
SampledBy == {"temperature", "top_p", "top_k", "min_p"}
ChatFields == SampledBy \cup {"max_tokens", "presence_penalty", "frequency_penalty", "seed"}

ASSUME RequestAssumption ==
  /\ MaxTranscript \in Nat /\ CallsPerTurn \in Nat /\ CloudChars \in Nat
  /\ Sizes \subseteq Nat \ {0}
  /\ \A p \in ParamSets : p.set \subseteq ChatFields /\ {p.greedy, p.thinking} \subseteq BOOLEAN

VARIABLES
  transcript,     \* the messages
  knownSupport,   \* cachedSupport: the engine is known to have /v1/responses
  request         \* the last one sent since the transcript changed, or Unsent

requestVarsAll == <<transcript, knownSupport, request>>

Unsent == [api |-> "none", messages |-> <<>>, body |-> {}, from |-> [set |-> {}, greedy |-> FALSE]]
NoCall == 0
Message(role, calls, id, size) == [role |-> role, calls |-> calls, id |-> id, size |-> size]
NoteMessage == Message("user", {}, NoCall, 1)

-----------------------------------------------------------------------------
(* sanitizeMessagesForApi. Tool messages right after a reply with calls    *)
(* are kept as they are, and its missing answers follow them; any other    *)
(* tool message needs a reply with its call before it, with no question in *)
(* between, or becomes a note.                                             *)
HeadOf(h, i) == LET talk == {j \in 1..i : h[j].role # "tool"} IN IF talk = {} THEN 0 ELSE Max(talk)
InGroup(h, i) == HeadOf(h, i) # 0 /\ h[HeadOf(h, i)].calls # {}
GroupEnds(h, i) == InGroup(h, i) /\ (i = Len(h) \/ h[i+1].role # "tool")

Matched(out, id) ==
  \E j \in 1..Len(out) : /\ id \in out[j].calls
                         /\ \A k \in j+1..Len(out) : out[k].role \notin {"user", "system"}

Omitted(h, i) ==
  LET a == HeadOf(h, i)
      missing == h[a].calls \ {h[j].id : j \in a+1..i}
  IN [n \in 1..Cardinality(missing) |-> Message("tool", {}, SetToSeq(missing)[n], 1)]

SanitizedWith(h, filled) ==
  FoldLeft(LAMBDA out, i :
             IF h[i].role = "tool" /\ ~InGroup(h, i)
             THEN Append(out, IF Matched(out, h[i].id) THEN h[i] ELSE NoteMessage)
             ELSE Append(out, h[i]) \o (IF filled /\ GroupEnds(h, i) THEN Omitted(h, i) ELSE <<>>),
           <<>>, [i \in 1..Len(h) |-> i])
SanitizedAsIs(h) == SanitizedWith(h, FALSE)
Sanitized(h) == SanitizedWith(h, TRUE)

-----------------------------------------------------------------------------
(* pruneContextForCloud.                                                   *)
SizeOf(h) == FoldLeft(LAMBDA n, m : n + m.size, 0, h)

Shortened(h) ==
  [i \in 1..Len(h) |-> IF i > Len(h) - 4 \/ h[i].size <= 2 THEN h[i] ELSE [h[i] EXCEPT !.size = 1]]

(* Of the middle, the newest that fit.                                     *)
WithoutMiddle(h) ==
  LET ends == SubSeq(h, 1, 2) \o SubSeq(h, Len(h) - 3, Len(h))
      middle == SubSeq(h, 3, Len(h) - 4)
      Newest(n) == SubSeq(middle, Len(middle) - n + 1, Len(middle))
      kept == Max({n \in 0..Len(middle) :
                     n = 0 \/ SizeOf(ends) + SizeOf(Newest(n)) <= CloudChars})
  IN IF kept = Len(middle) THEN h
     ELSE SubSeq(h, 1, 2) \o <<NoteMessage>> \o Newest(kept) \o SubSeq(h, Len(h) - 3, Len(h))

Pruned(h) ==
  IF Len(h) <= 2 THEN Sanitized(h)
  ELSE LET short == Shortened(h)
       IN Sanitized(IF SizeOf(short) > CloudChars /\ Len(h) > 6 THEN WithoutMiddle(short) ELSE short)

-----------------------------------------------------------------------------
(* resolveProviderConfig. asked is the provider named in the parameters;   *)
(* a light task of a subagent stays local under smart tiering.             *)
Route(enabled, asked, useCloud, light) ==
  IF enabled /\ (asked = "cloud" \/ (asked = Unsaid /\ useCloud /\ ~light)) THEN "cloud" ELSE "local"

(* structuredOutputFields: a schema that does not parse sends nothing.     *)
FormatFields(p) == IF p.format = "valid" THEN {<<"response_format", "users">>} ELSE {}

SetBy(p, fields) == {<<f, "users">> : f \in fields \cap p.set}

(* buildChatRequest: thinking and effort come from one intent, and greedy  *)
(* replaces what was set of the sampling it decides.                       *)
ChatBody(p) ==
  {<<"enable_thinking", IF p.effort = Unsaid THEN p.thinking ELSE p.effort # "none">>}
  \cup (IF p.effort = Unsaid THEN {} ELSE {<<"reasoning_effort", p.effort>>})
  \cup (IF p.greedy THEN {<<"temperature", "zero">>, <<"top_p", "one">>}
        ELSE SetBy(p, SampledBy))
  \cup SetBy(p, ChatFields \ SampledBy)
  \cup FormatFields(p)

(* buildResponsesBody and toResponsesReasoning: of the rest only these.    *)
ResponsesBody(body) ==
  {f \in body : f[1] \in {"max_tokens", "temperature", "top_p"}}
  \cup (IF <<"enable_thinking", FALSE>> \in body THEN {<<"reasoning_effort", "none">>}
        ELSE {f \in body : f[1] = "reasoning_effort"})

(* toResponsesItems: a reply is one item for each of its calls.            *)
ToItems(messages) ==
  FoldLeft(LAMBDA items, m :
             items \o (IF m.calls = {} THEN <<m>>
                       ELSE [n \in 1..Cardinality(m.calls) |->
                               [m EXCEPT !.calls = {SetToSeq(m.calls)[n]}]]),
           <<>>, messages)

UnsupportedSampling == {"top_k", "min_p", "presence_penalty", "frequency_penalty", "seed"}
SupportedByResponses(p) == p.set \cap UnsupportedSampling = {}

(* resolveDefaultStreamFn.                                                 *)
Transport(route, p) ==
  IF route = "local" /\ knownSupport /\ SupportedByResponses(p) THEN "responses" ELSE "chat"

-----------------------------------------------------------------------------
(* The seed of a run ends with the user's question; what its earlier turns *)
(* appended follows as it is.                                              *)
LastQuestion == Max({i \in 1..Len(transcript) : transcript[i].role = "user"})
Shipped(cut) ==
  LET seed == SubSeq(transcript, 1, LastQuestion)
  IN (IF cut THEN Pruned(seed) ELSE seed) \o SubSeq(transcript, LastQuestion + 1, Len(transcript))

(* The messages of buildChatRequest, each with its calls or the call it    *)
(* answers; it drops system messages.                                      *)
ChatMessages(h) == SelectSeq(Sanitized(h), LAMBDA m : m.role # "system")

SendTurn ==
  /\ transcript # <<>> /\ Last(transcript).role \in {"user", "tool"}
  /\ \E route \in {Route(e, a, u, l) : e, u, l \in BOOLEAN, a \in {Unsaid, "cloud", "ninfer"}},
        cut \in BOOLEAN :
       LET messages == ChatMessages(Shipped(cut))
       IN /\ cut => route = "cloud"
          /\ \E p \in ParamSets, api \in {"chat", "responses"} :
               /\ api = Transport(route, p)
               /\ request' = [api |-> api, from |-> [set |-> p.set, greedy |-> p.greedy],
                              messages |-> IF api = "chat" THEN messages ELSE ToItems(messages),
                              body |-> IF api = "chat" THEN ChatBody(p)
                                       ELSE ResponsesBody(ChatBody(p))]
  /\ UNCHANGED <<transcript, knownSupport>>

(* probeResponsesSupport, asked again when the engine comes up: another    *)
(* build may run by then.                                                  *)
ProbeResponses == knownSupport' \in BOOLEAN /\ UNCHANGED <<transcript, request>>

Grow(m) ==
  /\ Len(transcript) < MaxTranscript
  /\ transcript' = Append(transcript, m) /\ request' = Unsent /\ UNCHANGED knownSupport

AskQuestion == Grow(Message("user", {}, NoCall, 1))

(* A reply comes to a question, or to the answers of its calls.            *)
Replied ==
  /\ transcript # <<>> /\ Last(transcript).role \in {"user", "tool"}
  /\ \E n \in 0..CallsPerTurn :
       Grow(Message("assistant", {10 * (Len(transcript) + 1) + k : k \in 1..n}, NoCall, 1))

(* The calls of a reply are answered in order; a stop leaves out the rest. *)
ToolAnswered ==
  /\ transcript # <<>>
  /\ LET a == HeadOf(transcript, Len(transcript))
         open == transcript[a].calls \ {transcript[j].id : j \in a+1..Len(transcript)}
     IN open # {} /\ \E size \in Sizes : Grow(Message("tool", {}, Min(open), size))

DeleteFromHere ==
  /\ \E n \in 0..Len(transcript)-1 : transcript' = SubSeq(transcript, 1, n)
  /\ request' = Unsent /\ UNCHANGED knownSupport

-----------------------------------------------------------------------------
RequestInit == transcript = <<>> /\ knownSupport = FALSE /\ request = Unsent

RequestNext ==
  \/ SendTurn \/ ProbeResponses \/ AskQuestion \/ Replied \/ ToolAnswered \/ DeleteFromHere

RequestSpec == RequestInit /\ [][RequestNext]_requestVarsAll

-----------------------------------------------------------------------------
RequestTypeOK ==
  /\ Len(transcript) <= MaxTranscript /\ request.api \in {"none", "chat", "responses"}
  /\ \A i \in 1..Len(transcript) : transcript[i].role \in {"user", "assistant", "tool"}

(* What providers refuse is never sent: each call of a reply has exactly   *)
(* one answer, among the tool messages right after it, and no tool message *)
(* answers anything else; whatever a stop left open, and wherever the      *)
(* pruning cut. The same of the items of the Responses API.                *)
MessagesAreValid ==
  LET sent == request.messages
      talk(i) == Max({0} \cup {j \in 1..i : sent[j].role # "tool" /\ sent[j].calls = {}})
  IN /\ \A i \in 1..Len(sent) : sent[i].role = "tool" =>
          Cardinality({j \in talk(i)+1..i : sent[i].id \in sent[j].calls}) = 1
     /\ \A i \in 1..Len(sent) : \A id \in sent[i].calls :
          Cardinality({j \in 1..Len(sent) : sent[j].role = "tool" /\ sent[j].id = id}) = 1

(* No transport drops sampling the user set ("Never silently drop a param  *)
(* the user set", lib/api/responses.ts): deterministic is greedy whatever  *)
(* else is set, and the rest of the sampling goes out as it is.            *)
SamplingIsAsSet ==
  request.api # "none" =>
    /\ \A f \in request.from.set \ (IF request.from.greedy THEN SampledBy ELSE {}) :
         <<f, "users">> \in request.body
    /\ request.from.greedy =>
         {f \in request.body : f[1] \in SampledBy} = {<<"temperature", "zero">>, <<"top_p", "one">>}

(* A request is one its provider accepts and says what the user set, on    *)
(* whichever transport (buildChatRequest, buildResponsesBody).             *)
RequestsAreValid == MessagesAreValid /\ SamplingIsAsSet
=============================================================================
