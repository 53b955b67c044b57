----------------------------- MODULE ChatStream -----------------------------
(***************************************************************************)
(* One streamed request of the web client: streamChat with its fallback    *)
(* from the cloud to the local engine (lib/api/chat.ts), streamResponses   *)
(* (lib/api/responses.ts), the connect and idle timers of fetchStream      *)
(* (lib/api/core.ts), and streamToString with the one-shot jobs built on   *)
(* it.                                                                     *)
(*                                                                         *)
(* The server sends text in pieces; "half1" directly followed by "half2"   *)
(* is a closing think tag cut in two. The held-back tail of streamChat is  *)
(* one piece. shown and hidden are the indices of the pieces handed to     *)
(* onContentDelta and onReasoningDelta. The timers, a lost connection and  *)
(* an abort all reject the pending await. Left out: the fields of requests *)
(* and metrics, and the parsing of a chunk.                                *)
(***************************************************************************)
EXTENDS Naturals, Sequences, SequencesExt

CONSTANT MaxPieces     \* bound on the text pieces of a request
ASSUME StreamAssumption == MaxPieces \in Nat

VARIABLES
  job,       \* what was asked: "turn" by streamTurn, "text" by streamToString, "summary"
  api,       \* "chat" or "responses"
  remote,    \* the request goes to the cloud endpoint
  fallback,  \* allowFallback
  pass,      \* 1 while a summary is tried on the local engine, before the cloud
  phase,     \* "idle", "connect", "status", "read", "over"
  signal,    \* the caller's signal: "live" or "aborted" (by Stop or by its timeout)
  sent,      \* the pieces the server has sent
  held,      \* contentBuf
  shown, hidden,
  saw,       \* sawDone, or state.completed
  failed,    \* state.errored
  outcome,   \* the terminal callbacks so far
  result     \* of streamToString: "pending", "text" or "rejected"

streamVars == <<job, api, remote, fallback, pass, phase, signal, sent, held, shown,
                hidden, saw, failed, outcome, result>>
requestVars == <<job, api, remote, fallback, pass, signal>>
textVars == <<sent, held, shown, hidden>>

Kinds == {"text", "half1", "half2"}
Holdback == 1

-----------------------------------------------------------------------------
(* streamToString settles with the first terminal callback; a stream ended *)
(* by an abort is a rejection, whatever it had.                            *)
SettleOr(callback, strict) ==
  IF job = "turn" \/ result # "pending" THEN result
  ELSE IF callback = "error" \/ (strict /\ signal = "aborted") THEN "rejected"
  ELSE "text"
SettleOnDone(callback) == SettleOr(callback, FALSE)
Settle(callback) == SettleOr(callback, TRUE)

(* A summary the local engine did not give is asked of the cloud.          *)
Terminal(callback) ==
  /\ outcome' = Append(outcome, callback)
  /\ IF pass = 1 /\ Settle(callback) = "rejected"
     THEN phase' = "again" /\ UNCHANGED result
     ELSE phase' = "over" /\ result' = Settle(callback)

(* finish(): what is held back is text after all.                          *)
Finish == /\ shown' = shown \o held /\ held' = <<>>
          /\ Terminal("done") /\ UNCHANGED <<sent, hidden>>

(* The catch of both transports.                                           *)
Thrown == IF signal = "aborted" THEN Finish ELSE Terminal("error") /\ UNCHANGED textVars

FreshText == /\ sent' = <<>> /\ held' = <<>> /\ shown' = <<>> /\ hidden' = <<>>
             /\ saw' = FALSE /\ failed' = FALSE /\ outcome' = <<>>

OpenStream ==
  /\ phase = "idle"
  /\ job' \in {"turn", "text", "summary"} /\ api' \in {"chat", "responses"}
  /\ remote' \in BOOLEAN /\ fallback' \in BOOLEAN
  /\ api' = "responses" => job' = "turn" /\ ~remote'     \* else handed to streamChat
  /\ job' # "turn" => fallback'                          \* streamToString leaves it unset
  /\ pass' \in {1, 2} /\ (pass' = 1 => job' = "summary" /\ ~remote')
  /\ phase' = "connect" /\ result' = "pending" /\ FreshText
  /\ UNCHANGED signal

PassAgain ==
  /\ phase = "again"
  /\ remote' = TRUE /\ pass' = 2 /\ phase' = "connect" /\ FreshText
  /\ signal' \in {signal, "live"}              \* a timeout of its own starts anew
  /\ UNCHANGED <<job, api, fallback, result>>

Connected ==
  /\ phase = "connect" /\ signal = "live"
  /\ \/ phase' = "read" /\ UNCHANGED <<outcome, result>>
     \/ Terminal("error")
     \/ /\ remote /\ fallback                             \* 429 or a server error
        /\ phase' = "status" /\ UNCHANGED <<outcome, result>>
  /\ UNCHANGED <<requestVars, textVars, saw, failed>>

(* getStatus, which may fail, then the same request to the local engine.   *)
FallBack ==
  /\ phase = "status"
  /\ phase' = "connect" /\ remote' = FALSE /\ fallback' = FALSE
  /\ UNCHANGED <<job, api, pass, signal, textVars, saw, failed, outcome, result>>

(* pushContent, of the piece numbered n: everything up to the last closing *)
(* tag in the buffer was thought; of the rest all but the tail is text.    *)
PushContentOf(kinds, n, tail) ==
  LET buf == Append(held, n)
      closes == {i \in 2..Len(buf) : kinds[buf[i-1]] = "half1" /\ kinds[buf[i]] = "half2"
                                     /\ buf[i] = buf[i-1] + 1}
      cut == IF closes = {} THEN 0 ELSE CHOOSE i \in closes : \A j \in closes : j <= i
      rest == SubSeq(buf, cut + 1, Len(buf))
      safe == IF Len(rest) > tail THEN Len(rest) - tail ELSE 0
  IN /\ hidden' = hidden \o SubSeq(buf, 1, cut)
     /\ shown' = shown \o SubSeq(rest, 1, safe)
     /\ held' = SubSeq(rest, safe + 1, Len(rest))
PushAtOnce(kinds, n) == PushContentOf(kinds, n, 0)
PushContent(kinds, n) == PushContentOf(kinds, n, Holdback)

(* streamResponses hands on each piece as it comes.                        *)
PushResponse(n) == shown' = Append(shown, n) /\ UNCHANGED <<held, hidden>>

ReadDelta ==
  /\ phase = "read" /\ signal = "live" /\ ~saw /\ ~failed /\ Len(sent) < MaxPieces
  /\ \E kind \in Kinds :
       /\ sent' = Append(sent, kind)
       /\ IF api = "chat" THEN PushContent(sent', Len(sent'))
          ELSE PushResponse(Len(sent'))
  /\ UNCHANGED <<requestVars, phase, saw, failed, outcome, result>>

(* [DONE] ends streamChat, also as a last line without its newline.        *)
ReadDone ==
  /\ phase = "read" /\ signal = "live" /\ api = "chat"
  /\ saw' = TRUE /\ Finish
  /\ UNCHANGED <<requestVars, failed>>

(* response.completed, .incomplete and .failed do not; the close does.     *)
ReadSummary ==
  /\ phase = "read" /\ signal = "live" /\ api = "responses" /\ ~saw /\ ~failed
  /\ \/ saw' = TRUE /\ UNCHANGED <<failed, outcome>>
     \/ failed' = TRUE /\ outcome' = Append(outcome, "error") /\ UNCHANGED saw
  /\ UNCHANGED <<requestVars, textVars, phase, result>>

(* The connection closes.                                                  *)
Closed ==
  /\ phase = "read" /\ signal = "live"
  /\ IF saw THEN Finish
     ELSE IF failed THEN phase' = "over" /\ UNCHANGED <<outcome, result, textVars>>
     ELSE Terminal("error") /\ UNCHANGED textVars
  /\ UNCHANGED <<requestVars, saw, failed>>

(* A pending fetch or read rejects: lost, timed out, or aborted.           *)
Rejected ==
  /\ phase \in {"connect", "read"}
  /\ Thrown
  /\ UNCHANGED <<requestVars, saw, failed>>

AbortStream ==
  /\ signal = "live" /\ phase # "over" /\ signal' = "aborted"
  /\ UNCHANGED <<job, api, remote, fallback, pass, phase, textVars, saw, failed,
                 outcome, result>>

-----------------------------------------------------------------------------
StreamInit ==
  /\ job = "turn" /\ api = "chat" /\ remote = FALSE /\ fallback = FALSE
  /\ pass = 2 /\ phase = "idle" /\ signal = "live" /\ sent = <<>> /\ held = <<>> /\ shown = <<>>
  /\ hidden = <<>> /\ saw = FALSE /\ failed = FALSE /\ outcome = <<>> /\ result = "pending"

StreamNext ==
  \/ OpenStream \/ PassAgain \/ Connected \/ FallBack \/ ReadDelta \/ ReadDone \/ ReadSummary
  \/ Closed \/ Rejected \/ AbortStream

StreamSpec == StreamInit /\ [][StreamNext]_streamVars

-----------------------------------------------------------------------------
StreamTypeOK ==
  /\ phase \in {"idle", "connect", "status", "read", "again", "over"}
  /\ Len(held) <= Holdback /\ Len(outcome) <= 2
  /\ ToSet(shown) \cup ToSet(hidden) \cup ToSet(held) \subseteq DOMAIN sent

(* A finished streamChat has handed on every piece once, and none of the   *)
(* think tags that arrive cut in two shows in the reply.                   *)
RepliesAreClean ==
  phase = "over" /\ api = "chat" /\ Last(outcome) = "done" =>
    /\ ToSet(shown) \cup ToSet(hidden) = DOMAIN sent
    /\ Len(shown) + Len(hidden) = Len(sent)
    /\ \A i \in 1..Len(shown)-1 : shown[i] < shown[i+1]
         /\ ~(shown[i+1] = shown[i] + 1
              /\ sent[shown[i]] = "half1" /\ sent[shown[i+1]] = "half2")

(* A summary, critique or revision is used only when its stream said it    *)
(* was complete: neither an abort nor the job's own timeout, which both    *)
(* end the stream with onDone, makes its first half the result.            *)
ResultsAreComplete == result = "text" => saw
=============================================================================
