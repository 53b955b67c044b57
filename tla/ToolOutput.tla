----------------------------- MODULE ToolOutput -----------------------------
(***************************************************************************)
(* Large tool results in the Coder's history (lib/observationPack.ts, and  *)
(* the receipts of lib/api/chat.ts): a huge one is replaced by a receipt   *)
(* as it comes in, one that is merely large is replaced by a placeholder   *)
(* some requests later, and can be paged back in with obs_recall from the  *)
(* browser's database.                                                     *)
(*                                                                         *)
(* A text is a sequence of bytes of which only the newlines matter. The    *)
(* digest of a text is the text; the excerpts, the wording of placeholders *)
(* and the shapes of a result are left out, and so are the messages that   *)
(* are not tool results.                                                   *)
(***************************************************************************)
EXTENDS Naturals, Sequences, FiniteSets, SequencesExt

CONSTANTS
  Outputs,         \* the texts tools return, with what a reader sees in them
  FullSends,       \* PACK_FULL_SENDS
  BatchSize,       \* PACK_BATCH_SIZE
  PackAbove,       \* PACK_THRESHOLD_BYTES
  ReduceAbove,     \* SUMMARY_THRESHOLD
  PageBytes,       \* RECALL_MAX_BYTES
  PageLines,       \* RECALL_MAX_LINES
  MaxResults,      \* bound on tool results
  MaxCallsInTurn,  \* bound on the tool calls of one reply
  MaxReloads       \* bound on page loads, compactions and new runs

ASSUME OutputAssumption ==
  /\ \A o \in Outputs : /\ o.bytes \in Seq({"x", "n"})
                        /\ o.exit \in {"zero", "nonzero", "none"} /\ o.alarming \in BOOLEAN
  /\ {FullSends, BatchSize, PackAbove, ReduceAbove, PageBytes, PageLines} \subseteq Nat \ {0}
  /\ {MaxResults, MaxCallsInTurn, MaxReloads} \subseteq Nat

VARIABLES
  results,    \* the tool results in the history, oldest first
  kept,       \* the texts in IndexedDB
  packed,     \* packedCache
  callsLeft,  \* tool calls of the current reply still to be answered
  pages,      \* a recall in progress: the text, what was read, what is next
  resultCount, reloads

outputVars == <<results, kept, packed, callsLeft, pages, resultCount, reloads>>

NoPages == [of |-> {}, got |-> <<>>, next |-> 0, eof |-> TRUE]
Size(o) == Len(o.bytes)

OutputInit ==
  /\ results = <<>> /\ kept = {} /\ packed = {} /\ callsLeft = 0
  /\ pages = NoPages /\ resultCount = 0 /\ reloads = 0

-----------------------------------------------------------------------------
(* validateOutputReceipt: what the reducer model claims is checked against *)
(* the text it was given; genuine is that every quote occurs in it, failed *)
(* that one of them is cited as a failure.                                 *)
VerifiedSummary(o, receipt) ==
  /\ receipt.genuine
  /\ o.exit = "nonzero" => receipt.status = "failure"
  /\ o.exit = "nonzero" \/ (o.exit = "none" /\ o.alarming) => receipt.failed

(* What becomes of a result: the text it is about, whichever field holds   *)
(* it, and what stands in its place.                                       *)
TextOf(result) == result.of
PutOutput(result, form) == [result EXCEPT !.form = form]

(* maybeSummarizeTool. Without a verified receipt the result stays whole.  *)
Reduced(result) ==
  {result} \cup
  {PutOutput(result, receipt.status) :
     receipt \in {r \in [status : {"success", "failure"}, genuine : BOOLEAN, failed : BOOLEAN] :
                   Size(TextOf(result)) > ReduceAbove /\ VerifiedSummary(TextOf(result), r)}}

ToolReturns ==
  /\ callsLeft > 0 /\ resultCount < MaxResults
  /\ callsLeft' = callsLeft - 1 /\ resultCount' = resultCount + 1
  /\ \E o \in Outputs : \E result \in Reduced([of |-> o, form |-> "whole"]) :
       results' = Append(results, result)
  /\ UNCHANGED <<kept, packed, pages, reloads>>

(* packForRequest. A result counts as sent once for every later one; the   *)
(* ones packed before are packed again from the cache, new ones only when  *)
(* there is a batch of them.                                               *)
OldEnough(i) == Len(results) - i >= FullSends
Whole == {i \in DOMAIN results : OldEnough(i) /\ results[i].form = "whole"}
Again == {i \in Whole : TextOf(results[i]) \in packed}
Eligible == {i \in Whole \ Again : Size(TextOf(results[i])) > PackAbove}
Batch == IF Cardinality(Eligible) < BatchSize THEN {} ELSE Eligible

PackUnkept(batch) ==
  /\ packed' = packed \cup {TextOf(results[i]) : i \in batch}
  /\ UNCHANGED kept
Pack(batch) ==
  /\ packed' = packed \cup {TextOf(results[i]) : i \in batch}
  /\ kept' = kept \cup {TextOf(results[i]) : i \in batch}

(* A turn: the packed history becomes the history, and is sent.            *)
SendHistory ==
  /\ callsLeft = 0
  /\ Pack(Batch)
  /\ results' = [i \in DOMAIN results |->
                   IF i \in Again \cup Batch THEN PutOutput(results[i], "packed") ELSE results[i]]
  /\ callsLeft' \in 1..MaxCallsInTurn
  /\ UNCHANGED <<pages, resultCount, reloads>>

(* The database refuses one of the texts: those before it are stored and   *)
(* remembered, the history stays, and the run ends with an error.          *)
PackFails ==
  /\ callsLeft = 0 /\ Batch # {} /\ reloads < MaxReloads /\ reloads' = reloads + 1
  /\ \E n \in Batch : Pack({i \in Batch : i < n})
  /\ UNCHANGED <<results, callsLeft, pages, resultCount>>

(* The page is loaded again: the cache is gone, the database is not.       *)
ReloadPage ==
  /\ reloads < MaxReloads /\ reloads' = reloads + 1
  /\ packed' = {} /\ callsLeft' = 0 /\ pages' = NoPages
  /\ UNCHANGED <<results, kept, resultCount>>

(* A compaction replaces the history by a summary and its last messages.   *)
CompactHistory ==
  /\ callsLeft = 0 /\ reloads < MaxReloads /\ reloads' = reloads + 1
  /\ \E n \in 1..Len(results) : results' = SubSeq(results, n + 1, Len(results))
  /\ UNCHANGED <<kept, packed, callsLeft, pages, resultCount>>

-----------------------------------------------------------------------------
(* readRecallChunk: a page ends at its byte limit, or after the newline    *)
(* that fills its line limit.                                              *)
PageFrom(bytes, offset) ==
  LET window == SubSeq(bytes, offset + 1,
                       IF Len(bytes) - offset < PageBytes THEN Len(bytes) ELSE offset + PageBytes)
      Full(i) == window[i] = "n" /\ Len(SelectSeq(SubSeq(window, 1, i), LAMBDA b : b = "n")) = PageLines
  IN IF \E i \in DOMAIN window : Full(i)
     THEN SubSeq(window, 1, CHOOSE i \in DOMAIN window : Full(i))
     ELSE window

Turned(o, got, offset) ==
  LET page == PageFrom(o.bytes, offset)
  IN [of |-> {o}, got |-> got \o page, next |-> offset + Len(page),
      eof |-> offset + Len(page) >= Size(o)]

(* The model pages back in what a placeholder stands for.                  *)
Recall ==
  /\ pages.eof
  /\ \E i \in DOMAIN results :
       /\ results[i].form = "packed" /\ results[i].of \in kept
       /\ pages' = Turned(results[i].of, <<>>, 0)
  /\ UNCHANGED <<results, kept, packed, callsLeft, resultCount, reloads>>

RecallOn ==
  /\ ~pages.eof
  /\ \E o \in pages.of : pages' = Turned(o, pages.got, pages.next)
  /\ UNCHANGED <<results, kept, packed, callsLeft, resultCount, reloads>>

OutputNext ==
  \/ ToolReturns \/ SendHistory \/ PackFails \/ ReloadPage \/ CompactHistory
  \/ Recall \/ RecallOn

OutputSpec == OutputInit /\ [][OutputNext]_outputVars

-----------------------------------------------------------------------------
(* Types; a receipt is never packed over, and nothing small ever is.       *)
OutputTypeOK ==
  /\ kept \subseteq Outputs /\ packed \subseteq kept
  /\ callsLeft \in 0..MaxCallsInTurn /\ resultCount \in 0..MaxResults
  /\ \A i \in DOMAIN results :
       /\ results[i].form \in {"whole", "packed", "success", "failure"}
       /\ results[i].form = "packed" => Size(results[i].of) > PackAbove
       /\ results[i].form \in {"success", "failure"} => Size(results[i].of) > ReduceAbove

(* "Nothing is lost": what a placeholder stands for can be paged back in   *)
(* at any time, after failed packs, page loads and compactions too, and    *)
(* the pages put one after the other are the text (packForRequest,         *)
(* readRecallChunk).                                                       *)
NothingIsLost ==
  /\ \A i \in DOMAIN results : results[i].form = "packed" => results[i].of \in kept
  /\ pages # NoPages /\ pages.eof => \A o \in pages.of : pages.got = o.bytes
=============================================================================
