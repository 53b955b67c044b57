----------------------------- MODULE ChatProofs -----------------------------
(***************************************************************************)
(* Proofs about the chat of the web client, for any number of pieces,      *)
(* conversations, runs, turns and clicks: one streamed request (what text  *)
(* it settles with, and what of the text it shows), and the conversations  *)
(* that the assistant runs write into; then the types of both.             *)
(***************************************************************************)
EXTENDS ChatStream, ChatThread, SequenceTheorems, FiniteSetTheorems,
        WellFoundedInduction, TLAPS

-----------------------------------------------------------------------------
(* A streamed request: its result                                          *)

(* ResultsAreComplete alone is not inductive: a summary that is tried      *)
(* again starts with nothing seen. It has no result then, since nothing    *)
(* settles before the request is over.                                     *)
SettledAtTheEnd == phase # "over" => result = "pending"
ResultInv == ResultsAreComplete /\ SettledAtTheEnd

(* An error, or any end after an abort, settles with no text.              *)
LEMMA NoTextOnError ==
  ASSUME ResultInv, phase # "over", NEW callback,
         Terminal(callback), callback = "error" \/ signal = "aborted"
  PROVE  result' # "text" /\ SettledAtTheEnd'
<1>1. result = "pending"
  BY DEF ResultInv, SettledAtTheEnd
<1>2. Settle(callback) # "text"
  BY <1>1 DEF Settle, SettleOr
<1>. QED  BY <1>1, <1>2 DEF Terminal, SettledAtTheEnd

(* A completed stream settles only as it ends.                             *)
LEMMA TextAtTheEnd ==
  ASSUME ResultInv, phase # "over", Finish
  PROVE  SettledAtTheEnd'
  BY DEF ResultInv, SettledAtTheEnd, Finish, Terminal

LEMMA ResultStep ==
  ASSUME ResultInv, [StreamNext]_streamVars
  PROVE  ResultInv'
<1>. USE DEF ResultInv, ResultsAreComplete
<1>1. CASE OpenStream
  BY <1>1 DEF OpenStream, FreshText, SettledAtTheEnd
<1>2. CASE PassAgain
  BY <1>2 DEF PassAgain, SettledAtTheEnd
<1>3. CASE Connected
  <2>1. CASE phase' = "read" /\ UNCHANGED <<outcome, result>>
    BY <1>3, <2>1 DEF Connected, SettledAtTheEnd
  <2>2. CASE Terminal("error")
    BY <1>3, <2>2, NoTextOnError DEF Connected
  <2>3. CASE phase' = "status" /\ UNCHANGED <<outcome, result>>
    BY <1>3, <2>3 DEF Connected, SettledAtTheEnd
  <2>. QED  BY <1>3, <2>1, <2>2, <2>3 DEF Connected
<1>4. CASE FallBack
  BY <1>4 DEF FallBack, SettledAtTheEnd
<1>5. CASE ReadDelta
  BY <1>5 DEF ReadDelta, SettledAtTheEnd
<1>6. CASE ReadDone
  BY <1>6, TextAtTheEnd DEF ReadDone
<1>7. CASE ReadSummary
  BY <1>7 DEF ReadSummary, SettledAtTheEnd
<1>8. CASE Closed
  <2>1. CASE saw
    BY <1>8, <2>1, TextAtTheEnd DEF Closed
  <2>2. CASE ~saw /\ failed
    BY <1>8, <2>2 DEF Closed, SettledAtTheEnd
  <2>3. CASE ~saw /\ ~failed
    BY <1>8, <2>3, NoTextOnError DEF Closed
  <2>. QED  BY <2>1, <2>2, <2>3
<1>9. CASE Rejected
  <2>1. CASE signal = "aborted"
    BY <1>9, <2>1, NoTextOnError DEF Rejected, Thrown, Finish
  <2>2. CASE signal # "aborted"
    BY <1>9, <2>2, NoTextOnError DEF Rejected, Thrown
  <2>. QED  BY <2>1, <2>2
<1>10. CASE AbortStream
  BY <1>10 DEF AbortStream, SettledAtTheEnd
<1>11. CASE UNCHANGED streamVars
  BY <1>11 DEF streamVars, SettledAtTheEnd
<1>. QED
  BY <1>1, <1>2, <1>3, <1>4, <1>5, <1>6, <1>7, <1>8, <1>9, <1>10, <1>11 DEF StreamNext

(* What an abort, a timeout or an error left of a summary, a critique or a *)
(* revision never becomes its result (streamToString, lib/api/chat.ts).    *)
THEOREM OnlyCompleteTextIsUsed == StreamSpec => []ResultsAreComplete
<1>1. StreamInit => ResultInv
  BY DEF StreamInit, ResultInv, ResultsAreComplete, SettledAtTheEnd
<1>2. ResultInv /\ [StreamNext]_streamVars => ResultInv'
  BY ResultStep
<1>3. ResultInv => ResultsAreComplete
  BY DEF ResultInv
<1>. QED  BY <1>1, <1>2, <1>3, PTL DEF StreamSpec

-----------------------------------------------------------------------------
(* A streamed request: its text                                            *)

Closes(kinds, a, b) == b = a + 1 /\ kinds[a] = "half1" /\ kinds[b] = "half2"
Orderly(s, kinds) ==
  \A i \in 1..Len(s)-1 : s[i] < s[i+1] /\ ~Closes(kinds, s[i], s[i+1])

StreamEnded == phase \in {"over", "again"}

TextTypes ==
  /\ sent \in Seq(Kinds) /\ shown \in Seq(1..Len(sent)) /\ hidden \in Seq(1..Len(sent))
  /\ held = <<>> \/ (sent # <<>> /\ held = <<Len(sent)>>)

(* Every piece is shown, hidden or held back, once; what is shown and held *)
(* back is in order and holds no tag; and a piece that is not held back    *)
(* when the next one comes was thought.                                    *)
CleanText ==
  /\ Len(shown) + Len(hidden) + Len(held) = Len(sent)
  /\ 1..Len(sent) \subseteq ToSet(shown) \cup ToSet(hidden) \cup ToSet(held)
  /\ Orderly(shown \o held, sent)
  /\ held = <<>> /\ ~StreamEnded => Len(sent) \notin ToSet(shown)

EndInv ==
  /\ ~failed
  /\ ~StreamEnded => outcome = <<>>
  /\ phase = "over" => \/ outcome = <<"error">>
                       \/ outcome = <<"done">> /\ held = <<>>

CleanInv == api = "chat" => TextTypes /\ CleanText /\ EndInv

-----------------------------------------------------------------------------
LEMMA ToSetOfConcat ==
  ASSUME NEW S, NEW s \in Seq(S), NEW t \in Seq(S)
  PROVE  ToSet(s \o t) = ToSet(s) \cup ToSet(t)
<1>. DEFINE all == s \o t
<1>1. /\ DOMAIN all = 1..(Len(s) + Len(t)) /\ DOMAIN s = 1..Len(s) /\ DOMAIN t = 1..Len(t)
      /\ Len(s) \in Nat /\ Len(t) \in Nat
  OBVIOUS
<1>2. \A i \in DOMAIN s : i \in DOMAIN all /\ all[i] = s[i]
  OBVIOUS
<1>3. \A i \in DOMAIN t : Len(s) + i \in DOMAIN all /\ all[Len(s) + i] = t[i]
  OBVIOUS
<1>4. \A i \in DOMAIN all : i \notin DOMAIN s =>
        i - Len(s) \in DOMAIN t /\ all[i] = t[i - Len(s)]
  OBVIOUS
<1>. HIDE DEF all
<1>5. ASSUME NEW x \in ToSet(s) PROVE x \in ToSet(all)
  BY <1>2, <1>5 DEF ToSet
<1>6. ASSUME NEW x \in ToSet(t) PROVE x \in ToSet(all)
  <2>1. PICK i \in DOMAIN t : x = t[i]
    BY <1>6 DEF ToSet
  <2>. QED  BY <2>1, <1>3 DEF ToSet
<1>7. ASSUME NEW x \in ToSet(all) PROVE x \in ToSet(s) \cup ToSet(t)
  <2>1. PICK i \in DOMAIN all : x = all[i]
    BY <1>7 DEF ToSet
  <2>2. CASE i \in DOMAIN s
    BY <2>1, <2>2, <1>2 DEF ToSet
  <2>3. CASE i \notin DOMAIN s
    BY <2>1, <2>3, <1>4 DEF ToSet
  <2>. QED  BY <2>2, <2>3
<1>8. ToSet(all) = ToSet(s) \cup ToSet(t)
  BY <1>5, <1>6, <1>7
<1>. QED  BY <1>8 DEF all

LEMMA ToSetOfOne == ASSUME NEW x PROVE ToSet(<<x>>) = {x}
  BY DEF ToSet

LEMMA AppendIsLonger ==
  ASSUME NEW S, NEW s \in Seq(S), NEW x \in S
  PROVE  /\ Len(s) \in Nat /\ Append(s, x) \in Seq(S) /\ Len(Append(s, x)) = Len(s) + 1
         /\ Append(s, x) # <<>> /\ \A i \in 1..Len(s) : Append(s, x)[i] = s[i]
<1>1. /\ Append(s, x) \in Seq(S) /\ Len(Append(s, x)) = Len(s) + 1
      /\ \A i \in 1..Len(s) : Append(s, x)[i] = s[i]
  BY AppendProperties
<1>2. Len(s) \in Nat
  BY LenProperties
<1>3. Append(s, x) # <<>>
  BY <1>1, <1>2, EmptySeq
<1>. QED  BY <1>1, <1>2, <1>3

(* A piece after nothing held back                                         *)
LEMMA PieceIsHeld ==
  ASSUME TextTypes, CleanText, ~StreamEnded, held = <<>>, NEW kind \in Kinds,
         sent' = Append(sent, kind), UNCHANGED <<shown, hidden>>, held' = <<Len(sent) + 1>>
  PROVE  TextTypes' /\ CleanText'
<1>. DEFINE n == Len(sent)
<1>1. /\ n \in Nat /\ sent' \in Seq(Kinds) /\ Len(sent') = n + 1 /\ sent' # <<>>
      /\ \A i \in 1..n : sent'[i] = sent[i]
  <2>1. sent \in Seq(Kinds)
    BY DEF TextTypes
  <2>. QED  BY <2>1, AppendIsLonger
<1>2. shown \in Seq(1..n) /\ hidden \in Seq(1..n)
  BY DEF TextTypes
<1>3. shown' \in Seq(1..(n + 1)) /\ hidden' \in Seq(1..(n + 1))
  BY <1>1, <1>2, SeqMonotonic
<1>4. TextTypes'
  BY <1>1, <1>3 DEF TextTypes
<1>5. shown \o held = shown /\ Orderly(shown, sent) /\ n \notin ToSet(shown)
  BY <1>2 DEF CleanText
<1>6. \A i \in 1..Len(shown) : shown[i] \in 1..n /\ shown[i] # n
  BY <1>2, <1>5 DEF ToSet
<1>7. Orderly(shown \o <<n + 1>>, sent')
  <2>. DEFINE all == shown \o <<n + 1>>
  <2>1. /\ Len(all) = Len(shown) + 1 /\ all[Len(all)] = n + 1
        /\ \A i \in 1..Len(shown) : all[i] = shown[i]
    BY <1>1, <1>2
  <2>. SUFFICES ASSUME NEW i \in 1..Len(all)-1
                PROVE  all[i] < all[i+1] /\ ~Closes(sent', all[i], all[i+1])
    BY DEF Orderly
  <2>2. CASE i = Len(shown)
    BY <2>1, <2>2, <1>1, <1>6 DEF Closes
  <2>3. CASE i < Len(shown)
    <3>1. i \in 1..Len(shown)-1 /\ all[i] = shown[i] /\ all[i+1] = shown[i+1]
      BY <2>1, <2>3, <1>2
    <3>2. shown[i] < shown[i+1] /\ ~Closes(sent, shown[i], shown[i+1])
      BY <3>1, <1>5 DEF Orderly
    <3>3. shown[i] \in 1..n /\ shown[i+1] \in 1..n
      BY <3>1, <1>2
    <3>. QED  BY <3>1, <3>2, <3>3, <1>1 DEF Closes
  <2>. QED  BY <2>1, <2>2, <2>3, <1>2
<1>8. 1..(n + 1) \subseteq ToSet(shown) \cup ToSet(hidden) \cup ToSet(<<n + 1>>)
  BY <1>1, ToSetOfOne DEF CleanText, ToSet
<1>9. Len(shown) + Len(hidden) + Len(<<n + 1>>) = n + 1
  BY <1>2 DEF CleanText
<1>. QED  BY <1>1, <1>4, <1>7, <1>8, <1>9 DEF CleanText

(* Its second half: both halves of the tag were thought.                   *)
LEMMA TagIsHidden ==
  ASSUME TextTypes, CleanText, sent # <<>>, held = <<Len(sent)>>, NEW kind \in Kinds,
         sent' = Append(sent, kind), UNCHANGED shown, held' = <<>>,
         hidden' = hidden \o <<Len(sent), Len(sent) + 1>>
  PROVE  TextTypes' /\ CleanText'
<1>. DEFINE n == Len(sent)
<1>1. /\ n \in Nat \ {0} /\ sent' \in Seq(Kinds) /\ Len(sent') = n + 1 /\ sent' # <<>>
      /\ \A i \in 1..n : sent'[i] = sent[i]
  <2>1. sent \in Seq(Kinds) /\ n # 0
    BY EmptySeq DEF TextTypes
  <2>. QED  BY <2>1
<1>2. shown \in Seq(1..n) /\ hidden \in Seq(1..n)
  BY DEF TextTypes
<1>3. shown' \in Seq(1..(n + 1)) /\ hidden \in Seq(1..(n + 1)) /\ <<n, n + 1>> \in Seq(1..(n + 1))
  BY <1>1, <1>2, SeqMonotonic
<1>4. TextTypes'
  BY <1>1, <1>3 DEF TextTypes
<1>. DEFINE all == shown \o <<n>>
<1>5. /\ Orderly(all, sent) /\ Len(all) = Len(shown) + 1
      /\ \A i \in 1..Len(shown) : all[i] = shown[i]
  BY <1>1, <1>2 DEF CleanText
<1>6. Orderly(shown, sent')
  <2>. SUFFICES ASSUME NEW i \in 1..Len(shown)-1
                PROVE  shown[i] < shown[i+1] /\ ~Closes(sent', shown[i], shown[i+1])
    BY DEF Orderly
  <2>1. i \in 1..Len(all)-1 /\ all[i] = shown[i] /\ all[i+1] = shown[i+1]
    BY <1>5, <1>2
  <2>2. shown[i] < shown[i+1] /\ ~Closes(sent, shown[i], shown[i+1])
    BY <2>1, <1>5 DEF Orderly
  <2>3. shown[i] \in 1..n /\ shown[i+1] \in 1..n
    BY <1>2
  <2>. QED  BY <2>2, <2>3, <1>1 DEF Closes
<1>7. ToSet(hidden') = ToSet(hidden) \cup {n, n + 1}
  <2>1. ToSet(<<n, n + 1>>) = {n, n + 1}
    BY DEF ToSet
  <2>2. PICK tag : tag = <<n, n + 1>>
    OBVIOUS
  <2>3. tag \in Seq(1..(n + 1)) /\ hidden \in Seq(1..(n + 1))
    BY <1>3, <2>2
  <2>4. ToSet(hidden \o tag) = ToSet(hidden) \cup ToSet(tag)
    BY <2>3, ToSetOfConcat
  <2>5. hidden' = hidden \o tag
    BY <2>2
  <2>. QED  BY <2>1, <2>2, <2>4, <2>5
<1>8. 1..(n + 1) \subseteq ToSet(shown) \cup ToSet(hidden')
  <2>1. 1..n \subseteq ToSet(shown) \cup ToSet(hidden) \cup {n}
    BY ToSetOfOne DEF CleanText
  <2>2. 1..(n + 1) \subseteq (1..n) \cup {n, n + 1}
    BY <1>1
  <2>. QED  BY <2>1, <2>2, <1>7
<1>9. Len(shown) + Len(hidden') = n + 1
  BY <1>2, <1>3 DEF CleanText
<1>10. n + 1 \notin ToSet(shown)
  BY <1>1, <1>2 DEF ToSet
<1>11. shown \o <<>> = shown /\ ToSet(<<>>) = {}
  BY <1>2 DEF ToSet
<1>12. Orderly(shown \o held, sent)'
  BY <1>6, <1>11
<1>13. 1..Len(sent') \subseteq ToSet(shown') \cup ToSet(hidden') \cup ToSet(held')
  BY <1>1, <1>8
<1>14. Len(shown') + Len(hidden') + Len(held') = Len(sent')
  BY <1>1, <1>9, <1>2, <1>3
<1>15. Len(sent') \notin ToSet(shown')
  BY <1>1, <1>10
<1>. QED  BY <1>4, <1>12, <1>13, <1>14, <1>15 DEF CleanText

(* Anything else: what was held back is text, and the piece takes its      *)
(* place.                                                                  *)
LEMMA TailIsShown ==
  ASSUME TextTypes, CleanText, sent # <<>>, held = <<Len(sent)>>, NEW kind \in Kinds,
         sent' = Append(sent, kind), ~Closes(sent', Len(sent), Len(sent) + 1),
         shown' = Append(shown, Len(sent)), UNCHANGED hidden, held' = <<Len(sent) + 1>>
  PROVE  TextTypes' /\ CleanText'
<1>. DEFINE n == Len(sent)
<1>1. /\ n \in Nat \ {0} /\ sent' \in Seq(Kinds) /\ Len(sent') = n + 1 /\ sent' # <<>>
      /\ \A i \in 1..n : sent'[i] = sent[i]
  <2>1. sent \in Seq(Kinds) /\ n # 0
    BY EmptySeq DEF TextTypes
  <2>. QED  BY <2>1
<1>2. shown \in Seq(1..n) /\ hidden \in Seq(1..n)
  BY DEF TextTypes
<1>3. shown \in Seq(1..(n + 1)) /\ hidden' \in Seq(1..(n + 1))
  BY <1>1, <1>2, SeqMonotonic
<1>4. shown' \in Seq(1..(n + 1)) /\ Len(shown') = Len(shown) + 1 /\ shown' = shown \o <<n>>
  BY <1>1, <1>3
<1>5. TextTypes'
  BY <1>1, <1>3, <1>4 DEF TextTypes
<1>6. Orderly(shown', sent) /\ shown'[Len(shown')] = n
  BY <1>2, <1>4 DEF CleanText
<1>7. Orderly(shown' \o <<n + 1>>, sent')
  <2>. DEFINE all == shown' \o <<n + 1>>
  <2>1. /\ Len(all) = Len(shown') + 1 /\ all[Len(all)] = n + 1
        /\ \A i \in 1..Len(shown') : all[i] = shown'[i]
    BY <1>1, <1>4
  <2>. SUFFICES ASSUME NEW i \in 1..Len(all)-1
                PROVE  all[i] < all[i+1] /\ ~Closes(sent', all[i], all[i+1])
    BY DEF Orderly
  <2>2. CASE i = Len(shown')
    BY <2>1, <2>2, <1>1, <1>6
  <2>3. CASE i < Len(shown')
    <3>1. i \in 1..Len(shown')-1 /\ all[i] = shown'[i] /\ all[i+1] = shown'[i+1]
      BY <2>1, <2>3, <1>4
    <3>2. shown'[i] < shown'[i+1] /\ ~Closes(sent, shown'[i], shown'[i+1])
      BY <3>1, <1>6 DEF Orderly
    <3>3. shown'[i] \in 1..n /\ shown'[i+1] \in 1..n
      <4>1. shown' \in Seq(1..n)
        BY <1>1, <1>2
      <4>. QED  BY <4>1, <3>1
    <3>. QED  BY <3>1, <3>2, <3>3, <1>1 DEF Closes
  <2>. QED  BY <2>1, <2>2, <2>3, <1>4
<1>8. ToSet(shown') = ToSet(shown) \cup {n}
  <2>1. PICK last : last = <<n>>
    OBVIOUS
  <2>2. last \in Seq(1..(n + 1)) /\ ToSet(last) = {n}
    BY <1>1, <2>1, ToSetOfOne
  <2>3. shown \in Seq(1..(n + 1))
    BY <1>3
  <2>4. ToSet(shown \o last) = ToSet(shown) \cup ToSet(last)
    BY <2>2, <2>3, ToSetOfConcat
  <2>5. shown' = shown \o last
    BY <1>4, <2>1
  <2>. QED  BY <2>2, <2>4, <2>5
<1>9. 1..(n + 1) \subseteq ToSet(shown') \cup ToSet(hidden) \cup ToSet(<<n + 1>>)
  BY <1>1, <1>8, ToSetOfOne DEF CleanText
<1>10. Len(shown') + Len(hidden) + Len(<<n + 1>>) = n + 1
  BY <1>2, <1>4 DEF CleanText
<1>. QED  BY <1>1, <1>5, <1>7, <1>9, <1>10 DEF CleanText

(* What the pieces of a buffer of one or two are.                          *)
SmallSeqs(a, b) ==
  /\ Append(<<>>, a) = <<a>> /\ Append(<<a>>, b) = <<a, b>>
  /\ SubSeq(<<a>>, 1, 0) = <<>> /\ SubSeq(<<a>>, 1, 1) = <<a>>
  /\ SubSeq(<<a, b>>, 1, 0) = <<>> /\ SubSeq(<<a, b>>, 1, 1) = <<a>>
  /\ SubSeq(<<a, b>>, 1, 2) = <<a, b>> /\ SubSeq(<<a, b>>, 2, 2) = <<b>>
  /\ SubSeq(<<a, b>>, 3, 2) = <<>> /\ SubSeq(<<>>, 1, 0) = <<>>

LEMMA SmallSeqsAre == ASSUME NEW a \in Nat, NEW b \in Nat PROVE SmallSeqs(a, b)
<1>1. <<a>> \in Seq(Nat) /\ <<a, b>> \in Seq(Nat) /\ <<>> \in Seq(Nat)
  OBVIOUS
<1>2. Append(<<>>, a) = <<a>>
  <2>1. Append(<<>>, a) \in Seq(Nat) /\ Len(Append(<<>>, a)) = 1 /\ Append(<<>>, a)[1] = a
    BY <1>1, AppendProperties
  <2>2. \A i \in 1..1 : Append(<<>>, a)[i] = <<a>>[i]
    BY <2>1
  <2>. QED  BY <1>1, <2>1, <2>2, SeqEqual
<1>7. Append(<<a>>, b) = <<a, b>>
  <2>. DEFINE s == Append(<<a>>, b)
  <2>1. s \in Seq(Nat) /\ Len(s) = 2 /\ s[1] = a /\ s[2] = b
    BY <1>1, AppendProperties
  <2>. HIDE DEF s
  <2>2. \A i \in 1..2 : s[i] = <<a, b>>[i]
    BY <2>1
  <2>3. s = <<a, b>>
    BY <1>1, <2>1, <2>2, SeqEqual
  <2>. QED  BY <2>3 DEF s
<1>3. /\ SubSeq(<<a>>, 1, 0) = <<>> /\ SubSeq(<<a, b>>, 1, 0) = <<>>
      /\ SubSeq(<<a, b>>, 3, 2) = <<>> /\ SubSeq(<<>>, 1, 0) = <<>>
  BY <1>1, SubSeqEmpty
<1>4. SubSeq(<<a>>, 1, 1) = <<a>> /\ SubSeq(<<a, b>>, 1, 2) = <<a, b>>
  BY <1>1, SubSeqFull
<1>5. SubSeq(<<a, b>>, 1, 1) = <<a>>
  <2>. DEFINE s == SubSeq(<<a, b>>, 1, 1)
  <2>1. \A i \in 1..1 : <<a, b>>[i] = a /\ <<a, b>>[i] \in Nat
    OBVIOUS
  <2>2. s \in Seq(Nat) /\ Len(s) = 1 /\ s[1] = a
    BY <2>1, SubSeqProperties
  <2>. HIDE DEF s
  <2>3. \A i \in 1..1 : s[i] = <<a>>[i]
    BY <2>2
  <2>4. s = <<a>>
    BY <2>2, <2>3, SeqEqual
  <2>. QED  BY <2>4 DEF s
<1>6. SubSeq(<<a, b>>, 2, 2) = <<b>>
  <2>. DEFINE s == SubSeq(<<a, b>>, 2, 2)
  <2>1. \A i \in 2..2 : <<a, b>>[i] = b /\ <<a, b>>[i] \in Nat
    OBVIOUS
  <2>2. s \in Seq(Nat) /\ Len(s) = 1 /\ s[1] = b
    BY <2>1, SubSeqProperties
  <2>. HIDE DEF s
  <2>3. \A i \in 1..1 : s[i] = <<b>>[i]
    BY <2>2
  <2>4. s = <<b>>
    BY <2>2, <2>3, SeqEqual
  <2>. QED  BY <2>4 DEF s
<1>. QED  BY <1>2, <1>3, <1>4, <1>5, <1>6, <1>7 DEF SmallSeqs

LEMMA PushKeeps ==
  ASSUME TextTypes, CleanText, ~StreamEnded, NEW kind \in Kinds, sent' = Append(sent, kind),
         PushContent(sent', Len(sent'))
  PROVE  TextTypes' /\ CleanText'
<1>. DEFINE n == Len(sent)
            buf == Append(held, Len(sent'))
            closes == {i \in 2..Len(buf) : sent'[buf[i-1]] = "half1" /\ sent'[buf[i]] = "half2"
                                            /\ buf[i] = buf[i-1] + 1}
            cut == IF closes = {} THEN 0 ELSE CHOOSE i \in closes : \A j \in closes : j <= i
            rest == SubSeq(buf, cut + 1, Len(buf))
            safe == IF Len(rest) > 1 THEN Len(rest) - 1 ELSE 0
<1>1. n \in Nat /\ Len(sent') = n + 1 /\ shown \in Seq(Nat) /\ hidden \in Seq(Nat)
  <2>1. shown \in Seq(1..Len(sent)) /\ hidden \in Seq(1..Len(sent)) /\ sent \in Seq(Kinds)
    BY DEF TextTypes
  <2>2. 1..Len(sent) \subseteq Nat
    OBVIOUS
  <2>. QED  BY <2>1, <2>2, SeqMonotonic
<1>2. /\ hidden' = hidden \o SubSeq(buf, 1, cut)
      /\ shown' = shown \o SubSeq(rest, 1, safe)
      /\ held' = SubSeq(rest, safe + 1, Len(rest))
  BY DEF PushContent, PushContentOf, Holdback
<1>3. hidden \o <<>> = hidden /\ shown \o <<>> = shown /\ shown \o <<n>> = Append(shown, n)
  BY <1>1
<1>4. SmallSeqs(n, n + 1) /\ SmallSeqs(n + 1, n + 1)
  BY <1>1, SmallSeqsAre
<1>5. CASE held = <<>>
  <2>1. buf = <<n + 1>> /\ Len(buf) = 1
    BY <1>1, <1>5, <1>4 DEF SmallSeqs
  <2>2. closes = {}
    BY <2>1
  <2>. HIDE DEF buf, closes
  <2>3. cut = 0
    BY <2>2
  <2>. HIDE DEF cut
  <2>4. rest = <<n + 1>> /\ SubSeq(buf, 1, cut) = <<>>
    BY <1>1, <2>1, <2>3, <1>4 DEF SmallSeqs
  <2>. HIDE DEF rest
  <2>5. Len(rest) = 1 /\ safe = 0
    BY <2>4
  <2>. HIDE DEF safe
  <2>6. SubSeq(rest, 1, safe) = <<>> /\ SubSeq(rest, safe + 1, Len(rest)) = <<n + 1>>
    BY <1>1, <2>4, <2>5, <1>4 DEF SmallSeqs
  <2>. QED  BY <1>2, <1>3, <1>5, <2>4, <2>6, PieceIsHeld
<1>6. CASE sent # <<>> /\ held = <<n>>
  <2>1. buf = <<n, n + 1>> /\ Len(buf) = 2 /\ buf[1] = n /\ buf[2] = n + 1
    BY <1>1, <1>6, <1>4 DEF SmallSeqs
  <2>. HIDE DEF buf
  <2>2. /\ \A i \in 2..Len(buf) : buf[i] = n + 1 /\ buf[i-1] = n /\ i = 2
        /\ 2 \in 2..Len(buf)
    BY <2>1
  <2>3. CASE Closes(sent', n, n + 1)
    <3>1. closes = {2}
      BY <2>2, <2>3 DEF Closes
    <3>. HIDE DEF closes
    <3>2. cut = 2
      BY <3>1
    <3>. HIDE DEF cut
    <3>3. rest = <<>> /\ SubSeq(buf, 1, cut) = <<n, n + 1>>
      BY <1>1, <2>1, <3>2, <1>4 DEF SmallSeqs
    <3>. HIDE DEF rest
    <3>4. Len(rest) = 0 /\ safe = 0
      BY <3>3
    <3>. HIDE DEF safe
    <3>5. SubSeq(rest, 1, safe) = <<>> /\ SubSeq(rest, safe + 1, Len(rest)) = <<>>
      BY <1>1, <3>3, <3>4, <1>4 DEF SmallSeqs
    <3>. QED  BY <1>2, <1>3, <1>6, <3>3, <3>5, TagIsHidden
  <2>4. CASE ~Closes(sent', n, n + 1)
    <3>1. closes = {}
      BY <2>2, <2>4, <1>1 DEF Closes
    <3>. HIDE DEF closes
    <3>2. cut = 0
      BY <3>1
    <3>. HIDE DEF cut
    <3>3. rest = <<n, n + 1>> /\ SubSeq(buf, 1, cut) = <<>>
      BY <1>1, <2>1, <3>2, <1>4 DEF SmallSeqs
    <3>. HIDE DEF rest
    <3>4. Len(rest) = 2 /\ safe = 1
      BY <3>3
    <3>. HIDE DEF safe
    <3>5. SubSeq(rest, 1, safe) = <<n>> /\ SubSeq(rest, safe + 1, Len(rest)) = <<n + 1>>
      BY <1>1, <3>3, <3>4, <1>4 DEF SmallSeqs
    <3>. QED  BY <1>2, <1>3, <1>6, <2>4, <3>3, <3>5, TailIsShown
  <2>. QED  BY <2>3, <2>4
<1>. QED  BY <1>5, <1>6 DEF TextTypes

-----------------------------------------------------------------------------
(* The last flush shows what was held back; nothing ends twice.            *)
LEMMA EndsOnce ==
  ASSUME NEW callback, ~failed, ~StreamEnded, outcome = <<>>, Terminal(callback)
  PROVE  StreamEnded' /\ outcome' = <<callback>>
  BY DEF Terminal, StreamEnded

LEMMA FinishKeeps ==
  ASSUME CleanInv, api = "chat", ~StreamEnded, Finish
  PROVE  TextTypes' /\ CleanText' /\ StreamEnded' /\ outcome' = <<"done">> /\ held' = <<>>
<1>1. TextTypes /\ CleanText /\ ~failed /\ outcome = <<>>
  BY DEF CleanInv, EndInv
<1>2. StreamEnded' /\ outcome' = <<"done">>
  BY <1>1, EndsOnce DEF Finish
<1>3. shown' = shown \o held /\ held' = <<>> /\ UNCHANGED <<sent, hidden>>
  BY DEF Finish
<1>4. shown \in Seq(1..Len(sent)) /\ held \in Seq(1..Len(sent)) /\ hidden \in Seq(1..Len(sent))
      /\ sent \in Seq(Kinds)
  <2>1. sent # <<>> => Len(sent) \in 1..Len(sent)
    BY <1>1, EmptySeq DEF TextTypes
  <2>2. held \in Seq(1..Len(sent))
    <3>1. CASE held = <<>>
      BY <3>1
    <3>2. CASE sent # <<>> /\ held = <<Len(sent)>>
      BY <3>2, <2>1
    <3>. QED  BY <1>1, <3>1, <3>2 DEF TextTypes
  <2>. QED  BY <1>1, <2>2 DEF TextTypes
<1>5. TextTypes'
  BY <1>3, <1>4 DEF TextTypes
<1>6. ToSet(shown') = ToSet(shown) \cup ToSet(held)
  BY <1>3, <1>4, ToSetOfConcat
<1>7. Len(shown') = Len(shown) + Len(held)
  BY <1>3, <1>4
<1>8. shown' \o held' = shown \o held /\ ToSet(held') = {} /\ Len(held') = 0
  BY <1>3, <1>4 DEF ToSet
<1>9. Len(shown) \in Nat /\ Len(held) \in Nat /\ Len(hidden) \in Nat
  BY <1>4
<1>10. CleanText'
  BY <1>1, <1>2, <1>3, <1>6, <1>7, <1>8, <1>9 DEF CleanText
<1>. QED  BY <1>2, <1>3, <1>5, <1>10

LEMMA FreshIsClean ==
  ASSUME FreshText, phase' = "connect"
  PROVE  CleanInv'
<1>1. /\ sent' = <<>> /\ held' = <<>> /\ shown' = <<>> /\ hidden' = <<>> /\ ~failed'
      /\ outcome' = <<>>
  BY DEF FreshText
<1>2. TextTypes'
  BY <1>1 DEF TextTypes
<1>3. CleanText'
  BY <1>1 DEF CleanText, Orderly, ToSet
<1>. QED  BY <1>1, <1>2, <1>3 DEF CleanInv, EndInv, StreamEnded

(* Steps that leave the text alone: they end the request with an error, or *)
(* do not end it.                                                          *)
LEMMA TextIsKept ==
  ASSUME CleanInv, UNCHANGED <<api, textVars, failed>>,
         \/ ~StreamEnded /\ ~StreamEnded' /\ UNCHANGED outcome
         \/ ~StreamEnded /\ Terminal("error")
         \/ UNCHANGED <<phase, outcome>>
  PROVE  CleanInv'
<1>. SUFFICES ASSUME api = "chat" PROVE TextTypes' /\ CleanText' /\ EndInv'
  BY DEF CleanInv
<1>1. TextTypes /\ CleanText /\ EndInv
  BY DEF CleanInv
<1>2. ~StreamEnded' => ~StreamEnded
  BY DEF StreamEnded, Terminal
<1>3. TextTypes' /\ CleanText'
  BY <1>1, <1>2 DEF TextTypes, CleanText, textVars
<1>4. EndInv'
  <2>1. CASE ~StreamEnded /\ Terminal("error")
    BY <1>1, <2>1, EndsOnce DEF EndInv
  <2>2. CASE ~StreamEnded /\ ~StreamEnded' /\ UNCHANGED outcome
    BY <1>1, <2>2 DEF EndInv, StreamEnded
  <2>3. CASE UNCHANGED <<phase, outcome>>
    BY <1>1, <2>3 DEF EndInv, StreamEnded, textVars
  <2>. QED  BY <2>1, <2>2, <2>3
<1>. QED  BY <1>3, <1>4

LEMMA FinishIsClean ==
  ASSUME CleanInv, ~StreamEnded, Finish, UNCHANGED <<api, failed>>
  PROVE  CleanInv'
  BY FinishKeeps DEF CleanInv, EndInv

LEMMA CleanStep == ASSUME CleanInv, [StreamNext]_streamVars PROVE CleanInv'
<1>1. CASE OpenStream
  BY <1>1, FreshIsClean DEF OpenStream
<1>2. CASE PassAgain
  BY <1>2, FreshIsClean DEF PassAgain
<1>3. CASE Connected
  BY <1>3, TextIsKept DEF Connected, StreamEnded, requestVars
<1>4. CASE FallBack
  BY <1>4, TextIsKept DEF FallBack, StreamEnded
<1>5. CASE ReadDelta
  <2>. SUFFICES ASSUME api = "chat" PROVE CleanInv'
    BY <1>5 DEF ReadDelta, requestVars, CleanInv
  <2>1. TextTypes /\ CleanText /\ EndInv /\ ~StreamEnded
    BY <1>5 DEF CleanInv, ReadDelta, StreamEnded
  <2>2. PICK kind \in Kinds : sent' = Append(sent, kind) /\ PushContent(sent', Len(sent'))
    BY <1>5 DEF ReadDelta
  <2>3. TextTypes' /\ CleanText'
    BY <2>1, <2>2, PushKeeps
  <2>4. EndInv'
    BY <1>5, <2>1 DEF ReadDelta, EndInv, StreamEnded
  <2>. QED  BY <2>3, <2>4 DEF CleanInv
<1>6. CASE ReadDone
  BY <1>6, FinishIsClean DEF ReadDone, requestVars, StreamEnded
<1>7. CASE ReadSummary
  BY <1>7 DEF ReadSummary, requestVars, CleanInv
<1>8. CASE Closed
  <2>1. UNCHANGED <<api, failed>> /\ ~StreamEnded
    BY <1>8 DEF Closed, requestVars, StreamEnded
  <2>2. CASE saw
    BY <1>8, <2>1, <2>2, FinishIsClean DEF Closed
  <2>3. CASE ~saw /\ failed
    BY <2>1, <2>3 DEF CleanInv, EndInv
  <2>4. CASE ~saw /\ ~failed
    BY <1>8, <2>1, <2>4, TextIsKept DEF Closed
  <2>. QED  BY <2>2, <2>3, <2>4
<1>9. CASE Rejected
  <2>1. UNCHANGED <<api, failed>> /\ ~StreamEnded
    BY <1>9 DEF Rejected, requestVars, StreamEnded
  <2>2. CASE signal = "aborted"
    BY <1>9, <2>1, <2>2, FinishIsClean DEF Rejected, Thrown
  <2>3. CASE signal # "aborted"
    BY <1>9, <2>1, <2>3, TextIsKept DEF Rejected, Thrown
  <2>. QED  BY <2>2, <2>3
<1>10. CASE AbortStream
  BY <1>10, TextIsKept DEF AbortStream
<1>11. CASE UNCHANGED streamVars
  BY <1>11, TextIsKept DEF streamVars, textVars
<1>. QED
  BY <1>1, <1>2, <1>3, <1>4, <1>5, <1>6, <1>7, <1>8, <1>9, <1>10, <1>11 DEF StreamNext

LEMMA CleanIsEnough == CleanInv => RepliesAreClean
<1>. SUFFICES ASSUME CleanInv, phase = "over", api = "chat", Last(outcome) = "done"
              PROVE  /\ ToSet(shown) \cup ToSet(hidden) = DOMAIN sent
                     /\ Len(shown) + Len(hidden) = Len(sent)
                     /\ \A i \in 1..Len(shown)-1 : shown[i] < shown[i+1]
                          /\ ~(shown[i+1] = shown[i] + 1
                               /\ sent[shown[i]] = "half1" /\ sent[shown[i+1]] = "half2")
  BY DEF RepliesAreClean
<1>1. TextTypes /\ CleanText /\ EndInv
  BY DEF CleanInv
<1>2. held = <<>>
  BY <1>1 DEF EndInv, Last
<1>3. shown \in Seq(1..Len(sent)) /\ hidden \in Seq(1..Len(sent)) /\ sent \in Seq(Kinds)
  BY <1>1 DEF TextTypes
<1>4. shown \o held = shown /\ ToSet(held) = {} /\ Len(held) = 0 /\ DOMAIN sent = 1..Len(sent)
  BY <1>2, <1>3 DEF ToSet
<1>5. ToSet(shown) \cup ToSet(hidden) = DOMAIN sent
  <2>1. ToSet(shown) \cup ToSet(hidden) \subseteq 1..Len(sent)
    BY <1>3 DEF ToSet
  <2>. QED  BY <1>1, <1>4, <2>1 DEF CleanText
<1>6. Len(shown) + Len(hidden) = Len(sent)
  BY <1>1, <1>3, <1>4 DEF CleanText
<1>. QED  BY <1>1, <1>4, <1>5, <1>6 DEF CleanText, Orderly, Closes

LEMMA NoPieceAtFirst == StreamInit => CleanInv
<1>. SUFFICES ASSUME StreamInit PROVE CleanInv
  OBVIOUS
<1>1. TextTypes
  BY DEF StreamInit, TextTypes
<1>2. CleanText
  BY DEF StreamInit, CleanText, Orderly, ToSet
<1>. QED  BY <1>1, <1>2 DEF StreamInit, CleanInv, EndInv, StreamEnded

(* However a tag is cut between two pieces, a finished chat reply shows    *)
(* every piece that was not thought once, in order, and no tag             *)
(* (pushContent, lib/api/chat.ts).                                         *)
THEOREM NoPieceIsLost == StreamSpec => []RepliesAreClean
  BY NoPieceAtFirst, CleanStep, CleanIsEnough, PTL DEF StreamSpec

-----------------------------------------------------------------------------
(* Conversations and the runs that write into them                         *)

LiveAt == {"research", "stream", "review", "tools", "asked"}
AfterLoop == {"compact", "suggest"}
Places == {"unused", "over"} \cup LiveAt \cup AfterLoop

(* A message, and what makes it its writers' own: each of them was started *)
(* on it or made it for a later turn.                                      *)
MessageRec == [role : {"user", "assistant", "aside"}, id : Nat, item : Nat, text : SUBSET (0..MaxAgents)]
OwnMessage == {m \in MessageRec : \A r \in m.text \ {0} : m.id \in agents[r].mine}
Thread == [msgs : Seq(OwnMessage), count : Nat, id : ConvIds]
AgentRecord ==
  [at : Places, conv : Nat, target : Nat, mine : SUBSET Nat, turn : Nat, snap : Seq(Thread)]

(* The copies of a conversation: on screen, in the trash, and as each      *)
(* compaction has read it.                                                 *)
CopiesInv ==
  /\ convs \in [DOMAIN convs -> Thread] /\ DOMAIN convs \subseteq ConvIds
  /\ trash \in Seq(Thread) /\ compactor \in Seq(Thread)
  /\ agents \in [Agents -> AgentRecord]
  /\ ids \in Nat /\ made \in ConvIds /\ queued \in [ConvIds -> Seq(Nat)] /\ items \in Nat

(* A run that has not started is nobody's, one past its loop can no longer *)
(* be stopped, and one in its loop streams into a message of its own.      *)
RunsInv ==
  \A r \in Agents :
    /\ agents[r].at = "unused" => agents[r].mine = {} /\ abort # r /\ r \notin aborted
    /\ agents[r].at \in AfterLoop => abort # r /\ r \notin aborted
    /\ agents[r].at \in LiveAt => agents[r].target \in agents[r].mine
    /\ agents[r].at = "compact" => agents[r].snap # <<>>
    /\ chatDialog = r => agents[r].at = "asked"

ThreadInv == CopiesInv /\ RunsInv /\ chatDialog \in Agents \cup {0}

-----------------------------------------------------------------------------
(* Messages, threads, and what is made of them                             *)

LEMMA NewMessages ==
  ASSUME NEW n \in Nat
  PROVE  Question(n) \in OwnMessage /\ Blank(n) \in OwnMessage /\ Aside \in OwnMessage
  BY DEF Question, Blank, Aside, OwnMessage, MessageRec

LEMMA ThreadParts ==
  ASSUME NEW conv \in Thread
  PROVE  conv.msgs \in Seq(OwnMessage) /\ conv.count \in Nat /\ conv.id \in ConvIds
  BY DEF Thread

LEMMA ThreadFrom ==
  ASSUME NEW conv \in Thread, NEW msgs \in Seq(OwnMessage)
  PROVE  /\ [conv EXCEPT !.msgs = msgs] \in Thread
         /\ [conv EXCEPT !.count = Len(conv.msgs)] \in Thread
         /\ withMessages(conv, msgs) \in Thread
<1>1. Len(conv.msgs) \in Nat
  BY ThreadParts, LenProperties
<1>. QED  BY <1>1 DEF Thread, withMessages

LEMMA PutKeeps ==
  ASSUME CopiesInv, NEW conv \in Thread
  PROVE  Put(conv) \in [DOMAIN Put(conv) -> Thread] /\ DOMAIN Put(conv) \subseteq ConvIds
<1>1. conv.id \in ConvIds
  BY ThreadParts
<1>2. DOMAIN Put(conv) = DOMAIN convs \cup {conv.id}
  BY DEF Put
<1>3. \A c \in DOMAIN Put(conv) : Put(conv)[c] \in Thread
  BY <1>2 DEF Put, CopiesInv
<1>4. Put(conv) = [c \in DOMAIN Put(conv) |-> Put(conv)[c]]
  BY DEF Put
<1>. QED  BY <1>1, <1>2, <1>3, <1>4 DEF CopiesInv

LEMMA PutMsgsKeeps ==
  ASSUME CopiesInv, NEW c, NEW msgs \in Seq(OwnMessage)
  PROVE  /\ PutMsgs(c, msgs) \in [DOMAIN convs -> Thread]
         /\ \A d \in DOMAIN convs : d # c => PutMsgs(c, msgs)[d] = convs[d]
         /\ c \in DOMAIN convs => PutMsgs(c, msgs)[c].msgs = msgs
<1>1. CASE c \in DOMAIN convs
  <2>1. [convs[c] EXCEPT !.msgs = msgs] \in Thread
    BY <1>1, ThreadFrom DEF CopiesInv
  <2>2. [convs[c] EXCEPT !.msgs = msgs].msgs = msgs
    BY <1>1 DEF CopiesInv, Thread
  <2>3. PutMsgs(c, msgs) = [convs EXCEPT ![c] = [convs[c] EXCEPT !.msgs = msgs]]
    BY <1>1 DEF PutMsgs
  <2>. QED  BY <2>1, <2>2, <2>3, <1>1 DEF CopiesInv
<1>2. CASE c \notin DOMAIN convs
  BY <1>2 DEF PutMsgs, CopiesInv
<1>. QED  BY <1>1, <1>2

LEMMA MsgsAreOwn ==
  ASSUME CopiesInv, NEW c
  PROVE  Msgs(c) \in Seq(OwnMessage)
  BY ThreadParts DEF Msgs, CopiesInv

LEMMA PatchedMessage ==
  ASSUME CopiesInv, NEW r \in Agents, NEW m \in OwnMessage, m.id \in agents[r].mine,
         NEW keep \in BOOLEAN
  PROVE  [m EXCEPT !.text = (IF keep THEN @ ELSE {}) \cup {r}] \in OwnMessage
<1>. DEFINE text == (IF keep THEN m.text ELSE {}) \cup {r}
            new == [m EXCEPT !.text = text]
<1>1. m \in MessageRec /\ \A a \in m.text \ {0} : m.id \in agents[a].mine
  BY DEF OwnMessage
<1>2. text \in SUBSET (0..MaxAgents) /\ text \subseteq m.text \cup {r}
  <2>1. r \in 0..MaxAgents
    BY ThreadAssumption DEF Agents
  <2>. QED  BY <1>1, <2>1 DEF MessageRec
<1>. HIDE DEF text
<1>3. new \in MessageRec /\ new.text = text /\ new.id = m.id
  BY <1>1, <1>2 DEF MessageRec
<1>4. \A a \in new.text \ {0} : new.id \in agents[a].mine
  BY <1>1, <1>2, <1>3
<1>5. new \in OwnMessage
  BY <1>3, <1>4 DEF OwnMessage
<1>. QED  BY <1>5 DEF text

LEMMA PatchKeeps ==
  ASSUME CopiesInv, NEW r \in Agents, agents[r].target \in agents[r].mine, NEW keep \in BOOLEAN
  PROVE  /\ PatchTarget(r, keep) \in [DOMAIN convs -> Thread]
         /\ \A c \in DOMAIN convs : Len(PatchTarget(r, keep)[c].msgs) = Len(convs[c].msgs)
<1>. DEFINE c == agents[r].conv
            old == Msgs(c)
            hits == {i \in DOMAIN old : old[i].id = agents[r].target}
            new == [i \in DOMAIN old |->
                      IF i \in hits THEN [old[i] EXCEPT !.text = (IF keep THEN @ ELSE {}) \cup {r}]
                      ELSE old[i]]
<1>1. old \in Seq(OwnMessage)
  BY MsgsAreOwn
<1>2. PatchTarget(r, keep) = PutMsgs(c, new)
  BY DEF PatchTarget, Patch
<1>. HIDE DEF c
<1>. HIDE DEF old
<1>3. DOMAIN old = 1..Len(old) /\ Len(old) \in Nat /\ \A i \in DOMAIN old : old[i] \in OwnMessage
  BY <1>1, LenProperties
<1>4. \A i \in hits : old[i].id \in agents[r].mine
  OBVIOUS
<1>5. \A i \in DOMAIN old : new[i] \in OwnMessage
  <2>. SUFFICES ASSUME NEW i \in DOMAIN old PROVE new[i] \in OwnMessage
    OBVIOUS
  <2>1. CASE i \in hits
    <3>1. [old[i] EXCEPT !.text = (IF keep THEN @ ELSE {}) \cup {r}] \in OwnMessage
      BY <1>3, <1>4, <2>1, PatchedMessage
    <3>. QED  BY <3>1, <2>1
  <2>2. CASE i \notin hits
    BY <1>3, <2>2
  <2>. QED  BY <2>1, <2>2
<1>6. new = [i \in 1..Len(old) |-> new[i]]
  BY <1>3
<1>. HIDE DEF new
<1>7. new \in Seq(OwnMessage) /\ Len(new) = Len(old)
  BY <1>3, <1>5, <1>6, SeqDef, LenProperties
<1>8. c \in DOMAIN convs => old = convs[c].msgs
  BY DEF old, Msgs
<1>9. /\ PutMsgs(c, new) \in [DOMAIN convs -> Thread]
      /\ \A d \in DOMAIN convs : d # c => PutMsgs(c, new)[d] = convs[d]
      /\ c \in DOMAIN convs => PutMsgs(c, new)[c].msgs = new
  BY <1>7, PutMsgsKeeps
<1>10. ASSUME NEW d \in DOMAIN convs PROVE Len(PutMsgs(c, new)[d].msgs) = Len(convs[d].msgs)
  <2>1. CASE d = c
    BY <1>7, <1>8, <1>9, <2>1
  <2>2. CASE d # c
    BY <1>9, <2>2
  <2>. QED  BY <2>1, <2>2
<1>. QED  BY <1>2, <1>9, <1>10

-----------------------------------------------------------------------------
(* The parts of a step: what becomes of the copies, and of the runs        *)

DataStep ==
  /\ convs' \in [DOMAIN convs' -> Thread] /\ DOMAIN convs' \subseteq ConvIds
  /\ trash' \in Seq(Thread) /\ compactor' \in Seq(Thread)
  /\ ids' \in Nat /\ made' \in ConvIds /\ queued' \in [ConvIds -> Seq(Nat)] /\ items' \in Nat

MineGrows == \A r \in Agents : agents[r].mine \subseteq agents'[r].mine

LEMMA CopiesStep ==
  ASSUME CopiesInv, DataStep, agents' \in [Agents -> AgentRecord], MineGrows
  PROVE  CopiesInv'
<1>1. \A m \in MessageRec : \A r \in m.text \ {0} : r \in Agents
  BY DEF MessageRec, Agents
<1>2. OwnMessage \subseteq OwnMessage'
  BY <1>1 DEF OwnMessage, MineGrows
<1>3. Seq(OwnMessage) \subseteq Seq(OwnMessage')
  BY <1>2, SeqMonotonic
<1>4. Thread \subseteq Thread'
  BY <1>3 DEF Thread
<1>5. Seq(Thread) \subseteq Seq(Thread')
  BY <1>4, SeqMonotonic
<1>6. AgentRecord \subseteq AgentRecord'
  BY <1>5 DEF AgentRecord
<1>7. convs' \in [DOMAIN convs' -> Thread']
  BY <1>4 DEF DataStep
<1>8. agents' \in [Agents -> AgentRecord']
  BY <1>6
<1>9. trash' \in Seq(Thread') /\ compactor' \in Seq(Thread')
  BY <1>5 DEF DataStep
<1>. QED  BY <1>7, <1>8, <1>9 DEF CopiesInv, DataStep

LEMMA RunsStand ==
  ASSUME ThreadInv, DataStep, UNCHANGED <<agents, chatDialog>>,
         abort' # abort => abort' \notin Agents, aborted' \subseteq aborted \cup {abort}
  PROVE  ThreadInv'
<1>1. CopiesInv'
  BY CopiesStep DEF ThreadInv, MineGrows, CopiesInv
<1>2. RunsInv'
  BY DEF ThreadInv, RunsInv
<1>. QED  BY <1>1, <1>2 DEF ThreadInv

LEMMA RunMoves ==
  ASSUME ThreadInv, DataStep, NEW r \in Agents, agents[r].at # "unused",
         NEW rec \in AgentRecord, agents' = [agents EXCEPT ![r] = rec],
         agents[r].mine \subseteq rec.mine, rec.at # "unused",
         rec.at \in LiveAt => rec.target \in rec.mine,
         rec.at = "compact" => rec.snap # <<>>,
         rec.at \in AfterLoop => r \notin aborted /\ (abort' = 0 \/ agents[r].at \in AfterLoop),
         abort' \in {abort, 0}, UNCHANGED aborted,
         \/ chatDialog' = r /\ rec.at = "asked"
         \/ chatDialog' = 0
         \/ UNCHANGED chatDialog /\ agents[r].at # "asked"
  PROVE  ThreadInv'
<1>1. agents \in [Agents -> AgentRecord]
  BY DEF ThreadInv, CopiesInv
<1>2. /\ agents' \in [Agents -> AgentRecord]
      /\ agents'[r] = rec /\ \A a \in Agents : a # r => agents'[a] = agents[a]
  BY <1>1
<1>3. CopiesInv'
  <2>1. MineGrows
    BY <1>2 DEF MineGrows
  <2>. QED  BY <1>2, <2>1, CopiesStep DEF ThreadInv
<1>4. 0 \notin Agents
  BY DEF Agents
<1>5. RunsInv'
  <2>. SUFFICES ASSUME NEW a \in Agents
                PROVE  /\ agents'[a].at = "unused" =>
                            agents'[a].mine = {} /\ abort' # a /\ a \notin aborted'
                       /\ agents'[a].at \in AfterLoop => abort' # a /\ a \notin aborted'
                       /\ agents'[a].at \in LiveAt => agents'[a].target \in agents'[a].mine
                       /\ agents'[a].at = "compact" => agents'[a].snap # <<>>
                       /\ chatDialog' = a => agents'[a].at = "asked"
    BY DEF RunsInv
  <2>1. CASE a = r
    BY <1>2, <1>4, <2>1 DEF ThreadInv, RunsInv
  <2>2. CASE a # r
    BY <1>2, <1>4, <2>2 DEF ThreadInv, RunsInv
  <2>. QED  BY <2>1, <2>2
<1>6. chatDialog' \in Agents \cup {0}
  BY DEF ThreadInv
<1>. QED  BY <1>3, <1>5, <1>6 DEF ThreadInv

(* A new run takes a number nobody has; the run whose queue it comes from  *)
(* is past stopping.                                                       *)
LEMMA RunBegins ==
  ASSUME ThreadInv, NEW r, NEW ended, NEW conv \in Thread, NEW target \in Nat,
         RunStream(r, ended, conv, target),
         ended \in Agents => agents[ended].at = "suggest",
         ids' \in Nat, made' \in ConvIds, queued' \in [ConvIds -> Seq(Nat)],
         UNCHANGED <<trash, compactor, items, aborted, chatDialog>>
  PROVE  /\ ThreadInv'
         /\ \A a \in Agents \cap aborted : agents'[a] = agents[a]
<1>. DEFINE Started(research) ==
       [Unused EXCEPT !.at = IF research THEN "research" ELSE "stream",
          !.conv = conv.id, !.target = target, !.mine = {target}]
<1>1. PICK research \in BOOLEAN :
        /\ agents' = [a \in Agents |->
             IF a = r THEN Started(research) ELSE IF a = ended THEN Over(a) ELSE agents[a]]
        /\ convs' = Put(IF research THEN conv ELSE [conv EXCEPT !.msgs = Append(@, Aside)])
  BY DEF RunStream
<1>2. agents[r].at = "unused" /\ abort' = r
  BY DEF RunStream
<1>3. /\ Started(research) \in AgentRecord /\ Started(research).at \in {"research", "stream"}
      /\ Started(research).target = target /\ Started(research).mine = {target}
  <2>1. conv.id \in Nat /\ <<>> \in Seq(Thread)
    BY ThreadParts DEF ConvIds
  <2>. QED  BY <2>1 DEF Unused, AgentRecord, Places, LiveAt
<1>. HIDE DEF Started
<1>4. agents \in [Agents -> AgentRecord]
  BY DEF ThreadInv, CopiesInv
<1>5. \A a \in Agents : /\ Over(a) \in AgentRecord /\ Over(a).at = "over"
                         /\ Over(a).mine = agents[a].mine
  BY <1>4, EmptySeq DEF Over, Unused, AgentRecord, Places
<1>6. /\ agents' \in [Agents -> AgentRecord]
      /\ \A a \in Agents : a = r => agents'[a] = Started(research)
      /\ \A a \in Agents : a # r /\ a = ended => agents'[a] = Over(a)
      /\ \A a \in Agents : a # r /\ a # ended => agents'[a] = agents[a]
  BY <1>1, <1>3, <1>4, <1>5
<1>7. DataStep
  <2>1. conv.msgs \in Seq(OwnMessage) /\ Append(conv.msgs, Aside) \in Seq(OwnMessage)
    BY ThreadParts, NewMessages, 0 \in Nat, AppendProperties
  <2>2. [conv EXCEPT !.msgs = Append(conv.msgs, Aside)] \in Thread
    BY <2>1, ThreadFrom
  <2>3. convs' \in [DOMAIN convs' -> Thread] /\ DOMAIN convs' \subseteq ConvIds
    BY <1>1, <2>2, PutKeeps DEF ThreadInv
  <2>. QED  BY <2>3 DEF DataStep, ThreadInv, CopiesInv
<1>8. CopiesInv'
  <2>1. \A a \in Agents : a = r => agents[a].mine = {}
    BY <1>2 DEF ThreadInv, RunsInv
  <2>2. MineGrows
    BY <1>5, <1>6, <2>1 DEF MineGrows
  <2>. QED  BY <1>6, <1>7, <2>2, CopiesStep DEF ThreadInv
<1>9. RunsInv'
  <2>. SUFFICES ASSUME NEW a \in Agents
                PROVE  /\ agents'[a].at = "unused" =>
                            agents'[a].mine = {} /\ abort' # a /\ a \notin aborted'
                       /\ agents'[a].at \in AfterLoop => abort' # a /\ a \notin aborted'
                       /\ agents'[a].at \in LiveAt => agents'[a].target \in agents'[a].mine
                       /\ agents'[a].at = "compact" => agents'[a].snap # <<>>
                       /\ chatDialog' = a => agents'[a].at = "asked"
    BY DEF RunsInv
  <2>1. CASE a = r
    BY <1>2, <1>3, <1>6, <2>1 DEF ThreadInv, RunsInv, LiveAt, AfterLoop
  <2>2. CASE a # r /\ a = ended
    BY <1>5, <1>6, <2>2 DEF ThreadInv, RunsInv, LiveAt, AfterLoop
  <2>3. CASE a # r /\ a # ended
    BY <1>2, <1>6, <2>3 DEF ThreadInv, RunsInv
  <2>. QED  BY <2>1, <2>2, <2>3
<1>10. \A a \in Agents \cap aborted : agents'[a] = agents[a]
  <2>. SUFFICES ASSUME NEW a \in Agents, a \in aborted PROVE agents'[a] = agents[a]
    OBVIOUS
  <2>1. a # r /\ a # ended
    BY <1>2 DEF ThreadInv, RunsInv, AfterLoop
  <2>. QED  BY <1>6, <2>1
<1>. QED  BY <1>8, <1>9, <1>10 DEF ThreadInv

-----------------------------------------------------------------------------
(* The steps of a run                                                      *)

NoGrowth == \A c \in DOMAIN convs \cap DOMAIN convs' : Len(convs'[c].msgs) <= Len(convs[c].msgs)
StoppedAddNothing == \A a \in Agents \cap aborted : agents'[a] # agents[a] => NoGrowth

LEMMA SameIsNoGrowth == ASSUME CopiesInv, UNCHANGED convs PROVE NoGrowth
<1>1. \A c \in DOMAIN convs : Len(convs[c].msgs) \in Nat
  BY ThreadParts, LenProperties DEF CopiesInv
<1>. QED  BY <1>1 DEF NoGrowth

LEMMA SameData ==
  ASSUME CopiesInv, UNCHANGED <<convs, threadVars, compactor, ids, queued, items>>
  PROVE  DataStep
  BY DEF CopiesInv, DataStep, threadVars

LEMMA PlaceOf ==
  ASSUME CopiesInv, NEW r \in Agents, NEW place \in Places, GotoStep(r, place)
  PROVE  \E rec \in AgentRecord :
           /\ rec = [agents[r] EXCEPT !.at = place] /\ agents' = [agents EXCEPT ![r] = rec]
           /\ rec.at = place /\ rec.mine = agents[r].mine /\ rec.target = agents[r].target
<1>. DEFINE rec == [agents[r] EXCEPT !.at = place]
<1>1. agents[r] \in AgentRecord
  BY DEF CopiesInv
<1>2. /\ rec \in AgentRecord /\ rec.at = place /\ rec.mine = agents[r].mine
      /\ rec.target = agents[r].target
  BY <1>1 DEF AgentRecord
<1>3. agents' = [agents EXCEPT ![r] = rec]
  BY DEF GotoStep
<1>. QED  BY <1>2, <1>3

InLoop == {"research", "stream", "review", "tools"}

LEMMA RunGoesTo ==
  ASSUME ThreadInv, DataStep, NEW r \in Agents, agents[r].at \in InLoop, NEW place \in LiveAt,
         GotoStep(r, place), UNCHANGED <<lockVars, aborted>>,
         chatDialog' \in {chatDialog, 0} \/ (chatDialog' = r /\ place = "asked")
  PROVE  ThreadInv'
<1>1. PICK rec \in AgentRecord :
        /\ agents' = [agents EXCEPT ![r] = rec]
        /\ rec.at = place /\ rec.mine = agents[r].mine /\ rec.target = agents[r].target
  BY PlaceOf DEF ThreadInv, Places
<1>2. agents[r].at # "unused" /\ agents[r].at # "asked" /\ agents[r].at \in LiveAt
  BY DEF InLoop, LiveAt
<1>3. rec.at # "unused" /\ rec.at # "compact" /\ rec.at \notin AfterLoop
  BY <1>1 DEF LiveAt, AfterLoop
<1>4. rec.target \in rec.mine /\ agents[r].mine \subseteq rec.mine
  BY <1>1, <1>2 DEF ThreadInv, RunsInv
<1>5. abort' \in {abort, 0} /\ UNCHANGED aborted
  BY DEF lockVars
<1>. QED  BY <1>1, <1>2, <1>3, <1>4, <1>5, RunMoves

LEMMA RunEnds ==
  ASSUME ThreadInv, DataStep, NEW r \in Agents, agents[r].at \in InLoop, Ends(r),
         DOMAIN convs' = DOMAIN convs, UNCHANGED <<aborted, chatDialog>>
  PROVE  ThreadInv' /\ \A a \in Agents : a # r => agents'[a] = agents[a]
<1>1. agents \in [Agents -> AgentRecord] /\ agents[r] \in AgentRecord
  BY DEF ThreadInv, CopiesInv
<1>2. /\ agents[r].at # "unused" /\ agents[r].at # "asked" /\ abort' = 0
      /\ abort' \in {abort, 0}
  BY DEF InLoop, Ends
<1>3. CASE r \in aborted
  <2>1. agents' = [agents EXCEPT ![r] = Over(r)]
    BY <1>3 DEF Ends
  <2>2. /\ Over(r) \in AgentRecord /\ Over(r).at = "over" /\ Over(r).mine = agents[r].mine
        /\ Over(r).at \notin LiveAt \cup AfterLoop /\ Over(r).at # "compact"
    BY <1>1, EmptySeq DEF Over, Unused, AgentRecord, Places, LiveAt, AfterLoop
  <2>3. ThreadInv'
    BY <1>2, <2>1, <2>2, RunMoves
  <2>. QED  BY <1>1, <2>1, <2>3
<1>4. CASE r \notin aborted
  <2>1. CASE GotoStep(r, "suggest")
    <3>1. PICK rec \in AgentRecord :
            /\ agents' = [agents EXCEPT ![r] = rec]
            /\ rec.at = "suggest" /\ rec.mine = agents[r].mine
      BY <2>1, PlaceOf DEF ThreadInv, Places, AfterLoop
    <3>2. rec.at \notin LiveAt
      BY <3>1 DEF LiveAt
    <3>3. ThreadInv'
      BY <1>2, <1>4, <3>1, <3>2, RunMoves
    <3>. QED  BY <1>1, <3>1, <3>3
  <2>2. CASE /\ agents[r].conv \in DOMAIN convs
             /\ agents' = [agents EXCEPT ![r].at = "compact", ![r].snap = <<convs'[agents[r].conv]>>]
    <3>. DEFINE snap == <<convs'[agents[r].conv]>>
                rec == [agents[r] EXCEPT !.at = "compact", !.snap = snap]
    <3>1. snap \in Seq(Thread)
      BY <2>2 DEF DataStep
    <3>. HIDE DEF snap
    <3>2. /\ rec \in AgentRecord /\ rec.at = "compact" /\ rec.mine = agents[r].mine
          /\ rec.at \notin LiveAt /\ rec.snap = snap
      BY <1>1, <3>1 DEF AgentRecord, Places, AfterLoop, LiveAt
    <3>3. agents' = [agents EXCEPT ![r] = rec]
      BY <2>2, <1>1 DEF snap, AgentRecord
    <3>. HIDE DEF rec
    <3>4. rec.snap # <<>>
      BY <3>2 DEF snap
    <3>5. ThreadInv'
      BY <1>2, <1>4, <3>2, <3>3, <3>4, RunMoves
    <3>. QED  BY <1>1, <3>3, <3>5
  <2>. QED  BY <1>4, <2>1, <2>2 DEF Ends
<1>. QED  BY <1>3, <1>4

LEMMA NextTurnKeeps ==
  ASSUME ThreadInv, NEW r \in Agents, agents[r].at \in InLoop, NEW msgs \in Seq(OwnMessage),
         NEW turn \in Nat, NextTurn(r, msgs, turn),
         UNCHANGED <<threadVars, aborted, chatDialog, queued, items, compactor>>,
         r \in aborted => Len(msgs) <= Len(Msgs(agents[r].conv))
  PROVE  ThreadInv' /\ StoppedAddNothing
<1>. DEFINE c == agents[r].conv
<1>1. CopiesInv /\ agents \in [Agents -> AgentRecord] /\ ids \in Nat /\ ids + 1 \in Nat
  BY DEF ThreadInv, CopiesInv
<1>2. CASE r \in aborted \/ turn = MaxTurns
  <2>1. convs' = PutMsgs(c, msgs) /\ Ends(r) /\ UNCHANGED ids
    BY <1>2 DEF NextTurn
  <2>2. /\ PutMsgs(c, msgs) \in [DOMAIN convs -> Thread]
        /\ \A d \in DOMAIN convs : d # c => PutMsgs(c, msgs)[d] = convs[d]
        /\ c \in DOMAIN convs => PutMsgs(c, msgs)[c].msgs = msgs
    BY <1>1, PutMsgsKeeps
  <2>3. DOMAIN convs' = DOMAIN convs /\ DataStep
    BY <1>1, <2>1, <2>2 DEF DataStep, CopiesInv, threadVars
  <2>4. ThreadInv' /\ \A a \in Agents : a # r => agents'[a] = agents[a]
    BY <2>1, <2>3, RunEnds
  <2>5. r \in aborted => NoGrowth
    <3>. SUFFICES ASSUME r \in aborted, NEW d \in DOMAIN convs
                  PROVE  Len(convs'[d].msgs) <= Len(convs[d].msgs)
      BY <2>3 DEF NoGrowth
    <3>1. Len(convs[d].msgs) \in Nat
      BY <1>1, ThreadParts, LenProperties DEF CopiesInv
    <3>2. CASE d = c
      BY <2>1, <2>2, <3>2 DEF Msgs
    <3>3. CASE d # c
      BY <2>1, <2>2, <3>1, <3>3
    <3>. QED  BY <3>2, <3>3
  <2>. QED  BY <2>4, <2>5 DEF StoppedAddNothing
<1>3. CASE r \notin aborted /\ turn # MaxTurns
  <2>. DEFINE new == msgs \o TurnMessage(turn) \o <<Aside>>
              streams == [agents[r] EXCEPT !.at = "stream", !.turn = turn]
              rec == IF turn = 0 THEN streams
                     ELSE [streams EXCEPT !.target = ids + 1, !.mine = streams.mine \cup {ids + 1}]
  <2>1. /\ convs' = PutMsgs(c, new) /\ agents' = [agents EXCEPT ![r] = rec]
        /\ ids' \in {ids, ids + 1} /\ UNCHANGED lockVars
    BY <1>3 DEF NextTurn
  <2>2. new \in Seq(OwnMessage)
    <3>1. <<Aside>> \in Seq(OwnMessage) /\ TurnMessage(turn) \in Seq(OwnMessage)
      BY <1>1, NewMessages, EmptySeq DEF TurnMessage
    <3>. QED  BY <3>1, ConcatProperties
  <2>. HIDE DEF new
  <2>3. /\ rec \in AgentRecord /\ rec.at = "stream" /\ agents[r].mine \subseteq rec.mine
        /\ rec.target = (IF turn = 0 THEN agents[r].target ELSE ids + 1)
        /\ rec.mine = (IF turn = 0 THEN agents[r].mine ELSE agents[r].mine \cup {ids + 1})
    BY <1>1 DEF AgentRecord, Places, LiveAt
  <2>. HIDE DEF rec
  <2>4. agents[r].target \in agents[r].mine /\ agents[r].at # "unused" /\ agents[r].at # "asked"
    BY DEF InLoop, LiveAt, ThreadInv, RunsInv
  <2>5. rec.target \in rec.mine /\ rec.at \notin AfterLoop /\ rec.at # "unused"
    BY <2>3, <2>4 DEF AfterLoop
  <2>6. PutMsgs(c, new) \in [DOMAIN convs -> Thread]
    BY <1>1, <2>2, PutMsgsKeeps
  <2>7. DataStep
    BY <1>1, <2>1, <2>6 DEF DataStep, CopiesInv, threadVars
  <2>8. ThreadInv'
    BY <2>1, <2>3, <2>4, <2>5, <2>7, RunMoves DEF lockVars
  <2>9. \A a \in Agents : a # r => agents'[a] = agents[a]
    BY <1>1, <2>1
  <2>. QED  BY <1>3, <2>8, <2>9 DEF StoppedAddNothing
<1>. QED  BY <1>2, <1>3

LEMMA SpliceKeeps ==
  ASSUME NEW S, NEW s \in Seq(S), NEW t \in Seq(S), NEW place \in 1..(Len(s) + 1)
  PROVE  /\ SubSeq(s, 1, place - 1) \o t \o SubSeq(s, place, Len(s)) \in Seq(S)
         /\ Len(SubSeq(s, 1, place - 1) \o t \o SubSeq(s, place, Len(s))) = Len(s) + Len(t)
<1>. DEFINE a == SubSeq(s, 1, place - 1)
            b == SubSeq(s, place, Len(s))
<1>1. Len(s) \in Nat /\ place \in Int /\ place - 1 \in Int /\ \A i \in 1..Len(s) : s[i] \in S
  BY LenProperties
<1>2. a \in Seq(S) /\ Len(a) = place - 1
  BY <1>1, SubSeqProperties
<1>3. b \in Seq(S) /\ Len(b) = Len(s) - place + 1
  BY <1>1, SubSeqProperties
<1>. HIDE DEF a, b
<1>4. a \o t \in Seq(S) /\ Len(a \o t) = Len(a) + Len(t) /\ Len(t) \in Nat
  BY <1>2, ConcatProperties, LenProperties
<1>5. (a \o t) \o b \in Seq(S) /\ Len((a \o t) \o b) = Len(a \o t) + Len(b)
  BY <1>3, <1>4, ConcatProperties
<1>6. Len((a \o t) \o b) = Len(s) + Len(t)
  BY <1>1, <1>2, <1>3, <1>4, <1>5
<1>. QED  BY <1>5, <1>6 DEF a, b

LEMMA ResearchedKeeps ==
  ASSUME ThreadInv, NEW r \in Agents, Researched(r)
  PROVE  ThreadInv' /\ StoppedAddNothing
<1>. DEFINE msgs == Msgs(agents[r].conv)
            places == {i \in 1..Len(msgs) : msgs[i].id = agents[r].target}
            place == IF places = {} THEN Len(msgs) + 1 ELSE CHOOSE i \in places : TRUE
            spliced(report) ==
              SubSeq(msgs, 1, place - 1) \o report \o SubSeq(msgs, place, Len(msgs))
<1>1. PICK report \in Reports(r) : NextTurn(r, spliced(report), 0)
  BY DEF Researched
<1>2. msgs \in Seq(OwnMessage) /\ Len(msgs) \in Nat
  BY MsgsAreOwn, LenProperties DEF ThreadInv
<1>. HIDE DEF msgs
<1>3. place \in 1..(Len(msgs) + 1)
  BY <1>2
<1>. HIDE DEF place
<1>4. /\ report \in Seq(OwnMessage) /\ Len(report) \in Nat
      /\ r \in aborted => Len(report) = 0
  <2>1. <<>> \in Seq(OwnMessage) /\ <<Aside>> \in Seq(OwnMessage)
    BY NewMessages, 0 \in Nat
  <2>2. Len(<<>>) = 0 /\ Len(<<Aside>>) = 1
    OBVIOUS
  <2>3. report \in {<<>>, <<Aside>>} /\ (r \in aborted => report = <<>>)
    BY DEF Reports
  <2>. QED  BY <2>1, <2>2, <2>3
<1>5. spliced(report) \in Seq(OwnMessage) /\ Len(spliced(report)) = Len(msgs) + Len(report)
  BY <1>2, <1>3, <1>4, SpliceKeeps
<1>. HIDE DEF spliced
<1>6. r \in aborted => Len(spliced(report)) <= Len(Msgs(agents[r].conv))
  BY <1>2, <1>4, <1>5 DEF msgs
<1>7. agents[r].at \in InLoop
      /\ UNCHANGED <<threadVars, aborted, chatDialog, queued, items, compactor>>
  BY DEF Researched, InLoop
<1>. QED  BY <1>1, <1>5, <1>6, <1>7, 0 \in Nat, NextTurnKeeps

LEMMA DeltaKeeps ==
  ASSUME ThreadInv, NEW r \in Agents, Delta(r)
  PROVE  ThreadInv' /\ StoppedAddNothing
<1>1. agents[r].target \in agents[r].mine
  BY DEF Delta, ThreadInv, RunsInv, LiveAt
<1>2. convs' \in [DOMAIN convs -> Thread]
  BY <1>1, PatchKeeps DEF Delta, ThreadInv
<1>3. DataStep
  BY <1>2 DEF Delta, DataStep, threadVars, ThreadInv, CopiesInv
<1>4. UNCHANGED <<agents, chatDialog, abort, aborted>>
  BY DEF Delta, lockVars
<1>. QED  BY <1>3, <1>4, RunsStand DEF StoppedAddNothing

LEMMA AppendedKeeps ==
  ASSUME NEW r, NEW msgs \in Seq(OwnMessage)
  PROVE  /\ Appended(r, msgs) \in Seq(OwnMessage)
         /\ r \in aborted => Len(Appended(r, msgs)) = Len(msgs)
<1>1. Aside \in OwnMessage
  BY NewMessages, 0 \in Nat
<1>. QED  BY <1>1 DEF Appended

LEMMA TurnRepliedKeeps ==
  ASSUME ThreadInv, NEW r \in Agents, TurnReplied(r)
  PROVE  ThreadInv' /\ StoppedAddNothing
<1>. DEFINE after == IF r \in aborted THEN convs ELSE PatchTarget(r, FALSE)
            c == agents[r].conv
<1>1. /\ agents[r].at \in InLoop /\ agents[r].target \in agents[r].mine
      /\ UNCHANGED <<threadVars, aborted, chatDialog, queued, items, compactor>>
  BY DEF TurnReplied, InLoop, LiveAt, ThreadInv, RunsInv
<1>2. CopiesInv /\ agents \in [Agents -> AgentRecord]
  BY DEF ThreadInv, CopiesInv
<1>3. after \in [DOMAIN convs -> Thread]
  <2>1. CASE r \in aborted
    BY <2>1, <1>2 DEF CopiesInv
  <2>2. CASE r \notin aborted
    BY <2>2, <1>1, <1>2, PatchKeeps
  <2>. QED  BY <2>1, <2>2
<1>4. ASSUME convs' \in {convs, after}, ids' = ids
      PROVE  DataStep /\ DOMAIN convs' = DOMAIN convs
  BY <1>1, <1>2, <1>3, <1>4 DEF DataStep, CopiesInv, threadVars
<1>5. ASSUME \A a \in Agents : a # r => agents'[a] = agents[a],
             r \in aborted => convs' = convs
      PROVE  StoppedAddNothing
  BY <1>2, <1>5, SameIsNoGrowth DEF StoppedAddNothing
<1>6. CASE convs' \in {convs, after} /\ Ends(r) /\ UNCHANGED ids
  <2>1. ThreadInv' /\ \A a \in Agents : a # r => agents'[a] = agents[a]
    BY <1>1, <1>4, <1>6, RunEnds
  <2>2. r \in aborted => convs' = convs
    BY <1>6
  <2>. QED  BY <1>5, <2>1, <2>2
<1>7. CASE /\ convs' = after /\ UNCHANGED <<ids, lockVars>>
           /\ GotoStep(r, "review") \/ GotoStep(r, "tools")
  <2>1. PICK place \in LiveAt : GotoStep(r, place)
    BY <1>7 DEF LiveAt
  <2>2. ThreadInv'
    BY <1>1, <1>4, <1>7, <2>1, RunGoesTo
  <2>3. \A a \in Agents : a # r => agents'[a] = agents[a]
    BY <1>2, <2>1 DEF GotoStep
  <2>4. r \in aborted => convs' = convs
    BY <1>7
  <2>. QED  BY <1>5, <2>2, <2>3, <2>4
<1>8. CASE r \notin aborted /\ c \in DOMAIN convs
           /\ NextTurn(r, Appended(r, after[c].msgs), agents[r].turn + 1)
  <2>1. after[c].msgs \in Seq(OwnMessage)
    BY <1>3, <1>8, ThreadParts
  <2>. HIDE DEF after
  <2>2. Appended(r, after[c].msgs) \in Seq(OwnMessage)
    BY <2>1, AppendedKeeps
  <2>3. agents[r].turn + 1 \in Nat
    BY <1>2 DEF AgentRecord
  <2>. QED  BY <1>1, <1>8, <2>2, <2>3, NextTurnKeeps
<1>9. \/ convs' \in {convs, after} /\ Ends(r) /\ UNCHANGED ids
      \/ /\ convs' = after /\ UNCHANGED <<ids, lockVars>>
         /\ GotoStep(r, "review") \/ GotoStep(r, "tools")
      \/ /\ r \notin aborted /\ c \in DOMAIN convs
         /\ NextTurn(r, Appended(r, after[c].msgs), agents[r].turn + 1)
  BY Zenon DEF TurnReplied
<1>. HIDE DEF after
<1>. QED  BY <1>6, <1>7, <1>8, <1>9

LEMMA ToolsKeep ==
  ASSUME ThreadInv, NEW r \in Agents, TurnReviewed(r) \/ AskApproval(r) \/ ToolsDone(r)
  PROVE  ThreadInv' /\ StoppedAddNothing
<1>1. CopiesInv /\ agents \in [Agents -> AgentRecord] /\ agents[r].at \in InLoop
  BY DEF ThreadInv, CopiesInv, TurnReviewed, AskApproval, ToolsDone, InLoop
<1>2. CASE TurnReviewed(r)
  <2>1. DataStep /\ UNCHANGED <<convs, aborted, chatDialog>> /\ Ends(r)
    BY <1>1, <1>2, SameData DEF TurnReviewed
  <2>. QED  BY <1>1, <2>1, RunEnds, SameIsNoGrowth DEF StoppedAddNothing
<1>3. CASE AskApproval(r)
  <2>1. DataStep /\ UNCHANGED <<convs, lockVars, aborted>>
    BY <1>1, <1>3, SameData DEF AskApproval
  <2>2. "asked" \in LiveAt /\ GotoStep(r, "asked") /\ chatDialog' = r
    BY <1>3 DEF AskApproval, LiveAt
  <2>3. ThreadInv'
    BY <1>1, <2>1, <2>2, RunGoesTo
  <2>. QED  BY <1>1, <2>1, <2>3, SameIsNoGrowth DEF StoppedAddNothing
<1>4. CASE ToolsDone(r)
  <2>1. Msgs(agents[r].conv) \in Seq(OwnMessage) /\ agents[r].turn + 1 \in Nat
    BY <1>1, MsgsAreOwn DEF AgentRecord
  <2>2. /\ Appended(r, Msgs(agents[r].conv)) \in Seq(OwnMessage)
        /\ r \in aborted =>
             Len(Appended(r, Msgs(agents[r].conv))) <= Len(Msgs(agents[r].conv))
    BY <2>1, AppendedKeeps, LenProperties
  <2>3. /\ NextTurn(r, Appended(r, Msgs(agents[r].conv)), agents[r].turn + 1)
        /\ UNCHANGED <<threadVars, aborted, chatDialog, queued, items, compactor>>
    BY <1>4 DEF ToolsDone
  <2>. QED  BY <1>1, <2>1, <2>2, <2>3, NextTurnKeeps
<1>. QED  BY <1>2, <1>3, <1>4

LEMMA DecideKeeps ==
  ASSUME ThreadInv, DecideChat
  PROVE  ThreadInv' /\ StoppedAddNothing
<1>. DEFINE r == chatDialog
<1>1. r \in Agents /\ agents[r].at = "asked" /\ CopiesInv
  BY DEF DecideChat, ThreadInv, RunsInv
<1>2. /\ DataStep /\ UNCHANGED <<convs, aborted, abort>> /\ GotoStep(r, "tools")
      /\ chatDialog' = 0
  BY <1>1, SameData DEF DecideChat, lockVars
<1>3. PICK rec \in AgentRecord :
        /\ agents' = [agents EXCEPT ![r] = rec]
        /\ rec.at = "tools" /\ rec.mine = agents[r].mine /\ rec.target = agents[r].target
  BY <1>1, <1>2, PlaceOf DEF Places, LiveAt
<1>4. rec.target \in rec.mine /\ rec.at \notin AfterLoop
  BY <1>1, <1>3 DEF ThreadInv, RunsInv, LiveAt, AfterLoop
<1>5. ThreadInv'
  BY <1>1, <1>2, <1>3, <1>4, RunMoves
<1>. QED  BY <1>1, <1>2, <1>5, SameIsNoGrowth DEF StoppedAddNothing

LEMMA SummedKeeps ==
  ASSUME CopiesInv, NEW conv \in Thread
  PROVE  Summed(conv) \in [DOMAIN Summed(conv) -> Thread] /\ DOMAIN Summed(conv) \subseteq ConvIds
<1>1. [conv EXCEPT !.count = Len(conv.msgs)] \in Thread
  BY ThreadFrom, EmptySeq
<1>2. CASE conv.id \in DOMAIN convs
  BY <1>1, <1>2, PutKeeps DEF Summed
<1>3. CASE conv.id \notin DOMAIN convs
  BY <1>3 DEF Summed, CopiesInv
<1>. QED  BY <1>2, <1>3

LEMMA AutoCompactedKeeps ==
  ASSUME ThreadInv, NEW r \in Agents, AutoCompacted(r)
  PROVE  ThreadInv' /\ StoppedAddNothing
<1>. DEFINE rec == [agents[r] EXCEPT !.at = "suggest", !.snap = <<>>]
<1>1. /\ CopiesInv /\ agents \in [Agents -> AgentRecord] /\ agents[r].at = "compact"
      /\ agents[r].snap # <<>> /\ r \notin aborted /\ agents[r].at \in AfterLoop
  BY DEF ThreadInv, CopiesInv, AutoCompacted, RunsInv, AfterLoop
<1>2. agents[r].snap[1] \in Thread
  BY <1>1 DEF AgentRecord
<1>3. convs' \in [DOMAIN convs' -> Thread] /\ DOMAIN convs' \subseteq ConvIds
  <2>1. convs' \in {convs, Summed(agents[r].snap[1])}
    BY DEF AutoCompacted
  <2>. QED  BY <1>1, <1>2, <2>1, SummedKeeps DEF CopiesInv
<1>4. DataStep /\ UNCHANGED <<abort, aborted, chatDialog>>
  BY <1>1, <1>3 DEF DataStep, AutoCompacted, CopiesInv, threadVars, lockVars
<1>5. /\ rec \in AgentRecord /\ rec.at = "suggest" /\ rec.mine = agents[r].mine
      /\ rec.at \notin LiveAt
  BY <1>1, EmptySeq DEF AgentRecord, Places, AfterLoop, LiveAt
<1>6. agents' = [agents EXCEPT ![r] = rec]
  BY <1>1 DEF AutoCompacted, AgentRecord
<1>. HIDE DEF rec
<1>7. ThreadInv'
  BY <1>1, <1>4, <1>5, <1>6, RunMoves
<1>. QED  BY <1>1, <1>6, <1>7 DEF StoppedAddNothing

LEMMA AskKeeps ==
  ASSUME ThreadInv, NEW r, NEW ended, NEW conv \in Thread, NEW item \in Nat,
         Ask(r, ended, conv, item),
         ended \in Agents => agents[ended].at = "suggest",
         made' \in ConvIds, queued' \in [ConvIds -> Seq(Nat)],
         UNCHANGED <<trash, compactor, items, aborted, chatDialog>>
  PROVE  ThreadInv' /\ StoppedAddNothing
<1>. DEFINE new == [conv EXCEPT !.msgs = @ \o <<Question(item), Blank(ids + 1)>>]
<1>1. ids \in Nat /\ ids + 1 \in Nat
  BY DEF ThreadInv, CopiesInv
<1>2. <<Question(item), Blank(ids + 1)>> \in Seq(OwnMessage)
  BY <1>1, NewMessages
<1>3. conv.msgs \o <<Question(item), Blank(ids + 1)>> \in Seq(OwnMessage)
  BY <1>2, ThreadParts, ConcatProperties
<1>4. new \in Thread
  BY <1>3, ThreadFrom
<1>. HIDE DEF new
<1>5. RunStream(r, ended, new, ids + 1) /\ ids' \in Nat
  BY <1>1 DEF Ask, new
<1>. QED  BY <1>1, <1>4, <1>5, RunBegins DEF StoppedAddNothing

LEMMA DrainKeeps ==
  ASSUME ThreadInv, NEW r \in Agents, Drain(r)
  PROVE  ThreadInv' /\ StoppedAddNothing
<1>. DEFINE c == agents[r].conv
            q == queued[c]
            rest == IF q = <<>> THEN q ELSE Tail(q)
<1>1. /\ agents[r].at = "suggest" /\ DrainTo(r, rest) /\ CopiesInv
      /\ agents \in [Agents -> AgentRecord] /\ r \notin aborted
  BY DEF Drain, DrainTo, ThreadInv, RunsInv, CopiesInv, AfterLoop
<1>2. queued' \in [ConvIds -> Seq(Nat)]
  <2>1. queued' = [queued EXCEPT ![c] = rest]
    BY <1>1 DEF DrainTo
  <2>2. c \in ConvIds => rest \in Seq(Nat)
    BY <1>1 DEF CopiesInv
  <2>. HIDE DEF rest
  <2>. QED  BY <1>1, <2>1, <2>2 DEF CopiesInv
<1>3. CASE q = <<>> \/ c \notin DOMAIN convs
  <2>1. agents' = [agents EXCEPT ![r] = Over(r)] /\ UNCHANGED <<convs, lockVars, ids>>
    BY <1>1, <1>3 DEF DrainTo
  <2>2. DataStep /\ UNCHANGED <<abort, aborted, chatDialog>>
    BY <1>1, <1>2, <2>1 DEF DrainTo, DataStep, CopiesInv, threadVars, lockVars
  <2>3. /\ Over(r) \in AgentRecord /\ Over(r).at = "over" /\ Over(r).mine = agents[r].mine
        /\ Over(r).at \notin LiveAt \cup AfterLoop /\ Over(r).at # "compact"
    BY <1>1, EmptySeq DEF Over, Unused, AgentRecord, Places, LiveAt, AfterLoop
  <2>4. ThreadInv'
    BY <1>1, <2>1, <2>2, <2>3, RunMoves
  <2>. QED  BY <1>1, <2>1, <2>4 DEF StoppedAddNothing
<1>4. CASE q # <<>> /\ c \in DOMAIN convs
  <2>1. Ask(NextAgent, r, convs[c], Head(q))
    BY <1>1, <1>4 DEF DrainTo
  <2>2. convs[c] \in Thread /\ c \in ConvIds /\ q \in Seq(Nat)
    BY <1>1, <1>4 DEF CopiesInv
  <2>3. Head(q) \in Nat
    BY <1>4, <2>2
  <2>4. UNCHANGED <<trash, compactor, items, aborted, chatDialog, made>> /\ made \in ConvIds
    BY <1>1 DEF DrainTo, threadVars, CopiesInv
  <2>. HIDE DEF q
  <2>. QED  BY <1>1, <1>2, <2>1, <2>2, <2>3, <2>4, AskKeeps
<1>. QED  BY <1>3, <1>4

-----------------------------------------------------------------------------
(* What the user does                                                      *)

LEMMA PrefixKeeps ==
  ASSUME NEW S, NEW s \in Seq(S), NEW keep \in 0..Len(s)
  PROVE  SubSeq(s, 1, keep) \in Seq(S) /\ Len(SubSeq(s, 1, keep)) = keep
<1>1. Len(s) \in Nat /\ \A i \in 1..keep : s[i] \in S
  BY LenProperties
<1>2. keep \in Int /\ (IF 1 <= keep THEN keep - 1 + 1 ELSE 0) = keep
  BY <1>1
<1>. QED  BY <1>1, <1>2, SubSeqProperties

(* A conversation on screen, and what of it is kept *)
LEMMA OnScreen ==
  ASSUME CopiesInv, active \in DOMAIN convs
  PROVE  /\ convs[active] \in Thread /\ convs[active].msgs \in Seq(OwnMessage)
         /\ Len(convs[active].msgs) \in Nat
         /\ DOMAIN convs[active].msgs = 1..Len(convs[active].msgs)
         /\ \A i \in DOMAIN convs[active].msgs : convs[active].msgs[i] \in OwnMessage
  BY ThreadParts, LenProperties DEF CopiesInv

LEMMA RedoKeeps ==
  ASSUME ThreadInv, NEW conv \in Thread, NEW keep \in 0..Len(conv.msgs), Redo(conv, keep)
  PROVE  ThreadInv' /\ StoppedAddNothing
<1>. DEFINE cut == withMessages(conv, SubSeq(conv.msgs, 1, keep))
            new == [cut EXCEPT !.msgs = Append(@, Blank(ids + 1))]
<1>1. CopiesInv /\ ids \in Nat /\ ids + 1 \in Nat
  BY DEF ThreadInv, CopiesInv
<1>2. cut \in Thread
  BY ThreadParts, PrefixKeeps, ThreadFrom
<1>. HIDE DEF cut
<1>3. Append(cut.msgs, Blank(ids + 1)) \in Seq(OwnMessage)
  BY <1>1, <1>2, ThreadParts, NewMessages, AppendProperties
<1>4. new \in Thread
  BY <1>2, <1>3, ThreadFrom
<1>. HIDE DEF new
<1>5. RunStream(NextAgent, 0, new, ids + 1) /\ ids' = ids + 1
  BY DEF Redo, new, cut
<1>6. made' \in ConvIds /\ queued' \in [ConvIds -> Seq(Nat)] /\ 0 \notin Agents
      /\ UNCHANGED <<trash, compactor, items, aborted, chatDialog>>
  BY <1>1 DEF Redo, threadVars, CopiesInv, Agents
<1>. QED  BY <1>1, <1>4, <1>5, <1>6, RunBegins DEF StoppedAddNothing

LEMMA ThreadSendKeeps ==
  ASSUME ThreadInv, SendMessage \/ SendFollowUp
  PROVE  ThreadInv' /\ StoppedAddNothing
<1>1. CopiesInv /\ queued \in [ConvIds -> Seq(Nat)] /\ made \in ConvIds /\ 0 \notin Agents
  BY DEF ThreadInv, CopiesInv, Agents
<1>2. UNCHANGED <<trash, compactor, items, aborted, chatDialog, queued>>
  BY DEF SendMessage, SendFollowUp, threadVars
<1>3. CASE active \in DOMAIN convs
  <2>1. Ask(NextAgent, 0, convs[active], 0) /\ UNCHANGED made
    BY <1>3 DEF SendMessage, SendFollowUp, threadVars
  <2>. QED  BY <1>1, <1>2, <1>3, <2>1, OnScreen, AskKeeps, 0 \in Nat
<1>4. CASE active \notin DOMAIN convs
  <2>. DEFINE new == [id |-> made + 1, msgs |-> <<>>, count |-> 0]
  <2>1. made' = made + 1 /\ made < MaxConvs /\ Ask(NextAgent, 0, new, 0)
    BY <1>4 DEF SendMessage, SendFollowUp
  <2>2. made + 1 \in ConvIds
    BY <1>1, <2>1, ThreadAssumption DEF ConvIds
  <2>3. new \in Thread
    BY <2>2 DEF Thread
  <2>. HIDE DEF new
  <2>. QED  BY <1>1, <1>2, <2>1, <2>2, <2>3, AskKeeps, 0 \in Nat
<1>. QED  BY <1>3, <1>4

LEMMA AgainKeeps ==
  ASSUME ThreadInv, Retry \/ Regenerate \/ EditMessage
  PROVE  ThreadInv' /\ StoppedAddNothing
<1>1. active \in DOMAIN convs /\ CopiesInv
  BY DEF Retry, Regenerate, EditMessage, ThreadInv
<1>. DEFINE conv == convs[active]
<1>2. PICK keep \in 0..Len(conv.msgs) : Redo(conv, keep)
  <2>1. \A i \in DOMAIN conv.msgs : i \in 0..Len(conv.msgs) /\ i - 1 \in 0..Len(conv.msgs)
    BY <1>1, OnScreen
  <2>2. LastReply(conv.msgs) \subseteq DOMAIN conv.msgs
    BY DEF LastReply
  <2>3. CASE Retry
    BY <2>1, <2>2, <2>3 DEF Retry
  <2>4. CASE Regenerate
    BY <2>1, <2>4 DEF Regenerate
  <2>5. CASE EditMessage
    BY <2>1, <2>5 DEF EditMessage
  <2>. QED  BY <2>3, <2>4, <2>5
<1>3. conv \in Thread
  BY <1>1, OnScreen
<1>. HIDE DEF conv
<1>. QED  BY <1>2, <1>3, RedoKeeps

LEMMA ContinueKeeps ==
  ASSUME ThreadInv, ContinueMessage
  PROVE  ThreadInv' /\ StoppedAddNothing
<1>1. active \in DOMAIN convs /\ CopiesInv /\ convs[active] \in Thread
  BY OnScreen DEF ContinueMessage, ThreadInv
<1>2. PICK i \in DOMAIN convs[active].msgs :
        RunStream(NextAgent, 0, convs[active], convs[active].msgs[i].id)
  BY DEF ContinueMessage, LastReply
<1>3. convs[active].msgs[i].id \in Nat
  BY <1>1, OnScreen DEF OwnMessage, MessageRec
<1>4. /\ ids' \in Nat /\ made' \in ConvIds /\ queued' \in [ConvIds -> Seq(Nat)]
      /\ 0 \notin Agents /\ UNCHANGED <<trash, compactor, items, aborted, chatDialog>>
  BY <1>1 DEF ContinueMessage, threadVars, CopiesInv, Agents
<1>. QED  BY <1>1, <1>2, <1>3, <1>4, RunBegins DEF StoppedAddNothing

(* The clicks that start no run *)
LEMMA CutKeeps ==
  ASSUME ThreadInv, DeleteFrom \/ BranchAt
  PROVE  ThreadInv' /\ StoppedAddNothing
<1>1. CopiesInv /\ active \in DOMAIN convs /\ convs[active] \in Thread
  BY OnScreen DEF DeleteFrom, BranchAt, ThreadInv
<1>2. \A keep \in 0..Len(convs[active].msgs) :
        withMessages(convs[active], SubSeq(convs[active].msgs, 1, keep)) \in Thread
  BY <1>1, ThreadParts, PrefixKeeps, ThreadFrom
<1>3. /\ convs' \in [DOMAIN convs' -> Thread] /\ DOMAIN convs' \subseteq ConvIds
      /\ made' \in ConvIds
  <2>1. CASE DeleteFrom
    <3>1. PICK keep \in 0..(Len(convs[active].msgs) - 1) :
            convs' = Put(withMessages(convs[active], SubSeq(convs[active].msgs, 1, keep)))
      BY <2>1 DEF DeleteFrom
    <3>2. keep \in 0..Len(convs[active].msgs)
      BY <1>1, OnScreen
    <3>. QED  BY <2>1, <1>1, <1>2, <3>1, <3>2, PutKeeps DEF DeleteFrom, threadVars, CopiesInv
  <2>2. CASE BranchAt
    <3>1. PICK keep \in DOMAIN convs[active].msgs :
            convs' = Put([withMessages(convs[active], SubSeq(convs[active].msgs, 1, keep))
                          EXCEPT !.id = made + 1])
      BY <2>2 DEF BranchAt
    <3>. DEFINE cut == withMessages(convs[active], SubSeq(convs[active].msgs, 1, keep))
    <3>2. cut \in Thread
      <4>1. keep \in 0..Len(convs[active].msgs)
        BY <1>1, OnScreen
      <4>. QED  BY <4>1, <1>2
    <3>3. made + 1 \in ConvIds /\ made' = made + 1
      BY <2>2, <1>1, ThreadAssumption DEF BranchAt, ConvIds, CopiesInv
    <3>. HIDE DEF cut
    <3>4. [cut EXCEPT !.id = made + 1] \in Thread
      BY <3>2, <3>3 DEF Thread
    <3>5. convs' = Put([cut EXCEPT !.id = made + 1])
      BY <3>1 DEF cut
    <3>. QED  BY <1>1, <3>3, <3>4, <3>5, PutKeeps
  <2>. QED  BY <2>1, <2>2
<1>4. /\ DataStep
      /\ UNCHANGED <<agents, chatDialog, abort, aborted>>
  BY <1>1, <1>3 DEF DeleteFrom, BranchAt, DataStep, threadVars, lockVars, CopiesInv
<1>. QED  BY <1>4, RunsStand DEF StoppedAddNothing

LEMMA CompactKeeps ==
  ASSUME ThreadInv, RunCompact \/ Compacted \/ StopChat
  PROVE  ThreadInv' /\ StoppedAddNothing
<1>1. CopiesInv /\ Compactor \notin Agents /\ 0 \notin Agents
  BY ThreadAssumption DEF ThreadInv, Compactor, Agents
<1>2. CASE RunCompact
  <2>1. compactor' \in Seq(Thread)
    BY <1>1, <1>2, OnScreen DEF RunCompact
  <2>2. DataStep
    BY <1>1, <1>2, <2>1 DEF RunCompact, DataStep, threadVars, CopiesInv
  <2>3. UNCHANGED <<agents, chatDialog>> /\ abort' = Compactor /\ aborted' \subseteq aborted
    BY <1>2 DEF RunCompact
  <2>. QED  BY <1>1, <2>2, <2>3, RunsStand DEF StoppedAddNothing
<1>3. CASE Compacted
  <2>1. compactor[1] \in Thread
    BY <1>1, <1>3 DEF Compacted, CopiesInv
  <2>2. convs' \in {convs, Summed(compactor[1])}
    BY <1>3 DEF Compacted
  <2>3. convs' \in [DOMAIN convs' -> Thread] /\ DOMAIN convs' \subseteq ConvIds
    BY <1>1, <2>1, <2>2, SummedKeeps DEF CopiesInv
  <2>4. DataStep
    BY <1>1, <1>3, <2>3, EmptySeq DEF Compacted, DataStep, threadVars, CopiesInv
  <2>5. UNCHANGED <<agents, chatDialog, aborted>> /\ abort' = 0
    BY <1>3 DEF Compacted
  <2>. QED  BY <1>1, <2>4, <2>5, RunsStand DEF StoppedAddNothing
<1>4. CASE StopChat
  <2>1. DataStep /\ UNCHANGED <<agents, chatDialog, abort>> /\ aborted' = aborted \cup {abort}
    BY <1>1, <1>4, SameData DEF StopChat, lockVars
  <2>. QED  BY <2>1, RunsStand DEF StoppedAddNothing
<1>. QED  BY <1>2, <1>3, <1>4

LEMMA ThreadQueueKeeps ==
  ASSUME ThreadInv, Queue \/ Unqueue
  PROVE  ThreadInv' /\ StoppedAddNothing
<1>1. CopiesInv /\ queued \in [ConvIds -> Seq(Nat)] /\ items \in Nat
  BY DEF ThreadInv, CopiesInv
<1>2. queued' \in [ConvIds -> Seq(Nat)] /\ items' \in Nat
  <2>1. CASE Queue
    <3>1. items' = items + 1 /\ queued' = [queued EXCEPT ![active] = Append(@, items + 1)]
      BY <2>1 DEF Queue
    <3>2. active \in ConvIds => Append(queued[active], items + 1) \in Seq(Nat)
      <4>. SUFFICES ASSUME active \in ConvIds PROVE Append(queued[active], items + 1) \in Seq(Nat)
        OBVIOUS
      <4>1. queued[active] \in Seq(Nat) /\ items + 1 \in Nat
        BY <1>1
      <4>. QED  BY <4>1, AppendProperties
    <3>3. queued' \in [ConvIds -> Seq(Nat)]
      BY <1>1, <3>1, <3>2
    <3>. QED  BY <1>1, <3>1, <3>3
  <2>2. CASE Unqueue
    <3>1. PICK i \in DOMAIN queued[active] :
            queued' = [queued EXCEPT ![active] = RemoveAt(@, i)]
      BY <2>2 DEF Unqueue
    <3>2. active \in ConvIds => RemoveAt(queued[active], i) \in Seq(Nat)
      <4>. SUFFICES ASSUME active \in ConvIds PROVE RemoveAt(queued[active], i) \in Seq(Nat)
        OBVIOUS
      <4>. DEFINE q == queued[active]
      <4>1. q \in Seq(Nat) /\ Len(q) \in Nat /\ i \in 1..Len(q) /\ \A j \in 1..Len(q) : q[j] \in Nat
        BY <1>1, LenProperties
      <4>. HIDE DEF q
      <4>2. SubSeq(q, 1, i - 1) \in Seq(Nat) /\ SubSeq(q, i + 1, Len(q)) \in Seq(Nat)
        BY <4>1, SubSeqProperties
      <4>3. SubSeq(q, 1, i - 1) \o SubSeq(q, i + 1, Len(q)) \in Seq(Nat)
        BY <4>2, ConcatProperties
      <4>. QED  BY <4>3 DEF q, RemoveAt
    <3>. QED  BY <2>2, <1>1, <3>1, <3>2 DEF Unqueue
  <2>. QED  BY <2>1, <2>2
<1>3. DataStep /\ UNCHANGED <<agents, chatDialog, abort, aborted>>
  BY <1>1, <1>2 DEF Queue, Unqueue, DataStep, threadVars, lockVars, CopiesInv
<1>. QED  BY <1>3, RunsStand DEF StoppedAddNothing

LEMMA SidebarKeeps ==
  ASSUME ThreadInv, Select \/ SoftDelete \/ UndoDelete
  PROVE  ThreadInv' /\ StoppedAddNothing
<1>1. CopiesInv
  BY DEF ThreadInv
<1>2. convs' \in [DOMAIN convs' -> Thread] /\ DOMAIN convs' \subseteq ConvIds /\ trash' \in Seq(Thread)
  <2>1. CASE Select
    BY <1>1, <2>1 DEF Select, CopiesInv
  <2>2. CASE SoftDelete
    <3>1. PICK c \in DOMAIN convs :
            /\ trash' = <<convs[c]>> /\ convs' = [d \in DOMAIN convs \ {c} |-> convs[d]]
      BY <2>2 DEF SoftDelete
    <3>. QED  BY <1>1, <3>1 DEF CopiesInv
  <2>3. CASE UndoDelete
    <3>1. trash[1] \in Thread /\ trash' = <<>> /\ convs' = Put(trash[1])
      BY <1>1, <2>3 DEF UndoDelete, CopiesInv
    <3>. QED  BY <1>1, <3>1, PutKeeps, EmptySeq
  <2>. QED  BY <2>1, <2>2, <2>3
<1>3. DataStep /\ UNCHANGED <<agents, chatDialog, abort, aborted>>
  BY <1>1, <1>2 DEF Select, SoftDelete, UndoDelete, DataStep, lockVars, CopiesInv
<1>. QED  BY <1>3, RunsStand DEF StoppedAddNothing

-----------------------------------------------------------------------------
LEMMA ThreadStep ==
  ASSUME ThreadInv, [ChatNext]_chatVars
  PROVE  ThreadInv' /\ StoppedAddNothing
<1>1. CASE UNCHANGED chatVars
  <2>1. /\ DataStep
        /\ UNCHANGED <<agents, chatDialog, abort, aborted>>
    BY <1>1 DEF chatVars, DataStep, ThreadInv, CopiesInv
  <2>. QED  BY <2>1, RunsStand DEF StoppedAddNothing
<1>2. CASE Click
  BY <1>2, ThreadSendKeeps, AgainKeeps, ContinueKeeps, CutKeeps, CompactKeeps,
     ThreadQueueKeeps, SidebarKeeps
  DEF Click
<1>3. CASE \E r \in Agents : AgentStep(r)
  BY <1>3, ResearchedKeeps, DeltaKeeps, TurnRepliedKeeps, ToolsKeep, AutoCompactedKeeps, DrainKeeps
  DEF AgentStep
<1>4. CASE DecideChat \/ Queue \/ Compacted \/ StopChat
  BY <1>4, DecideKeeps, ThreadQueueKeeps, CompactKeeps
<1>. QED  BY <1>1, <1>2, <1>3, <1>4 DEF ChatNext

LEMMA ThreadStart == ChatInit => ThreadInv
<1>. SUFFICES ASSUME ChatInit PROVE ThreadInv
  OBVIOUS
<1>1. 1 \in ConvIds /\ MaxAgents \in Nat
  BY ThreadAssumption DEF ConvIds
<1>2. Stored \in Thread
  <2>1. Question(0) \in OwnMessage
    BY NewMessages, 0 \in Nat
  <2>2. [Blank(1) EXCEPT !.text = {0}] \in OwnMessage
    BY <1>1 DEF Blank, OwnMessage, MessageRec
  <2>3. <<Question(0), [Blank(1) EXCEPT !.text = {0}]>> \in Seq(OwnMessage)
    BY <2>1, <2>2
  <2>. QED  BY <1>1, <2>3 DEF Stored, Thread
<1>3. convs \in [DOMAIN convs -> Thread] /\ DOMAIN convs \subseteq ConvIds
  <2>1. CASE convs = [c \in {1} |-> Stored]
    BY <1>1, <1>2, <2>1
  <2>2. CASE convs = << >>
    <3>1. DOMAIN convs = {}
      BY <2>2
    <3>2. convs = [c \in DOMAIN convs |-> convs[c]]
      BY <2>2, <3>1
    <3>. QED  BY <3>1, <3>2
  <2>. QED  BY <2>1, <2>2 DEF ChatInit
<1>4. agents \in [Agents -> AgentRecord] /\ \A r \in Agents : agents[r] = Unused
  BY EmptySeq DEF ChatInit, Unused, AgentRecord, Places
<1>5. trash \in Seq(Thread) /\ compactor \in Seq(Thread) /\ queued \in [ConvIds -> Seq(Nat)]
  BY EmptySeq DEF ChatInit
<1>6. CopiesInv
  BY <1>1, <1>3, <1>4, <1>5 DEF ChatInit, CopiesInv
<1>7. RunsInv
  BY <1>4 DEF ChatInit, RunsInv, Unused, LiveAt, AfterLoop, Agents
<1>. QED  BY <1>6, <1>7 DEF ChatInit, ThreadInv

LEMMA ThreadIsOwn == ThreadInv => RepliesAreNotMixed
<1>. SUFFICES ASSUME ThreadInv, NEW c \in DOMAIN convs, NEW i \in DOMAIN convs[c].msgs,
                     NEW r \in convs[c].msgs[i].text \ {0}
              PROVE  convs[c].msgs[i].id \in agents[r].mine
  BY DEF RepliesAreNotMixed
<1>1. convs[c].msgs \in Seq(OwnMessage)
  BY ThreadParts DEF ThreadInv, CopiesInv
<1>2. convs[c].msgs[i] \in OwnMessage
  BY <1>1
<1>. QED  BY <1>2 DEF OwnMessage

(* Whatever runs overlap, and however a conversation is cut, branched,     *)
(* compacted, deleted and brought back under them, each writes only into   *)
(* messages of its own (patchTarget, screens/ChatScreen.tsx).              *)
THEOREM RunsWriteTheirOwn == ChatSpec => []RepliesAreNotMixed
  BY ThreadStart, ThreadStep, ThreadIsOwn, PTL DEF ChatSpec

(* A run that was stopped before its loop ended comes back from no await   *)
(* with a message (runToolLoop, lib/agentLoop.ts).                         *)
THEOREM StoppedRunsAreSilent == ChatSpec => StoppedRunsAddNothing
<1>1. ThreadInv /\ [ChatNext]_chatVars =>
        ThreadInv' /\ [\A r \in Agents \cap aborted : agents'[r] # agents[r] =>
          \A c \in DOMAIN convs \cap DOMAIN convs' :
            Len(convs'[c].msgs) <= Len(convs[c].msgs)]_chatVars
  BY ThreadStep DEF StoppedAddNothing, NoGrowth
<1>. QED  BY <1>1, ThreadStart, PTL DEF ChatSpec, StoppedRunsAddNothing

-----------------------------------------------------------------------------
(* The queue. The messages of a conversation that came from it are in the  *)
(* order they were typed, and before those that still wait: on screen and  *)
(* in every copy, since a copy can come back. A conversation that has not  *)
(* been made has no queue.                                                 *)
Sent(msgs) == {i \in DOMAIN msgs : msgs[i].item # 0}
Lined(msgs, c) ==
  /\ \A i, j \in Sent(msgs) : i < j => msgs[i].item < msgs[j].item
  /\ \A i \in Sent(msgs) : /\ msgs[i].item <= items
                           /\ \A k \in DOMAIN queued[c] : msgs[i].item < queued[c][k]
InOrder(conv) == conv.id \in 1..made /\ Lined(conv.msgs, conv.id)

Snaps == UNION {ToSet(agents[r].snap) : r \in Agents}
ShownConvs == {convs[c] : c \in DOMAIN convs}
Copies == ShownConvs \cup ToSet(trash) \cup ToSet(compactor) \cup Snaps

QueuesInv ==
  \A c \in ConvIds :
    /\ \A i, j \in DOMAIN queued[c] : i < j => queued[c][i] < queued[c][j]
    /\ \A i \in DOMAIN queued[c] : queued[c][i] <= items
    /\ c > made => queued[c] = <<>>
OrderInv ==
  /\ \A conv \in Copies : InOrder(conv)
  /\ \A c \in DOMAIN convs : convs[c].id = c
  /\ active \in 0..made
  /\ QueuesInv

-----------------------------------------------------------------------------
(* A list of messages is in line if its queued messages are, in this       *)
(* order, among those of a list that is.                                   *)
LEMMA Thinned ==
  ASSUME NEW old, NEW new, NEW c, Lined(old, c), NEW place,
         \A i \in Sent(new) : place[i] \in Sent(old) /\ old[place[i]].item = new[i].item,
         \A i, j \in Sent(new) : i < j => place[i] < place[j]
  PROVE  Lined(new, c)
  BY DEF Lined

LEMMA PrefixLined ==
  ASSUME NEW S, NEW s \in Seq(S), NEW c, Lined(s, c), NEW keep \in 0..Len(s)
  PROVE  Lined(SubSeq(s, 1, keep), c)
<1>. DEFINE new == SubSeq(s, 1, keep)
            place == [i \in Nat |-> i]
<1>1. Len(s) \in Nat /\ DOMAIN s = 1..Len(s) /\ keep \in Int
  BY LenProperties
<1>2. DOMAIN new = 1..keep /\ \A i \in 1..keep : new[i] = s[i]
  BY <1>1
<1>. HIDE DEF new
<1>3. \A i \in Sent(new) : i \in Nat /\ i \in Sent(s) /\ s[i].item = new[i].item
  BY <1>1, <1>2 DEF Sent
<1>4. /\ \A i \in Sent(new) : place[i] \in Sent(s) /\ s[place[i]].item = new[i].item
      /\ \A i, j \in Sent(new) : i < j => place[i] < place[j]
  BY <1>3
<1>. HIDE DEF place
<1>5. Lined(new, c)
  BY <1>4, Thinned
<1>. QED  BY <1>5 DEF new

LEMMA ChatterLined ==
  ASSUME NEW S, NEW s \in Seq(S), NEW t \in Seq(S), NEW c, Lined(s, c), Sent(t) = {}
  PROVE  Lined(s \o t, c)
<1>. DEFINE new == s \o t
            place == [i \in Nat |-> i]
<1>1. /\ Len(s) \in Nat /\ DOMAIN s = 1..Len(s) /\ Len(t) \in Nat /\ DOMAIN t = 1..Len(t)
      /\ DOMAIN new = 1..(Len(s) + Len(t))
  BY LenProperties, ConcatProperties
<1>2. /\ \A i \in DOMAIN s : new[i] = s[i]
      /\ \A i \in DOMAIN new : i \notin DOMAIN s => i - Len(s) \in DOMAIN t /\ new[i] = t[i - Len(s)]
  BY <1>1
<1>. HIDE DEF new
<1>3. \A i \in Sent(new) : i \in Nat /\ i \in Sent(s) /\ s[i].item = new[i].item
  BY <1>1, <1>2 DEF Sent
<1>4. /\ \A i \in Sent(new) : place[i] \in Sent(s) /\ s[place[i]].item = new[i].item
      /\ \A i, j \in Sent(new) : i < j => place[i] < place[j]
  BY <1>3
<1>. HIDE DEF place
<1>5. Lined(new, c)
  BY <1>4, Thinned
<1>. QED  BY <1>5 DEF new

LEMMA SplicedLined ==
  ASSUME NEW S, NEW s \in Seq(S), NEW t \in Seq(S), NEW c, Lined(s, c), Sent(t) = {},
         NEW p \in 1..(Len(s) + 1)
  PROVE  Lined(SubSeq(s, 1, p - 1) \o t \o SubSeq(s, p, Len(s)), c)
<1>. DEFINE a == SubSeq(s, 1, p - 1)
            b == SubSeq(s, p, Len(s))
            new == a \o t \o b
            n == Len(t)
            place == [i \in Nat |-> IF i < p THEN i ELSE i - n]
<1>1. /\ Len(s) \in Nat /\ DOMAIN s = 1..Len(s) /\ n \in Nat /\ DOMAIN t = 1..n
      /\ p \in Int /\ p - 1 \in Int
  BY LenProperties
<1>2. a \in Seq(S) /\ Len(a) = p - 1 /\ \A i \in 1..(p - 1) : a[i] = s[i]
  BY <1>1, SubSeqProperties
<1>3. /\ b \in Seq(S) /\ Len(b) = Len(s) - p + 1
      /\ \A i \in 1..(Len(s) - p + 1) : b[i] = s[p + i - 1]
  BY <1>1, SubSeqProperties
<1>. HIDE DEF a, b
<1>. DEFINE u == a \o t
<1>4. /\ u \in Seq(S) /\ Len(u) = p - 1 + n
      /\ \A i \in 1..(p - 1 + n) : u[i] = IF i <= p - 1 THEN a[i] ELSE t[i - (p - 1)]
  <2>1. /\ a \o t \in Seq(S) /\ Len(a \o t) = Len(a) + Len(t)
        /\ \A i \in 1..(Len(a) + Len(t)) : (a \o t)[i] = IF i <= Len(a) THEN a[i] ELSE t[i - Len(a)]
    BY <1>2, ConcatProperties
  <2>. QED  BY <1>2, <2>1
<1>. HIDE DEF u
<1>5. /\ DOMAIN new = 1..(Len(s) + n)
      /\ \A i \in DOMAIN new : new[i] = IF i <= p - 1 + n THEN u[i] ELSE b[i - (p - 1 + n)]
  <2>1. Len(u) + Len(b) = Len(s) + n
    BY <1>1, <1>3, <1>4
  <2>2. /\ u \o b \in Seq(S) /\ Len(u \o b) = Len(u) + Len(b)
        /\ \A i \in 1..(Len(u) + Len(b)) : (u \o b)[i] = IF i <= Len(u) THEN u[i] ELSE b[i - Len(u)]
    BY <1>3, <1>4, ConcatProperties
  <2>3. DOMAIN (u \o b) = 1..(Len(s) + n)
    BY <2>1, <2>2, LenProperties
  <2>. QED  BY <1>4, <2>1, <2>2, <2>3 DEF u
<1>6. \A i \in Nat : place[i] = IF i < p THEN i ELSE i - n
  OBVIOUS
<1>. HIDE DEF place
<1>7. ASSUME NEW i \in Sent(new)
      PROVE  /\ i \in Nat /\ (i < p \/ i > p - 1 + n)
             /\ place[i] \in Sent(s) /\ s[place[i]].item = new[i].item
  <2>1. i \in Nat /\ i \in DOMAIN new /\ i >= 1 /\ i <= Len(s) + n /\ new[i].item # 0
    BY <1>1, <1>5 DEF Sent
  <2>2. CASE i < p
    <3>1. i <= p - 1 + n /\ i \in 1..(p - 1) /\ i \in 1..(p - 1 + n) /\ i <= p - 1 /\ i \in DOMAIN s
      BY <1>1, <2>1, <2>2
    <3>2. new[i] = u[i] /\ u[i] = a[i] /\ a[i] = s[i]
      BY <1>2, <1>4, <1>5, <3>1, <2>1
    <3>3. place[i] = i
      BY <1>6, <2>1, <2>2
    <3>. QED  BY <2>1, <2>2, <3>1, <3>2, <3>3 DEF Sent
  <2>3. CASE i >= p /\ i <= p - 1 + n
    <3>1. i - (p - 1) \in DOMAIN t /\ i \in 1..(p - 1 + n) /\ ~(i <= p - 1)
      BY <1>1, <2>1, <2>3
    <3>2. new[i] = u[i] /\ u[i] = t[i - (p - 1)]
      BY <1>4, <1>5, <2>1, <2>3, <3>1
    <3>. QED  BY <2>1, <3>1, <3>2 DEF Sent
  <2>4. CASE i > p - 1 + n
    <3>1. ~(i <= p - 1 + n) /\ i - (p - 1 + n) \in 1..(Len(s) - p + 1) /\ ~(i < p)
      BY <1>1, <2>1, <2>4
    <3>2. new[i] = b[i - (p - 1 + n)]
      BY <1>5, <2>1, <3>1
    <3>3. b[i - (p - 1 + n)] = s[p + (i - (p - 1 + n)) - 1]
      BY <1>3, <3>1
    <3>4. p + (i - (p - 1 + n)) - 1 = i - n /\ i - n \in DOMAIN s
      BY <1>1, <2>1, <2>4
    <3>5. new[i] = s[i - n] /\ place[i] = i - n
      BY <1>6, <2>1, <3>1, <3>2, <3>3, <3>4
    <3>. QED  BY <2>1, <2>4, <3>4, <3>5 DEF Sent
  <2>5. i < p \/ (i >= p /\ i <= p - 1 + n) \/ i > p - 1 + n
    BY <1>1, <2>1
  <2>. QED  BY <2>2, <2>3, <2>4, <2>5
<1>8. \A i, j \in Sent(new) : i < j => place[i] < place[j]
  <2>. SUFFICES ASSUME NEW i \in Sent(new), NEW j \in Sent(new), i < j PROVE place[i] < place[j]
    OBVIOUS
  <2>1. i \in Nat /\ j \in Nat /\ (i < p \/ i > p - 1 + n) /\ (j < p \/ j > p - 1 + n)
    BY <1>7
  <2>. QED  BY <1>1, <1>6, <2>1
<1>9. \A i \in Sent(new) : place[i] \in Sent(s) /\ s[place[i]].item = new[i].item
  BY <1>7
<1>10. Lined(new, c)
  BY <1>8, <1>9 DEF Lined
<1>. QED  BY <1>10 DEF new, u, a, b

(* A queued message that is sent after all before it, and before the rest  *)
(* of the queue.                                                           *)
LEMMA AskedLined ==
  ASSUME NEW S, NEW s \in Seq(S), NEW t \in Seq(S), NEW c, Lined(s, c)', Sent(t) \subseteq {1},
         \A i \in Sent(s) : Sent(t) # {} => s[i].item < t[1].item,
         Sent(t) # {} =>
           t[1].item <= items' /\ \A k \in DOMAIN queued'[c] : t[1].item < queued'[c][k]
  PROVE  Lined(s \o t, c)'
<1>. DEFINE new == s \o t
<1>1. /\ Len(s) \in Nat /\ DOMAIN s = 1..Len(s) /\ Len(t) \in Nat /\ DOMAIN t = 1..Len(t)
      /\ DOMAIN new = 1..(Len(s) + Len(t))
  BY LenProperties, ConcatProperties
<1>2. /\ \A i \in DOMAIN s : new[i] = s[i]
      /\ \A i \in DOMAIN new : i \notin DOMAIN s => i - Len(s) \in DOMAIN t /\ new[i] = t[i - Len(s)]
  BY <1>1
<1>. HIDE DEF new
<1>3. ASSUME NEW i \in Sent(new)
      PROVE  \/ i \in Sent(s) /\ new[i] = s[i]
             \/ i = Len(s) + 1 /\ new[i] = t[1] /\ Sent(t) # {}
  <2>1. CASE i \in DOMAIN s
    BY <1>2, <2>1 DEF Sent
  <2>2. CASE i \notin DOMAIN s
    <3>1. i - Len(s) \in Sent(t) /\ new[i] = t[i - Len(s)]
      BY <1>2, <2>2 DEF Sent
    <3>2. i - Len(s) = 1
      BY <3>1
    <3>. QED  BY <1>1, <3>1, <3>2 DEF Sent
  <2>. QED  BY <2>1, <2>2
<1>4. \A i \in Sent(s) : i \in Nat /\ i <= Len(s)
  BY <1>1 DEF Sent
<1>5. \A i, j \in Sent(new) : i < j => new[i].item < new[j].item
  <2>. SUFFICES ASSUME NEW i \in Sent(new), NEW j \in Sent(new), i < j
                PROVE  new[i].item < new[j].item
    OBVIOUS
  <2>1. i \in Sent(s) /\ new[i] = s[i]
    BY <1>1, <1>3, <1>4
  <2>2. CASE j \in Sent(s) /\ new[j] = s[j]
    BY <2>1, <2>2 DEF Lined
  <2>3. CASE j = Len(s) + 1 /\ new[j] = t[1] /\ Sent(t) # {}
    BY <2>1, <2>3
  <2>. QED  BY <1>3, <2>2, <2>3
<1>6. \A i \in Sent(new) : /\ new[i].item <= items'
                           /\ \A k \in DOMAIN queued'[c] : new[i].item < queued'[c][k]
  BY <1>3 DEF Lined
<1>7. Lined(new, c)'
  BY <1>5, <1>6 DEF Lined, Sent
<1>. QED  BY <1>7 DEF new

LEMMA SentOfNew ==
  /\ Sent(<<Aside>>) = {} /\ Sent(<<>>) = {} /\ \A n \in Nat : Sent(<<Blank(n)>>) = {}
  /\ \A n \in Nat : Sent(<<Blank(n), Aside>>) = {}
  /\ \A n \in Nat, item \in Nat : LET t == <<Question(item), Blank(n)>>
                                  IN Sent(t) = (IF item = 0 THEN {} ELSE {1}) /\ t[1].item = item
  BY DEF Sent, Aside, Blank, Question

-----------------------------------------------------------------------------
(* The frame: what becomes of the copies when the queues move on           *)

QueueStep ==
  /\ items' \in Nat /\ items' >= items /\ made' \in {made, made + 1} /\ active' \in 0..made'
  /\ QueuesInv'
  /\ \A c \in ConvIds : \A k \in DOMAIN queued'[c] :
       queued'[c][k] > items \/ \E l \in DOMAIN queued[c] : queued[c][l] = queued'[c][k]

LEMMA CopiesAreThreads ==
  ASSUME CopiesInv, NEW conv \in Copies
  PROVE  conv \in Thread /\ conv.msgs \in Seq(OwnMessage) /\ conv.id \in ConvIds
<1>1. CASE conv \in ShownConvs
  BY <1>1 DEF ShownConvs, CopiesInv, Thread
<1>2. CASE conv \in ToSet(trash) \cup ToSet(compactor)
  <2>1. trash \in Seq(Thread) /\ compactor \in Seq(Thread)
    BY DEF CopiesInv
  <2>2. conv \in Thread
    BY <1>2, <2>1 DEF ToSet
  <2>. QED  BY <2>2 DEF Thread
<1>3. CASE conv \in Snaps
  <2>1. PICK r \in Agents : conv \in ToSet(agents[r].snap)
    BY <1>3 DEF Snaps
  <2>2. agents[r].snap \in Seq(Thread)
    BY DEF CopiesInv, AgentRecord
  <2>3. conv \in Thread
    BY <2>1, <2>2 DEF ToSet
  <2>. QED  BY <2>3 DEF Thread
<1>. QED  BY <1>1, <1>2, <1>3 DEF Copies

LEMMA ItemsAreNumbers ==
  ASSUME NEW msgs \in Seq(OwnMessage)
  PROVE  \A i \in Sent(msgs) : msgs[i].item \in Nat /\ i \in Nat
<1>. SUFFICES ASSUME NEW i \in Sent(msgs) PROVE msgs[i].item \in Nat /\ i \in Nat
  OBVIOUS
<1>1. i \in DOMAIN msgs /\ DOMAIN msgs = 1..Len(msgs) /\ Len(msgs) \in Nat
  BY LenProperties DEF Sent
<1>2. msgs[i] \in OwnMessage
  BY <1>1
<1>. QED  BY <1>1, <1>2 DEF OwnMessage, MessageRec

LEMMA OldCopiesStand ==
  ASSUME ThreadInv, OrderInv, QueueStep, queued' \in [ConvIds -> Seq(Nat)], NEW conv \in Copies
  PROVE  InOrder(conv)'
<1>1. /\ conv.id \in 1..made /\ Lined(conv.msgs, conv.id)
      /\ conv.msgs \in Seq(OwnMessage) /\ conv.id \in ConvIds
      /\ made \in Nat /\ items \in Nat /\ items' \in Nat /\ items' >= items
  BY CopiesAreThreads DEF OrderInv, InOrder, ThreadInv, CopiesInv, QueueStep, ConvIds
<1>. DEFINE msgs == conv.msgs
            c == conv.id
<1>2. \A i \in Sent(msgs) : msgs[i].item \in Nat
  BY <1>1, ItemsAreNumbers
<1>3. \A k \in DOMAIN queued'[c] : queued'[c][k] \in Nat
  BY <1>1
<1>. HIDE DEF msgs, c
<1>4. Lined(msgs, c) /\ c \in ConvIds
  BY <1>1 DEF msgs, c
<1>5. \A i \in Sent(msgs) : msgs[i].item <= items'
  BY <1>1, <1>2, <1>4 DEF Lined
<1>6. ASSUME NEW i \in Sent(msgs), NEW k \in DOMAIN queued'[c]
      PROVE  msgs[i].item < queued'[c][k]
  <2>1. CASE queued'[c][k] > items
    BY <1>1, <1>2, <1>3, <1>4, <2>1 DEF Lined
  <2>2. CASE \E l \in DOMAIN queued[c] : queued[c][l] = queued'[c][k]
    BY <1>4, <2>2 DEF Lined
  <2>. QED  BY <1>4, <2>1, <2>2 DEF QueueStep
<1>7. Lined(msgs, c)'
  BY <1>4, <1>5, <1>6 DEF Lined, Sent
<1>8. conv.id \in 1..made'
  BY <1>1 DEF QueueStep
<1>. QED  BY <1>7, <1>8 DEF InOrder, msgs, c

LEMMA OrderStands ==
  ASSUME ThreadInv, OrderInv, QueueStep, queued' \in [ConvIds -> Seq(Nat)],
         \A conv \in Copies' : conv \in Copies \/ InOrder(conv)',
         \A c \in DOMAIN convs' : convs'[c].id = c
  PROVE  OrderInv'
<1>1. \A conv \in Copies' : InOrder(conv)'
  BY OldCopiesStand
<1>. QED  BY <1>1 DEF OrderInv, QueueStep

LEMMA QueuesStay ==
  ASSUME ThreadInv, OrderInv, UNCHANGED <<queued, items>>, made' \in {made, made + 1},
         active' \in 0..made'
  PROVE  QueueStep /\ queued' \in [ConvIds -> Seq(Nat)]
<1>1. /\ queued \in [ConvIds -> Seq(Nat)] /\ items \in Nat /\ made \in Nat
      /\ ConvIds \subseteq Nat
  BY DEF ThreadInv, CopiesInv, ConvIds
<1>2. QueuesInv'
  <2>1. \A c \in ConvIds : c > made' => c > made
    BY <1>1
  <2>. QED  BY <2>1 DEF OrderInv, QueuesInv
<1>. QED  BY <1>1, <1>2 DEF QueueStep

LEMMA MadeStays ==
  ASSUME OrderInv, ThreadInv, UNCHANGED <<made, active>>
  PROVE  made' \in {made, made + 1} /\ active' \in 0..made'
  BY DEF OrderInv

(* What a conversation put on screen, or new messages in one that is       *)
(* there, add to the copies.                                               *)
KeptFrom == ToSet(trash)' \cup ToSet(compactor)' \cup Snaps' \subseteq Copies \cup ShownConvs'

LEMMA ScreenStays ==
  ASSUME ThreadInv, OrderInv, QueueStep, queued' \in [ConvIds -> Seq(Nat)], UNCHANGED convs, KeptFrom
  PROVE  OrderInv'
<1>1. ShownConvs' = ShownConvs /\ ShownConvs \subseteq Copies
  BY DEF ShownConvs, Copies
<1>2. Copies' \subseteq Copies
  BY <1>1 DEF Copies, KeptFrom
<1>. QED  BY <1>2, OrderStands DEF OrderInv

LEMMA ScreenPuts ==
  ASSUME ThreadInv, OrderInv, QueueStep, queued' \in [ConvIds -> Seq(Nat)], KeptFrom,
         NEW conv, convs' = Put(conv), conv \in Copies \/ InOrder(conv)'
  PROVE  OrderInv'
<1>1. DOMAIN convs' = DOMAIN convs \cup {conv.id}
  BY DEF Put
<1>2. \A c \in DOMAIN convs' : convs'[c] = (IF c = conv.id THEN conv ELSE convs[c])
  BY <1>1 DEF Put
<1>3. \A c \in DOMAIN convs' : convs'[c].id = c
  BY <1>1, <1>2 DEF OrderInv
<1>4. ShownConvs' \subseteq ShownConvs \cup {conv} /\ ShownConvs \subseteq Copies
  BY <1>1, <1>2 DEF ShownConvs, Copies
<1>5. Copies' \subseteq Copies \cup {conv}
  BY <1>4 DEF Copies, KeptFrom
<1>. QED  BY <1>3, <1>5, OrderStands

LEMMA ScreenPatches ==
  ASSUME ThreadInv, OrderInv, QueueStep, queued' \in [ConvIds -> Seq(Nat)], KeptFrom,
         NEW c, NEW msgs, convs' = PutMsgs(c, msgs),
         c \in DOMAIN convs => Lined(msgs, c)'
  PROVE  OrderInv'
<1>1. CASE c \notin DOMAIN convs
  BY <1>1, ScreenStays DEF PutMsgs
<1>2. CASE c \in DOMAIN convs
  <2>1. /\ convs[c] \in Thread /\ convs[c].id = c /\ InOrder(convs[c])
        /\ convs = [d \in DOMAIN convs |-> convs[d]]
    BY <1>2 DEF OrderInv, Copies, ShownConvs, ThreadInv, CopiesInv
  <2>2. PICK new : new = [convs[c] EXCEPT !.msgs = msgs]
    OBVIOUS
  <2>3. new.id = c /\ new.msgs = msgs
    BY <2>1, <2>2 DEF Thread
  <2>4. convs' = [d \in DOMAIN convs |-> IF d = c THEN new ELSE convs[d]]
    BY <1>2, <2>1, <2>2 DEF PutMsgs
  <2>5. InOrder(new)'
    <3>1. c \in 1..made /\ made \in Nat
      BY <2>1 DEF InOrder, ThreadInv, CopiesInv, ConvIds
    <3>2. c \in 1..made'
      BY <3>1 DEF QueueStep
    <3>. QED  BY <1>2, <2>3, <3>2 DEF InOrder
  <2>6. convs' = Put(new)
    <3>1. DOMAIN convs \cup {new.id} = DOMAIN convs
      BY <1>2, <2>3
    <3>. QED  BY <2>3, <2>4, <3>1 DEF Put
  <2>. QED  BY <2>5, <2>6, ScreenPuts
<1>. QED  BY <1>1, <1>2

-----------------------------------------------------------------------------
(* The parts of the steps                                                  *)

LEMMA KeptByRuns ==
  ASSUME UNCHANGED <<trash, compactor>>,
         \A a \in Agents : \/ agents'[a].snap \in {<<>>, agents[a].snap}
                           \/ \E conv \in ShownConvs' : agents'[a].snap = <<conv>>
  PROVE  KeptFrom
<1>. SUFFICES ASSUME NEW conv \in Snaps' PROVE conv \in Snaps \cup ShownConvs'
  BY DEF KeptFrom, Copies
<1>1. PICK a \in Agents : conv \in ToSet(agents'[a].snap)
  BY DEF Snaps
<1>2. CASE agents'[a].snap = agents[a].snap
  BY <1>1, <1>2 DEF Snaps
<1>3. CASE agents'[a].snap = <<>>
  BY <1>1, <1>3 DEF ToSet
<1>4. CASE \E other \in ShownConvs' : agents'[a].snap = <<other>>
  BY <1>1, <1>4, ToSetOfOne
<1>. QED  BY <1>2, <1>3, <1>4

LEMMA KeptOnTheWay ==
  ASSUME CopiesInv, NEW r \in Agents, NEW place, GotoStep(r, place), UNCHANGED <<trash, compactor>>
  PROVE  KeptFrom
<1>1. \A a \in Agents : agents'[a].snap = agents[a].snap
  BY DEF GotoStep, CopiesInv, AgentRecord
<1>. QED  BY <1>1, KeptByRuns

LEMMA KeptAtTheEnd ==
  ASSUME CopiesInv, NEW r \in Agents, Ends(r), DOMAIN convs' = DOMAIN convs,
         UNCHANGED <<trash, compactor>>
  PROVE  KeptFrom
<1>1. agents \in [Agents -> AgentRecord]
  BY DEF CopiesInv
<1>2. CASE r \in aborted
  <2>1. agents' = [agents EXCEPT ![r] = Over(r)] /\ Over(r).snap = <<>>
    BY <1>2 DEF Ends, Over, Unused
  <2>2. \A a \in Agents : agents'[a].snap \in {<<>>, agents[a].snap}
    BY <1>1, <2>1
  <2>. QED  BY <2>2, KeptByRuns
<1>3. CASE GotoStep(r, "suggest")
  BY <1>3, KeptOnTheWay
<1>4. CASE /\ agents[r].conv \in DOMAIN convs
           /\ agents' = [agents EXCEPT ![r].at = "compact", ![r].snap = <<convs'[agents[r].conv]>>]
  <2>1. convs'[agents[r].conv] \in ShownConvs'
    BY <1>4 DEF ShownConvs
  <2>2. \A a \in Agents : agents'[a].snap = IF a = r THEN <<convs'[agents[r].conv]>> ELSE agents[a].snap
    BY <1>1, <1>4 DEF AgentRecord
  <2>. QED  BY <2>1, <2>2, KeptByRuns
<1>. QED  BY <1>2, <1>3, <1>4 DEF Ends

LEMMA QuietOrder ==
  ASSUME ThreadInv, OrderInv, UNCHANGED <<queued, items, made, active>>
  PROVE  QueueStep /\ queued' \in [ConvIds -> Seq(Nat)]
         /\ \A msgs, c : Lined(msgs, c) => Lined(msgs, c)'
<1>1. \A msgs, c : Lined(msgs, c) => Lined(msgs, c)'
  BY DEF Lined, Sent
<1>. QED  BY <1>1, MadeStays, QueuesStay

LEMMA NextTurnOrder ==
  ASSUME ThreadInv, OrderInv, NEW r \in Agents, NEW msgs \in Seq(OwnMessage), NEW turn \in Nat,
         NextTurn(r, msgs, turn), UNCHANGED <<threadVars, queued, items, compactor>>,
         agents[r].conv \in DOMAIN convs => Lined(msgs, agents[r].conv)
  PROVE  OrderInv'
<1>1. /\ QueueStep /\ queued' \in [ConvIds -> Seq(Nat)] /\ UNCHANGED <<trash, compactor>>
      /\ \A m, d : Lined(m, d) => Lined(m, d)'
  BY QuietOrder DEF threadVars
<1>2. CopiesInv /\ agents \in [Agents -> AgentRecord] /\ ids \in Nat /\ ids + 1 \in Nat
  BY DEF ThreadInv, CopiesInv
<1>3. PICK c : c = agents[r].conv
  OBVIOUS
<1>4. CASE r \in aborted \/ turn = MaxTurns
  <2>1. convs' = PutMsgs(c, msgs) /\ Ends(r)
    BY <1>3, <1>4 DEF NextTurn
  <2>2. DOMAIN convs' = DOMAIN convs
    BY <1>2, <2>1, PutMsgsKeeps
  <2>3. KeptFrom
    BY <1>1, <1>2, <2>1, <2>2, KeptAtTheEnd
  <2>. QED  BY <1>1, <1>3, <2>1, <2>3, ScreenPatches
<1>5. CASE r \notin aborted /\ turn # MaxTurns
  <2>1. PICK new : new = msgs \o TurnMessage(turn) \o <<Aside>>
    OBVIOUS
  <2>2. convs' = PutMsgs(c, new)
    BY <1>3, <1>5, <2>1 DEF NextTurn
  <2>3. \A a \in Agents : agents'[a].snap = agents[a].snap
    <3>. DEFINE streams == [agents[r] EXCEPT !.at = "stream", !.turn = turn]
                rec == IF turn = 0 THEN streams
                       ELSE [streams EXCEPT !.target = ids + 1, !.mine = streams.mine \cup {ids + 1}]
    <3>1. agents' = [agents EXCEPT ![r] = rec]
      BY <1>5 DEF NextTurn
    <3>2. rec.snap = agents[r].snap
      BY <1>2 DEF AgentRecord
    <3>. HIDE DEF rec
    <3>. QED  BY <1>2, <3>1, <3>2
  <2>4. KeptFrom
    BY <1>1, <2>3, KeptByRuns
  <2>5. c \in DOMAIN convs => Lined(new, c)
    <3>. SUFFICES ASSUME c \in DOMAIN convs PROVE Lined(new, c)
      OBVIOUS
    <3>1. /\ <<Aside>> \in Seq(OwnMessage) /\ TurnMessage(turn) \in Seq(OwnMessage)
          /\ Sent(<<Aside>>) = {} /\ Sent(TurnMessage(turn)) = {}
      BY <1>2, NewMessages, SentOfNew, EmptySeq DEF TurnMessage
    <3>2. msgs \o TurnMessage(turn) \in Seq(OwnMessage) /\ Lined(msgs \o TurnMessage(turn), c)
      BY <1>3, <3>1, ChatterLined, ConcatProperties
    <3>. QED  BY <2>1, <3>1, <3>2, ChatterLined
  <2>. QED  BY <1>1, <2>2, <2>4, <2>5, ScreenPatches
<1>. QED  BY <1>4, <1>5

LEMMA RunStreamOrder ==
  ASSUME ThreadInv, OrderInv, QueueStep, queued' \in [ConvIds -> Seq(Nat)], NEW r, NEW ended,
         NEW conv \in Thread, NEW target, RunStream(r, ended, conv, target), UNCHANGED <<trash, compactor>>,
         conv.id \in 1..made', Lined(conv.msgs, conv.id)'
  PROVE  OrderInv'
<1>1. agents \in [Agents -> AgentRecord] /\ conv.msgs \in Seq(OwnMessage)
  BY DEF ThreadInv, CopiesInv, Thread
<1>2. \A a \in Agents : agents'[a].snap \in {<<>>, agents[a].snap}
  BY <1>1 DEF RunStream, Unused, Over
<1>3. KeptFrom
  BY <1>2, KeptByRuns
<1>4. PICK new : new = [conv EXCEPT !.msgs = Append(conv.msgs, Aside)]
  OBVIOUS
<1>5. convs' = Put(conv) \/ convs' = Put(new)
  BY <1>4 DEF RunStream
<1>6. InOrder(conv)'
  BY DEF InOrder
<1>7. InOrder(new)'
  <2>1. new.id = conv.id /\ new.msgs = conv.msgs \o <<Aside>>
    BY <1>1, <1>4, AppendIsConcat DEF Thread
  <2>2. Lined(conv.msgs \o <<Aside>>, conv.id)'
    <3>1. <<Aside>> \in Seq(OwnMessage) /\ Sent(<<Aside>>) = {}
      BY NewMessages, SentOfNew, 0 \in Nat
    <3>. QED  BY <1>1, <3>1, AskedLined
  <2>. QED  BY <2>1, <2>2 DEF InOrder
<1>. QED  BY <1>3, <1>5, <1>6, <1>7, ScreenPuts

LEMMA AskOrder ==
  ASSUME ThreadInv, OrderInv, QueueStep, queued' \in [ConvIds -> Seq(Nat)], NEW ended,
         NEW conv \in Thread, NEW item \in Nat, Ask(NextAgent, ended, conv, item),
         UNCHANGED <<trash, compactor>>, conv.id \in 1..made', Lined(conv.msgs, conv.id)',
         item # 0 => /\ \A i \in Sent(conv.msgs) : conv.msgs[i].item < item
                     /\ item <= items' /\ \A k \in DOMAIN queued'[conv.id] : item < queued'[conv.id][k]
  PROVE  OrderInv'
<1>1. ids \in Nat /\ ids + 1 \in Nat /\ conv.msgs \in Seq(OwnMessage)
  BY DEF ThreadInv, CopiesInv, Thread
<1>2. PICK t : t = <<Question(item), Blank(ids + 1)>>
  OBVIOUS
<1>3. /\ t \in Seq(OwnMessage) /\ Sent(t) = (IF item = 0 THEN {} ELSE {1}) /\ t[1].item = item
  BY <1>1, <1>2, NewMessages, SentOfNew
<1>4. PICK new : new = [conv EXCEPT !.msgs = conv.msgs \o t]
  OBVIOUS
<1>5. new.id = conv.id /\ new.msgs = conv.msgs \o t
  BY <1>4 DEF Thread
<1>6. new \in Thread
  BY <1>1, <1>3, <1>4, ConcatProperties, ThreadFrom
<1>7. Lined(conv.msgs \o t, conv.id)'
  BY <1>1, <1>3, AskedLined
<1>8. PICK r, target : r = NextAgent /\ target = ids + 1
  OBVIOUS
<1>9. RunStream(r, ended, new, target)
  BY <1>2, <1>4, <1>8 DEF Ask
<1>. QED  BY <1>5, <1>6, <1>7, <1>9, RunStreamOrder

-----------------------------------------------------------------------------
(* The steps                                                               *)

LEMMA ShownInOrder ==
  ASSUME ThreadInv, OrderInv, NEW c, c \in DOMAIN convs
  PROVE  /\ convs[c] \in Thread /\ convs[c].id = c /\ c \in 1..made /\ c \in ConvIds
         /\ convs[c].msgs \in Seq(OwnMessage) /\ Lined(convs[c].msgs, c)
         /\ convs[c] \in Copies
<1>1. convs[c] \in Copies
  BY DEF Copies, ShownConvs
<1>. QED  BY <1>1, CopiesAreThreads DEF OrderInv, InOrder, ThreadInv

LEMMA MsgsInOrder ==
  ASSUME ThreadInv, OrderInv, NEW c
  PROVE  Msgs(c) \in Seq(OwnMessage) /\ (c \in DOMAIN convs => Lined(Msgs(c), c))
  BY ShownInOrder, MsgsAreOwn DEF Msgs, ThreadInv

LEMMA ResearchedOrder ==
  ASSUME ThreadInv, OrderInv, NEW r \in Agents, Researched(r)
  PROVE  OrderInv'
<1>1. PICK c, msgs : c = agents[r].conv /\ msgs = Msgs(c)
  OBVIOUS
<1>. DEFINE places == {i \in 1..Len(msgs) : msgs[i].id = agents[r].target}
<1>2. PICK place : place = (IF places = {} THEN Len(msgs) + 1 ELSE CHOOSE i \in places : TRUE)
  OBVIOUS
<1>3. PICK report \in Reports(r) :
        NextTurn(r, SubSeq(msgs, 1, place - 1) \o report \o SubSeq(msgs, place, Len(msgs)), 0)
  BY <1>1, <1>2 DEF Researched
<1>4. msgs \in Seq(OwnMessage) /\ Len(msgs) \in Nat /\ (c \in DOMAIN convs => Lined(msgs, c))
  BY <1>1, MsgsInOrder, LenProperties
<1>5. place \in 1..(Len(msgs) + 1)
  BY <1>2, <1>4
<1>6. report \in Seq(OwnMessage) /\ Sent(report) = {}
  <2>1. <<>> \in Seq(OwnMessage) /\ <<Aside>> \in Seq(OwnMessage)
    BY NewMessages, 0 \in Nat
  <2>2. report \in {<<>>, <<Aside>>}
    BY DEF Reports
  <2>. QED  BY <2>1, <2>2, SentOfNew
<1>7. PICK new : new = SubSeq(msgs, 1, place - 1) \o report \o SubSeq(msgs, place, Len(msgs))
  OBVIOUS
<1>8. new \in Seq(OwnMessage)
  BY <1>4, <1>5, <1>6, <1>7, SpliceKeeps
<1>9. c \in DOMAIN convs => Lined(new, c)
  BY <1>4, <1>5, <1>6, <1>7, SplicedLined
<1>10. UNCHANGED <<threadVars, queued, items, compactor>>
  BY DEF Researched
<1>. QED  BY <1>1, <1>3, <1>7, <1>8, <1>9, <1>10, 0 \in Nat, NextTurnOrder

(* patchTarget touches no message that came from the queue in a way that   *)
(* would tell.                                                             *)
LEMMA PatchLined ==
  ASSUME ThreadInv, OrderInv, NEW r \in Agents, NEW keep \in BOOLEAN
  PROVE  \E msgs : /\ PatchTarget(r, keep) = PutMsgs(agents[r].conv, msgs)
                   /\ agents[r].conv \in DOMAIN convs => Lined(msgs, agents[r].conv)
<1>1. PICK c, old : c = agents[r].conv /\ old = Msgs(c)
  OBVIOUS
<1>. DEFINE hits == {i \in DOMAIN old : old[i].id = agents[r].target}
            new == [i \in DOMAIN old |->
                      IF i \in hits THEN [old[i] EXCEPT !.text = (IF keep THEN @ ELSE {}) \cup {r}]
                      ELSE old[i]]
            place == [i \in Nat |-> i]
<1>2. PatchTarget(r, keep) = PutMsgs(c, new)
  BY <1>1 DEF PatchTarget, Patch
<1>3. old \in Seq(OwnMessage) /\ (c \in DOMAIN convs => Lined(old, c))
  BY <1>1, MsgsInOrder
<1>4. DOMAIN old = 1..Len(old) /\ Len(old) \in Nat /\ \A i \in DOMAIN old : old[i] \in MessageRec
  BY <1>3, LenProperties DEF OwnMessage
<1>5. DOMAIN new = DOMAIN old /\ \A i \in DOMAIN old : new[i].item = old[i].item
  BY <1>4 DEF MessageRec
<1>. HIDE DEF new
<1>6. \A i \in Sent(new) : i \in Nat /\ i \in Sent(old) /\ old[i].item = new[i].item
  BY <1>4, <1>5 DEF Sent
<1>7. /\ \A i \in Sent(new) : place[i] \in Sent(old) /\ old[place[i]].item = new[i].item
      /\ \A i, j \in Sent(new) : i < j => place[i] < place[j]
  BY <1>6
<1>. HIDE DEF place
<1>8. c \in DOMAIN convs => Lined(new, c)
  BY <1>3, <1>7, Thinned
<1>. QED  BY <1>1, <1>2, <1>8

LEMMA DeltaOrder ==
  ASSUME ThreadInv, OrderInv, NEW r \in Agents, Delta(r)
  PROVE  OrderInv'
<1>1. PICK c : c = agents[r].conv
  OBVIOUS
<1>2. PICK msgs : convs' = PutMsgs(c, msgs) /\ (c \in DOMAIN convs => Lined(msgs, c))
  BY <1>1, PatchLined DEF Delta
<1>3. /\ QueueStep /\ queued' \in [ConvIds -> Seq(Nat)]
      /\ \A m, d : Lined(m, d) => Lined(m, d)'
  BY QuietOrder DEF Delta, threadVars
<1>4. KeptFrom
  BY KeptByRuns DEF Delta, threadVars
<1>. QED  BY <1>2, <1>3, <1>4, ScreenPatches

LEMMA AppendedOrder ==
  ASSUME NEW r, NEW c, NEW msgs \in Seq(OwnMessage), Lined(msgs, c)
  PROVE  Lined(Appended(r, msgs), c)
<1>1. <<Aside>> \in Seq(OwnMessage) /\ Aside \in OwnMessage /\ Sent(<<Aside>>) = {}
  BY SentOfNew, NewMessages, 0 \in Nat
<1>2. Lined(msgs \o <<Aside>>, c) /\ Append(msgs, Aside) = msgs \o <<Aside>>
  BY <1>1, ChatterLined, AppendIsConcat
<1>. QED  BY <1>2 DEF Appended

LEMMA TurnRepliedOrder ==
  ASSUME ThreadInv, OrderInv, NEW r \in Agents, TurnReplied(r)
  PROVE  OrderInv'
<1>1. PICK c : c = agents[r].conv
  OBVIOUS
<1>. DEFINE after == IF r \in aborted THEN convs ELSE PatchTarget(r, FALSE)
<1>2. /\ agents[r].target \in agents[r].mine /\ CopiesInv
      /\ UNCHANGED <<threadVars, queued, items, compactor>>
  BY DEF TurnReplied, LiveAt, ThreadInv, RunsInv
<1>3. PICK patched : /\ PatchTarget(r, FALSE) = PutMsgs(c, patched)
                     /\ c \in DOMAIN convs => Lined(patched, c)
  BY <1>1, PatchLined
<1>4. /\ QueueStep /\ queued' \in [ConvIds -> Seq(Nat)] /\ UNCHANGED <<trash, compactor>>
      /\ \A m, d : Lined(m, d) => Lined(m, d)'
  BY <1>2, QuietOrder DEF threadVars
<1>5. convs \in [DOMAIN convs -> Thread] /\ PatchTarget(r, FALSE) \in [DOMAIN convs -> Thread]
  BY <1>2, PatchKeeps DEF CopiesInv
<1>6. ASSUME convs' \in {convs, after}, KeptFrom PROVE OrderInv'
  BY <1>3, <1>4, <1>6, ScreenStays, ScreenPatches
<1>7. CASE convs' \in {convs, after} /\ Ends(r)
  <2>1. DOMAIN convs' = DOMAIN convs
    BY <1>5, <1>7
  <2>. HIDE DEF after
  <2>2. KeptFrom
    BY <1>2, <1>4, <1>7, <2>1, KeptAtTheEnd
  <2>. QED  BY <1>6, <1>7, <2>2
<1>8. CASE convs' = after /\ (GotoStep(r, "review") \/ GotoStep(r, "tools"))
  BY <1>2, <1>4, <1>6, <1>8, KeptOnTheWay
<1>9. CASE /\ r \notin aborted /\ c \in DOMAIN convs
           /\ NextTurn(r, Appended(r, after[c].msgs), agents[r].turn + 1)
  <2>1. PICK msgs, turn : msgs = Appended(r, after[c].msgs) /\ turn = agents[r].turn + 1
    OBVIOUS
  <2>2. after[c].msgs \in Seq(OwnMessage)
    BY <1>5, <1>9, ThreadParts
  <2>3. Lined(after[c].msgs, c)
    <3>1. convs[c] \in Thread
      BY <1>5, <1>9
    <3>2. after[c].msgs = patched
      BY <1>3, <1>5, <1>9, <3>1 DEF PutMsgs, Thread
    <3>. QED  BY <1>3, <1>9, <3>2
  <2>. HIDE DEF after
  <2>4. msgs \in Seq(OwnMessage) /\ Lined(msgs, c) /\ turn \in Nat
    BY <1>2, <2>1, <2>2, <2>3, AppendedKeeps, AppendedOrder DEF CopiesInv, AgentRecord
  <2>. QED  BY <1>1, <1>2, <1>9, <2>1, <2>4, NextTurnOrder
<1>10. \/ convs' \in {convs, after} /\ Ends(r)
       \/ convs' = after /\ (GotoStep(r, "review") \/ GotoStep(r, "tools"))
       \/ /\ r \notin aborted /\ c \in DOMAIN convs
          /\ NextTurn(r, Appended(r, after[c].msgs), agents[r].turn + 1)
  <2>1. \/ convs' \in {convs, after} /\ Ends(r)
        \/ convs' = after /\ (GotoStep(r, "review") \/ GotoStep(r, "tools"))
        \/ /\ r \notin aborted /\ agents[r].conv \in DOMAIN convs
           /\ NextTurn(r, Appended(r, after[agents[r].conv].msgs), agents[r].turn + 1)
    BY Zenon DEF TurnReplied
  <2>. HIDE DEF after
  <2>. QED  BY <1>1, <2>1
<1>. HIDE DEF after
<1>. QED  BY <1>7, <1>8, <1>9, <1>10

LEMMA ToolsOrder ==
  ASSUME ThreadInv, OrderInv, NEW r \in Agents, TurnReviewed(r) \/ AskApproval(r) \/ ToolsDone(r)
  PROVE  OrderInv'
<1>1. CopiesInv /\ UNCHANGED <<threadVars, queued, items, compactor>>
  BY DEF ThreadInv, TurnReviewed, AskApproval, ToolsDone
<1>2. QueueStep /\ queued' \in [ConvIds -> Seq(Nat)] /\ UNCHANGED <<trash, compactor>>
  BY <1>1, QuietOrder DEF threadVars
<1>3. CASE TurnReviewed(r)
  <2>1. UNCHANGED convs /\ Ends(r)
    BY <1>3 DEF TurnReviewed
  <2>. QED  BY <1>1, <1>2, <2>1, KeptAtTheEnd, ScreenStays
<1>4. CASE AskApproval(r)
  <2>1. UNCHANGED convs /\ GotoStep(r, "asked")
    BY <1>4 DEF AskApproval
  <2>. QED  BY <1>1, <1>2, <2>1, KeptOnTheWay, ScreenStays
<1>5. CASE ToolsDone(r)
  <2>1. PICK c, msgs, turn : c = agents[r].conv /\ msgs = Appended(r, Msgs(c)) /\ turn = agents[r].turn + 1
    OBVIOUS
  <2>2. turn \in Nat /\ NextTurn(r, msgs, turn)
    BY <1>1, <1>5, <2>1 DEF ToolsDone, CopiesInv, AgentRecord
  <2>3. msgs \in Seq(OwnMessage) /\ (c \in DOMAIN convs => Lined(msgs, c))
    BY <2>1, MsgsInOrder, AppendedKeeps, AppendedOrder
  <2>. QED  BY <1>1, <2>1, <2>2, <2>3, NextTurnOrder
<1>. QED  BY <1>3, <1>4, <1>5

(* A summary is written into a copy.                                       *)
LEMMA SummedOrder ==
  ASSUME ThreadInv, OrderInv, QueueStep, queued' \in [ConvIds -> Seq(Nat)], KeptFrom,
         NEW conv \in Copies, convs' \in {convs, Summed(conv)}
  PROVE  OrderInv'
<1>1. PICK new : new = [conv EXCEPT !.count = Len(conv.msgs)]
  OBVIOUS
<1>2. conv \in Thread /\ InOrder(conv)'
  BY CopiesAreThreads, OldCopiesStand DEF ThreadInv
<1>3. new.id = conv.id /\ new.msgs = conv.msgs
  BY <1>1, <1>2 DEF Thread
<1>4. InOrder(new)'
  BY <1>2, <1>3 DEF InOrder
<1>5. CASE convs' = convs
  BY <1>5, ScreenStays
<1>6. CASE convs' = Put(new)
  BY <1>4, <1>6, ScreenPuts
<1>. QED  BY <1>1, <1>5, <1>6 DEF Summed

LEMMA AutoCompactedOrder ==
  ASSUME ThreadInv, OrderInv, NEW r \in Agents, AutoCompacted(r)
  PROVE  OrderInv'
<1>1. /\ agents \in [Agents -> AgentRecord] /\ agents[r].snap # <<>>
      /\ agents[r].snap \in Seq(Thread)
  BY DEF ThreadInv, CopiesInv, AutoCompacted, RunsInv, AgentRecord
<1>2. QueueStep /\ queued' \in [ConvIds -> Seq(Nat)] /\ UNCHANGED <<trash, compactor>>
  BY QuietOrder DEF AutoCompacted, threadVars
<1>3. \A a \in Agents : agents'[a].snap \in {<<>>, agents[a].snap}
  BY <1>1 DEF AutoCompacted, AgentRecord
<1>4. KeptFrom
  BY <1>2, <1>3, KeptByRuns
<1>5. PICK conv : conv = agents[r].snap[1]
  OBVIOUS
<1>6. conv \in Copies
  <2>1. 1 \in DOMAIN agents[r].snap
    BY <1>1
  <2>2. conv \in ToSet(agents[r].snap)
    BY <1>5, <2>1 DEF ToSet
  <2>. QED  BY <2>2 DEF Copies, Snaps
<1>7. convs' \in {convs, Summed(conv)}
  BY <1>5 DEF AutoCompacted
<1>. QED  BY <1>2, <1>4, <1>6, <1>7, SummedOrder

(* A drain takes the head of a queue whose conversation is on screen: what *)
(* was sent in it before was typed before.                                 *)
LEMMA DrainOrder ==
  ASSUME ThreadInv, OrderInv, NEW r \in Agents, Drain(r)
  PROVE  OrderInv'
<1>1. PICK c, q : c = agents[r].conv /\ q = queued[c]
  OBVIOUS
<1>2. PICK rest : rest = IF q = <<>> THEN q ELSE Tail(q)
  OBVIOUS
<1>3. /\ DrainTo(r, rest) /\ queued' = [queued EXCEPT ![c] = rest]
      /\ UNCHANGED <<threadVars, items, compactor>>
  BY <1>1, <1>2 DEF Drain, DrainTo
<1>4. /\ queued \in [ConvIds -> Seq(Nat)] /\ items \in Nat /\ made \in Nat
      /\ agents \in [Agents -> AgentRecord] /\ QueuesInv
  BY DEF ThreadInv, CopiesInv, OrderInv, ConvIds
<1>5. ASSUME c \in ConvIds
      PROVE  /\ q \in Seq(Nat) /\ rest \in Seq(Nat) /\ (q = <<>> => rest = <<>>)
             /\ q # <<>> => /\ DOMAIN rest = 1..(Len(q) - 1) /\ DOMAIN q = 1..Len(q) /\ Len(q) \in Nat \ {0}
                            /\ \A k \in DOMAIN rest : rest[k] = q[k + 1]
  BY <1>1, <1>2, <1>4, <1>5
<1>6. queued' \in [ConvIds -> Seq(Nat)] /\ UNCHANGED <<items, made, active, trash, compactor>>
  BY <1>3, <1>4, <1>5 DEF threadVars
<1>7. QueueStep
  <2>1. \A d \in ConvIds : queued'[d] = IF d = c THEN rest ELSE queued[d]
    BY <1>3, <1>4
  <2>2. ASSUME NEW d \in ConvIds
        PROVE  /\ \A k \in DOMAIN queued'[d] : \E l \in DOMAIN queued[d] : queued[d][l] = queued'[d][k]
               /\ \A i, j \in DOMAIN queued'[d] : i < j => queued'[d][i] < queued'[d][j]
               /\ d > made => queued'[d] = <<>>
    <3>1. CASE d # c
      BY <1>4, <2>1, <3>1 DEF QueuesInv
    <3>2. CASE d = c /\ q = <<>>
      BY <1>4, <1>1, <1>5, <2>1, <3>2 DEF QueuesInv
    <3>3. CASE d = c /\ q # <<>>
      <4>1. queued'[d] = rest /\ queued[d] = q
        BY <1>1, <2>1, <3>3
      <4>2. \A k \in DOMAIN rest : k \in Nat /\ k + 1 \in DOMAIN q /\ rest[k] = q[k + 1]
        BY <1>5, <3>3
      <4>3. \A i, j \in DOMAIN q : i < j => q[i] < q[j]
        BY <1>4, <4>1 DEF QueuesInv
      <4>4. \A i, j \in DOMAIN rest : i < j => rest[i] < rest[j]
        BY <4>2, <4>3
      <4>5. ~(d > made)
        BY <1>4, <3>3, <4>1 DEF QueuesInv
      <4>. QED  BY <4>1, <4>2, <4>4, <4>5
    <3>. QED  BY <3>1, <3>2, <3>3
  <2>3. \A d \in ConvIds : \A k \in DOMAIN queued'[d] : queued'[d][k] <= items
    BY <1>4, <2>2 DEF QueuesInv
  <2>4. QueuesInv'
    BY <1>6, <2>2, <2>3 DEF QueuesInv
  <2>5. made' \in {made, made + 1} /\ active' \in 0..made'
    BY <1>6, MadeStays
  <2>. QED  BY <1>4, <1>6, <2>2, <2>4, <2>5 DEF QueueStep
<1>8. CASE q = <<>> \/ c \notin DOMAIN convs
  <2>1. UNCHANGED convs /\ agents' = [agents EXCEPT ![r] = Over(r)]
    BY <1>1, <1>3, <1>8 DEF DrainTo
  <2>2. \A a \in Agents : agents'[a].snap \in {<<>>, agents[a].snap}
    BY <1>4, <2>1 DEF Over, Unused
  <2>. QED  BY <1>6, <1>7, <2>1, <2>2, KeptByRuns, ScreenStays
<1>9. CASE q # <<>> /\ c \in DOMAIN convs
  <2>1. PICK conv, item : conv = convs[c] /\ item = Head(q)
    OBVIOUS
  <2>2. /\ conv \in Thread /\ conv.id = c /\ c \in ConvIds /\ c \in 1..made'
        /\ Lined(conv.msgs, c) /\ conv \in Copies
    BY <1>6, <1>9, <2>1, ShownInOrder
  <2>3. Lined(conv.msgs, conv.id)'
    BY <1>6, <1>7, <2>2, OldCopiesStand DEF InOrder
  <2>4. Ask(NextAgent, r, conv, item)
    BY <1>1, <1>3, <1>9, <2>1 DEF DrainTo
  <2>5. item = q[1] /\ item \in Nat /\ 1 \in DOMAIN q
    BY <1>5, <1>9, <2>1, <2>2
  <2>6. \A i \in Sent(conv.msgs) : conv.msgs[i].item < item
    BY <1>1, <2>2, <2>5 DEF Lined
  <2>7. item <= items'
    BY <1>1, <1>4, <1>6, <2>2, <2>5 DEF QueuesInv
  <2>8. \A k \in DOMAIN queued'[conv.id] : item < queued'[conv.id][k]
    <3>1. queued'[conv.id] = rest
      BY <1>3, <1>4, <2>2
    <3>2. \A i, j \in DOMAIN q : i < j => q[i] < q[j]
      BY <1>1, <1>4, <2>2 DEF QueuesInv
    <3>3. \A k \in DOMAIN rest : k + 1 \in DOMAIN q /\ 1 < k + 1 /\ rest[k] = q[k + 1]
      BY <1>5, <1>9, <2>2
    <3>. QED  BY <2>5, <3>1, <3>2, <3>3
  <2>. QED  BY <1>6, <1>7, <2>2, <2>3, <2>4, <2>5, <2>6, <2>7, <2>8, AskOrder
<1>. QED  BY <1>8, <1>9

(* The user *)
LEMMA QueueOrder ==
  ASSUME ThreadInv, OrderInv, Queue \/ Unqueue
  PROVE  OrderInv'
<1>1. PICK c, q : c = active /\ q = queued[c]
  OBVIOUS
<1>2. /\ queued \in [ConvIds -> Seq(Nat)] /\ items \in Nat /\ made \in ConvIds /\ made \in Nat
      /\ c \in 1..made /\ c \in ConvIds /\ QueuesInv /\ q \in Seq(Nat)
  <2>1. active \in 1..made /\ made \in ConvIds /\ queued \in [ConvIds -> Seq(Nat)]
    BY DEF ThreadInv, CopiesInv, OrderInv, Queue, Unqueue, ConvIds
  <2>2. active \in ConvIds
    BY <2>1, ThreadAssumption DEF ConvIds
  <2>. QED  BY <1>1, <2>1, <2>2 DEF ThreadInv, CopiesInv, OrderInv, ConvIds
<1>3. /\ DOMAIN q = 1..Len(q) /\ Len(q) \in Nat /\ \A k \in DOMAIN q : q[k] \in Nat /\ q[k] <= items
      /\ \A k, l \in DOMAIN q : k < l => q[k] < q[l]
  BY <1>1, <1>2, LenProperties DEF QueuesInv
<1>4. \E rest \in Seq(Nat) :
        /\ queued' = [queued EXCEPT ![c] = rest] /\ items' \in Nat /\ items' >= items
        /\ \A k \in DOMAIN rest : /\ rest[k] <= items'
                                  /\ rest[k] > items \/ \E l \in DOMAIN q : q[l] = rest[k]
        /\ \A k, l \in DOMAIN rest : k < l => rest[k] < rest[l]
  <2>1. CASE Queue
    <3>1. PICK rest : rest = Append(q, items + 1)
      OBVIOUS
    <3>2. /\ rest \in Seq(Nat) /\ DOMAIN rest = 1..(Len(q) + 1) /\ rest[Len(q) + 1] = items + 1
          /\ \A k \in 1..Len(q) : rest[k] = q[k]
      BY <1>2, <1>3, <3>1
    <3>3. queued' = [queued EXCEPT ![c] = rest] /\ items' = items + 1
      BY <1>1, <2>1, <3>1 DEF Queue
    <3>4. \A k \in DOMAIN rest : k \in DOMAIN q \/ k = Len(q) + 1
      BY <1>3, <3>2
    <3>5. ASSUME NEW k \in DOMAIN rest
          PROVE  rest[k] <= items' /\ (rest[k] > items \/ \E l \in DOMAIN q : q[l] = rest[k])
      <4>1. ASSUME k \in DOMAIN q
            PROVE  rest[k] = q[k] /\ q[k] <= items /\ q[k] \in Nat
        BY <1>3, <3>2, <4>1
      <4>2. CASE k \in DOMAIN q
        <5>1. rest[k] <= items'
          BY <1>2, <3>3, <4>1, <4>2
        <5>2. \E l \in DOMAIN q : q[l] = rest[k]
          BY <4>1, <4>2
        <5>. QED  BY <5>1, <5>2
      <4>3. CASE k = Len(q) + 1
        <5>1. rest[k] = items + 1
          BY <3>2, <4>3
        <5>. QED  BY <1>2, <3>3, <5>1
      <4>. QED  BY <3>4, <4>2, <4>3
    <3>6. ASSUME NEW k \in DOMAIN rest, NEW l \in DOMAIN rest, k < l PROVE rest[k] < rest[l]
      <4>1. k \in DOMAIN q
        BY <1>3, <3>2, <3>6
      <4>2. rest[k] = q[k] /\ q[k] <= items /\ q[k] \in Nat
        BY <1>3, <3>2, <4>1
      <4>3. CASE l \in DOMAIN q
        BY <1>3, <3>2, <3>6, <4>1, <4>3
      <4>4. CASE l = Len(q) + 1
        BY <1>2, <3>2, <4>2, <4>4
      <4>. QED  BY <3>4, <4>3, <4>4
    <3>7. rest \in Seq(Nat) /\ items' \in Nat /\ items' >= items
      BY <1>2, <3>2, <3>3
    <3>. USE <3>7
    <3>. WITNESS rest \in Seq(Nat)
    <3>. QED  BY <3>3, <3>5, <3>6, <3>7
  <2>2. CASE Unqueue
    <3>1. PICK i \in DOMAIN q : queued' = [queued EXCEPT ![c] = RemoveAt(@, i)]
      BY <1>1, <2>2 DEF Unqueue
    <3>. DEFINE a == SubSeq(q, 1, i - 1)
                b == SubSeq(q, i + 1, Len(q))
    <3>2. PICK rest : rest = a \o b
      OBVIOUS
    <3>3. i \in Int /\ i - 1 \in Int /\ i + 1 \in Int /\ 1 <= i /\ i <= Len(q)
      BY <1>3
    <3>4. a \in Seq(Nat) /\ Len(a) = i - 1 /\ \A k \in 1..(i - 1) : a[k] = q[k]
      <4>1. 1 \in Int /\ \A k \in 1..(i - 1) : q[k] \in Nat
        BY <1>3, <3>3
      <4>2. /\ a \in Seq(Nat) /\ Len(a) = (IF 1 <= i - 1 THEN i - 1 - 1 + 1 ELSE 0)
            /\ \A k \in 1..(i - 1 - 1 + 1) : a[k] = q[1 + k - 1]
        BY <3>3, <4>1, SubSeqProperties
      <4>. HIDE DEF a
      <4>3. i - 1 - 1 + 1 = i - 1 /\ \A k \in 1..(i - 1) : 1 + k - 1 = k
        BY <3>3
      <4>4. Len(a) = i - 1
        BY <3>3, <4>2
      <4>. QED  BY <4>2, <4>3, <4>4
    <3>5. /\ b \in Seq(Nat) /\ Len(b) = Len(q) - i
          /\ \A k \in 1..(Len(q) - i) : b[k] = q[k + i]
      <4>1. i + 1 \in Int /\ Len(q) \in Int /\ \A k \in (i + 1)..Len(q) : q[k] \in Nat
        BY <1>3, <3>3
      <4>2. /\ b \in Seq(Nat)
            /\ Len(b) = (IF i + 1 <= Len(q) THEN Len(q) - (i + 1) + 1 ELSE 0)
            /\ \A k \in 1..(Len(q) - (i + 1) + 1) : b[k] = q[i + 1 + k - 1]
        BY <4>1, SubSeqProperties
      <4>. HIDE DEF b
      <4>3. Len(q) - (i + 1) + 1 = Len(q) - i /\ \A k \in Int : i + 1 + k - 1 = k + i
        BY <3>3, <4>1
      <4>4. Len(b) = Len(q) - i
        BY <1>3, <3>3, <4>2
      <4>5. ASSUME NEW k \in 1..(Len(q) - i) PROVE b[k] = q[k + i]
        <5>1. k \in 1..(Len(q) - (i + 1) + 1) /\ i + 1 + k - 1 = k + i
          BY <4>3
        <5>2. b[k] = q[i + 1 + k - 1]
          BY <4>2, <5>1
        <5>. QED  BY <5>1, <5>2
      <4>. QED  BY <4>2, <4>4, <4>5
    <3>. HIDE DEF a, b
    <3>6. /\ rest \in Seq(Nat) /\ DOMAIN rest = 1..(Len(q) - 1)
          /\ \A k \in DOMAIN rest : rest[k] = IF k < i THEN q[k] ELSE q[k + 1]
      <4>1. /\ a \o b \in Seq(Nat) /\ Len(a \o b) = Len(a) + Len(b)
            /\ \A k \in 1..(Len(a) + Len(b)) : (a \o b)[k] = IF k <= Len(a) THEN a[k] ELSE b[k - Len(a)]
        BY <3>4, <3>5, ConcatProperties
      <4>2. Len(a) + Len(b) = Len(q) - 1
        BY <1>3, <3>3, <3>4, <3>5
      <4>3. DOMAIN rest = 1..(Len(q) - 1)
        BY <3>2, <4>1, <4>2, LenProperties
      <4>4. ASSUME NEW k \in 1..(Len(q) - 1), k < i PROVE rest[k] = q[k]
        BY <1>3, <3>2, <3>3, <3>4, <4>1, <4>2, <4>4
      <4>5. ASSUME NEW k \in 1..(Len(q) - 1), ~(k < i) PROVE rest[k] = q[k + 1]
        <5>1. ~(k <= Len(a)) /\ k - Len(a) \in 1..(Len(q) - i) /\ k - Len(a) + i = k + 1
          BY <1>3, <3>3, <3>4, <4>5
        <5>. QED  BY <3>2, <3>5, <4>1, <4>2, <5>1
      <4>. QED  BY <3>2, <4>1, <4>3, <4>4, <4>5
    <3>7. queued' = [queued EXCEPT ![c] = rest] /\ items' = items
      BY <1>1, <1>2, <2>2, <3>1, <3>2 DEF Unqueue, RemoveAt, a, b
    <3>8. \A k \in DOMAIN rest : /\ k \in Nat /\ (k < i => k \in DOMAIN q) /\ k + 1 \in DOMAIN q
      BY <1>3, <3>3, <3>6
    <3>9. \A k \in DOMAIN rest : \E l \in DOMAIN q : q[l] = rest[k]
      BY <3>6, <3>8
    <3>10. \A k, l \in DOMAIN rest : k < l => rest[k] < rest[l]
      <4>. SUFFICES ASSUME NEW k \in DOMAIN rest, NEW l \in DOMAIN rest, k < l PROVE rest[k] < rest[l]
        OBVIOUS
      <4>1. rest[k] = q[IF k < i THEN k ELSE k + 1] /\ rest[l] = q[IF l < i THEN l ELSE l + 1]
        BY <3>6
      <4>2. (IF k < i THEN k ELSE k + 1) < (IF l < i THEN l ELSE l + 1)
        BY <3>3, <3>8
      <4>3. (IF k < i THEN k ELSE k + 1) \in DOMAIN q /\ (IF l < i THEN l ELSE l + 1) \in DOMAIN q
        BY <3>8
      <4>. QED  BY <1>3, <4>1, <4>2, <4>3
    <3>11. \A k \in DOMAIN rest : rest[k] <= items
      BY <1>3, <3>9
    <3>12. items' \in Nat /\ items' >= items /\ rest \in Seq(Nat)
      BY <1>2, <3>6, <3>7
    <3>. USE <3>12
    <3>. WITNESS rest \in Seq(Nat)
    <3>. QED  BY <3>7, <3>9, <3>10, <3>11, <3>12
  <2>. QED  BY <2>1, <2>2
<1>5. UNCHANGED <<convs, made, active, trash, compactor, agents>>
  BY DEF Queue, Unqueue, threadVars
<1>6. PICK rest \in Seq(Nat) :
        /\ queued' = [queued EXCEPT ![c] = rest] /\ items' \in Nat /\ items' >= items
        /\ \A k \in DOMAIN rest : /\ rest[k] <= items'
                                  /\ rest[k] > items \/ \E l \in DOMAIN q : q[l] = rest[k]
        /\ \A k, l \in DOMAIN rest : k < l => rest[k] < rest[l]
  BY <1>4
<1>7. queued' \in [ConvIds -> Seq(Nat)] /\ \A d \in ConvIds : queued'[d] = IF d = c THEN rest ELSE queued[d]
  BY <1>2, <1>6
<1>8. QueuesInv'
  <2>. SUFFICES ASSUME NEW d \in ConvIds
                PROVE  /\ \A i, j \in DOMAIN queued'[d] : i < j => queued'[d][i] < queued'[d][j]
                       /\ \A i \in DOMAIN queued'[d] : queued'[d][i] <= items'
                       /\ d > made' => queued'[d] = <<>>
    BY DEF QueuesInv
  <2>1. CASE d = c
    BY <1>2, <1>5, <1>6, <1>7, <2>1
  <2>2. CASE d # c
    <3>1. \A i \in DOMAIN queued[d] : queued[d][i] \in Nat /\ queued[d][i] <= items
      BY <1>2 DEF QueuesInv
    <3>2. \A i \in DOMAIN queued[d] : queued[d][i] <= items'
      BY <1>2, <1>6, <3>1
    <3>. QED  BY <1>2, <1>5, <1>7, <2>2, <3>2 DEF QueuesInv
  <2>. QED  BY <2>1, <2>2
<1>9. \A d \in ConvIds : \A k \in DOMAIN queued'[d] :
        queued'[d][k] > items \/ \E l \in DOMAIN queued[d] : queued[d][l] = queued'[d][k]
  BY <1>1, <1>6, <1>7
<1>10. QueueStep
  BY <1>5, <1>6, <1>8, <1>9, MadeStays DEF QueueStep
<1>. QED  BY <1>5, <1>7, <1>10, KeptByRuns, ScreenStays

LEMMA WithMessagesIs ==
  ASSUME NEW conv \in Thread, NEW msgs
  PROVE  withMessages(conv, msgs).msgs = msgs /\ withMessages(conv, msgs).id = conv.id
  BY DEF withMessages, Thread

LEMMA SendOrder ==
  ASSUME ThreadInv, OrderInv, SendMessage \/ SendFollowUp
  PROVE  OrderInv'
<1>1. /\ made \in Nat /\ UNCHANGED <<trash, compactor, queued, items>>
      /\ (active \in DOMAIN convs => UNCHANGED <<made, active>>)
  BY DEF ThreadInv, CopiesInv, ConvIds, SendMessage, SendFollowUp, threadVars
<1>2. CASE active \in DOMAIN convs
  <2>1. PICK c, conv : c = active /\ conv = convs[c]
    OBVIOUS
  <2>2. /\ QueueStep /\ queued' \in [ConvIds -> Seq(Nat)]
        /\ \A m, d : Lined(m, d) => Lined(m, d)'
    BY <1>1, <1>2, QuietOrder
  <2>3. conv \in Thread /\ conv.id = c /\ conv.id \in 1..made' /\ Lined(conv.msgs, conv.id)'
    BY <1>1, <1>2, <2>1, <2>2, ShownInOrder
  <2>4. Ask(NextAgent, 0, conv, 0)
    BY <1>2, <2>1 DEF SendMessage, SendFollowUp
  <2>. QED  BY <1>1, <2>2, <2>3, <2>4, 0 \in Nat, AskOrder
<1>3. CASE active \notin DOMAIN convs
  <2>1. PICK conv : conv = [id |-> made + 1, msgs |-> <<>>, count |-> 0]
    OBVIOUS
  <2>2. /\ made' = made + 1 /\ made < MaxConvs /\ active' = made + 1
        /\ Ask(NextAgent, 0, conv, 0)
    BY <1>3, <2>1 DEF SendMessage, SendFollowUp
  <2>3. QueueStep /\ queued' \in [ConvIds -> Seq(Nat)]
    BY <1>1, <2>2, QueuesStay
  <2>4. conv \in Thread /\ conv.id = made + 1 /\ conv.msgs = <<>> /\ conv.id \in 1..made'
    <3>1. made + 1 \in ConvIds
      BY <1>1, <2>2, ThreadAssumption DEF ConvIds
    <3>. QED  BY <1>1, <2>1, <2>2, <3>1, EmptySeq DEF Thread
  <2>5. Lined(conv.msgs, conv.id)'
    BY <2>4 DEF Lined, Sent
  <2>. QED  BY <1>1, <2>2, <2>3, <2>4, <2>5, 0 \in Nat, AskOrder
<1>. QED  BY <1>2, <1>3

LEMMA RedoOrder ==
  ASSUME ThreadInv, OrderInv, NEW conv, conv = convs[active], active \in DOMAIN convs,
         NEW keep \in 0..Len(conv.msgs), Redo(conv, keep)
  PROVE  OrderInv'
<1>1. /\ ids \in Nat /\ ids + 1 \in Nat
      /\ UNCHANGED <<made, active, trash, compactor, queued, items>>
  BY DEF ThreadInv, CopiesInv, Redo, threadVars
<1>2. /\ QueueStep /\ queued' \in [ConvIds -> Seq(Nat)]
      /\ \A m, d : Lined(m, d) => Lined(m, d)'
  BY <1>1, QuietOrder
<1>3. /\ conv \in Thread /\ conv.msgs \in Seq(OwnMessage) /\ Lined(conv.msgs, conv.id)
      /\ conv.id \in 1..made'
  BY <1>1, ShownInOrder
<1>4. PICK msgs : msgs = SubSeq(conv.msgs, 1, keep)
  OBVIOUS
<1>5. msgs \in Seq(OwnMessage) /\ Lined(msgs, conv.id)
  BY <1>3, <1>4, PrefixKeeps, PrefixLined
<1>6. PICK cut, blank : cut = withMessages(conv, msgs) /\ blank = Blank(ids + 1)
  OBVIOUS
<1>7. cut \in Thread /\ cut.msgs = msgs /\ cut.id = conv.id
  BY <1>3, <1>5, <1>6, ThreadFrom, WithMessagesIs
<1>8. <<blank>> \in Seq(OwnMessage) /\ blank \in OwnMessage /\ Sent(<<blank>>) = {}
  BY <1>1, <1>6, NewMessages, SentOfNew
<1>9. PICK new : new = [cut EXCEPT !.msgs = Append(msgs, blank)]
  OBVIOUS
<1>10. Append(msgs, blank) = msgs \o <<blank>> /\ msgs \o <<blank>> \in Seq(OwnMessage)
       /\ Lined(msgs \o <<blank>>, conv.id)
  BY <1>5, <1>8, AppendIsConcat, ConcatProperties, ChatterLined
<1>11. /\ new \in Thread /\ new.id = conv.id /\ new.msgs = msgs \o <<blank>>
  BY <1>7, <1>9, <1>10, ThreadFrom DEF Thread
<1>12. PICK r, target : r = NextAgent /\ target = ids + 1
  OBVIOUS
<1>13. RunStream(r, 0, new, target)
  BY <1>4, <1>6, <1>7, <1>9, <1>12 DEF Redo
<1>. QED  BY <1>1, <1>2, <1>3, <1>10, <1>11, <1>13, RunStreamOrder

LEMMA AgainOrder ==
  ASSUME ThreadInv, OrderInv, Retry \/ Regenerate \/ EditMessage
  PROVE  OrderInv'
<1>1. active \in DOMAIN convs
  BY DEF Retry, Regenerate, EditMessage
<1>2. PICK conv : conv = convs[active]
  OBVIOUS
<1>3. PICK keep \in 0..Len(conv.msgs) : Redo(conv, keep)
  <2>1. \A i \in DOMAIN conv.msgs : i \in 0..Len(conv.msgs) /\ i - 1 \in 0..Len(conv.msgs)
    BY <1>1, <1>2, OnScreen DEF ThreadInv
  <2>2. LastReply(conv.msgs) \subseteq DOMAIN conv.msgs
    BY DEF LastReply
  <2>3. CASE Retry
    BY <1>2, <2>1, <2>2, <2>3 DEF Retry
  <2>4. CASE Regenerate
    BY <1>2, <2>1, <2>4 DEF Regenerate
  <2>5. CASE EditMessage
    BY <1>2, <2>1, <2>5 DEF EditMessage
  <2>. QED  BY <2>3, <2>4, <2>5
<1>. QED  BY <1>1, <1>2, <1>3, RedoOrder

LEMMA ContinueOrder ==
  ASSUME ThreadInv, OrderInv, ContinueMessage
  PROVE  OrderInv'
<1>1. active \in DOMAIN convs /\ UNCHANGED <<made, active, trash, compactor, queued, items>>
  BY DEF ContinueMessage, threadVars
<1>2. PICK conv : conv = convs[active]
  OBVIOUS
<1>3. /\ QueueStep /\ queued' \in [ConvIds -> Seq(Nat)]
      /\ \A m, d : Lined(m, d) => Lined(m, d)'
  BY <1>1, QuietOrder
<1>4. conv \in Thread /\ conv.id \in 1..made' /\ Lined(conv.msgs, conv.id)'
  BY <1>1, <1>2, <1>3, ShownInOrder
<1>5. PICK i : RunStream(NextAgent, 0, conv, conv.msgs[i].id)
  BY <1>2 DEF ContinueMessage
<1>6. PICK r, target : r = NextAgent /\ target = conv.msgs[i].id
  OBVIOUS
<1>7. RunStream(r, 0, conv, target)
  BY <1>5, <1>6
<1>. QED  BY <1>1, <1>3, <1>4, <1>7, RunStreamOrder

LEMMA CutOrder ==
  ASSUME ThreadInv, OrderInv, DeleteFrom \/ BranchAt
  PROVE  OrderInv'
<1>1. /\ active \in DOMAIN convs /\ made \in Nat /\ queued \in [ConvIds -> Seq(Nat)]
      /\ UNCHANGED <<trash, compactor, queued, items, agents>>
  BY DEF DeleteFrom, BranchAt, threadVars, ThreadInv, CopiesInv, ConvIds
<1>2. PICK conv : conv = convs[active]
  OBVIOUS
<1>3. /\ conv \in Thread /\ conv.id \in 1..made /\ conv.msgs \in Seq(OwnMessage)
      /\ Lined(conv.msgs, conv.id)
  BY <1>1, <1>2, ShownInOrder
<1>4. KeptFrom
  BY <1>1, KeptByRuns
<1>5. CASE DeleteFrom
  <2>1. PICK keep \in 0..(Len(conv.msgs) - 1) :
          convs' = Put(withMessages(conv, SubSeq(conv.msgs, 1, keep)))
    BY <1>2, <1>5 DEF DeleteFrom
  <2>2. keep \in 0..Len(conv.msgs)
    BY <1>3, LenProperties
  <2>3. PICK new : new = withMessages(conv, SubSeq(conv.msgs, 1, keep))
    OBVIOUS
  <2>4. UNCHANGED <<made, active>>
    BY <1>5 DEF DeleteFrom, threadVars
  <2>5. /\ QueueStep /\ queued' \in [ConvIds -> Seq(Nat)]
        /\ \A m, d : Lined(m, d) => Lined(m, d)'
    BY <1>1, <2>4, QuietOrder
  <2>6. Lined(SubSeq(conv.msgs, 1, keep), conv.id)'
    BY <1>3, <2>2, <2>5, PrefixLined
  <2>7. InOrder(new)'
    BY <1>3, <2>3, <2>4, <2>6, WithMessagesIs DEF InOrder
  <2>. QED  BY <1>4, <2>1, <2>3, <2>5, <2>7, ScreenPuts
<1>6. CASE BranchAt
  <2>1. PICK keep \in DOMAIN conv.msgs :
          convs' = Put([withMessages(conv, SubSeq(conv.msgs, 1, keep)) EXCEPT !.id = made + 1])
    BY <1>2, <1>6 DEF BranchAt
  <2>2. keep \in 0..Len(conv.msgs)
    BY <1>3, LenProperties
  <2>3. PICK msgs, cut, new : /\ msgs = SubSeq(conv.msgs, 1, keep) /\ cut = withMessages(conv, msgs)
                              /\ new = [cut EXCEPT !.id = made + 1]
    OBVIOUS
  <2>4. made' = made + 1 /\ active' = made + 1 /\ made < MaxConvs
    BY <1>6 DEF BranchAt
  <2>5. QueueStep /\ queued' \in [ConvIds -> Seq(Nat)]
    BY <1>1, <2>4, QueuesStay
  <2>6. new.id = made + 1 /\ new.msgs = msgs
    <3>1. msgs \in Seq(OwnMessage)
      BY <1>3, <2>2, <2>3, PrefixKeeps
    <3>2. cut \in Thread /\ cut.msgs = msgs
      BY <1>3, <2>3, <3>1, ThreadFrom, WithMessagesIs
    <3>. QED  BY <2>3, <3>2 DEF Thread
  <2>7. queued'[new.id] = <<>>
    <3>1. made + 1 \in ConvIds /\ made + 1 > made
      BY <1>1, <2>4, ThreadAssumption DEF ConvIds
    <3>. QED  BY <1>1, <2>6, <3>1 DEF OrderInv, QueuesInv
  <2>8. Lined(msgs, conv.id)
    BY <1>3, <2>2, <2>3, PrefixLined
  <2>9. Lined(msgs, new.id)'
    <3>1. DOMAIN queued'[new.id] = {}
      BY <2>7
    <3>. QED  BY <1>1, <2>8, <3>1 DEF Lined, Sent
  <2>10. InOrder(new)'
    BY <1>1, <2>4, <2>6, <2>9 DEF InOrder
  <2>. QED  BY <1>4, <2>1, <2>3, <2>5, <2>10, ScreenPuts
<1>. QED  BY <1>5, <1>6

LEMMA CompactOrder ==
  ASSUME ThreadInv, OrderInv, RunCompact \/ Compacted \/ StopChat \/ DecideChat
  PROVE  OrderInv'
<1>1. UNCHANGED <<made, active, trash, queued, items>>
  BY DEF RunCompact, Compacted, StopChat, DecideChat, threadVars
<1>2. QueueStep /\ queued' \in [ConvIds -> Seq(Nat)]
  BY <1>1, QuietOrder
<1>3. \A a \in Agents : agents'[a].snap = agents[a].snap
  <2>1. agents \in [Agents -> AgentRecord]
    BY DEF ThreadInv, CopiesInv
  <2>2. CASE UNCHANGED agents
    BY <2>2
  <2>3. ASSUME NEW r, NEW to, GotoStep(r, to)
        PROVE  \A a \in Agents : agents'[a].snap = agents[a].snap
    BY <2>1, <2>3 DEF GotoStep, AgentRecord
  <2>. QED  BY <2>2, <2>3 DEF RunCompact, Compacted, StopChat, DecideChat
<1>4. Snaps' = Snaps
  BY <1>3 DEF Snaps
<1>5. CASE StopChat \/ DecideChat
  <2>1. UNCHANGED <<convs, compactor>>
    BY <1>5 DEF StopChat, DecideChat
  <2>. QED  BY <1>1, <1>2, <1>3, <2>1, KeptByRuns, ScreenStays
<1>6. CASE RunCompact
  <2>1. UNCHANGED convs /\ ToSet(compactor') \subseteq ShownConvs'
    BY <1>6, ToSetOfOne DEF RunCompact, ShownConvs
  <2>2. KeptFrom
    BY <1>1, <1>4, <2>1 DEF KeptFrom, Copies
  <2>. QED  BY <1>2, <2>1, <2>2, ScreenStays
<1>7. CASE Compacted
  <2>1. PICK conv : conv = compactor[1]
    OBVIOUS
  <2>2. compactor # <<>> /\ compactor' = <<>> /\ convs' \in {convs, Summed(conv)}
    BY <1>7, <2>1 DEF Compacted
  <2>3. ToSet(compactor') = {}
    BY <2>2 DEF ToSet
  <2>4. KeptFrom
    BY <1>1, <1>4, <2>3 DEF KeptFrom, Copies
  <2>5. conv \in Copies
    <3>1. compactor \in Seq(Thread)
      BY DEF ThreadInv, CopiesInv
    <3>2. 1 \in DOMAIN compactor
      BY <2>2, <3>1
    <3>. QED  BY <2>1, <3>2 DEF ToSet, Copies
  <2>. QED  BY <1>2, <2>2, <2>4, <2>5, SummedOrder
<1>. QED  BY <1>5, <1>6, <1>7

LEMMA SidebarOrder ==
  ASSUME ThreadInv, OrderInv, Select \/ SoftDelete \/ UndoDelete
  PROVE  OrderInv'
<1>1. /\ UNCHANGED <<made, compactor, queued, items, agents>> /\ made \in Nat
      /\ DOMAIN convs \subseteq 1..made /\ active \in 0..made
  BY ShownInOrder DEF Select, SoftDelete, UndoDelete, ThreadInv, CopiesInv, ConvIds, OrderInv
<1>2. Snaps' = Snaps
  BY <1>1 DEF Snaps
<1>3. ASSUME active' \in 0..made PROVE QueueStep /\ queued' \in [ConvIds -> Seq(Nat)]
  BY <1>1, <1>3, QueuesStay
<1>4. CASE Select
  <2>1. UNCHANGED <<convs, trash>> /\ active' \in 0..made
    BY <1>1, <1>4 DEF Select
  <2>. QED  BY <1>1, <1>3, <2>1, KeptByRuns, ScreenStays
<1>5. CASE SoftDelete
  <2>1. PICK c \in DOMAIN convs :
          /\ trash' = <<convs[c]>> /\ convs' = [d \in DOMAIN convs \ {c} |-> convs[d]]
          /\ active' \in {0, active}
    BY <1>5 DEF SoftDelete
  <2>2. ToSet(trash') \subseteq ShownConvs
    BY <2>1, ToSetOfOne DEF ShownConvs
  <2>3. ShownConvs' \subseteq ShownConvs
    BY <2>1 DEF ShownConvs
  <2>4. Copies' \subseteq Copies
    BY <1>1, <1>2, <2>2, <2>3 DEF Copies
  <2>5. \A d \in DOMAIN convs' : convs'[d].id = d
    BY <2>1 DEF OrderInv
  <2>. QED  BY <1>1, <1>3, <2>1, <2>4, <2>5, OrderStands
<1>6. CASE UndoDelete
  <2>1. PICK conv : conv = trash[1]
    OBVIOUS
  <2>2. trash # <<>> /\ trash' = <<>> /\ convs' = Put(conv) /\ active' = conv.id
    BY <1>6, <2>1 DEF UndoDelete
  <2>3. conv \in Copies
    <3>1. trash \in Seq(Thread)
      BY DEF ThreadInv, CopiesInv
    <3>2. 1 \in DOMAIN trash
      BY <2>2, <3>1
    <3>. QED  BY <2>1, <3>2 DEF ToSet, Copies
  <2>4. conv.id \in 1..made
    BY <2>3 DEF OrderInv, InOrder
  <2>5. ToSet(trash') = {}
    BY <2>2 DEF ToSet
  <2>6. KeptFrom
    BY <1>1, <1>2, <2>5 DEF KeptFrom, Copies
  <2>. QED  BY <1>1, <1>3, <2>2, <2>3, <2>4, <2>6, ScreenPuts
<1>. QED  BY <1>4, <1>5, <1>6

-----------------------------------------------------------------------------
LEMMA OrderStep ==
  ASSUME ThreadInv, OrderInv, [ChatNext]_chatVars
  PROVE  OrderInv'
<1>1. CASE UNCHANGED chatVars
  <2>1. UNCHANGED <<queued, items, made, active, convs, trash, compactor, agents>>
    BY <1>1 DEF chatVars
  <2>. QED  BY <2>1, QuietOrder, KeptByRuns, ScreenStays
<1>2. CASE Click
  BY <1>2, SendOrder, AgainOrder, ContinueOrder, CutOrder, CompactOrder, QueueOrder, SidebarOrder
  DEF Click
<1>3. CASE \E r \in Agents : AgentStep(r)
  BY <1>3, ResearchedOrder, DeltaOrder, TurnRepliedOrder, ToolsOrder, AutoCompactedOrder, DrainOrder
  DEF AgentStep
<1>4. CASE DecideChat \/ Queue \/ Compacted \/ StopChat
  BY <1>4, QueueOrder, CompactOrder
<1>. QED  BY <1>1, <1>2, <1>3, <1>4 DEF ChatNext

LEMMA OrderStart == ChatInit => OrderInv
<1>. SUFFICES ASSUME ChatInit PROVE OrderInv
  OBVIOUS
<1>1. /\ made = 1 /\ trash = <<>> /\ compactor = <<>> /\ items = 0 /\ active \in {0, 1}
      /\ queued = [c \in ConvIds |-> <<>>] /\ \A r \in Agents : agents[r].snap = <<>>
  BY DEF ChatInit, Unused
<1>2. ToSet(<<>>) = {}
  BY DEF ToSet
<1>3. Copies = ShownConvs
  BY <1>1, <1>2 DEF Copies, Snaps
<1>4. QueuesInv
  BY <1>1 DEF QueuesInv
<1>5. Stored.id = 1 /\ Sent(Stored.msgs) = {}
  <2>1. /\ Stored.id = 1 /\ DOMAIN Stored.msgs = {1, 2}
        /\ Stored.msgs[1] = Question(0) /\ Stored.msgs[2] = [Blank(1) EXCEPT !.text = {0}]
    BY DEF Stored
  <2>2. Question(0).item = 0 /\ [Blank(1) EXCEPT !.text = {0}].item = 0
    BY DEF Question, Blank
  <2>. QED  BY <2>1, <2>2 DEF Sent
<1>6. InOrder(Stored)
  BY <1>1, <1>5 DEF InOrder, Lined
<1>7. (\A conv \in ShownConvs : conv = Stored) /\ \A c \in DOMAIN convs : convs[c].id = c
  <2>1. CASE convs = [c \in {1} |-> Stored]
    BY <1>5, <2>1 DEF ShownConvs
  <2>2. CASE convs = << >>
    <3>1. DOMAIN convs = {}
      BY <2>2
    <3>. QED  BY <3>1 DEF ShownConvs
  <2>. QED  BY <2>1, <2>2 DEF ChatInit
<1>. QED  BY <1>1, <1>3, <1>4, <1>6, <1>7 DEF OrderInv

(* A message is sent from the queue once, and after every message that was *)
(* typed before it, however many runs drain the queue and whatever copy of *)
(* the conversation is brought back meanwhile (the end of runStream and    *)
(* send, screens/ChatScreen.tsx).                                          *)
THEOREM QueuedAreSentInOrder == ChatSpec => []QueueKeepsOrder
<1>1. OrderInv => QueueKeepsOrder
  <2>. SUFFICES ASSUME OrderInv, NEW c \in DOMAIN convs
                PROVE  LET msgs == convs[c].msgs
                       IN \A i, j \in Sent(msgs) : i < j => msgs[i].item < msgs[j].item
    BY DEF QueueKeepsOrder, Sent
  <2>1. convs[c] \in Copies
    BY DEF Copies, ShownConvs
  <2>. QED  BY <2>1 DEF OrderInv, InOrder, Lined
<1>. QED  BY <1>1, ThreadStart, ThreadStep, OrderStart, OrderStep, PTL DEF ChatSpec

-----------------------------------------------------------------------------
(* Types of a streamed request. What CleanInv says of the chat API holds   *)
(* of the Responses API by a shorter way; a callback ends a request once,  *)
(* or twice after response.failed.                                         *)
Phases == {"idle", "connect", "status", "read", "again", "over"}

PlainText ==
  /\ sent \in Seq(Kinds) /\ shown \in Seq(1..Len(sent)) /\ hidden = <<>> /\ held = <<>>

CallbackInv ==
  /\ outcome \in Seq({"done", "error"}) /\ Len(outcome) <= 2
  /\ ~StreamEnded => Len(outcome) <= 1
  /\ ~StreamEnded /\ ~failed => outcome = <<>>

StreamInv ==
  /\ CleanInv /\ CallbackInv
  /\ phase \in Phases /\ api \in {"chat", "responses"} /\ failed \in BOOLEAN
  /\ api = "responses" => PlainText

LEMMA StreamBegins == StreamInit => StreamInv
<1>. SUFFICES ASSUME StreamInit PROVE StreamInv
  OBVIOUS
<1>1. CleanInv
  BY NoPieceAtFirst
<1>2. CallbackInv
  BY DEF StreamInit, CallbackInv
<1>. QED  BY <1>1, <1>2 DEF StreamInit, StreamInv, Phases

LEMMA TerminalIsCounted ==
  ASSUME CallbackInv, ~StreamEnded, NEW callback \in {"done", "error"}, Terminal(callback)
  PROVE  CallbackInv' /\ phase' \in Phases
<1>1. outcome' \in Seq({"done", "error"}) /\ Len(outcome') <= 2
  BY AppendProperties, LenProperties DEF CallbackInv, Terminal
<1>2. phase' \in {"again", "over"}
  BY DEF Terminal
<1>. QED  BY <1>1, <1>2 DEF CallbackInv, StreamEnded, Phases

LEMMA FinishIsPlain ==
  ASSUME PlainText, Finish
  PROVE  PlainText'
<1>1. shown \in Seq(1..Len(sent)) /\ shown' = shown \o <<>>
  BY DEF PlainText, Finish
<1>2. shown' = shown
  BY <1>1
<1>. QED  BY <1>2 DEF PlainText, Finish

LEMMA StreamStays ==
  ASSUME StreamInv, [StreamNext]_streamVars
  PROVE  StreamInv'
<1>0. CleanInv'
  BY CleanStep DEF StreamInv
<1>1. CASE OpenStream \/ PassAgain
  <2>1. FreshText /\ phase' = "connect"
    BY <1>1 DEF OpenStream, PassAgain
  <2>2. CallbackInv' /\ PlainText'
    BY <2>1 DEF FreshText, CallbackInv, PlainText
  <2>3. api' \in {"chat", "responses"} /\ failed' \in BOOLEAN
    BY <1>1 DEF OpenStream, PassAgain, FreshText, StreamInv
  <2>. QED  BY <1>0, <2>1, <2>2, <2>3 DEF StreamInv, Phases
<1>2. ASSUME Connected \/ FallBack \/ AbortStream \/ UNCHANGED streamVars
      PROVE  StreamInv'
  <2>1. UNCHANGED <<api, sent, held, shown, hidden, failed>>
    BY <1>2 DEF Connected, FallBack, AbortStream, streamVars, requestVars, textVars
  <2>2. CASE ~StreamEnded /\ Terminal("error")
    <3>1. CallbackInv' /\ phase' \in Phases
      BY <2>2, TerminalIsCounted DEF StreamInv
    <3>. QED  BY <1>0, <2>1, <3>1 DEF StreamInv, PlainText
  <2>3. CASE ~StreamEnded /\ phase' \in Phases /\ UNCHANGED outcome
    <3>1. CallbackInv'
      BY <2>1, <2>3 DEF StreamInv, CallbackInv, StreamEnded
    <3>. QED  BY <1>0, <2>1, <2>3, <3>1 DEF StreamInv, PlainText
  <2>4. CASE UNCHANGED <<phase, outcome>>
    <3>1. CallbackInv'
      BY <2>1, <2>4 DEF StreamInv, CallbackInv, StreamEnded
    <3>. QED  BY <1>0, <2>1, <2>4, <3>1 DEF StreamInv, PlainText
  <2>. QED
    BY <1>2, <2>2, <2>3, <2>4
       DEF Connected, FallBack, AbortStream, streamVars, StreamEnded, Phases
<1>3. CASE ReadDelta
  <2>1. UNCHANGED <<api, phase, failed, outcome>>
    BY <1>3 DEF ReadDelta, requestVars
  <2>2. CallbackInv'
    BY <2>1 DEF StreamInv, CallbackInv, StreamEnded
  <2>3. ASSUME api = "responses" PROVE PlainText'
    <3>1. PICK kind \in Kinds : sent' = Append(sent, kind) /\ PushResponse(Len(sent'))
      BY <1>3, <2>3 DEF ReadDelta
    <3>2. sent \in Seq(Kinds) /\ shown \in Seq(1..Len(sent)) /\ hidden = <<>> /\ held = <<>>
      BY <2>3 DEF StreamInv, PlainText
    <3>3. sent' \in Seq(Kinds) /\ Len(sent') = Len(sent) + 1 /\ Len(sent) \in Nat
      BY <3>1, <3>2, AppendProperties, LenProperties
    <3>4. shown \in Seq(1..Len(sent'))
      BY <3>2, <3>3
    <3>5. shown' \in Seq(1..Len(sent'))
      BY <3>1, <3>3, <3>4, AppendProperties DEF PushResponse
    <3>. QED  BY <3>1, <3>2, <3>3, <3>5 DEF PushResponse, PlainText
  <2>. QED  BY <1>0, <2>1, <2>2, <2>3 DEF StreamInv
<1>4. ASSUME ReadDone \/ Closed \/ Rejected PROVE StreamInv'
  <2>1. ~StreamEnded /\ UNCHANGED <<api, failed>>
    BY <1>4 DEF ReadDone, Closed, Rejected, StreamEnded, requestVars
  <2>2. CASE Finish
    <3>1. CallbackInv' /\ phase' \in Phases
      BY <2>1, <2>2, TerminalIsCounted DEF StreamInv, Finish
    <3>2. api = "responses" => PlainText'
      BY <2>2, FinishIsPlain DEF StreamInv
    <3>. QED  BY <1>0, <2>1, <3>1, <3>2 DEF StreamInv
  <2>3. CASE Terminal("error") /\ UNCHANGED textVars
    <3>1. CallbackInv' /\ phase' \in Phases
      BY <2>1, <2>3, TerminalIsCounted DEF StreamInv
    <3>. QED  BY <1>0, <2>1, <2>3, <3>1 DEF StreamInv, PlainText, textVars
  <2>4. CASE phase' = "over" /\ UNCHANGED <<outcome, textVars>>
    <3>1. CallbackInv'
      BY <2>1, <2>4 DEF StreamInv, CallbackInv, StreamEnded
    <3>. QED  BY <1>0, <2>1, <2>4, <3>1 DEF StreamInv, PlainText, textVars, Phases
  <2>. QED  BY <1>4, <2>2, <2>3, <2>4 DEF ReadDone, Closed, Rejected, Thrown
<1>5. CASE ReadSummary
  <2>1. UNCHANGED <<api, phase, textVars>> /\ ~failed /\ ~StreamEnded
    BY <1>5 DEF ReadSummary, requestVars, StreamEnded
  <2>2. CallbackInv' /\ failed' \in BOOLEAN
    <3>1. CASE UNCHANGED <<failed, outcome>>
      BY <2>1, <3>1 DEF StreamInv, CallbackInv, StreamEnded
    <3>2. CASE failed' = TRUE /\ outcome' = Append(outcome, "error")
      <4>1. outcome = <<>>
        BY <2>1 DEF StreamInv, CallbackInv
      <4>2. outcome \in Seq({"done", "error"}) /\ Len(outcome) = 0
        BY <2>1, <4>1 DEF StreamInv, CallbackInv
      <4>3. outcome' \in Seq({"done", "error"}) /\ Len(outcome') = 1
        BY <3>2, <4>2, AppendProperties
      <4>. QED  BY <3>2, <4>3 DEF CallbackInv
    <3>. QED  BY <1>5, <3>1, <3>2 DEF ReadSummary
  <2>. QED  BY <1>0, <2>1, <2>2 DEF StreamInv, PlainText, textVars
<1>. QED  BY <1>1, <1>2, <1>3, <1>4, <1>5 DEF StreamNext

LEMMA StreamInvTypes == StreamInv => StreamTypeOK
<1>. SUFFICES ASSUME StreamInv PROVE StreamTypeOK
  OBVIOUS
<1>1. /\ sent \in Seq(Kinds) /\ shown \in Seq(1..Len(sent)) /\ hidden \in Seq(1..Len(sent))
      /\ held = <<>> \/ (sent # <<>> /\ held = <<Len(sent)>>)
  <2>1. CASE api = "chat"
    BY <2>1 DEF StreamInv, CleanInv, TextTypes
  <2>2. CASE api = "responses"
    BY <2>2 DEF StreamInv, PlainText
  <2>. QED  BY <2>1, <2>2 DEF StreamInv
<1>2. DOMAIN sent = 1..Len(sent) /\ Len(sent) \in Nat /\ (sent # <<>> => Len(sent) > 0)
  BY <1>1, LenProperties, EmptySeq
<1>3. ToSet(shown) \subseteq 1..Len(sent) /\ ToSet(hidden) \subseteq 1..Len(sent)
  BY <1>1 DEF ToSet
<1>4. ToSet(held) \subseteq 1..Len(sent)
  BY <1>1, <1>2 DEF ToSet
<1>5. Len(held) <= Holdback
  <2>1. CASE held = <<>>
    BY <2>1 DEF Holdback
  <2>2. CASE held = <<Len(sent)>>
    BY <2>2 DEF Holdback
  <2>. QED  BY <1>1, <2>1, <2>2
<1>. QED  BY <1>2, <1>3, <1>4, <1>5 DEF StreamInv, CallbackInv, StreamTypeOK, Phases

-----------------------------------------------------------------------------
(* Types of chats. The ids of replies were given out; a summary sums up    *)
(* messages that are there, on screen and in every copy; a run's messages  *)
(* are known and its turns counted; the lock names what has been made.     *)
Given(msgs, n) == \A i \in DOMAIN msgs : msgs[i].role = "assistant" => msgs[i].id \in 1..n
Sound(conv) == Given(conv.msgs, ids) /\ conv.count <= Len(conv.msgs)

SoundInv == \A conv \in Copies : Sound(conv)
AgentsInv == \A r \in Agents : agents[r].mine \subseteq 1..ids /\ agents[r].turn < MaxTurns
LocksInv == streamConv \in 0..made /\ abort \in 0..Compactor /\ aborted \subseteq 1..Compactor
ChatInv == SoundInv /\ AgentsInv /\ LocksInv /\ bound \in Bounds

(* Lists of messages whose replies have been given out.                    *)
LEMMA GivenGrows ==
  ASSUME NEW msgs, NEW n \in Nat, NEW m \in Nat, n <= m, Given(msgs, n)
  PROVE  Given(msgs, m)
  BY DEF Given

LEMMA GivenPart ==
  ASSUME NEW S, NEW s \in Seq(S), NEW n, Given(s, n), NEW a \in 1..(Len(s) + 1), NEW b \in (a - 1)..Len(s)
  PROVE  Given(SubSeq(s, a, b), n)
<1>1. PICK out : out = SubSeq(s, a, b)
  OBVIOUS
<1>2. Len(s) \in Nat /\ DOMAIN s = 1..Len(s) /\ a \in Int /\ b \in Int
  BY LenProperties
<1>3. \A i \in a..b : s[i] \in S
  BY <1>2, ElementOfSeq
<1>4. /\ out \in Seq(S) /\ Len(out) = b - a + 1 /\ \A i \in 1..(b - a + 1) : out[i] = s[a + i - 1]
  <2>1. (IF a <= b THEN b - a + 1 ELSE 0) = b - a + 1
    BY <1>2
  <2>. QED  BY <1>1, <1>2, <1>3, <2>1, SubSeqProperties
<1>5. DOMAIN out = 1..(b - a + 1)
  BY <1>4, LenProperties
<1>6. ASSUME NEW i \in DOMAIN out PROVE a + i - 1 \in DOMAIN s /\ out[i] = s[a + i - 1]
  BY <1>2, <1>4, <1>5
<1>7. Given(out, n)
  BY <1>6 DEF Given
<1>. QED  BY <1>1, <1>7

LEMMA GivenConcat ==
  ASSUME NEW S, NEW s \in Seq(S), NEW t \in Seq(S), NEW n, Given(s, n), Given(t, n)
  PROVE  Given(s \o t, n)
<1>1. PICK out : out = s \o t
  OBVIOUS
<1>2. /\ Len(s) \in Nat /\ DOMAIN s = 1..Len(s) /\ Len(t) \in Nat /\ DOMAIN t = 1..Len(t)
      /\ DOMAIN out = 1..(Len(s) + Len(t))
  BY <1>1, LenProperties, ConcatProperties
<1>3. /\ \A i \in DOMAIN s : out[i] = s[i]
      /\ \A i \in DOMAIN out : i \notin DOMAIN s => i - Len(s) \in DOMAIN t /\ out[i] = t[i - Len(s)]
  BY <1>1, <1>2
<1>4. Given(out, n)
  BY <1>3 DEF Given
<1>. QED  BY <1>1, <1>4

LEMMA GivenNew ==
  ASSUME NEW n \in Nat \ {0}, NEW item
  PROVE  /\ Given(<<Question(item), Blank(n)>>, n) /\ Given(<<Aside>>, n) /\ Given(<<>>, n)
         /\ Given(<<Blank(n)>>, n) /\ Given(<<Blank(n), Aside>>, n)
<1>1. Question(item).role = "user" /\ Aside.role = "aside" /\ Blank(n).id = n /\ n \in 1..n
  BY DEF Question, Aside, Blank
<1>2. Given(<<Question(item), Blank(n)>>, n)
  BY <1>1 DEF Given
<1>3. Given(<<Aside>>, n) /\ Given(<<>>, n)
  BY <1>1 DEF Given
<1>4. Given(<<Blank(n)>>, n) /\ Given(<<Blank(n), Aside>>, n)
  BY <1>1 DEF Given
<1>. QED  BY <1>2, <1>3, <1>4

(* The copies after a step that puts one conversation on screen.           *)
LEMMA SoundCopy ==
  ASSUME ThreadInv, SoundInv, ids' \in {ids, ids + 1}, NEW conv \in Copies
  PROVE  Sound(conv)'
<1>1. ids \in Nat /\ ids' \in Nat /\ ids <= ids'
  BY DEF ThreadInv, CopiesInv
<1>2. Given(conv.msgs, ids) /\ conv.count <= Len(conv.msgs)
  BY DEF SoundInv, Sound
<1>3. PICK n : n = ids'
  OBVIOUS
<1>4. Given(conv.msgs, n)
  BY <1>1, <1>2, <1>3, GivenGrows
<1>5. Given(conv.msgs, ids)'
  BY <1>3, <1>4 DEF Given
<1>. QED  BY <1>2, <1>5 DEF Sound

LEMMA SoundShown ==
  ASSUME ThreadInv, SoundInv, ids' \in {ids, ids + 1}, KeptFrom,
         NEW new, new \in Copies \/ Sound(new)', ShownConvs' \subseteq ShownConvs \cup {new}
  PROVE  SoundInv'
<1>1. Copies' \subseteq Copies \cup {new}
  BY DEF Copies, KeptFrom
<1>. QED  BY <1>1, SoundCopy DEF SoundInv

LEMMA SoundStays ==
  ASSUME ThreadInv, SoundInv, ids' \in {ids, ids + 1}, KeptFrom, ShownConvs' \subseteq ShownConvs
  PROVE  SoundInv'
<1>1. Copies' \subseteq Copies
  BY DEF Copies, KeptFrom
<1>. QED  BY <1>1, SoundCopy DEF SoundInv

LEMMA PutShows ==
  ASSUME NEW conv, convs' = Put(conv) PROVE ShownConvs' \subseteq ShownConvs \cup {conv}
<1>1. DOMAIN convs' = DOMAIN convs \cup {conv.id}
  BY DEF Put
<1>2. \A c \in DOMAIN convs' : convs'[c] = (IF c = conv.id THEN conv ELSE convs[c])
  BY <1>1 DEF Put
<1>. QED  BY <1>1, <1>2 DEF ShownConvs

LEMMA SoundPatched ==
  ASSUME ThreadInv, SoundInv, ids' \in {ids, ids + 1}, KeptFrom, NEW c, NEW msgs,
         convs' = PutMsgs(c, msgs),
         c \in DOMAIN convs => /\ Given(msgs, ids)' /\ Len(convs[c].msgs) <= Len(msgs)
                               /\ Len(msgs) \in Nat
  PROVE  SoundInv'
<1>1. CASE c \notin DOMAIN convs
  <2>1. convs' = convs
    BY <1>1 DEF PutMsgs
  <2>. QED  BY <2>1, SoundStays DEF ShownConvs
<1>2. CASE c \in DOMAIN convs
  <2>1. convs \in [DOMAIN convs -> Thread] /\ convs[c] \in Thread /\ convs[c] \in Copies
    BY <1>2 DEF ThreadInv, CopiesInv, Copies, ShownConvs
  <2>2. PICK old, new : old = convs[c] /\ new = [old EXCEPT !.msgs = msgs]
    OBVIOUS
  <2>3. new.msgs = msgs /\ new.count = old.count /\ old.count \in Nat /\ Len(old.msgs) \in Nat
    BY <2>1, <2>2, LenProperties DEF Thread
  <2>4. convs' = [convs EXCEPT ![c] = new]
    BY <1>2, <2>2 DEF PutMsgs
  <2>5. ShownConvs' \subseteq ShownConvs \cup {new}
    BY <1>2, <2>1, <2>4 DEF ShownConvs
  <2>6. old.count <= Len(old.msgs)
    BY <2>1, <2>2 DEF SoundInv, Sound
  <2>7. Sound(new)'
    BY <1>2, <2>2, <2>3, <2>6 DEF Sound
  <2>. QED  BY <2>5, <2>7, SoundShown
<1>. QED  BY <1>1, <1>2

-----------------------------------------------------------------------------
(* A run that starts, ends, and takes another turn.                        *)
LEMMA FirstRun ==
  ASSUME NEW S \in SUBSET Nat, S # {}
  PROVE  \E x \in S : \A y \in S : x <= y
<1>1. PICK x \in S : \A y \in S : ~(<<y, x>> \in OpToRel(<, Nat))
  BY WFMin, NatLessThanWellFounded
<1>2. \A y \in S : ~(y < x)
  BY <1>1 DEF OpToRel
<1>. QED  BY <1>2

LEMMA NextAgentIs ==
  ASSUME ThreadInv, ChatInv, HasAgent
  PROVE  NextAgent \in Agents /\ agents[NextAgent].at = "unused"
<1>1. bound.agents \in Agents
  BY ThreadAssumption DEF ChatInv, ThreadAssumption, Agents
<1>2. PICK free : free = {r \in Agents : agents[r].at = "unused"}
  OBVIOUS
<1>3. free # {} /\ free \in SUBSET Nat
  BY <1>1, <1>2 DEF HasAgent, Agents
<1>4. PICK x \in free : \A y \in free : x <= y
  BY <1>3, FirstRun
<1>5. \A a \in 1..x-1 : agents[a].at # "unused"
  <2>1. ASSUME NEW a \in 1..x-1 PROVE agents[a].at # "unused"
    <3>1. a \in Agents /\ ~(x <= a)
      BY <1>2, <1>3, ThreadAssumption DEF ThreadAssumption, Agents
    <3>. QED  BY <1>2, <1>4, <3>1
  <2>. QED  BY <2>1
<1>6. x \in Agents /\ agents[x].at = "unused"
  BY <1>2
<1>7. \E r \in Agents : agents[r].at = "unused" /\ \A a \in 1..r-1 : agents[a].at # "unused"
  BY <1>5, <1>6
<1>. QED  BY <1>7 DEF NextAgent

LEMMA OverIs ==
  ASSUME NEW r
  PROVE  /\ Over(r).mine = agents[r].mine /\ Over(r).turn = 0 /\ Over(r).snap = <<>>
  BY DEF Over, Unused

LEMMA RunStreamChat ==
  ASSUME ThreadInv, ChatInv, NEW r \in Agents, NEW ended, NEW conv \in Thread,
         NEW target, RunStream(r, ended, conv, target), target \in 1..ids',
         ids' \in {ids, ids + 1}, made \in 0..made', conv.id \in 1..made',
         conv \in Copies \/ Sound(conv)', UNCHANGED <<trash, compactor, aborted, bound>>
  PROVE  ChatInv'
<1>0. /\ agents \in [Agents -> AgentRecord] /\ conv.msgs \in Seq(OwnMessage) /\ conv.count \in Nat
      /\ ids \in Nat /\ ids' \in Nat /\ ids <= ids'
  BY DEF ThreadInv, CopiesInv, Thread
<1>1. PICK rec : /\ rec.mine = {target} /\ rec.turn = 0 /\ rec.snap = <<>>
                 /\ agents' = [a \in Agents |-> IF a = r THEN rec
                                                ELSE IF a = ended THEN Over(a) ELSE agents[a]]
  <2>1. PICK research \in BOOLEAN :
          agents' = [a \in Agents |->
            IF a = r THEN [Unused EXCEPT !.at = IF research THEN "research" ELSE "stream",
                             !.conv = conv.id, !.target = target, !.mine = {target}]
            ELSE IF a = ended THEN Over(a) ELSE agents[a]]
    BY DEF RunStream
  <2>2. PICK rec : rec = [Unused EXCEPT !.at = IF research THEN "research" ELSE "stream",
                             !.conv = conv.id, !.target = target, !.mine = {target}]
    OBVIOUS
  <2>3. rec.mine = {target} /\ rec.turn = 0 /\ rec.snap = <<>>
    BY <2>2 DEF Unused
  <2>. QED  BY <2>1, <2>2, <2>3
<1>2. AgentsInv'
  <2>1. ASSUME NEW a \in Agents
        PROVE  agents'[a].mine \subseteq 1..ids' /\ agents'[a].turn < MaxTurns
    <3>1. agents[a].mine \subseteq 1..ids' /\ agents[a].turn < MaxTurns /\ 0 < MaxTurns
      BY <1>0, ThreadAssumption DEF ChatInv, AgentsInv, ThreadAssumption
    <3>2. CASE a = r
      BY <1>1, <3>1, <3>2
    <3>3. CASE a # r /\ a = ended
      BY <1>1, <3>1, <3>3, OverIs
    <3>4. CASE a # r /\ a # ended
      BY <1>1, <3>1, <3>4
    <3>. QED  BY <3>2, <3>3, <3>4
  <2>. QED  BY <2>1 DEF AgentsInv
<1>3. LocksInv'
  <2>1. streamConv' = conv.id /\ abort' = r
    BY DEF RunStream
  <2>2. conv.id \in 0..made' /\ r \in 0..Compactor
    BY ThreadAssumption DEF Agents, Compactor, ThreadAssumption
  <2>. QED  BY <2>1, <2>2 DEF LocksInv, ChatInv
<1>4. \A a \in Agents : agents'[a].snap \in {<<>>, agents[a].snap}
  BY <1>1, OverIs
<1>5. KeptFrom
  BY <1>4, KeptByRuns
<1>6. Sound(conv)'
  BY SoundCopy DEF ChatInv
<1>7. PICK new : new = [conv EXCEPT !.msgs = Append(conv.msgs, Aside)]
  OBVIOUS
<1>8. Sound(new)'
  <2>1. PICK n, msgs : n = ids' /\ msgs = Append(conv.msgs, Aside)
    OBVIOUS
  <2>2. Given(conv.msgs, n) /\ conv.count <= Len(conv.msgs)
    BY <1>6, <2>1 DEF Sound, Given
  <2>3. n \in Nat \ {0}
    BY <1>0, <2>1
  <2>4. Aside \in OwnMessage /\ <<Aside>> \in Seq(OwnMessage)
    BY NewMessages, 0 \in Nat
  <2>5. msgs = conv.msgs \o <<Aside>>
    BY <1>0, <2>1, <2>4, AppendIsConcat
  <2>6. Given(msgs, n)
    BY <1>0, <2>2, <2>3, <2>4, <2>5, GivenNew, GivenConcat
  <2>7. Len(msgs) = Len(conv.msgs) + 1 /\ Len(conv.msgs) \in Nat
    BY <1>0, <2>1, <2>4, AppendProperties, LenProperties
  <2>8. new.msgs = msgs /\ new.count = conv.count
    BY <1>7, <2>1 DEF Thread
  <2>9. Given(new.msgs, n)
    BY <2>6, <2>8
  <2>10. Given(new.msgs, ids)'
    BY <2>1, <2>9 DEF Given
  <2>. QED  BY <1>0, <2>2, <2>7, <2>8, <2>10 DEF Sound
<1>9. PICK put : convs' = Put(put) /\ Sound(put)'
  BY <1>6, <1>7, <1>8 DEF RunStream
<1>10. SoundInv'
  BY <1>5, <1>9, PutShows, SoundShown DEF ChatInv
<1>. QED  BY <1>2, <1>3, <1>10 DEF ChatInv

LEMMA AskChat ==
  ASSUME ThreadInv, ChatInv, HasAgent, NEW ended, NEW conv \in Thread, NEW item \in Nat,
         Ask(NextAgent, ended, conv, item), made \in 0..made', conv.id \in 1..made',
         Given(conv.msgs, ids), conv.count <= Len(conv.msgs),
         UNCHANGED <<trash, compactor, aborted, bound>>
  PROVE  ChatInv'
<1>1. PICK n, t, new, r : /\ n = ids + 1 /\ t = <<Question(item), Blank(n)>> /\ r = NextAgent
                          /\ new = [conv EXCEPT !.msgs = conv.msgs \o t]
  OBVIOUS
<1>2. ids \in Nat /\ n \in Nat \ {0} /\ n \in 1..n /\ ids <= n /\ conv.msgs \in Seq(OwnMessage) /\ conv.count \in Nat
  BY <1>1 DEF ThreadInv, CopiesInv, Thread
<1>3. ids' = n /\ RunStream(r, ended, new, n)
  BY <1>1 DEF Ask
<1>4. t \in Seq(OwnMessage) /\ Len(t) = 2
  BY <1>1, <1>2, NewMessages
<1>5. new \in Thread /\ new.id = conv.id /\ new.msgs = conv.msgs \o t /\ new.count = conv.count
  <2>1. conv.msgs \o t \in Seq(OwnMessage)
    BY <1>2, <1>4, ConcatProperties
  <2>2. new \in Thread
    BY <1>1, <2>1, ThreadFrom
  <2>. QED  BY <1>1, <2>2 DEF Thread
<1>6. Given(new.msgs, n)
  <2>1. Given(t, n)
    BY <1>1, <1>2, GivenNew
  <2>2. Given(conv.msgs, n)
    BY <1>2, GivenGrows
  <2>. QED  BY <1>2, <1>4, <1>5, <2>1, <2>2, GivenConcat
<1>7. new.count <= Len(new.msgs)
  BY <1>2, <1>4, <1>5, ConcatProperties, LenProperties
<1>8. Sound(new)'
  BY <1>3, <1>6, <1>7 DEF Sound, Given
<1>9. r \in Agents
  BY <1>1, NextAgentIs
<1>10. ids' \in {ids, ids + 1} /\ n \in 1..ids' /\ new.id \in 1..made'
  BY <1>1, <1>2, <1>3, <1>5
<1>. QED  BY <1>3, <1>5, <1>8, <1>9, <1>10, RunStreamChat

LEMMA EndsChat ==
  ASSUME ThreadInv, ChatInv, NEW r \in Agents, Ends(r),
         UNCHANGED <<made, aborted, bound, ids, trash, compactor>>, SoundInv'
  PROVE  ChatInv'
<1>1. agents \in [Agents -> AgentRecord] /\ made \in Nat /\ 0 < MaxTurns
  BY ThreadAssumption DEF ThreadInv, CopiesInv, ConvIds, ThreadAssumption
<1>2. LocksInv'
  <2>1. 0 \in 0..made /\ 0 \in 0..Compactor
    BY <1>1, ThreadAssumption DEF Compactor, ThreadAssumption
  <2>. QED  BY <2>1 DEF LocksInv, ChatInv, Ends
<1>3. ASSUME NEW a \in Agents
      PROVE  agents'[a].mine = agents[a].mine /\ agents'[a].turn \in {0, agents[a].turn}
  <2>1. CASE agents' = [agents EXCEPT ![r] = Over(r)]
    BY <1>1, <2>1, OverIs
  <2>2. CASE GotoStep(r, "suggest")
    BY <1>1, <2>2 DEF GotoStep, AgentRecord
  <2>3. ASSUME NEW snap, agents' = [agents EXCEPT ![r].at = "compact", ![r].snap = snap]
        PROVE  agents'[a].mine = agents[a].mine /\ agents'[a].turn \in {0, agents[a].turn}
    BY <1>1, <2>3 DEF AgentRecord
  <2>. QED  BY <2>1, <2>2, <2>3 DEF Ends
<1>4. AgentsInv'
  BY <1>1, <1>3 DEF AgentsInv, ChatInv
<1>. QED  BY <1>2, <1>4 DEF ChatInv

LEMMA NextTurnChat ==
  ASSUME ThreadInv, ChatInv, NEW r \in Agents, NEW msgs \in Seq(OwnMessage), NEW turn \in 0..MaxTurns,
         NextTurn(r, msgs, turn), UNCHANGED <<made, aborted, bound, trash, compactor>>,
         agents[r].conv \in DOMAIN convs => /\ Given(msgs, ids)
                                            /\ Len(convs[agents[r].conv].msgs) <= Len(msgs)
  PROVE  ChatInv'
<1>1. /\ CopiesInv /\ agents \in [Agents -> AgentRecord] /\ ids \in Nat /\ MaxTurns \in Nat
      /\ convs \in [DOMAIN convs -> Thread]
  BY ThreadAssumption DEF ThreadInv, CopiesInv, ThreadAssumption
<1>2. PICK c : c = agents[r].conv
  OBVIOUS
<1>3. Len(msgs) \in Nat
  BY LenProperties
<1>4. CASE r \in aborted \/ turn = MaxTurns
  <2>1. convs' = PutMsgs(c, msgs) /\ Ends(r) /\ ids' = ids
    BY <1>2, <1>4 DEF NextTurn
  <2>2. DOMAIN convs' = DOMAIN convs
    BY <1>1, <2>1, PutMsgsKeeps
  <2>3. KeptFrom
    BY <1>1, <2>1, <2>2, KeptAtTheEnd
  <2>4. c \in DOMAIN convs => Given(msgs, ids)' /\ Len(convs[c].msgs) <= Len(msgs)
    BY <1>2, <2>1 DEF Given
  <2>5. SoundInv'
    BY <1>3, <2>1, <2>3, <2>4, SoundPatched DEF ChatInv
  <2>. QED  BY <2>1, <2>5, EndsChat
<1>5. CASE r \notin aborted /\ turn # MaxTurns
  <2>1. PICK n, t, new : /\ n = ids + 1 /\ t = TurnMessage(turn) \o <<Aside>> /\ new = msgs \o t
    OBVIOUS
  <2>2. /\ <<Aside>> \in Seq(OwnMessage) /\ TurnMessage(turn) \in Seq(OwnMessage)
        /\ t \in Seq(OwnMessage) /\ n \in Nat \ {0}
    <3>1. <<Aside>> \in Seq(OwnMessage) /\ TurnMessage(turn) \in Seq(OwnMessage)
      BY <1>1, NewMessages, EmptySeq DEF TurnMessage
    <3>. QED  BY <1>1, <2>1, <3>1, ConcatProperties
  <2>3. new = msgs \o TurnMessage(turn) \o <<Aside>>
    <3>1. CASE turn = 0
      BY <2>1, <2>2, <3>1 DEF TurnMessage
    <3>2. CASE turn # 0
      BY <2>1, <2>2, <3>2 DEF TurnMessage
    <3>. QED  BY <3>1, <3>2
  <2>4. convs' = PutMsgs(c, new) /\ UNCHANGED lockVars /\ ids' = (IF turn = 0 THEN ids ELSE n)
    BY <1>2, <1>5, <2>1, <2>3 DEF NextTurn
  <2>5. PICK streams, rec :
          /\ streams = [agents[r] EXCEPT !.at = "stream", !.turn = turn]
          /\ rec = IF turn = 0 THEN streams
                   ELSE [streams EXCEPT !.target = n, !.mine = streams.mine \cup {n}]
    OBVIOUS
  <2>6. agents' = [agents EXCEPT ![r] = rec]
    <3>1. CASE turn = 0
      BY <1>5, <2>5, <3>1 DEF NextTurn
    <3>2. CASE turn # 0
      BY <1>5, <2>1, <2>5, <3>2 DEF NextTurn
    <3>. QED  BY <3>1, <3>2
  <2>7. /\ rec.snap = agents[r].snap /\ rec.turn = turn
        /\ rec.mine = (IF turn = 0 THEN agents[r].mine ELSE agents[r].mine \cup {n})
    <3>1. /\ streams.snap = agents[r].snap /\ streams.turn = turn /\ streams.mine = agents[r].mine
          /\ streams \in AgentRecord
      <4>1. turn \in Nat /\ agents[r] \in AgentRecord /\ "stream" \in Places
        BY <1>1 DEF Places, LiveAt
      <4>. QED  BY <2>5, <4>1 DEF AgentRecord
    <3>. QED  BY <2>5, <3>1 DEF AgentRecord
  <2>8. /\ \A a \in Agents : a # r => agents'[a] = agents[a]
        /\ agents'[r] = rec
    BY <1>1, <2>6
  <2>9. AgentsInv'
    <3>1. ASSUME NEW a \in Agents
          PROVE  agents'[a].mine \subseteq 1..ids' /\ agents'[a].turn < MaxTurns
      <4>1. agents[a].mine \subseteq 1..ids /\ agents[a].turn < MaxTurns
        BY DEF ChatInv, AgentsInv
      <4>2. 1..ids \subseteq 1..ids' /\ turn < MaxTurns /\ (turn # 0 => n \in 1..ids')
        BY <1>1, <1>5, <2>1, <2>4
      <4>3. CASE a = r
        BY <2>7, <2>8, <4>1, <4>2, <4>3
      <4>4. CASE a # r
        BY <2>8, <4>1, <4>2, <4>4
      <4>. QED  BY <4>3, <4>4
    <3>. QED  BY <3>1 DEF AgentsInv
  <2>10. KeptFrom
    <3>1. \A a \in Agents : agents'[a].snap = agents[a].snap
      BY <2>7, <2>8
    <3>. QED  BY <3>1, KeptByRuns
  <2>11. c \in DOMAIN convs => Given(new, ids)' /\ Len(convs[c].msgs) <= Len(new) /\ Len(new) \in Nat
    <3>. SUFFICES ASSUME c \in DOMAIN convs
                  PROVE  Given(new, ids)' /\ Len(convs[c].msgs) <= Len(new) /\ Len(new) \in Nat
      OBVIOUS
    <3>1. PICK m : m = ids'
      OBVIOUS
    <3>2. m \in Nat /\ ids <= m /\ (turn # 0 => m = n)
      BY <1>1, <2>1, <2>4, <3>1
    <3>3. Given(msgs, m)
      BY <1>1, <1>2, <3>2, GivenGrows
    <3>4. Given(t, m)
      <4>1. Given(<<Aside>>, m)
        BY DEF Given, Aside
      <4>2. CASE turn = 0
        BY <2>1, <2>2, <4>1, <4>2 DEF TurnMessage
      <4>3. CASE turn # 0
        <5>1. TurnMessage(turn) = <<Blank(n)>> /\ Given(<<Blank(n)>>, m)
          BY <2>1, <2>2, <3>2, <4>3, GivenNew DEF TurnMessage
        <5>. QED  BY <2>1, <2>2, <4>1, <5>1, GivenConcat
      <4>. QED  BY <4>2, <4>3
    <3>5. Given(new, m)
      BY <2>1, <2>2, <3>3, <3>4, GivenConcat
    <3>6. Len(new) = Len(msgs) + Len(t) /\ Len(t) \in Nat /\ Len(convs[c].msgs) \in Nat
      BY <1>1, <2>1, <2>2, ConcatProperties, LenProperties, ThreadParts
    <3>7. Given(new, ids)'
      BY <3>1, <3>5 DEF Given
    <3>. QED  BY <1>2, <1>3, <3>6, <3>7
  <2>12. SoundInv'
    BY <1>1, <2>1, <2>4, <2>10, <2>11, SoundPatched DEF ChatInv
  <2>13. LocksInv'
    BY <2>4 DEF LocksInv, ChatInv, lockVars
  <2>. QED  BY <2>9, <2>12, <2>13 DEF ChatInv
<1>. QED  BY <1>4, <1>5

-----------------------------------------------------------------------------
(* The steps of a run.                                                     *)
LEMMA ShownIsSound ==
  ASSUME ThreadInv, OrderInv, ChatInv, NEW c, c \in DOMAIN convs
  PROVE  /\ convs[c] \in Thread /\ convs[c].id = c /\ c \in 1..made /\ convs[c].msgs \in Seq(OwnMessage)
         /\ convs[c] \in Copies /\ Given(convs[c].msgs, ids) /\ convs[c].count <= Len(convs[c].msgs)
         /\ convs[c].count \in Nat /\ Len(convs[c].msgs) \in Nat
<1>1. convs[c] \in Thread /\ convs[c] \in Copies
  BY ShownInOrder
<1>. QED  BY <1>1, ShownInOrder, LenProperties DEF ChatInv, SoundInv, Sound, Thread

LEMMA MsgsGiven ==
  ASSUME ThreadInv, OrderInv, ChatInv, NEW c
  PROVE  /\ Msgs(c) \in Seq(OwnMessage)
         /\ c \in DOMAIN convs => Msgs(c) = convs[c].msgs /\ Given(Msgs(c), ids)
  BY ShownIsSound, MsgsInOrder DEF Msgs

LEMMA ResearchedChat ==
  ASSUME ThreadInv, OrderInv, ChatInv, NEW r \in Agents, Researched(r), UNCHANGED bound
  PROVE  ChatInv'
<1>1. PICK c, msgs : c = agents[r].conv /\ msgs = Msgs(c)
  OBVIOUS
<1>. DEFINE places == {i \in 1..Len(msgs) : msgs[i].id = agents[r].target}
<1>2. PICK place : place = (IF places = {} THEN Len(msgs) + 1 ELSE CHOOSE i \in places : TRUE)
  OBVIOUS
<1>3. PICK report \in Reports(r) :
        NextTurn(r, SubSeq(msgs, 1, place - 1) \o report \o SubSeq(msgs, place, Len(msgs)), 0)
  BY <1>1, <1>2 DEF Researched
<1>4. /\ msgs \in Seq(OwnMessage) /\ Len(msgs) \in Nat
      /\ c \in DOMAIN convs => msgs = convs[c].msgs /\ Given(msgs, ids)
  BY <1>1, MsgsGiven, LenProperties
<1>5. place \in 1..(Len(msgs) + 1)
  BY <1>2, <1>4
<1>6. report \in Seq(OwnMessage) /\ Given(report, ids) /\ Len(report) \in Nat
  <2>1. <<>> \in Seq(OwnMessage) /\ <<Aside>> \in Seq(OwnMessage)
    BY NewMessages, 0 \in Nat
  <2>2. report \in {<<>>, <<Aside>>}
    BY DEF Reports
  <2>3. Given(<<Aside>>, ids) /\ Given(<<>>, ids)
    BY DEF Given, Aside
  <2>. QED  BY <2>1, <2>2, <2>3, LenProperties
<1>7. PICK a, b, new : /\ a = SubSeq(msgs, 1, place - 1) /\ b = SubSeq(msgs, place, Len(msgs))
                       /\ new = a \o report \o b
  OBVIOUS
<1>8. new \in Seq(OwnMessage) /\ Len(new) = Len(msgs) + Len(report)
  BY <1>4, <1>5, <1>6, <1>7, SpliceKeeps
<1>9. c \in DOMAIN convs => Given(new, ids)
  <2>. SUFFICES ASSUME c \in DOMAIN convs PROVE Given(new, ids)
    OBVIOUS
  <2>1. Given(msgs, ids)
    BY <1>4
  <2>2. a \in Seq(OwnMessage) /\ Given(a, ids)
    <3>1. PICK p : p = place - 1 /\ p \in 0..Len(msgs) /\ p \in (1 - 1)..Len(msgs) /\ 1 \in 1..(Len(msgs) + 1)
      BY <1>4, <1>5
    <3>2. SubSeq(msgs, 1, p) \in Seq(OwnMessage)
      BY <1>4, <3>1, PrefixKeeps
    <3>3. Given(SubSeq(msgs, 1, p), ids)
      BY <1>4, <2>1, <3>1, GivenPart
    <3>. QED  BY <1>7, <3>1, <3>2, <3>3
  <2>3. b \in Seq(OwnMessage) /\ Given(b, ids)
    <3>1. PICK p, q : /\ p = place /\ q = Len(msgs) /\ p \in Int /\ q \in Int
                      /\ q \in (p - 1)..Len(msgs) /\ \A i \in p..q : msgs[i] \in OwnMessage
      <4>1. \A i \in place..Len(msgs) : i \in 1..Len(msgs)
        BY <1>4, <1>5
      <4>2. \A i \in place..Len(msgs) : msgs[i] \in OwnMessage
        BY <1>4, <4>1, ElementOfSeq
      <4>. QED  BY <1>4, <1>5, <4>2
    <3>2. SubSeq(msgs, p, q) \in Seq(OwnMessage)
      BY <3>1, SubSeqProperties
    <3>3. Given(SubSeq(msgs, p, q), ids)
      BY <1>4, <1>5, <2>1, <3>1, GivenPart
    <3>. QED  BY <1>7, <3>1, <3>2, <3>3
  <2>4. a \o report \in Seq(OwnMessage) /\ Given(a \o report, ids)
    BY <1>6, <2>2, GivenConcat, ConcatProperties
  <2>. QED  BY <1>7, <2>3, <2>4, GivenConcat
<1>10. UNCHANGED <<made, aborted, trash, compactor>>
  BY DEF Researched, threadVars
<1>11. c \in DOMAIN convs => Len(convs[c].msgs) <= Len(new)
  BY <1>4, <1>6, <1>8
<1>12. 0 \in 0..MaxTurns
  BY ThreadAssumption DEF ThreadAssumption
<1>. QED  BY <1>1, <1>3, <1>7, <1>8, <1>9, <1>10, <1>11, <1>12, NextTurnChat

(* A delta or a reply changes no message but its text.                     *)
LEMMA PatchGiven ==
  ASSUME ThreadInv, OrderInv, ChatInv, NEW r \in Agents, NEW keep \in BOOLEAN
  PROVE  \E msgs : /\ PatchTarget(r, keep) = PutMsgs(agents[r].conv, msgs)
                   /\ agents[r].conv \in DOMAIN convs =>
                        /\ Given(msgs, ids) /\ Len(convs[agents[r].conv].msgs) <= Len(msgs)
                        /\ Len(msgs) \in Nat
<1>1. PICK c, old : c = agents[r].conv /\ old = Msgs(c)
  OBVIOUS
<1>. DEFINE hits == {i \in DOMAIN old : old[i].id = agents[r].target}
            new == [i \in DOMAIN old |->
                      IF i \in hits THEN [old[i] EXCEPT !.text = (IF keep THEN @ ELSE {}) \cup {r}]
                      ELSE old[i]]
<1>2. PatchTarget(r, keep) = PutMsgs(c, new)
  BY <1>1 DEF PatchTarget, Patch
<1>3. /\ old \in Seq(OwnMessage) /\ Len(old) \in Nat
      /\ c \in DOMAIN convs => old = convs[c].msgs /\ Given(old, ids)
  BY <1>1, MsgsGiven, LenProperties
<1>4. DOMAIN old = 1..Len(old) /\ \A i \in DOMAIN old : old[i] \in MessageRec
  BY <1>3, LenProperties DEF OwnMessage
<1>5. /\ DOMAIN new = DOMAIN old
      /\ \A i \in DOMAIN old : new[i].id = old[i].id /\ new[i].role = old[i].role
  BY <1>4 DEF MessageRec
<1>6. Len(new) = Len(old)
  BY <1>3, <1>4
<1>. HIDE DEF new
<1>7. c \in DOMAIN convs => Given(new, ids)
  BY <1>3, <1>5 DEF Given
<1>. QED  BY <1>1, <1>2, <1>3, <1>6, <1>7

LEMMA DeltaChat ==
  ASSUME ThreadInv, OrderInv, ChatInv, NEW r \in Agents, Delta(r), UNCHANGED bound
  PROVE  ChatInv'
<1>1. PICK c, msgs :
        /\ convs' = PutMsgs(c, msgs)
        /\ c \in DOMAIN convs =>
             Given(msgs, ids) /\ Len(convs[c].msgs) <= Len(msgs) /\ Len(msgs) \in Nat
  BY PatchGiven DEF Delta
<1>2. UNCHANGED <<made, trash, compactor, agents, ids, streamConv, abort, aborted>>
  BY DEF Delta, threadVars, lockVars
<1>3. KeptFrom
  BY <1>2, KeptByRuns
<1>4. c \in DOMAIN convs => Given(msgs, ids)'
  BY <1>1, <1>2 DEF Given
<1>5. SoundInv'
  BY <1>1, <1>2, <1>3, <1>4, SoundPatched DEF ChatInv
<1>. QED  BY <1>2, <1>5 DEF ChatInv, AgentsInv, LocksInv

-----------------------------------------------------------------------------
(* A step that gives out no id and starts no turn.                         *)
LEMMA QuietChat ==
  ASSUME ThreadInv, ChatInv, SoundInv', UNCHANGED <<bound, ids>>,
         \A a \in Agents : agents'[a].mine = agents[a].mine /\ agents'[a].turn \in {0, agents[a].turn},
         streamConv' \in {streamConv, 0}, abort' \in 0..Compactor, aborted' \subseteq 1..Compactor,
         made' \in {made, made + 1}
  PROVE  ChatInv'
<1>1. 0 < MaxTurns /\ made \in Nat
  BY ThreadAssumption DEF ThreadAssumption, ThreadInv, CopiesInv, ConvIds
<1>2. AgentsInv'
  BY <1>1 DEF AgentsInv, ChatInv
<1>3. LocksInv'
  BY <1>1 DEF LocksInv, ChatInv
<1>. QED  BY <1>2, <1>3 DEF ChatInv

LEMMA GotoChat ==
  ASSUME ThreadInv, ChatInv, NEW r \in Agents, NEW place, GotoStep(r, place), SoundInv',
         UNCHANGED <<bound, ids, made, streamConv, abort, aborted>>
  PROVE  ChatInv'
<1>1. \A a \in Agents : agents'[a].mine = agents[a].mine /\ agents'[a].turn = agents[a].turn
  BY DEF ThreadInv, CopiesInv, GotoStep, AgentRecord
<1>2. abort \in 0..Compactor /\ aborted \subseteq 1..Compactor
  BY DEF ChatInv, LocksInv
<1>. QED  BY <1>1, <1>2, QuietChat

LEMMA AppendedGiven ==
  ASSUME NEW r, NEW n, NEW msgs \in Seq(OwnMessage), Given(msgs, n)
  PROVE  /\ Given(Appended(r, msgs), n) /\ Len(msgs) <= Len(Appended(r, msgs))
         /\ Len(Appended(r, msgs)) \in Nat
<1>1. <<Aside>> \in Seq(OwnMessage) /\ Aside \in OwnMessage /\ Given(<<Aside>>, n)
  BY NewMessages, 0 \in Nat DEF Given, Aside
<1>2. PICK new : new = Append(msgs, Aside)
  OBVIOUS
<1>3. new = msgs \o <<Aside>> /\ Len(new) = Len(msgs) + 1 /\ Len(msgs) \in Nat
  BY <1>1, <1>2, AppendIsConcat, AppendProperties, LenProperties
<1>4. Given(new, n)
  BY <1>1, <1>3, GivenConcat
<1>. QED  BY <1>2, <1>3, <1>4 DEF Appended

LEMMA TurnIsNext ==
  ASSUME ThreadInv, ChatInv, NEW r \in Agents
  PROVE  agents[r].turn + 1 \in 0..MaxTurns
<1>1. MaxTurns \in Nat
  BY ThreadAssumption DEF ThreadAssumption
<1>2. agents[r].turn \in Nat /\ agents[r].turn < MaxTurns
  BY DEF ThreadInv, CopiesInv, AgentRecord, ChatInv, AgentsInv
<1>. QED  BY <1>1, <1>2

LEMMA TurnRepliedChat ==
  ASSUME ThreadInv, OrderInv, ChatInv, NEW r \in Agents, TurnReplied(r), UNCHANGED bound
  PROVE  ChatInv'
<1>1. PICK c : c = agents[r].conv
  OBVIOUS
<1>. DEFINE after == IF r \in aborted THEN convs ELSE PatchTarget(r, FALSE)
<1>2. /\ agents[r].target \in agents[r].mine /\ CopiesInv
      /\ UNCHANGED <<made, aborted, bound, trash, compactor>>
  BY DEF TurnReplied, LiveAt, ThreadInv, RunsInv, threadVars
<1>3. PICK patched : /\ PatchTarget(r, FALSE) = PutMsgs(c, patched)
                     /\ c \in DOMAIN convs => /\ Given(patched, ids) /\ Len(patched) \in Nat
                                              /\ Len(convs[c].msgs) <= Len(patched)
  BY <1>1, PatchGiven
<1>5. convs \in [DOMAIN convs -> Thread] /\ PatchTarget(r, FALSE) \in [DOMAIN convs -> Thread]
  BY <1>2, PatchKeeps DEF CopiesInv
<1>6. ASSUME convs' \in {convs, after}, KeptFrom, UNCHANGED ids PROVE SoundInv'
  <2>1. CASE convs' = convs
    BY <1>6, <2>1, SoundStays DEF ChatInv, ShownConvs
  <2>2. CASE convs' = PutMsgs(c, patched)
    <3>1. c \in DOMAIN convs => Given(patched, ids)'
      BY <1>3, <1>6 DEF Given
    <3>. QED  BY <1>3, <1>6, <2>2, <3>1, SoundPatched DEF ChatInv
  <2>. QED  BY <1>3, <1>6, <2>1, <2>2
<1>7. CASE convs' \in {convs, after} /\ Ends(r) /\ UNCHANGED ids
  <2>1. DOMAIN convs' = DOMAIN convs
    BY <1>5, <1>7
  <2>. HIDE DEF after
  <2>2. KeptFrom
    BY <1>2, <1>7, <2>1, KeptAtTheEnd
  <2>3. SoundInv'
    BY <1>6, <1>7, <2>2
  <2>. QED  BY <1>2, <1>7, <2>3, EndsChat
<1>8. CASE convs' = after /\ (GotoStep(r, "review") \/ GotoStep(r, "tools")) /\ UNCHANGED <<ids, lockVars>>
  <2>. HIDE DEF after
  <2>1. KeptFrom
    BY <1>2, <1>8, KeptOnTheWay
  <2>2. SoundInv'
    BY <1>6, <1>8, <2>1
  <2>. QED  BY <1>2, <1>8, <2>2, GotoChat DEF lockVars
<1>9. CASE /\ c \in DOMAIN convs
           /\ NextTurn(r, Appended(r, after[c].msgs), agents[r].turn + 1)
           /\ r \notin aborted
  <2>1. PICK msgs, turn : msgs = Appended(r, after[c].msgs) /\ turn = agents[r].turn + 1
    OBVIOUS
  <2>2. after[c].msgs \in Seq(OwnMessage)
    BY <1>5, <1>9, ThreadParts
  <2>3. after[c].msgs = patched
    <3>1. convs[c] \in Thread
      BY <1>5, <1>9
    <3>. QED  BY <1>3, <1>5, <1>9, <3>1 DEF PutMsgs, Thread
  <2>. HIDE DEF after
  <2>4. /\ msgs \in Seq(OwnMessage) /\ Given(msgs, ids)
        /\ Len(patched) <= Len(msgs) /\ Len(msgs) \in Nat
    BY <1>2, <1>3, <1>9, <2>1, <2>2, <2>3, AppendedKeeps, AppendedGiven
  <2>5. turn \in 0..MaxTurns
    BY <2>1, TurnIsNext
  <2>6. Len(convs[c].msgs) \in Nat
    BY <1>9, ShownIsSound
  <2>7. Len(convs[c].msgs) <= Len(msgs)
    BY <1>3, <1>9, <2>4, <2>6
  <2>. QED  BY <1>1, <1>2, <1>9, <2>1, <2>4, <2>5, <2>7, NextTurnChat
<1>10. \/ convs' \in {convs, after} /\ Ends(r) /\ UNCHANGED ids
       \/ convs' = after /\ (GotoStep(r, "review") \/ GotoStep(r, "tools")) /\ UNCHANGED <<ids, lockVars>>
       \/ /\ c \in DOMAIN convs
          /\ NextTurn(r, Appended(r, after[c].msgs), agents[r].turn + 1)
          /\ r \notin aborted
  <2>1. \/ convs' \in {convs, after} /\ Ends(r) /\ UNCHANGED ids
        \/ convs' = after /\ (GotoStep(r, "review") \/ GotoStep(r, "tools")) /\ UNCHANGED <<ids, lockVars>>
        \/ /\ agents[r].conv \in DOMAIN convs
           /\ NextTurn(r, Appended(r, after[agents[r].conv].msgs), agents[r].turn + 1)
           /\ r \notin aborted
    BY Zenon DEF TurnReplied
  <2>. HIDE DEF after
  <2>. QED  BY <1>1, <2>1
<1>. HIDE DEF after
<1>. QED  BY <1>7, <1>8, <1>9, <1>10

LEMMA ToolsChat ==
  ASSUME ThreadInv, OrderInv, ChatInv, NEW r \in Agents,
         TurnReviewed(r) \/ AskApproval(r) \/ ToolsDone(r), UNCHANGED bound
  PROVE  ChatInv'
<1>1. CopiesInv /\ UNCHANGED <<made, aborted, bound, trash, compactor>>
  BY DEF ThreadInv, TurnReviewed, AskApproval, ToolsDone, threadVars
<1>2. ASSUME UNCHANGED <<convs, ids>>, KeptFrom PROVE SoundInv'
  BY <1>2, SoundStays DEF ChatInv, ShownConvs
<1>3. CASE TurnReviewed(r)
  <2>1. UNCHANGED <<convs, ids>> /\ Ends(r)
    BY <1>3 DEF TurnReviewed
  <2>. QED  BY <1>1, <1>2, <2>1, KeptAtTheEnd, EndsChat
<1>4. CASE AskApproval(r)
  <2>1. UNCHANGED <<convs, ids, streamConv, abort>> /\ GotoStep(r, "asked")
    BY <1>4 DEF AskApproval, lockVars
  <2>. QED  BY <1>1, <1>2, <2>1, KeptOnTheWay, GotoChat
<1>5. CASE ToolsDone(r)
  <2>1. PICK c, msgs, turn : c = agents[r].conv /\ msgs = Appended(r, Msgs(c)) /\ turn = agents[r].turn + 1
    OBVIOUS
  <2>2. turn \in 0..MaxTurns /\ NextTurn(r, msgs, turn)
    BY <1>5, <2>1, TurnIsNext DEF ToolsDone
  <2>3. Msgs(c) \in Seq(OwnMessage) /\ msgs \in Seq(OwnMessage)
    BY <2>1, MsgsGiven, AppendedKeeps
  <2>4. c \in DOMAIN convs => Given(msgs, ids) /\ Len(convs[c].msgs) <= Len(msgs)
    BY <2>1, <2>3, MsgsGiven, AppendedGiven
  <2>. QED  BY <1>1, <2>1, <2>2, <2>3, <2>4, NextTurnChat
<1>. QED  BY <1>3, <1>4, <1>5

(* A summary sums up the copy it is written into.                          *)
LEMMA SummedChat ==
  ASSUME ThreadInv, ChatInv, UNCHANGED ids, KeptFrom, NEW conv \in Copies, convs' \in {convs, Summed(conv)}
  PROVE  SoundInv'
<1>1. PICK new : new = [conv EXCEPT !.count = Len(conv.msgs)]
  OBVIOUS
<1>2. conv \in Thread /\ Given(conv.msgs, ids) /\ Len(conv.msgs) \in Nat
  BY CopiesAreThreads, ThreadParts, LenProperties DEF ThreadInv, ChatInv, SoundInv, Sound
<1>3. new.msgs = conv.msgs /\ new.count = Len(conv.msgs)
  BY <1>1, <1>2 DEF Thread
<1>4. Sound(new)'
  BY <1>2, <1>3 DEF Sound, Given
<1>5. CASE convs' = convs
  BY <1>5, SoundStays DEF ChatInv, ShownConvs
<1>6. CASE convs' = Put(new)
  BY <1>4, <1>6, PutShows, SoundShown DEF ChatInv
<1>. QED  BY <1>1, <1>5, <1>6 DEF Summed

LEMMA AutoCompactedChat ==
  ASSUME ThreadInv, OrderInv, ChatInv, NEW r \in Agents, AutoCompacted(r), UNCHANGED bound
  PROVE  ChatInv'
<1>1. /\ agents \in [Agents -> AgentRecord] /\ agents[r].snap # <<>>
      /\ agents[r].snap \in Seq(Thread)
  BY DEF ThreadInv, CopiesInv, AutoCompacted, RunsInv, AgentRecord
<1>2. UNCHANGED <<trash, compactor, ids, made, streamConv, abort, aborted>>
  BY DEF AutoCompacted, threadVars, lockVars
<1>3. \A a \in Agents : /\ agents'[a].snap \in {<<>>, agents[a].snap}
                        /\ agents'[a].mine = agents[a].mine /\ agents'[a].turn = agents[a].turn
  BY <1>1 DEF AutoCompacted, AgentRecord
<1>4. KeptFrom
  BY <1>2, <1>3, KeptByRuns
<1>5. PICK conv : conv = agents[r].snap[1]
  OBVIOUS
<1>6. conv \in Copies
  <2>1. 1 \in DOMAIN agents[r].snap
    BY <1>1
  <2>2. conv \in ToSet(agents[r].snap)
    BY <1>5, <2>1 DEF ToSet
  <2>. QED  BY <2>2 DEF Copies, Snaps
<1>7. convs' \in {convs, Summed(conv)}
  BY <1>5 DEF AutoCompacted
<1>8. SoundInv'
  BY <1>2, <1>4, <1>6, <1>7, SummedChat
<1>9. abort \in 0..Compactor /\ aborted \subseteq 1..Compactor
  BY DEF ChatInv, LocksInv
<1>. QED  BY <1>2, <1>3, <1>8, <1>9, QuietChat

LEMMA DrainChat ==
  ASSUME ThreadInv, OrderInv, ChatInv, NEW r \in Agents, Drain(r), UNCHANGED bound
  PROVE  ChatInv'
<1>1. PICK c, q, rest : c = agents[r].conv /\ q = queued[c] /\ rest = (IF q = <<>> THEN q ELSE Tail(q))
  OBVIOUS
<1>2. DrainTo(r, rest) /\ UNCHANGED <<made, trash, aborted, compactor, bound>>
  BY <1>1 DEF Drain, DrainTo, threadVars
<1>3. agents \in [Agents -> AgentRecord] /\ queued \in [ConvIds -> Seq(Nat)] /\ made \in Nat
  BY DEF ThreadInv, CopiesInv, ConvIds
<1>4. CASE q = <<>> \/ c \notin DOMAIN convs
  <2>1. UNCHANGED <<convs, ids, streamConv, abort>> /\ agents' = [agents EXCEPT ![r] = Over(r)]
    BY <1>1, <1>2, <1>4 DEF DrainTo, lockVars
  <2>2. \A a \in Agents : /\ agents'[a].snap \in {<<>>, agents[a].snap}
                          /\ agents'[a].mine = agents[a].mine /\ agents'[a].turn \in {0, agents[a].turn}
    BY <1>3, <2>1, OverIs
  <2>3. SoundInv'
    BY <1>2, <2>1, <2>2, KeptByRuns, SoundStays DEF ChatInv, ShownConvs
  <2>4. abort \in 0..Compactor /\ aborted \subseteq 1..Compactor
    BY DEF ChatInv, LocksInv
  <2>. QED  BY <1>2, <2>1, <2>2, <2>3, <2>4, QuietChat
<1>5. CASE q # <<>> /\ c \in DOMAIN convs
  <2>1. PICK conv, item : conv = convs[c] /\ item = Head(q)
    OBVIOUS
  <2>2. HasAgent /\ Ask(NextAgent, r, conv, item)
    BY <1>1, <1>2, <1>5, <2>1 DEF DrainTo
  <2>3. /\ conv \in Thread /\ conv.id = c /\ c \in 1..made /\ c \in ConvIds
        /\ Given(conv.msgs, ids) /\ conv.count <= Len(conv.msgs)
    BY <1>5, <2>1, ShownIsSound, ShownInOrder
  <2>4. item \in Nat
    <3>1. q \in Seq(Nat)
      BY <1>1, <1>3, <2>3
    <3>. QED  BY <1>5, <2>1, <3>1
  <2>5. made \in 0..made' /\ conv.id \in 1..made'
    BY <1>2, <1>3, <2>3
  <2>. QED  BY <1>2, <2>2, <2>3, <2>4, <2>5, AskChat
<1>. QED  BY <1>4, <1>5

-----------------------------------------------------------------------------
(* The clicks.                                                             *)
LEMMA SendChat ==
  ASSUME ThreadInv, OrderInv, ChatInv, SendMessage \/ SendFollowUp, UNCHANGED bound
  PROVE  ChatInv'
<1>1. /\ made \in Nat /\ UNCHANGED <<trash, compactor, aborted>> /\ HasAgent
      /\ (active \in DOMAIN convs => UNCHANGED made)
  BY DEF ThreadInv, CopiesInv, ConvIds, SendMessage, SendFollowUp, threadVars
<1>2. CASE active \in DOMAIN convs
  <2>1. PICK c, conv : c = active /\ conv = convs[c]
    OBVIOUS
  <2>2. /\ conv \in Thread /\ conv.id \in 1..made /\ Given(conv.msgs, ids)
        /\ conv.count <= Len(conv.msgs)
    BY <1>2, <2>1, ShownIsSound
  <2>3. Ask(NextAgent, 0, conv, 0)
    BY <1>2, <2>1 DEF SendMessage, SendFollowUp
  <2>. QED  BY <1>1, <1>2, <2>2, <2>3, 0 \in Nat, AskChat
<1>3. CASE active \notin DOMAIN convs
  <2>1. PICK conv : conv = [id |-> made + 1, msgs |-> <<>>, count |-> 0]
    OBVIOUS
  <2>2. /\ made' = made + 1 /\ made < MaxConvs /\ Ask(NextAgent, 0, conv, 0)
    BY <1>3, <2>1 DEF SendMessage, SendFollowUp
  <2>3. conv \in Thread /\ conv.id = made + 1 /\ conv.msgs = <<>> /\ conv.count = 0
    <3>1. made + 1 \in ConvIds
      BY <1>1, <2>2, ThreadAssumption DEF ConvIds
    <3>. QED  BY <2>1, <3>1, EmptySeq DEF Thread
  <2>4. Given(conv.msgs, ids) /\ conv.count <= Len(conv.msgs)
    BY <2>3 DEF Given
  <2>5. made \in 0..made' /\ conv.id \in 1..made'
    BY <1>1, <2>2, <2>3
  <2>. QED  BY <1>1, <2>2, <2>3, <2>4, <2>5, 0 \in Nat, AskChat
<1>. QED  BY <1>2, <1>3

(* What is left of a conversation that is cut is summed up no further.     *)
LEMMA CutIsSound ==
  ASSUME NEW conv \in Thread, NEW n, Given(conv.msgs, n), NEW keep \in 0..Len(conv.msgs)
  PROVE  /\ withMessages(conv, SubSeq(conv.msgs, 1, keep)) \in Thread
         /\ withMessages(conv, SubSeq(conv.msgs, 1, keep)).id = conv.id
         /\ withMessages(conv, SubSeq(conv.msgs, 1, keep)).msgs = SubSeq(conv.msgs, 1, keep)
         /\ withMessages(conv, SubSeq(conv.msgs, 1, keep)).count <= keep
         /\ SubSeq(conv.msgs, 1, keep) \in Seq(OwnMessage)
         /\ Len(SubSeq(conv.msgs, 1, keep)) = keep
         /\ Given(SubSeq(conv.msgs, 1, keep), n)
<1>1. PICK msgs : msgs = SubSeq(conv.msgs, 1, keep)
  OBVIOUS
<1>2. conv.msgs \in Seq(OwnMessage) /\ conv.count \in Nat /\ Len(conv.msgs) \in Nat
  BY ThreadParts, LenProperties
<1>3. msgs \in Seq(OwnMessage) /\ Len(msgs) = keep
  BY <1>1, <1>2, PrefixKeeps
<1>4. Given(msgs, n)
  <2>1. 1 \in 1..(Len(conv.msgs) + 1) /\ keep \in (1 - 1)..Len(conv.msgs)
    BY <1>2
  <2>. QED  BY <1>1, <1>2, <2>1, GivenPart
<1>5. PICK cut : cut = withMessages(conv, msgs)
  OBVIOUS
<1>6. cut \in Thread /\ cut.id = conv.id /\ cut.msgs = msgs
  BY <1>3, <1>5, ThreadFrom, WithMessagesIs
<1>7. cut.count <= keep
  BY <1>2, <1>3, <1>5 DEF withMessages, Thread
<1>. QED  BY <1>1, <1>3, <1>4, <1>5, <1>6, <1>7

LEMMA RedoChat ==
  ASSUME ThreadInv, OrderInv, ChatInv, NEW conv, conv = convs[active], active \in DOMAIN convs,
         NEW keep \in 0..Len(conv.msgs), Redo(conv, keep), UNCHANGED bound
  PROVE  ChatInv'
<1>1. /\ ids \in Nat /\ ids + 1 \in Nat /\ made \in Nat /\ HasAgent
      /\ UNCHANGED <<made, trash, compactor, aborted>>
  BY DEF ThreadInv, CopiesInv, ConvIds, Redo, threadVars
<1>2. conv \in Thread /\ conv.id \in 1..made /\ Given(conv.msgs, ids)
  BY ShownIsSound
<1>3. PICK msgs, cut : msgs = SubSeq(conv.msgs, 1, keep) /\ cut = withMessages(conv, msgs)
  OBVIOUS
<1>4. /\ cut \in Thread /\ cut.id = conv.id /\ cut.msgs = msgs /\ cut.count <= keep
      /\ msgs \in Seq(OwnMessage) /\ Len(msgs) = keep /\ Given(msgs, ids)
  BY <1>2, <1>3, CutIsSound
<1>5. PICK n, t, r, new : /\ n = ids + 1 /\ t = <<Blank(n)>> /\ r = NextAgent
                          /\ new = [cut EXCEPT !.msgs = Append(msgs, Blank(n))]
  OBVIOUS
<1>6. t \in Seq(OwnMessage) /\ Blank(n) \in OwnMessage /\ n \in Nat \ {0} /\ Len(t) = 1
  BY <1>1, <1>5, NewMessages
<1>7. Append(msgs, Blank(n)) = msgs \o t /\ msgs \o t \in Seq(OwnMessage) /\ Len(msgs \o t) = keep + 1
  BY <1>4, <1>5, <1>6, AppendIsConcat, ConcatProperties
<1>8. new \in Thread /\ new.id = conv.id /\ new.msgs = msgs \o t /\ new.count = cut.count /\ cut.count \in Nat
  BY <1>4, <1>5, <1>7, ThreadFrom DEF Thread
<1>9. Given(msgs \o t, n)
  <2>1. Given(msgs, n)
    <3>1. ids <= n
      BY <1>1, <1>5
    <3>. QED  BY <1>1, <1>4, <1>6, <3>1, GivenGrows
  <2>2. Given(t, n)
    BY <1>5, <1>6, GivenNew
  <2>. QED  BY <1>4, <1>6, <2>1, <2>2, GivenConcat
<1>10. ids' = n /\ RunStream(r, 0, new, n)
  BY <1>3, <1>4, <1>5 DEF Redo
<1>11. keep \in Nat
  BY <1>2, ThreadParts, LenProperties
<1>12. Sound(new)'
  BY <1>4, <1>7, <1>8, <1>9, <1>10, <1>11 DEF Sound, Given
<1>13. r \in Agents
  BY <1>1, <1>5, NextAgentIs
<1>14. ids' \in {ids, ids + 1} /\ n \in 1..ids' /\ made \in 0..made' /\ new.id \in 1..made'
  BY <1>1, <1>2, <1>5, <1>6, <1>8, <1>10
<1>. QED  BY <1>1, <1>8, <1>10, <1>12, <1>13, <1>14, RunStreamChat

LEMMA AgainChat ==
  ASSUME ThreadInv, OrderInv, ChatInv, Retry \/ Regenerate \/ EditMessage, UNCHANGED bound
  PROVE  ChatInv'
<1>1. active \in DOMAIN convs
  BY DEF Retry, Regenerate, EditMessage
<1>2. PICK conv : conv = convs[active]
  OBVIOUS
<1>3. PICK keep \in 0..Len(conv.msgs) : Redo(conv, keep)
  <2>1. \A i \in DOMAIN conv.msgs : i \in 0..Len(conv.msgs) /\ i - 1 \in 0..Len(conv.msgs)
    BY <1>1, <1>2, OnScreen DEF ThreadInv
  <2>2. LastReply(conv.msgs) \subseteq DOMAIN conv.msgs
    BY DEF LastReply
  <2>3. CASE Retry
    BY <1>2, <2>1, <2>2, <2>3 DEF Retry
  <2>4. CASE Regenerate
    BY <1>2, <2>1, <2>4 DEF Regenerate
  <2>5. CASE EditMessage
    BY <1>2, <2>1, <2>5 DEF EditMessage
  <2>. QED  BY <2>3, <2>4, <2>5
<1>. QED  BY <1>1, <1>2, <1>3, RedoChat

LEMMA ContinueChat ==
  ASSUME ThreadInv, OrderInv, ChatInv, ContinueMessage, UNCHANGED bound
  PROVE  ChatInv'
<1>1. /\ active \in DOMAIN convs /\ HasAgent
      /\ UNCHANGED <<made, trash, compactor, aborted, ids>>
  BY DEF ContinueMessage, threadVars
<1>2. PICK conv : conv = convs[active]
  OBVIOUS
<1>3. /\ conv \in Thread /\ conv \in Copies /\ conv.id \in 1..made /\ Given(conv.msgs, ids)
      /\ made \in Nat /\ ids \in Nat
  BY <1>1, <1>2, ShownIsSound DEF ThreadInv, CopiesInv, ConvIds
<1>4. PICK i \in LastReply(conv.msgs) : RunStream(NextAgent, 0, conv, conv.msgs[i].id)
  BY <1>2 DEF ContinueMessage
<1>5. PICK r, target : r = NextAgent /\ target = conv.msgs[i].id
  OBVIOUS
<1>6. target \in 1..ids
  BY <1>3, <1>5 DEF LastReply, Given
<1>7. r \in Agents /\ RunStream(r, 0, conv, target)
  BY <1>1, <1>4, <1>5, NextAgentIs
<1>8. ids' \in {ids, ids + 1} /\ target \in 1..ids' /\ made \in 0..made' /\ conv.id \in 1..made'
  BY <1>1, <1>3, <1>6
<1>. QED  BY <1>1, <1>3, <1>7, <1>8, RunStreamChat

LEMMA CutChat ==
  ASSUME ThreadInv, OrderInv, ChatInv, DeleteFrom \/ BranchAt, UNCHANGED bound
  PROVE  ChatInv'
<1>1. /\ active \in DOMAIN convs
      /\ UNCHANGED <<trash, compactor, agents, aborted, streamConv, abort, ids>>
      /\ made' \in {made, made + 1}
  BY DEF DeleteFrom, BranchAt, threadVars, lockVars
<1>2. PICK conv : conv = convs[active]
  OBVIOUS
<1>3. /\ conv \in Thread /\ Given(conv.msgs, ids) /\ conv.msgs \in Seq(OwnMessage)
      /\ Len(conv.msgs) \in Nat /\ DOMAIN conv.msgs = 1..Len(conv.msgs)
  BY <1>1, <1>2, ShownIsSound, LenProperties
<1>4. KeptFrom
  BY <1>1, KeptByRuns
<1>5. PICK keep, new :
        /\ keep \in 0..Len(conv.msgs) /\ convs' = Put(new)
        /\ new \in {withMessages(conv, SubSeq(conv.msgs, 1, keep)),
                    [withMessages(conv, SubSeq(conv.msgs, 1, keep)) EXCEPT !.id = made + 1]}
  <2>1. \A keep \in 0..(Len(conv.msgs) - 1) : keep \in 0..Len(conv.msgs)
    BY <1>3
  <2>2. \A keep \in DOMAIN conv.msgs : keep \in 0..Len(conv.msgs)
    BY <1>3
  <2>3. CASE DeleteFrom
    BY <1>2, <2>1, <2>3 DEF DeleteFrom
  <2>4. CASE BranchAt
    BY <1>2, <2>2, <2>4 DEF BranchAt
  <2>. QED  BY <2>3, <2>4
<1>6. PICK msgs, cut : msgs = SubSeq(conv.msgs, 1, keep) /\ cut = withMessages(conv, msgs)
  OBVIOUS
<1>7. /\ cut \in Thread /\ cut.msgs = msgs /\ cut.count <= keep /\ Len(msgs) = keep /\ Given(msgs, ids)
  BY <1>3, <1>5, <1>6, CutIsSound
<1>8. new.msgs = msgs /\ new.count = cut.count
  BY <1>5, <1>6, <1>7 DEF Thread
<1>9. Sound(new)'
  BY <1>1, <1>7, <1>8 DEF Sound, Given
<1>10. SoundInv'
  BY <1>1, <1>4, <1>5, <1>9, PutShows, SoundShown DEF ChatInv
<1>11. abort \in 0..Compactor /\ aborted \subseteq 1..Compactor
  BY DEF ChatInv, LocksInv
<1>. QED  BY <1>1, <1>10, <1>11, QuietChat

-----------------------------------------------------------------------------
LEMMA LocksChat ==
  ASSUME ThreadInv, OrderInv, ChatInv, RunCompact \/ Compacted \/ StopChat \/ DecideChat,
         UNCHANGED bound
  PROVE  ChatInv'
<1>1. /\ UNCHANGED <<made, trash, ids, streamConv>>
      /\ abort \in 0..Compactor /\ aborted \subseteq 1..Compactor /\ Compactor \in 1..Compactor
  BY ThreadAssumption DEF RunCompact, Compacted, StopChat, DecideChat, threadVars, lockVars,
     ChatInv, LocksInv, Compactor, ThreadAssumption
<1>2. CASE DecideChat
  <2>1. UNCHANGED <<convs, compactor, abort, aborted>> /\ GotoStep(chatDialog, "tools")
    BY <1>2 DEF DecideChat, lockVars
  <2>2. chatDialog \in Agents
    BY <1>2 DEF DecideChat, ThreadInv
  <2>3. KeptFrom
    BY <1>1, <2>1, <2>2, KeptOnTheWay DEF ThreadInv
  <2>4. SoundInv'
    BY <1>1, <2>1, <2>3, SoundStays DEF ChatInv, ShownConvs
  <2>. QED  BY <1>1, <2>1, <2>2, <2>4, GotoChat
<1>3. CASE RunCompact \/ Compacted \/ StopChat
  <2>1. UNCHANGED agents /\ abort' \in 0..Compactor /\ aborted' \subseteq 1..Compactor
    <3>1. 0 \in 0..Compactor /\ (abort # 0 => abort \in 1..Compactor)
      BY <1>1, ThreadAssumption DEF Compactor, ThreadAssumption
    <3>2. CASE RunCompact
      <4>1. abort' = Compactor /\ aborted' \subseteq aborted /\ UNCHANGED agents
        BY <3>2 DEF RunCompact
      <4>2. Compactor \in 0..Compactor
        BY ThreadAssumption DEF Compactor, ThreadAssumption
      <4>. QED  BY <1>1, <4>1, <4>2
    <3>3. CASE Compacted
      BY <1>1, <3>1, <3>3 DEF Compacted
    <3>4. CASE StopChat
      BY <1>1, <3>1, <3>4 DEF StopChat, lockVars
    <3>. QED  BY <1>3, <3>2, <3>3, <3>4
  <2>2. Snaps' = Snaps
    BY <2>1 DEF Snaps
  <2>3. SoundInv'
    <3>1. CASE RunCompact
      <4>1. UNCHANGED convs /\ ToSet(compactor') \subseteq ShownConvs'
        BY <3>1, ToSetOfOne DEF RunCompact, ShownConvs
      <4>2. KeptFrom
        BY <1>1, <2>2, <4>1 DEF KeptFrom, Copies
      <4>. QED  BY <1>1, <4>1, <4>2, SoundStays DEF ChatInv, ShownConvs
    <3>2. CASE Compacted
      <4>1. PICK conv : conv = compactor[1]
        OBVIOUS
      <4>2. compactor # <<>> /\ compactor' = <<>> /\ convs' \in {convs, Summed(conv)}
        BY <3>2, <4>1 DEF Compacted
      <4>3. ToSet(compactor') = {}
        BY <4>2 DEF ToSet
      <4>4. KeptFrom
        BY <1>1, <2>2, <4>3 DEF KeptFrom, Copies
      <4>5. conv \in Copies
        <5>1. compactor \in Seq(Thread)
          BY DEF ThreadInv, CopiesInv
        <5>2. 1 \in DOMAIN compactor
          BY <4>2, <5>1
        <5>. QED  BY <4>1, <5>2 DEF ToSet, Copies
      <4>. QED  BY <1>1, <4>2, <4>4, <4>5, SummedChat
    <3>3. CASE StopChat
      <4>1. UNCHANGED <<convs, compactor>>
        BY <3>3 DEF StopChat
      <4>2. KeptFrom
        BY <1>1, <2>2, <4>1 DEF KeptFrom, Copies
      <4>. QED  BY <1>1, <4>1, <4>2, SoundStays DEF ChatInv, ShownConvs
    <3>. QED  BY <1>3, <3>1, <3>2, <3>3
  <2>. QED  BY <1>1, <2>1, <2>3, QuietChat
<1>. QED  BY <1>2, <1>3

LEMMA SidebarChat ==
  ASSUME ThreadInv, OrderInv, ChatInv, Queue \/ Unqueue \/ Select \/ SoftDelete \/ UndoDelete,
         UNCHANGED bound
  PROVE  ChatInv'
<1>1. /\ UNCHANGED <<made, ids, streamConv, abort, aborted, agents, compactor>>
      /\ abort \in 0..Compactor /\ aborted \subseteq 1..Compactor
  BY DEF Queue, Unqueue, Select, SoftDelete, UndoDelete, threadVars, lockVars, ChatInv, LocksInv
<1>2. Snaps' = Snaps
  BY <1>1 DEF Snaps
<1>3. SoundInv'
  <2>1. CASE Queue \/ Unqueue \/ Select
    <3>1. UNCHANGED <<convs, trash>>
      BY <2>1 DEF Queue, Unqueue, Select, threadVars
    <3>. QED  BY <1>1, <3>1, KeptByRuns, SoundStays DEF ChatInv, ShownConvs
  <2>2. CASE SoftDelete
    <3>1. PICK c \in DOMAIN convs :
            trash' = <<convs[c]>> /\ convs' = [d \in DOMAIN convs \ {c} |-> convs[d]]
      BY <2>2 DEF SoftDelete
    <3>2. ToSet(trash') \subseteq ShownConvs
      BY <3>1, ToSetOfOne DEF ShownConvs
    <3>3. ShownConvs' \subseteq ShownConvs
      BY <3>1 DEF ShownConvs
    <3>4. KeptFrom
      BY <1>1, <1>2, <3>2 DEF KeptFrom, Copies
    <3>. QED  BY <1>1, <3>3, <3>4, SoundStays DEF ChatInv
  <2>3. CASE UndoDelete
    <3>1. PICK conv : conv = trash[1]
      OBVIOUS
    <3>2. trash # <<>> /\ trash' = <<>> /\ convs' = Put(conv)
      BY <2>3, <3>1 DEF UndoDelete
    <3>3. conv \in Copies
      <4>1. trash \in Seq(Thread)
        BY DEF ThreadInv, CopiesInv
      <4>2. 1 \in DOMAIN trash
        BY <3>2, <4>1
      <4>. QED  BY <3>1, <4>2 DEF ToSet, Copies
    <3>4. ToSet(trash') = {}
      BY <3>2 DEF ToSet
    <3>5. KeptFrom
      BY <1>1, <1>2, <3>4 DEF KeptFrom, Copies
    <3>. QED  BY <1>1, <3>2, <3>3, <3>5, PutShows, SoundShown DEF ChatInv
  <2>. QED  BY <2>1, <2>2, <2>3
<1>. QED  BY <1>1, <1>3, QuietChat

LEMMA ChatStays ==
  ASSUME ThreadInv, OrderInv, ChatInv, [ChatNext]_chatVars
  PROVE  ChatInv'
<1>1. CASE UNCHANGED chatVars
  <2>1. UNCHANGED <<convs, trash, compactor, agents, ids, made, streamConv, abort, aborted, bound>>
    BY <1>1 DEF chatVars
  <2>2. SoundInv'
    BY <2>1, KeptByRuns, SoundStays DEF ChatInv, ShownConvs
  <2>3. abort \in 0..Compactor /\ aborted \subseteq 1..Compactor
    BY DEF ChatInv, LocksInv
  <2>. QED  BY <2>1, <2>2, <2>3, QuietChat
<1>2. CASE Click /\ UNCHANGED bound
  BY <1>2, SendChat, AgainChat, ContinueChat, CutChat, LocksChat, SidebarChat DEF Click
<1>3. CASE (\E r \in Agents : AgentStep(r)) /\ UNCHANGED bound
  BY <1>3, ResearchedChat, DeltaChat, TurnRepliedChat, ToolsChat, AutoCompactedChat, DrainChat
  DEF AgentStep
<1>4. CASE (DecideChat \/ Queue \/ Compacted \/ StopChat) /\ UNCHANGED bound
  BY <1>4, SidebarChat, LocksChat
<1>. QED  BY <1>1, <1>2, <1>3, <1>4 DEF ChatNext

LEMMA ChatStarts == ASSUME ChatInit PROVE ChatInv
<1>1. /\ made = 1 /\ trash = <<>> /\ compactor = <<>> /\ ids = 1 /\ streamConv = 0 /\ abort = 0
      /\ aborted = {} /\ bound \in Bounds
      /\ \A r \in Agents : agents[r].snap = <<>> /\ agents[r].mine = {} /\ agents[r].turn = 0
  BY DEF ChatInit, Unused
<1>2. ToSet(<<>>) = {} /\ 0 < MaxTurns /\ 0 \in 0..Compactor
  BY ThreadAssumption DEF ToSet, ThreadAssumption, Compactor
<1>3. Copies = ShownConvs
  BY <1>1, <1>2 DEF Copies, Snaps
<1>4. Sound(Stored)
  <2>1. /\ Stored.count = 0 /\ Len(Stored.msgs) = 2 /\ DOMAIN Stored.msgs = {1, 2}
        /\ Stored.msgs[1] = Question(0) /\ Stored.msgs[2] = [Blank(1) EXCEPT !.text = {0}]
    BY DEF Stored
  <2>2. Question(0).role = "user" /\ [Blank(1) EXCEPT !.text = {0}].id = 1
    BY DEF Question, Blank
  <2>3. PICK msgs : msgs = Stored.msgs
    OBVIOUS
  <2>4. msgs[1].role = "user" /\ msgs[2].id = 1 /\ DOMAIN msgs = {1, 2} /\ 1 \in 1..1
    <3>1. msgs[1].role = "user"
      BY <2>1, <2>2, <2>3
    <3>2. msgs[2].id = 1
      BY <2>1, <2>2, <2>3
    <3>. QED  BY <2>1, <2>3, <3>1, <3>2
  <2>5. Given(msgs, 1)
    BY <2>4 DEF Given
  <2>6. Given(Stored.msgs, ids)
    BY <1>1, <2>3, <2>5
  <2>. QED  BY <2>1, <2>6 DEF Sound
<1>5. \A conv \in ShownConvs : conv = Stored
  <2>1. CASE convs = [c \in {1} |-> Stored]
    BY <2>1 DEF ShownConvs
  <2>2. CASE convs = << >>
    <3>1. DOMAIN convs = {}
      BY <2>2
    <3>. QED  BY <3>1 DEF ShownConvs
  <2>. QED  BY <2>1, <2>2 DEF ChatInit
<1>6. SoundInv
  BY <1>3, <1>4, <1>5 DEF SoundInv
<1>7. AgentsInv /\ LocksInv
  BY <1>1, <1>2 DEF AgentsInv, LocksInv
<1>. QED  BY <1>1, <1>6, <1>7 DEF ChatInv

LEMMA ChatInvTypes == ASSUME ThreadInv, OrderInv, ChatInv PROVE ChatTypeOK
<1>1. DOMAIN convs \subseteq 1..made /\ made \in ConvIds
  BY ShownInOrder DEF ThreadInv, CopiesInv
<1>2. \A c \in DOMAIN convs : convs[c].id = c /\ convs[c].count \in 0..Len(convs[c].msgs)
  BY ShownIsSound
<1>3. chatDialog \in 0..MaxAgents
  BY ThreadAssumption DEF ThreadInv, Agents, ThreadAssumption
<1>. QED  BY <1>1, <1>2, <1>3 DEF ChatTypeOK, ChatInv, LocksInv, AgentsInv
=============================================================================
