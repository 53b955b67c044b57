---------------------------- MODULE WebTypeProofs ----------------------------
(***************************************************************************)
(* The web client as a whole (MCWeb): the part that runs stays within its  *)
(* types, for any values of the constants, from what is proved of each     *)
(* part.                                                                   *)
(***************************************************************************)
EXTENDS MCWeb, ChatProofs, CoderProofs, WebProofs, RequestProofs

-----------------------------------------------------------------------------
(* The web client: the part that runs keeps what is known of it, and the   *)
(* parts that rest say nothing.                                            *)
PartInv ==
  /\ part = "tabs" => TabsInv /\ UserInv /\ ActiveInv
  /\ part = "attach" => ChildInv
  /\ part = "turn" => TurnInv
  /\ part = "chat" => ThreadInv /\ OrderInv /\ ChatInv
  /\ part = "stream" => StreamInv
  /\ part = "session" => SessInv /\ ShelfInv
  /\ part = "panels" => PanelsInv
  /\ part = "output" => ResultsInv
  /\ part = "form" => FormInv
  /\ part = "settings" => RecordsInv
  /\ part = "request" => RequestInv
  /\ part = "reply" => ReplyInv
  /\ part = "context" => PromptInv

LEMMA PartMoves ==
  ASSUME [WebNext]_webVars
  PROVE  /\ part' = part
         /\ part = "tabs" => [TabsNext]_tabsVars
         /\ part = "attach" => [AttachNext]_attachVars
         /\ part = "turn" => [TurnNext]_turnVars
         /\ part = "chat" => [ChatNext]_chatVars
         /\ part = "stream" => [StreamNext]_streamVars
         /\ part = "session" => [SessNext]_sessVars
         /\ part = "panels" => [PanelsNext]_panelVars
         /\ part = "output" => [OutputNext]_outputVars
         /\ part = "form" => [FormNext]_formVars
         /\ part = "settings" => [SettingsNext]_settingsVars
         /\ part = "request" => [RequestNext]_requestVarsAll
         /\ part = "reply" => [ReplyNext]_replyVars
         /\ part = "context" => [ContextNext]_ctxVars
<1>1. CASE WebNext
  BY <1>1 DEF WebNext, OnlyPartMoves
<1>2. CASE UNCHANGED webVars
  BY <1>2 DEF webVars
<1>. QED  BY <1>1, <1>2

LEMMA PartStarts == ASSUME WebInit PROVE PartInv
<1>1. TabsInv /\ UserInv /\ ActiveInv
  BY TabsInvStarts, UserInvStarts, ActiveStarts, TabsAssumption DEF WebInit
<1>2. ChildInv
  BY ChildInvStarts, AttachAssumption DEF WebInit
<1>3. ThreadInv /\ OrderInv /\ ChatInv
  BY ThreadStart, OrderStart, ChatStarts DEF WebInit
<1>4. TurnInv /\ StreamInv /\ PromptInv /\ ResultsInv
  BY TurnBegins, StreamBegins, PromptBegins, ResultsBegin DEF WebInit
<1>5. SessInv /\ ShelfInv
  BY SessInvStarts, ShelfStarts, SessionAssumption DEF WebInit
<1>6. PanelsInv /\ FormInv /\ RecordsInv
  BY PanelsStart, FormStarts, RecordsStart DEF WebInit
<1>7. RequestInv /\ ReplyInv
  BY RequestStart, ReplyStart DEF WebInit
<1>. QED  BY <1>1, <1>2, <1>3, <1>4, <1>5, <1>6, <1>7 DEF PartInv

LEMMA PartStays == ASSUME PartInv, [WebNext]_webVars PROVE PartInv'
<1>1. part' = part
  BY PartMoves
<1>2. part = "tabs" => (TabsInv /\ UserInv /\ ActiveInv)'
  BY PartMoves, TabsInvStep, UserInvStep, ActiveStays, TabsAssumption DEF PartInv, UserStepKeeps
<1>3. part = "attach" => ChildInv'
  BY PartMoves, ChildInvStep, AttachAssumption DEF PartInv
<1>4. part = "turn" => TurnInv'
  BY PartMoves, TurnStays DEF PartInv
<1>5. part = "chat" => (ThreadInv /\ OrderInv /\ ChatInv)'
  BY PartMoves, ThreadStep, OrderStep, ChatStays DEF PartInv
<1>6. part = "stream" => StreamInv'
  BY PartMoves, StreamStays DEF PartInv
<1>7. part = "session" => (SessInv /\ ShelfInv)'
  BY PartMoves, SessInvStep, SessInvStutters, ShelfStays, SessionAssumption DEF PartInv
<1>8. part = "panels" => PanelsInv'
  BY PartMoves, PanelsStep DEF PartInv
<1>9. part = "output" => ResultsInv'
  BY PartMoves, ResultsStay DEF PartInv
<1>10. part = "form" => FormInv'
  BY PartMoves, FormStays DEF PartInv
<1>11. part = "settings" => RecordsInv'
  BY PartMoves, RecordsStay DEF PartInv
<1>12. part = "request" => RequestInv'
  BY PartMoves, RequestStays DEF PartInv
<1>13. part = "reply" => ReplyInv'
  BY PartMoves, ReplyStays DEF PartInv
<1>14. part = "context" => PromptInv'
  BY PartMoves, PromptStays DEF PartInv
<1>. QED  BY <1>1, <1>2, <1>3, <1>4, <1>5, <1>6, <1>7, <1>8, <1>9, <1>10, <1>11, <1>12, <1>13,
             <1>14 DEF PartInv

LEMMA PartInvTypes == PartInv => WebTypeOK
<1>. SUFFICES ASSUME PartInv PROVE WebTypeOK
  OBVIOUS
<1>1. (part = "tabs" => TabsTypeOK) /\ (part = "attach" => AttachTypeOK)
  BY TabsInvTypes, ChildInvTypes DEF PartInv
<1>2. (part = "chat" => ChatTypeOK) /\ (part = "session" => SessTypeOK)
  BY ChatInvTypes, SessInvTypes, SessionAssumption DEF PartInv
<1>3. (part = "turn" => TurnTypeOK) /\ (part = "stream" => StreamTypeOK)
  BY TurnInvTypes, StreamInvTypes DEF PartInv
<1>4. (part = "panels" => PanelsTypeOK) /\ (part = "output" => OutputTypeOK)
  BY PanelsInvTypes, ResultsInvTypes DEF PartInv
<1>5. (part = "form" => FormTypeOK) /\ (part = "settings" => SettingsTypeOK)
  BY FormInvTypes, RecordsInvTypes DEF PartInv
<1>6. (part = "request" => RequestTypeOK) /\ (part = "reply" => ReplyTypeOK)
  BY RequestInvTypes, ReplyInvTypes DEF PartInv
<1>7. part = "context" => ContextTypeOK
  BY PromptInvTypes DEF PartInv
<1>. QED  BY <1>1, <1>2, <1>3, <1>4, <1>5, <1>6, <1>7 DEF WebTypeOK

(* Every part of the web client stays within its types, and within what    *)
(* ties its state together: no two open tabs have one id and the active    *)
(* tab is open, a conversation is listed once and exists, the one a run    *)
(* writes into is never removed, a text known to be in the database is.    *)
THEOREM WebStaysTyped == WebSpec => []WebTypeOK
<1>1. WebInit => PartInv
  BY PartStarts
<1>2. PartInv /\ [WebNext]_webVars => PartInv'
  BY PartStays
<1>. QED  BY <1>1, <1>2, PartInvTypes, PTL DEF WebSpec
=============================================================================
