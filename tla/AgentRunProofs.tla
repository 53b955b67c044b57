--------------------------- MODULE AgentRunProofs ---------------------------
(****************************************************************************)
(* Proofs about one agent run, for every turn budget, batch size and set   *)
(* of gate requirements: its types, its human gates and the refinement of  *)
(* HumanGates, and its pauses.                                             *)
(****************************************************************************)
EXTENDS AgentRun, TLAPS

(***************************************************************************)
(* Type correctness. It is not inductive on the types alone: the turn      *)
(* counter stays below its budget because a turn is entered only below it, *)
(* and a command is remembered for a call because the request that asked   *)
(* for it names a risky gate.                                              *)
(***************************************************************************)

(* The turn budget is not spent while a turn is being worked on.           *)
TurnAt == {"stream", "tools", "hook", "hook_announce", "hook_wait", "hook_apply"}
Budget == loop.at \in TurnAt => turns < MaxSteps

(* A handler that looks a pause up has one to look up, and only the grant  *)
(* of a risky gate is remembered.                                          *)
RememberIsGrant ==
  /\ handler.at \in {"check", "resolve"} => handler.pause # NoPause
  /\ handler.op = "remember" => handler.pause.kind = "risky" /\ handler.decision =
       "grant"

TypeInv == TypeOK /\ Budget /\ RememberIsGrant

-----------------------------------------------------------------------------
(* The values the helpers build.                                           *)

LEMMA AtType == \A p \in Position : At(p) \in Loop /\ At(p).at = p
  BY DEF Position, At, Loop, Terminal

LEMMA FinishingType == \A s \in Terminal : Finishing(s) \in Loop /\ Finishing(s).at =
     "finish"
<1>1. At("finish") \in Loop /\ At("finish").at = "finish"
  BY AtType DEF Position
<1>. QED  BY <1>1 DEF Finishing, Loop

LEMMA AtHookType ==
  \A p \in Position, had \in BOOLEAN : AtHook(p, had) \in Loop /\ AtHook(p, had).at = p
<1>1. TAKE p \in Position, had \in BOOLEAN
<1>2. At(p) \in Loop /\ At(p).at = p
  BY AtType
<1>. QED  BY <1>2 DEF AtHook, Loop

LEMMA LegTypes == Ready \in Leg /\ Over \in Leg
  BY DEF Ready, Over, Leg

LEMMA FirstGateFacts ==
  ASSUME NEW S \in SUBSET CallKind
  PROVE  /\ FirstGate(S) \in CallKind \cup {"exec"}
         /\ FirstGate(S) = "exec" => S = {}
         /\ FirstGate(S) # "exec" => FirstGate(S) \in S
  BY DEF FirstGate, CallKind

LEMMA AdvanceType ==
  ASSUME NEW need \in SUBSET CallKind, NEW left \in SUBSET CallKind
  PROVE  Advance(need, left) \in Leg
  BY FirstGateFacts DEF Advance, Leg

LEMMA LegAdvanceType ==
  ASSUME TypeOK, NEW c \in Calls
  PROVE  Advance(leg[c].need, leg[c].left) \in Leg
<1>1. leg[c].need \in SUBSET CallKind /\ leg[c].left \in SUBSET CallKind
  BY DEF TypeOK, BatchType, Leg
<1>. QED  BY <1>1, AdvanceType

LEMMA NoHandlerType == NoHandler \in Handler
  BY DEF NoHandler, Handler, Decision, NoPause

LEMMA NoPauseIsNone == NoPause \notin Pause
  BY DEF NoPause, Pause, CallKind

LEMMA PauseFacts ==
  ASSUME TypeOK, NEW c \in Calls, NEW k \in CallKind
  PROVE  PauseOf(c, k) \in Pause
  BY DEF PauseOf, Pause, TypeOK, LiveType

LEMMA HookPauseType ==
  ASSUME TypeOK
  PROVE  HookPause \in Pause
  BY DEF TypeOK, LiveType, HookPause, PauseOf, Pause

LEMMA DroppedType ==
  ASSUME TypeOK, NEW S
  PROVE  Dropped(S) \in [Pause -> Mail]
  BY DEF Dropped, Mail, TypeOK, SendersType

LEMMA UnchangedTypes ==
  ASSUME TypeInv
  PROVE  /\ UNCHANGED live => LiveType'
         /\ UNCHANGED senders => SendersType'
         /\ UNCHANGED batch => BatchType'
         /\ UNCHANGED loop => (loop \in Loop)'
         /\ UNCHANGED client => ClientType'
         /\ UNCHANGED <<config, stopSent>> => ConfigType'
         /\ UNCHANGED <<loop, turns>> => Budget'
         /\ UNCHANGED handler => RememberIsGrant'
  BY DEF TypeOK, LiveType, SendersType, BatchType, ClientType, ConfigType, live,
       senders, batch, client, config, Budget, RememberIsGrant, TypeInv

LEMMA RequestType ==
  ASSUME TypeInv, NEW op \in {"approve", "gate", "remember", "answer", "hook"},
         NEW p \in Pause, NEW d \in Decision, NEW at \in {"check", "resolve"},
         op = "remember" => p.kind = "risky" /\ d = "grant",
         p # NoPause,
         Request(op, p, d, at)
  PROVE TypeInv'
<1>1. handler' \in Handler /\ RememberIsGrant'
  BY DEF Request, Handler, RememberIsGrant
<1>. QED  BY <1>1, UnchangedTypes DEF Request, TypeInv, TypeOK, ClientType, live,
     senders, batch, config

-----------------------------------------------------------------------------
LEMMA InitTypes == Init => TypeInv
<1>. SUFFICES ASSUME Init PROVE TypeInv
  OBVIOUS
<1>1. LiveType
  BY RunAssumption DEF Init, LiveType, Status, Turns, RunAssumption
<1>2. SendersType
  BY DEF Init, SendersType, Mail
<1>3. BatchType
  BY LegTypes DEF Init, BatchType
<1>4. loop \in Loop /\ Budget
  BY AtType DEF Init, Position, Budget, TurnAt
<1>5. ClientType /\ RememberIsGrant
  BY NoHandlerType DEF Init, ClientType, RememberIsGrant, NoHandler
<1>6. ConfigType
  BY DEF Init, ConfigType
<1>. QED  BY <1>1, <1>2, <1>3, <1>4, <1>5, <1>6 DEF TypeInv, TypeOK

(* Every step of the loop, of a call, of a client or of a handler keeps    *)
(* the types.                                                              *)
LEMMA StepTypes == TypeInv /\ [Next]_vars => TypeInv'
<1>. SUFFICES ASSUME TypeInv, [Next]_vars PROVE TypeInv'
  OBVIOUS
<1>1. CASE LoopTop
  BY <1>1, UnchangedTypes, AtType, FinishingType, RunAssumption DEF LoopTop, TypeInv,
       TypeOK, live, senders, batch, client, config, Position, Terminal, Budget, TurnAt,
       Turns, LiveType, RunAssumption
<1>2. CASE StreamStopped
  BY <1>2, UnchangedTypes, AtType DEF StreamStopped, TypeInv, TypeOK, live, senders,
       batch, client, config, Position, Terminal, Budget, TurnAt
<1>3. CASE StreamFails
  <2>. UNCHANGED live /\ UNCHANGED senders /\ UNCHANGED batch /\ UNCHANGED client
    /\ UNCHANGED <<config, stopSent>> /\ UNCHANGED <<turns, handler>>
    BY <1>3 DEF StreamFails, live, senders, batch, client, config
  <2>1. CASE loop.attempt < 3
    <3>1. PICK local \in {loop.local, CloudRun} : loop' = [loop EXCEPT !.attempt = @ +
         1, !.local = local]
      BY <1>3, <2>1 DEF StreamFails
    <3>2. loop.attempt + 1 \in 1..3
      BY <2>1 DEF TypeInv, TypeOK, Loop
    <3>3. local \in BOOLEAN
      BY RunAssumption DEF TypeInv, TypeOK, Loop, RunAssumption
    <3>4. loop' \in Loop
      BY <3>1, <3>2, <3>3 DEF TypeInv, TypeOK, Loop
    <3>5. loop'.at = loop.at
      BY <3>1 DEF TypeInv, TypeOK, Loop
    <3>. QED  BY <3>4, <3>5, UnchangedTypes DEF TypeInv, TypeOK, Budget, TurnAt
  <2>2. CASE ~(loop.attempt < 3)
    <3>1. loop' = Finishing("error")
      BY <1>3, <2>2 DEF StreamFails
    <3>2. loop' \in Loop /\ loop'.at = "finish"
      BY <3>1, FinishingType DEF Terminal
    <3>. QED  BY <3>2, UnchangedTypes DEF TypeInv, TypeOK, Budget, TurnAt
  <2>. QED  BY <2>1, <2>2
<1>4. CASE StreamReply
  <2>. UNCHANGED live /\ UNCHANGED senders /\ UNCHANGED batch /\ UNCHANGED client
    /\ UNCHANGED <<config, stopSent>> /\ UNCHANGED <<turns, handler>>
    BY <1>4 DEF StreamReply, live, senders, batch, client, config
  <2>1. loop' \in Loop
    BY <1>4, AtHookType, FinishingType DEF StreamReply, Position, Terminal
  <2>2. UNCHANGED turns /\ turns < MaxSteps
    BY <1>4 DEF StreamReply, Budget, TurnAt, TypeInv, live
  <2>3. Budget'
    BY <2>2 DEF Budget
  <2>. QED  BY <2>1, <2>3, UnchangedTypes DEF TypeInv, TypeOK
<1>5. CASE StreamDropped
  BY <1>5, UnchangedTypes, RunAssumption, AtType DEF StreamDropped, NextTurn, TypeInv,
       TypeOK, senders, batch, client, config, LiveType, Turns, Status, Terminal,
       RunAssumption, Budget, TurnAt, Position
<1>6. CASE StreamToolCalls
  BY <1>6, UnchangedTypes, AtType, LegTypes DEF StreamToolCalls, TypeInv, TypeOK, live,
       senders, client, config, BatchType, Position, Terminal, Budget, TurnAt, Leg
<1>7. CASE BatchOver
  BY <1>7, UnchangedTypes, AtHookType, LegTypes DEF BatchOver, TypeInv, TypeOK, live,
       senders, client, config, BatchType, Position, Terminal, Budget, TurnAt, Leg
<1>8. CASE HookAuto
  BY <1>8, UnchangedTypes, RunAssumption, AtType, FinishingType DEF HookAuto, NextTurn,
       TypeInv, TypeOK, live, senders, batch, client, config, LiveType, Turns, Status,
       Terminal, RunAssumption, Budget, TurnAt, Position, Loop
<1>9. CASE HookPost
  <2>1. LiveType' /\ SendersType'
    BY <1>9, HookPauseType DEF HookPost, TypeInv, TypeOK, LiveType, SendersType, Mail
  <2>2. AtHook("hook_announce", loop.had) \in Loop
    BY AtHookType DEF TypeInv, TypeOK, Loop, Position
  <2>. QED  BY <1>9, <2>1, <2>2, UnchangedTypes DEF HookPost, TypeInv, TypeOK, batch,
       client, config, Budget, TurnAt
<1>10. CASE HookAnnounce
  BY <1>10, UnchangedTypes, AtHookType DEF HookAnnounce, SetStatus, TypeInv, TypeOK,
       senders, batch, client, config, LiveType, Turns, Status, Terminal, Position,
       Budget, TurnAt, Loop
<1>11. CASE HookWake
  BY <1>11, UnchangedTypes, AtType, DroppedType, HookPauseType DEF HookWake, TypeInv,
       TypeOK, batch, client, config, LiveType, SendersType, Turns, Status, Terminal,
       Position, Budget, TurnAt, Loop, Mail
<1>12. CASE HookApply
  BY <1>12, UnchangedTypes, RunAssumption, AtType, FinishingType DEF HookApply,
       SetStatus, TypeInv, TypeOK, live, senders, batch, client, config, LiveType,
       Turns, Status, Terminal, RunAssumption, Budget, TurnAt, Position
<1>13. CASE Finish
  BY <1>13, UnchangedTypes, AtType DEF Finish, TypeInv, TypeOK, live, senders, batch,
       client, config, Position, Terminal, Budget, TurnAt, Loop
<1>14. CASE LoopMark
  BY <1>14, UnchangedTypes, AtType DEF LoopMark, MarkLive, TypeInv, TypeOK, senders,
       batch, client, config, LiveType, ConfigType, Turns, Status, Terminal, Position,
       Budget, TurnAt, Loop
<1>15. CASE LoopDrop
  BY <1>15, UnchangedTypes, AtType, DroppedType DEF LoopDrop, DropSenders, TypeInv,
       TypeOK, live, batch, client, config, SendersType, Position, Terminal, Budget,
       TurnAt, Mail
<1>16. CASE LoopPanics
  BY <1>16, UnchangedTypes, FinishingType, LegTypes DEF LoopPanics, TypeInv, TypeOK,
       live, senders, client, config, BatchType, Position, Terminal, Budget, TurnAt,
       Loop, Leg
<1>17. CASE RequestApprove
  <2>1. PICK p \in approvals \cap pendingApprovals, d \in {"grant", "deny"} :
               Request("approve", p, d, "resolve")
    BY <1>17 DEF RequestApprove
  <2>2. p \in Pause /\ p # NoPause
    BY NoPauseIsNone DEF TypeInv, TypeOK, SendersType
  <2>. QED  BY <2>1, <2>2, RequestType DEF Decision
<1>18. CASE RequestGate
  <2>1. gateSlot \in Pause /\ gateSlot # NoPause
    BY <1>18, NoPauseIsNone DEF RequestGate, TypeInv, TypeOK, SendersType
  <2>2. CASE \E d \in {"grant", "deny"} : Request("gate", gateSlot, d, "resolve")
    BY <2>1, <2>2, RequestType DEF Decision
  <2>3. CASE gateSlot.kind = "risky" /\ Request("remember", gateSlot, "grant",
       "resolve")
    BY <2>1, <2>3, RequestType DEF Decision
  <2>. QED  BY <1>18, <2>2, <2>3 DEF RequestGate
<1>19. CASE RequestAnswer
  <2>1. userQuestion \in Pause /\ userQuestion # NoPause
    BY <1>19, NoPauseIsNone DEF RequestAnswer, TypeInv, TypeOK, LiveType
  <2>. QED  BY <1>19, <2>1, RequestType DEF Decision, RequestAnswer
<1>20. CASE RequestHook
  <2>1. pendingHook \in Pause /\ pendingHook # NoPause
    BY <1>20, NoPauseIsNone DEF RequestHook, TypeInv, TypeOK, LiveType
  <2>. QED  BY <1>20, <2>1, RequestType DEF Decision, RequestHook
<1>21. CASE RequestStop
  <2>1. handler' \in Handler /\ RememberIsGrant'
    BY <1>21 DEF RequestStop, Request, Handler, RememberIsGrant, Decision
  <2>. QED  BY <1>21, <2>1, UnchangedTypes DEF RequestStop, Request, TypeInv, TypeOK,
       ClientType, live, senders, batch, config
<1>22. CASE SetHookMode
  BY <1>22, UnchangedTypes DEF SetHookMode, TypeInv, TypeOK, live, senders, batch,
       client, ConfigType
<1>23. CASE CheckId
  BY <1>23, UnchangedTypes, NoHandlerType DEF CheckId, Step, Reply, TypeInv, TypeOK,
       live, senders, batch, config, ClientType, Handler, NoHandler, RememberIsGrant
<1>24. CASE ResolveApproval
  <2>1. CASE handler.pause \in approvals
    <3>1. SendersType' /\ misrouted' \subseteq Pause
      BY <1>24, <2>1 DEF ResolveApproval, Deliver, TypeInv, TypeOK, SendersType,
           ClientType, Handler, Mail
    <3>2. handler' \in Handler /\ RememberIsGrant'
      BY <1>24, <2>1, NoHandlerType DEF ResolveApproval, Settle, Handler,
           RememberIsGrant, NoHandler
    <3>. QED  BY <1>24, <3>1, <3>2, UnchangedTypes DEF ResolveApproval, TypeInv, TypeOK,
         ClientType, live, batch, config
  <2>2. CASE handler.pause \notin approvals
    BY <1>24, <2>2, NoHandlerType, UnchangedTypes DEF ResolveApproval, Reply, NoHandler,
         TypeInv, TypeOK, ClientType, SendersType, RememberIsGrant, live, batch, config
  <2>. QED  BY <2>1, <2>2
<1>25. CASE ResolveGate
  <2>1. CASE handler.pause = gateSlot
    <3>1. handler.pause \in Pause /\ handler.decision \in Mail
      BY <1>25, <2>1 DEF ResolveGate, TypeInv, TypeOK, SendersType, ClientType, Handler,
           Mail, RememberIsGrant
    <3>2. SendersType' /\ misrouted' \subseteq Pause
      BY <1>25, <2>1, <3>1 DEF ResolveGate, Deliver, TypeInv, TypeOK, SendersType,
           ClientType
    <3>3. handler' \in Handler /\ RememberIsGrant'
      BY <1>25, <2>1, NoHandlerType DEF ResolveGate, Settle, Handler, RememberIsGrant,
           NoHandler
    <3>4. handler.op = "remember" => handler.pause.call \in Calls
      BY <3>1 DEF TypeInv, RememberIsGrant, Pause
    <3>5. ConfigType'
      BY <1>25, <2>1, <3>4 DEF ResolveGate, TypeInv, TypeOK, ConfigType
    <3>. QED  BY <1>25, <3>2, <3>3, <3>5, UnchangedTypes DEF ResolveGate, TypeInv,
         TypeOK, ClientType, live, batch
  <2>2. CASE handler.pause # gateSlot
    BY <1>25, <2>2, NoHandlerType, UnchangedTypes DEF ResolveGate, Reply, NoHandler,
         TypeInv, TypeOK, ClientType, SendersType, ConfigType, RememberIsGrant, live,
         batch
  <2>. QED  BY <2>1, <2>2
<1>26. CASE ResolveQuestion
  <2>1. CASE questionTx # NoPause
    <3>1. SendersType' /\ misrouted' \subseteq Pause
      BY <1>26, <2>1 DEF ResolveQuestion, Deliver, TypeInv, TypeOK, SendersType,
           ClientType, Handler, Mail, Decision
    <3>2. handler' \in Handler /\ RememberIsGrant'
      BY <1>26, <2>1, NoHandlerType DEF ResolveQuestion, Settle, Handler,
           RememberIsGrant, NoHandler
    <3>. QED  BY <1>26, <3>1, <3>2, UnchangedTypes DEF ResolveQuestion, TypeInv, TypeOK,
         ClientType, live, batch, config
  <2>2. CASE questionTx = NoPause
    BY <1>26, <2>2, NoHandlerType, UnchangedTypes DEF ResolveQuestion, Reply, NoHandler,
         TypeInv, TypeOK, ClientType, SendersType, RememberIsGrant, live, batch, config
  <2>. QED  BY <2>1, <2>2
<1>27. CASE ResolveHook
  <2>1. CASE hookWait # NoPause
    <3>1. SendersType' /\ misrouted' \subseteq Pause
      BY <1>27, <2>1 DEF ResolveHook, Deliver, TypeInv, TypeOK, SendersType, ClientType,
           Handler, Mail, Decision
    <3>2. handler' \in Handler /\ RememberIsGrant'
      BY <1>27, <2>1, NoHandlerType DEF ResolveHook, Settle, Handler, RememberIsGrant,
           NoHandler
    <3>. QED  BY <1>27, <3>1, <3>2, UnchangedTypes DEF ResolveHook, TypeInv, TypeOK,
         ClientType, live, batch, config
  <2>2. CASE hookWait = NoPause
    BY <1>27, <2>2, NoHandlerType, UnchangedTypes DEF ResolveHook, Reply, NoHandler,
         TypeInv, TypeOK, ClientType, SendersType, RememberIsGrant, live, batch, config
  <2>. QED  BY <2>1, <2>2
<1>28. CASE UnlistHook
  BY <1>28, UnchangedTypes, NoHandlerType DEF UnlistHook, Settle, TypeInv, TypeOK,
       senders, batch, config, LiveType, ClientType, Turns, Status, Terminal, Handler,
       NoHandler, RememberIsGrant
<1>29. CASE Recheck
  BY <1>29, UnchangedTypes, NoHandlerType DEF Recheck, Settle, Reply, TypeInv, TypeOK,
       live, senders, batch, config, ClientType, Handler, NoHandler, RememberIsGrant
<1>30. CASE SetRunning
  BY <1>30, UnchangedTypes, NoHandlerType DEF SetRunning, SetStatus, Reply, TypeInv,
       TypeOK, senders, batch, config, LiveType, ClientType, Turns, Status, Terminal,
       Handler, NoHandler, RememberIsGrant
<1>31. CASE StopSignal
  BY <1>31, UnchangedTypes, NoHandlerType DEF StopSignal, Step, TypeInv, TypeOK, live,
       senders, batch, config, ClientType, ConfigType, Handler, NoHandler,
       RememberIsGrant
<1>32. CASE StopMark
  BY <1>32, UnchangedTypes, NoHandlerType DEF StopMark, MarkLive, Step, TypeInv, TypeOK,
       senders, batch, config, LiveType, ClientType, Turns, Status, Terminal, Handler,
       NoHandler, RememberIsGrant
<1>33. CASE StopDrop
  BY <1>33, UnchangedTypes, DroppedType, NoHandlerType DEF StopDrop, DropSenders, Reply,
       TypeInv, TypeOK, live, batch, config, SendersType, ClientType, Mail, Handler,
       NoHandler, RememberIsGrant
<1>34. ASSUME NEW c \in Calls, StartCall(c) PROVE TypeInv'
  <2>1. PICK need \in Needs : SetLeg(c, Advance(need, need))
    BY <1>34 DEF StartCall
  <2>2. Advance(need, need) \in Leg
    BY AdvanceType, RunAssumption DEF RunAssumption
  <2>3. BatchType'
    BY <1>34, <2>1, <2>2 DEF StartCall, SetLeg, TypeInv, TypeOK, BatchType
  <2>. QED  BY <1>34, <2>3, UnchangedTypes DEF StartCall, TypeInv, TypeOK, live,
       senders, client, config
<1>35. ASSUME NEW c \in Calls, EnterApproval(c) PROVE TypeInv'
  BY <1>35, UnchangedTypes, LegTypes, PauseFacts DEF EnterApproval, SetLeg, TypeInv,
       TypeOK, live, client, config, SendersType, BatchType, Leg, CallKind, Mail
<1>36. ASSUME NEW c \in Calls, ListApproval(c) PROVE TypeInv'
  BY <1>36, UnchangedTypes, LegTypes, PauseFacts DEF ListApproval, SetLeg, TypeInv,
       TypeOK, senders, client, config, LiveType, BatchType, Turns, Status, Terminal,
       Leg, CallKind
<1>37. ASSUME NEW c \in Calls, EnterQuestion(c) PROVE TypeInv'
  BY <1>37, UnchangedTypes, LegTypes, DroppedType, PauseFacts DEF EnterQuestion, SetLeg,
       TypeInv, TypeOK, live, client, config, SendersType, BatchType, Leg, CallKind,
       Mail
<1>38. ASSUME NEW c \in Calls, ListQuestion(c) PROVE TypeInv'
  BY <1>38, UnchangedTypes, LegTypes, PauseFacts DEF ListQuestion, SetLeg, TypeInv,
       TypeOK, senders, client, config, LiveType, BatchType, Turns, Status, Terminal,
       Leg, CallKind
<1>39. ASSUME NEW c \in Calls, EnterGate(c) PROVE TypeInv'
  <2>. DEFINE k == leg[c].at
              p == PauseOf(c, k)
              l == [leg[c] EXCEPT !.step = "announce"]
  <2>1. k \in CallKind /\ p \in Pause
    BY <1>39, PauseFacts DEF EnterGate, GateKinds, CallKind, TypeInv
  <2>2. l \in Leg
    BY DEF TypeInv, TypeOK, BatchType, Leg
  <2>3. BatchType'
    BY <1>39, <2>2, LegAdvanceType, LegTypes DEF EnterGate, SetLeg, TypeInv, TypeOK,
         BatchType
  <2>4. SendersType'
    BY <1>39, <2>1 DEF EnterGate, TypeInv, TypeOK, SendersType, Mail
  <2>. QED  BY <1>39, <2>3, <2>4, UnchangedTypes DEF EnterGate, TypeInv, TypeOK, live,
       client, config
<1>40. ASSUME NEW c \in Calls, Announce(c) PROVE TypeInv'
  BY <1>40, UnchangedTypes, LegTypes DEF Announce, SetStatus, SetLeg, AwaitingStatus,
       TypeInv, TypeOK, senders, client, config, LiveType, BatchType, Turns, Status,
       Terminal, Leg
<1>41. ASSUME NEW c \in Calls, Park(c) PROVE TypeInv'
  BY <1>41, UnchangedTypes, LegTypes, PauseFacts DEF Park, SetLeg, TypeInv, TypeOK,
       live, senders, client, config, BatchType, Leg, CallKind
<1>42. ASSUME NEW c \in Calls, Resume(c) PROVE TypeInv'
  <2>. DEFINE k == leg[c].at
              p == PauseOf(c, k)
  <2>1. BatchType'
    BY <1>42, LegAdvanceType, LegTypes DEF Resume, SetLeg, TypeInv, TypeOK, BatchType
  <2>2. SendersType'
    BY <1>42, DroppedType DEF Resume, TypeInv, TypeOK, SendersType
  <2>3. LiveType' /\ UNCHANGED turns
    BY <1>42 DEF Resume, TypeInv, TypeOK, LiveType
  <2>. QED  BY <1>42, <2>1, <2>2, <2>3, UnchangedTypes DEF Resume, TypeInv, TypeOK,
       client, config
<1>43. ASSUME NEW c \in Calls, GiveUp(c) PROVE TypeInv'
  BY <1>43, UnchangedTypes, LegTypes, DroppedType, PauseFacts DEF GiveUp, SetLeg,
       TypeInv, TypeOK, client, config, LiveType, SendersType, BatchType, Turns, Status,
       Terminal, Leg, CallKind, Mail
<1>44. ASSUME NEW c \in Calls, AbortCall(c) PROVE TypeInv'
  BY <1>44, UnchangedTypes, LegTypes DEF AbortCall, SetLeg, TypeInv, TypeOK, live,
       senders, client, config, BatchType, Leg
<1>45. ASSUME NEW c \in Calls, Execute(c) PROVE TypeInv'
  <2>1. BatchType'
    BY <1>45, LegTypes DEF Execute, SetLeg, TypeInv, TypeOK, BatchType, Effect,
         LiveType, Leg
  <2>. QED  BY <1>45, <2>1, UnchangedTypes DEF Execute, TypeInv, TypeOK, live, senders,
       client, config
<1>46. CASE UNCHANGED vars
  <2>. UNCHANGED live /\ UNCHANGED senders /\ UNCHANGED batch /\ UNCHANGED client
    /\ UNCHANGED <<config, stopSent>> /\ UNCHANGED <<turns, handler>>
    BY <1>46 DEF vars, live, senders, batch, client, config
  <2>. QED  BY <1>46, UnchangedTypes DEF vars, TypeInv, TypeOK
<1>. QED
  BY <1>1, <1>2, <1>3, <1>4, <1>5, <1>6, <1>7, <1>8, <1>9, <1>10, <1>11, <1>12, <1>13,
       <1>14, <1>15, <1>16, <1>17, <1>18, <1>19, <1>20, <1>21, <1>22, <1>23, <1>24,
       <1>25, <1>26, <1>27, <1>28, <1>29, <1>30, <1>31, <1>32, <1>33, <1>34, <1>35,
       <1>36, <1>37, <1>38, <1>39, <1>40, <1>41, <1>42, <1>43, <1>44, <1>45, <1>46 DEF
       Next, LoopStep, CallStep, ClientStep, HandlerStep

(* The state of a run is well typed for every budget, batch size and set   *)
(* of gate requirements (the record and lock types of run.rs and gates.rs).*)
THEOREM TypeCorrect == Spec => []TypeOK
<1>1. Init => TypeInv
  BY InitTypes
<1>2. TypeInv /\ [Next]_vars => TypeInv'
  BY StepTypes
<1>3. TypeInv => TypeOK
  BY DEF TypeInv
<1>. QED  BY <1>1, <1>2, <1>3, PTL DEF Spec

-----------------------------------------------------------------------------
(****************************************************************************)
(* The human gates: a call runs only as granted, a decided pause stays     *)
(* decided, and the run implements the gates it promises.                  *)
(****************************************************************************)

(* A registered sender is of its own kind and still undecided.             *)
ApprovalsWait == \A p \in approvals : p.kind = "approval" /\ mail[p] = "waiting"
QuestionWaits ==
  questionTx # NoPause => questionTx.kind = "question" /\ mail[questionTx] = "waiting"
GateWaits == gateSlot # NoPause => gateSlot.kind \in GateKinds /\ mail[gateSlot] = "waiting"
HookWaits == hookWait # NoPause => hookWait.kind = "hook" /\ mail[hookWait] = "waiting"
SendersWait == ApprovalsWait /\ QuestionWaits /\ GateWaits /\ HookWaits

(* Calls are in flight only while the loop dispatches tools.               *)
LegsInBatch == \A c \in Calls : leg[c].at # "over" => loop.at = "tools"

(* A call waits only at a gate, and does not come back to the one it is at.*)
LegShape ==
  \A c \in Calls :
    /\ leg[c].step = "none" <=> leg[c].at \notin CallKind
    /\ leg[c].at \notin leg[c].left
    /\ leg[c].at = "exec" => leg[c].left = {}

(* A pause that the loop has still to reach was never posted.              *)
AheadOfLoop(p) ==
  \/ p.turn > turns
  \/ p.turn = turns /\ loop.at \in {"top", "stream"}
  \/ p.turn = turns /\ p.kind = "hook" /\ loop.at \in {"tools", "hook"}
AheadOfCall(p) ==
  /\ p.turn = turns
  /\ p.call \in Calls
  /\ \/ leg[p.call].at = "ready"
     \/ p.kind \in leg[p.call].left /\ leg[p.call].at # "over"
     \/ p.kind = leg[p.call].at /\ leg[p.call].step = "enter"
Ahead(p) == AheadOfLoop(p) \/ AheadOfCall(p)
Fresh == \A p \in Pause : Ahead(p) => mail[p] = "unposted"

(* A call in flight holds the grants of the gates it has passed.           *)
PassedGranted ==
  \A c \in Calls : leg[c].at \notin {"ready", "over"} =>
    \A k \in leg[c].need \ (leg[c].left \cup {leg[c].at}) :
      Granted([turn |-> turns, call |-> c, need |-> leg[c].need], k)

-----------------------------------------------------------------------------
(* The steps that touch a sender or a channel.                             *)
Posts(c) == EnterApproval(c) \/ EnterQuestion(c) \/ EnterGate(c) \/ Resume(c) \/ GiveUp(c)
Resolves == ResolveApproval \/ ResolveGate \/ ResolveQuestion \/ ResolveHook
Drops == LoopDrop \/ StopDrop
SenderStep == (\E c \in Calls : Posts(c)) \/ HookPost \/ HookWake \/ Resolves \/ Drops

LEMMA OtherSteps ==
  ASSUME [Next]_vars
  PROVE  SenderStep \/ UNCHANGED senders
<1>1. CASE LoopStep
  BY <1>1 DEF LoopStep, LoopTop, StreamStopped, StreamFails, StreamReply, StreamDropped,
     StreamToolCalls, BatchOver, HookAuto, HookAnnounce, HookApply, Finish, LoopMark, LoopPanics,
     SenderStep, Drops
<1>2. ASSUME NEW c \in Calls, CallStep(c) PROVE SenderStep \/ UNCHANGED senders
  BY <1>2 DEF CallStep, StartCall, ListApproval, ListQuestion, Announce, Park, AbortCall, Execute,
     SenderStep, Posts
<1>3. CASE ClientStep
  BY <1>3 DEF ClientStep, RequestApprove, RequestGate, RequestAnswer, RequestHook, RequestStop,
     Request, SetHookMode
<1>4. CASE HandlerStep
  BY <1>4 DEF HandlerStep, CheckId, UnlistHook, Recheck, SetRunning, StopSignal, StopMark,
     SenderStep, Resolves, Drops
<1>5. CASE UNCHANGED vars
  BY <1>5 DEF vars
<1>. QED  BY <1>1, <1>2, <1>3, <1>4, <1>5 DEF Next

(* A dropped sender closes its channel only while it is undecided.         *)
LEMMA DroppedFacts ==
  ASSUME NEW S, NEW p \in Pause
  PROVE  /\ p \notin S => Dropped(S)[p] = mail[p]
         /\ mail[p] # "waiting" => Dropped(S)[p] = mail[p]
  BY DEF Dropped

LEMMA KindOfPause ==
  ASSUME NEW c, NEW k
  PROVE  PauseOf(c, k).kind = k /\ HookPause.kind = "hook"
  BY DEF PauseOf, HookPause

LEMMA SendersWaitStep ==
  ASSUME TypeInv, SendersWait, [Next]_vars
  PROVE  SendersWait'
<1>. USE NoPauseIsNone, KindOfPause
<1>. approvals \subseteq Pause /\ questionTx \in Pause \cup {NoPause} /\ mail \in [Pause -> Mail]
     /\ gateSlot \in Pause \cup {NoPause} /\ hookWait \in Pause \cup {NoPause}
  BY DEF TypeInv, TypeOK, SendersType
<1>1. ASSUME NEW c \in Calls, EnterApproval(c) PROVE SendersWait'
  <2>. DEFINE p == PauseOf(c, "approval")
  <2>1. p \in Pause
    BY PauseFacts DEF TypeInv, CallKind
  <2>. HIDE DEF p
  <2>2. approvals' = approvals \cup {p} /\ mail' = [mail EXCEPT ![p] = "waiting"] /\ UNCHANGED <<questionTx, gateSlot, hookWait>>
    BY <1>1 DEF EnterApproval, p
  <2>3. p.kind = "approval"
    BY DEF p
  <2>. QED  BY <2>1, <2>2, <2>3 DEF SendersWait, ApprovalsWait, QuestionWaits, GateWaits, HookWaits
<1>2. ASSUME NEW c \in Calls, EnterQuestion(c) PROVE SendersWait'
  <2>. DEFINE p == PauseOf(c, "question")
  <2>1. p \in Pause /\ p.kind = "question"
    BY PauseFacts DEF TypeInv, CallKind
  <2>2. CASE UNCHANGED senders
    BY <2>2 DEF senders, SendersWait, ApprovalsWait, QuestionWaits, GateWaits, HookWaits
  <2>3. CASE questionTx' = p /\ mail' = [Dropped({questionTx}) EXCEPT ![p] = "waiting"]
             /\ UNCHANGED <<approvals, gateSlot, hookWait>>
    BY <2>1, <2>3, DroppedFacts, DroppedType DEF SendersWait, ApprovalsWait, QuestionWaits,
       GateWaits, HookWaits, TypeInv, GateKinds
  <2>. QED  BY <1>2, <2>2, <2>3 DEF EnterQuestion, senders
<1>3. ASSUME NEW c \in Calls, EnterGate(c) PROVE SendersWait'
  <2>. DEFINE p == PauseOf(c, leg[c].at)
  <2>1. p \in Pause /\ p.kind \in GateKinds
    BY <1>3, PauseFacts DEF TypeInv, CallKind, GateKinds, EnterGate
  <2>2. CASE UNCHANGED senders
    BY <2>2 DEF senders, SendersWait, ApprovalsWait, QuestionWaits, GateWaits, HookWaits
  <2>3. CASE gateSlot' = p /\ mail' = [mail EXCEPT ![p] = "waiting"]
             /\ UNCHANGED <<approvals, questionTx, hookWait>>
    BY <2>1, <2>3 DEF SendersWait, ApprovalsWait, QuestionWaits, GateWaits, HookWaits
  <2>. QED  BY <1>3, <2>2, <2>3 DEF EnterGate, senders
<1>4. ASSUME NEW c \in Calls, Resume(c) PROVE SendersWait'
  <2>1. CASE UNCHANGED senders
    BY <2>1 DEF senders, SendersWait, ApprovalsWait, QuestionWaits, GateWaits, HookWaits
  <2>2. CASE questionTx' = NoPause /\ mail' = Dropped({questionTx})
             /\ UNCHANGED <<approvals, gateSlot, hookWait>>
    BY <2>2, DroppedFacts DEF SendersWait, ApprovalsWait, QuestionWaits, GateWaits, HookWaits,
       GateKinds
  <2>. QED  BY <1>4, <2>1, <2>2 DEF Resume, senders
<1>5. ASSUME NEW c \in Calls, GiveUp(c) PROVE SendersWait'
  <2>. DEFINE k == leg[c].at
              p == PauseOf(c, k)
              S == {p} \cup (IF k = "question" THEN {questionTx} ELSE {})
                       \cup (IF k \in GateKinds THEN {gateSlot} ELSE {})
  <2>1. /\ approvals' = approvals \ {p}
        /\ questionTx' = IF k = "question" THEN NoPause ELSE questionTx
        /\ gateSlot' = IF k \in GateKinds THEN NoPause ELSE gateSlot
        /\ UNCHANGED hookWait
        /\ mail' = Dropped(S)
    BY <1>5 DEF GiveUp
  <2>2. p.kind = k /\ k # "hook"
    BY DEF TypeInv, TypeOK, BatchType, Leg, CallKind
  <2>3. ApprovalsWait'
    BY <2>1, <2>2, DroppedFacts DEF SendersWait, ApprovalsWait, QuestionWaits, GateWaits, GateKinds
  <2>4. QuestionWaits'
    <3>1. CASE questionTx = NoPause
      BY <2>1, <3>1 DEF QuestionWaits
    <3>2. CASE questionTx \in Pause /\ k # "question"
      <4>1. questionTx.kind = "question" /\ mail[questionTx] = "waiting"
        BY <3>2 DEF SendersWait, QuestionWaits
      <4>2. questionTx \notin S
        BY <2>2, <3>2, <4>1 DEF SendersWait, GateWaits, GateKinds
      <4>. QED  BY <2>1, <3>2, <4>1, <4>2, DroppedFacts DEF QuestionWaits
    <3>3. CASE k = "question"
      BY <2>1, <3>3 DEF QuestionWaits
    <3>. QED  BY <3>1, <3>2, <3>3
  <2>5. GateWaits'
    BY <2>1, <2>2, DroppedFacts DEF SendersWait, QuestionWaits, GateWaits, GateKinds
  <2>6. HookWaits'
    BY <2>1, <2>2, DroppedFacts DEF SendersWait, QuestionWaits, GateWaits, HookWaits, GateKinds
  <2>. QED  BY <2>3, <2>4, <2>5, <2>6 DEF SendersWait
<1>6. CASE HookPost
  <2>1. hookWait' = HookPause /\ mail' = [mail EXCEPT ![HookPause] = "waiting"]
        /\ UNCHANGED <<approvals, questionTx, gateSlot>>
    BY <1>6 DEF HookPost
  <2>. QED  BY <2>1, HookPauseType DEF SendersWait, ApprovalsWait, QuestionWaits, GateWaits,
     HookWaits, TypeInv
<1>7. CASE HookWake
  <2>1. hookWait' = NoPause /\ mail' = Dropped({HookPause, hookWait})
        /\ UNCHANGED <<approvals, questionTx, gateSlot>>
    BY <1>7 DEF HookWake
  <2>. QED  BY <2>1, DroppedFacts DEF SendersWait, ApprovalsWait, QuestionWaits, GateWaits,
     HookWaits, GateKinds
<1>8. CASE Drops
  BY <1>8 DEF Drops, LoopDrop, StopDrop, DropSenders, SendersWait, ApprovalsWait, QuestionWaits,
     GateWaits, HookWaits
<1>9. CASE ResolveApproval
  BY <1>9 DEF ResolveApproval, Deliver, SendersWait, ApprovalsWait, QuestionWaits, GateWaits,
     HookWaits, GateKinds
<1>10. CASE ResolveGate
  BY <1>10 DEF ResolveGate, Deliver, SendersWait, ApprovalsWait, QuestionWaits, GateWaits,
     HookWaits, GateKinds, TypeInv, RememberIsGrant
<1>11. CASE ResolveQuestion
  BY <1>11 DEF ResolveQuestion, Deliver, SendersWait, ApprovalsWait, QuestionWaits, GateWaits,
     HookWaits, GateKinds
<1>12. CASE ResolveHook
  BY <1>12 DEF ResolveHook, Deliver, SendersWait, ApprovalsWait, QuestionWaits, GateWaits,
     HookWaits, GateKinds
<1>13. CASE UNCHANGED senders
  BY <1>13 DEF senders, SendersWait, ApprovalsWait, QuestionWaits, GateWaits, HookWaits
<1>. QED  BY <1>1, <1>2, <1>3, <1>4, <1>5, <1>6, <1>7, <1>8, <1>9, <1>10, <1>11, <1>12, <1>13,
   OtherSteps
     DEF SenderStep, Posts, Resolves

(* A channel is posted once, decided only while it waits, and then keeps   *)
(* what it carries.                                                        *)
MailMoves ==
  \A p \in Pause :
    \/ mail'[p] = mail[p]
    \/ mail[p] = "unposted" /\ mail'[p] = "waiting"
    \/ mail[p] = "waiting" /\ mail'[p] \notin {"unposted", "waiting"}

LEMMA PostMoves ==
  ASSUME TypeInv, Fresh, NEW c \in Calls,
         leg[c].at \in CallKind, leg[c].step = "enter"
  PROVE  mail[PauseOf(c, leg[c].at)] = "unposted"
<1>1. PauseOf(c, leg[c].at) \in Pause
  BY PauseFacts DEF TypeInv
<1>2. Ahead(PauseOf(c, leg[c].at))
  BY DEF Ahead, AheadOfCall, PauseOf
<1>. QED  BY <1>1, <1>2 DEF Fresh

LEMMA MailStep ==
  ASSUME TypeInv, SendersWait, Fresh, [Next]_vars
  PROVE  MailMoves
<1>. approvals \subseteq Pause /\ questionTx \in Pause \cup {NoPause} /\ mail \in [Pause -> Mail]
     /\ gateSlot \in Pause \cup {NoPause} /\ hookWait \in Pause \cup {NoPause}
  BY DEF TypeInv, TypeOK, SendersType
<1>1. ASSUME NEW S, mail' = Dropped(S) PROVE MailMoves
  BY <1>1 DEF MailMoves, Dropped
<1>2. ASSUME NEW p \in Pause, mail[p] = "unposted", mail' = [mail EXCEPT ![p] = "waiting"]
      PROVE  MailMoves
  BY <1>2 DEF MailMoves
<1>3. ASSUME NEW p \in Pause, mail[p] = "waiting", NEW d \in Decision, mail' = [mail EXCEPT ![p] = d]
      PROVE  MailMoves
  BY <1>3 DEF MailMoves, Decision
<1>4. CASE UNCHANGED mail
  BY <1>4 DEF MailMoves
<1>5. ASSUME NEW c \in Calls, EnterApproval(c) PROVE MailMoves
  BY <1>2, <1>5, PostMoves, PauseFacts DEF EnterApproval, CallKind, TypeInv
<1>6. ASSUME NEW c \in Calls, EnterQuestion(c) PROVE MailMoves
  <2>. DEFINE p == PauseOf(c, "question")
  <2>1. p \in Pause /\ mail[p] = "unposted"
    BY <1>6, PostMoves, PauseFacts DEF EnterQuestion, CallKind, TypeInv
  <2>2. CASE mail' = [Dropped({questionTx}) EXCEPT ![p] = "waiting"]
    BY <2>1, <2>2 DEF MailMoves, Dropped
  <2>. QED  BY <1>4, <1>6, <2>2 DEF EnterQuestion
<1>7. ASSUME NEW c \in Calls, EnterGate(c) PROVE MailMoves
  <2>1. leg[c].at \in CallKind /\ leg[c].step = "enter"
    BY <1>7 DEF EnterGate, GateKinds, CallKind
  <2>2. PauseOf(c, leg[c].at) \in Pause /\ mail[PauseOf(c, leg[c].at)] = "unposted"
    BY <2>1, PostMoves, PauseFacts DEF TypeInv
  <2>. QED  BY <1>2, <1>4, <1>7, <2>2 DEF EnterGate
<1>8. ASSUME NEW c \in Calls, Resume(c) PROVE MailMoves
  BY <1>1, <1>4, <1>8 DEF Resume
<1>9. ASSUME NEW c \in Calls, GiveUp(c) PROVE MailMoves
  BY <1>1, <1>9 DEF GiveUp
<1>10. CASE HookPost
  <2>1. HookPause \in Pause /\ Ahead(HookPause)
    BY <1>10, HookPauseType DEF TypeInv, HookPost, Ahead, AheadOfLoop, HookPause, PauseOf
  <2>. QED  BY <1>2, <1>10, <2>1 DEF HookPost, Fresh
<1>11. CASE HookWake
  BY <1>1, <1>11 DEF HookWake
<1>12. CASE Drops
  BY <1>1, <1>12 DEF Drops, LoopDrop, StopDrop, DropSenders
<1>13. CASE Resolves
  <2>1. handler.decision \in Decision /\ (handler.pause = gateSlot /\ handler.at = "resolve" => gateSlot # NoPause)
    BY DEF TypeInv, TypeOK, ClientType, Handler, RememberIsGrant
  <2>2. CASE ResolveApproval
    BY <1>3, <1>4, <2>1, <2>2 DEF ResolveApproval, Deliver, SendersWait, ApprovalsWait
  <2>3. CASE ResolveGate
    BY <1>3, <1>4, <2>1, <2>3 DEF ResolveGate, Deliver, SendersWait, GateWaits
  <2>4. CASE ResolveQuestion
    <3>1. "grant" \in Decision
      BY DEF Decision
    <3>. QED  BY <1>3, <1>4, <2>4, <3>1 DEF ResolveQuestion, Deliver, SendersWait, QuestionWaits
  <2>5. CASE ResolveHook
    BY <1>3, <1>4, <2>1, <2>5 DEF ResolveHook, Deliver, SendersWait, HookWaits
  <2>. QED  BY <1>13, <2>2, <2>3, <2>4, <2>5 DEF Resolves
<1>14. CASE UNCHANGED senders
  BY <1>4, <1>14 DEF senders
<1>. QED  BY <1>5, <1>6, <1>7, <1>8, <1>9, <1>10, <1>11, <1>12, <1>13, <1>14, OtherSteps
     DEF SenderStep, Posts

(* A remembered command is never forgotten.                                *)
LEMMA ApprovedGrows ==
  ASSUME [Next]_vars
  PROVE  approved \subseteq approved'
<1>1. CASE LoopStep
  BY <1>1 DEF LoopStep, LoopTop, StreamStopped, StreamFails, StreamReply, StreamDropped,
     StreamToolCalls, BatchOver, HookAuto, HookPost, HookAnnounce, HookWake, HookApply, Finish,
     LoopMark, LoopDrop, LoopPanics, config
<1>2. ASSUME NEW c \in Calls, CallStep(c) PROVE approved \subseteq approved'
  BY <1>2 DEF CallStep, StartCall, EnterApproval, ListApproval, EnterQuestion, ListQuestion,
     EnterGate, Announce, Park, Resume, GiveUp, AbortCall, Execute, config
<1>3. CASE ClientStep
  BY <1>3 DEF ClientStep, RequestApprove, RequestGate, RequestAnswer, RequestHook, RequestStop,
     Request, SetHookMode, config
<1>4. CASE HandlerStep
  BY <1>4 DEF HandlerStep, CheckId, ResolveApproval, ResolveGate, ResolveQuestion, ResolveHook,
     UnlistHook, Recheck, SetRunning, StopSignal, StopMark, StopDrop, config
<1>5. CASE UNCHANGED vars
  BY <1>5 DEF vars, config
<1>. QED  BY <1>1, <1>2, <1>3, <1>4, <1>5 DEF Next

(* What was granted stays granted.                                         *)
LEMMA GrantsStay ==
  ASSUME TypeInv, SendersWait, Fresh, [Next]_vars, NEW r \in Effect, NEW k \in CallKind,
         Granted(r, k)
  PROVE  Granted(r, k)'
<1>. DEFINE p == [turn |-> r.turn, call |-> r.call, kind |-> k]
<1>1. p \in Pause
  BY DEF Effect, Pause
<1>2. mail[p] = "grant" => mail'[p] = "grant"
  BY <1>1, MailStep DEF MailMoves
<1>3. approved \subseteq approved'
  BY ApprovedGrows
<1>. QED  BY <1>2, <1>3 DEF Granted

-----------------------------------------------------------------------------
(* The ways a call moves: it ends, it starts, it passes the gate it is at, *)
(* or it gets further in it.                                               *)
Ends(c, l) == l = Over
Starts(c, l) == leg[c].at = "ready" /\ \E need \in Needs : l = Advance(need, need)
Passes(c, l) ==
  /\ leg[c].at \in CallKind
  /\ l = Advance(leg[c].need, leg[c].left)
  /\ Granted([turn |-> turns, call |-> c, need |-> leg[c].need], leg[c].at)
Proceeds(c, l) ==
  /\ leg[c].at \in CallKind
  /\ \E s \in {"list", "announce", "poll", "wait"} : l = [leg[c] EXCEPT !.step = s]
Moves(c, l) ==
  leg' = [leg EXCEPT ![c] = l] /\ (Ends(c, l) \/ Starts(c, l) \/ Passes(c, l) \/ Proceeds(c, l))

LEMMA LegMoves ==
  ASSUME TypeInv, LegShape, NEW c \in Calls, CallStep(c)
  PROVE  UNCHANGED <<turns, loop>> /\ leg[c].at # "over" /\ \E l : Moves(c, l)
<1>. DEFINE Goal == UNCHANGED <<turns, loop>> /\ leg[c].at # "over" /\ \E l : Moves(c, l)
<1>0. leg[c].step # "none" => leg[c].at \in CallKind
  BY DEF LegShape
<1>. "over" \notin CallKind /\ "exec" \notin CallKind /\ "ready" \notin CallKind
  BY DEF CallKind
<1>1. CASE StartCall(c)
  BY <1>1 DEF StartCall, SetLeg, Startable, live, Moves, Starts
<1>2. CASE EnterApproval(c)
  BY <1>0, <1>2 DEF EnterApproval, SetLeg, live, Moves, Proceeds
<1>3. CASE ListApproval(c)
  BY <1>0, <1>3 DEF ListApproval, SetLeg, live, Moves, Proceeds
<1>4. CASE EnterQuestion(c)
  BY <1>0, <1>4 DEF EnterQuestion, SetLeg, live, Moves, Proceeds, Ends
<1>5. CASE ListQuestion(c)
  BY <1>0, <1>5 DEF ListQuestion, SetLeg, live, Moves, Proceeds
<1>6. CASE EnterGate(c)
  <2>1. CASE leg[c].at = "risky" /\ c \in approved
    <3>1. Passes(c, Advance(leg[c].need, leg[c].left))
      BY <1>0, <1>6, <2>1 DEF EnterGate, Passes, Granted
    <3>. QED  BY <1>0, <1>6, <2>1, <3>1 DEF EnterGate, SetLeg, live, Moves
  <2>2. CASE ~(leg[c].at = "risky" /\ c \in approved)
    BY <1>0, <1>6, <2>2 DEF EnterGate, SetLeg, live, Moves, Proceeds, Ends
  <2>. QED  BY <2>1, <2>2
<1>7. CASE Announce(c)
  BY <1>0, <1>7 DEF Announce, SetLeg, SetStatus, Moves, Proceeds
<1>8. CASE Park(c)
  BY <1>0, <1>8 DEF Park, SetLeg, live, Moves, Proceeds
<1>9. CASE Resume(c)
  <2>1. CASE mail[PauseOf(c, leg[c].at)] = "grant"
    <3>1. Passes(c, Advance(leg[c].need, leg[c].left))
      BY <1>0, <1>9, <2>1 DEF Resume, Passes, Granted, PauseOf
    <3>. QED  BY <1>0, <1>9, <2>1, <3>1 DEF Resume, SetLeg, Moves
  <2>2. CASE mail[PauseOf(c, leg[c].at)] # "grant"
    BY <1>0, <1>9, <2>2 DEF Resume, SetLeg, Moves, Ends
  <2>. QED  BY <2>1, <2>2
<1>10. CASE GiveUp(c)
  BY <1>0, <1>10 DEF GiveUp, SetLeg, Moves, Ends
<1>11. CASE AbortCall(c)
  BY <1>0, <1>11 DEF AbortCall, SetLeg, Startable, live, Moves, Ends
<1>12. CASE Execute(c)
  BY <1>12 DEF Execute, SetLeg, live, Moves, Ends
<1>. QED  BY <1>1, <1>2, <1>3, <1>4, <1>5, <1>6, <1>7, <1>8, <1>9, <1>10, <1>11, <1>12 DEF CallStep

(* The steps that leave every call where it is.                            *)
LEMMA OtherLegSteps ==
  ASSUME [Next]_vars
  PROVE  StreamToolCalls \/ LoopPanics \/ (\E c \in Calls : CallStep(c)) \/ UNCHANGED leg
<1>1. CASE LoopStep
  BY <1>1 DEF LoopStep, LoopTop, StreamStopped, StreamFails, StreamReply, StreamDropped,
     BatchOver, HookAuto, HookPost, HookAnnounce, HookWake, HookApply, Finish, LoopMark, LoopDrop, batch
<1>2. CASE ClientStep
  BY <1>2 DEF ClientStep, RequestApprove, RequestGate, RequestAnswer, RequestHook, RequestStop,
     Request, SetHookMode, batch
<1>3. CASE HandlerStep
  BY <1>3 DEF HandlerStep, CheckId, ResolveApproval, ResolveGate, ResolveQuestion, ResolveHook,
     UnlistHook, Recheck, SetRunning, StopSignal, StopMark, StopDrop, batch
<1>4. CASE UNCHANGED vars
  BY <1>4 DEF vars, batch
<1>. QED  BY <1>1, <1>2, <1>3, <1>4 DEF Next

LEMMA AdvanceFacts ==
  ASSUME NEW need \in SUBSET CallKind, NEW left \in SUBSET CallKind
  PROVE  /\ Advance(need, left).need = need
         /\ Advance(need, left).left = left \ {Advance(need, left).at}
         /\ \/ Advance(need, left).at \in left
            \/ Advance(need, left).at = "exec" /\ left = {}
         /\ Advance(need, left).step = "none" <=> Advance(need, left).at \notin CallKind
         /\ Advance(need, left).step \in {"none", "enter"}
  BY FirstGateFacts DEF Advance, CallKind

(* The shape of a call that has just been advanced.                        *)
LEMMA AdvanceShape ==
  ASSUME NEW need \in SUBSET CallKind, NEW left \in SUBSET CallKind,
         NEW l, l = Advance(need, left)
  PROVE  /\ l.step = "none" <=> l.at \notin CallKind
         /\ l.at \notin l.left
         /\ l.at = "exec" => l.left = {}
         /\ l.at \notin {"ready", "over"}
         /\ l.left \subseteq left
         /\ l.step \in {"none", "enter"}
         /\ l.step = "enter" => l.at \in left
<1>1. l.step = "none" <=> l.at \notin CallKind
  BY AdvanceFacts
<1>2. l.left = left \ {l.at}
  BY AdvanceFacts
<1>3. l.at \in left \/ (l.at = "exec" /\ left = {})
  BY AdvanceFacts
<1>4. {"exec", "ready", "over"} \cap left = {} /\ "exec" \notin CallKind
  BY DEF CallKind
<1>5. l.step \in {"none", "enter"}
  BY AdvanceFacts
<1>. QED  BY <1>1, <1>2, <1>3, <1>4, <1>5

(* It keeps what it needed and loses no gate but the one it is at.         *)
LEMMA AdvanceKeeps ==
  ASSUME NEW need \in SUBSET CallKind, NEW left \in SUBSET CallKind,
         NEW l, l = Advance(need, left)
  PROVE  l.need = need /\ left \subseteq l.left \cup {l.at}
<1>1. l.need = need
  BY AdvanceFacts
<1>2. l.left = left \ {l.at}
  BY AdvanceFacts
<1>. QED  BY <1>1, <1>2

LEMMA LegShapeStep ==
  ASSUME TypeInv, LegShape, [Next]_vars
  PROVE  LegShape'
<1>. leg \in [Calls -> Leg]
  BY DEF TypeInv, TypeOK, BatchType
<1>1. CASE UNCHANGED leg
  BY <1>1 DEF LegShape
<1>2. CASE StreamToolCalls
  BY <1>2 DEF StreamToolCalls, LegShape, Ready, Over, CallKind
<1>3. CASE LoopPanics
  BY <1>3 DEF LoopPanics, LegShape, Over, CallKind
<1>4. ASSUME NEW c \in Calls, CallStep(c) PROVE LegShape'
  <2>1. PICK l : Moves(c, l)
    BY <1>4, LegMoves
  <2>. leg[c] \in Leg /\ leg' = [leg EXCEPT ![c] = l]
    BY <2>1 DEF Moves
  <2>. SUFFICES /\ l.step = "none" <=> l.at \notin CallKind
                /\ l.at \notin l.left
                /\ l.at = "exec" => l.left = {}
    BY DEF LegShape
  <2>2. CASE Ends(c, l)
    BY <2>2 DEF Ends, Over, CallKind
  <2>3. CASE Starts(c, l)
    <3>1. PICK need \in SUBSET CallKind : l = Advance(need, need)
      BY <2>3, RunAssumption DEF Starts, RunAssumption
    <3>. QED  BY <3>1, AdvanceShape
  <2>4. CASE Passes(c, l)
    <3>1. PICK need \in SUBSET CallKind, left \in SUBSET CallKind : l = Advance(need, left)
      BY <2>4 DEF Passes, Leg
    <3>. QED  BY <3>1, AdvanceShape
  <2>5. CASE Proceeds(c, l)
    BY <2>5 DEF Proceeds, LegShape, Leg, CallKind
  <2>. QED  BY <2>1, <2>2, <2>3, <2>4, <2>5 DEF Moves
<1>. QED  BY <1>1, <1>2, <1>3, <1>4, OtherLegSteps

-----------------------------------------------------------------------------
LEMMA LegsInBatchStep ==
  ASSUME TypeInv, LegsInBatch, LegShape, [Next]_vars
  PROVE  LegsInBatch'
<1>. leg \in [Calls -> Leg]
  BY DEF TypeInv, TypeOK, BatchType
<1>1. CASE LoopStep
  <2>1. CASE StreamToolCalls
    BY <2>1, AtType DEF StreamToolCalls, LegsInBatch, Position
  <2>2. CASE LoopPanics
    BY <2>2 DEF LoopPanics, LegsInBatch, Over
  <2>3. CASE loop.at # "tools" /\ UNCHANGED leg
    BY <2>3 DEF LegsInBatch
  <2>4. CASE BatchOver
    BY <2>4 DEF BatchOver, LegsInBatch
  <2>. QED  BY <1>1, <2>1, <2>2, <2>3, <2>4 DEF LoopStep, LoopTop, StreamStopped, StreamFails,
       StreamReply, StreamDropped, HookAuto, HookPost, HookAnnounce, HookWake, HookApply, Finish,
       LoopMark, LoopDrop, batch
<1>2. ASSUME NEW c \in Calls, CallStep(c) PROVE LegsInBatch'
  BY <1>2, LegMoves DEF LegsInBatch, Moves
<1>3. CASE ClientStep
  BY <1>3 DEF ClientStep, RequestApprove, RequestGate, RequestAnswer, RequestHook, RequestStop,
     Request, SetHookMode, batch, LegsInBatch
<1>4. CASE HandlerStep
  BY <1>4 DEF HandlerStep, CheckId, ResolveApproval, ResolveGate, ResolveQuestion, ResolveHook,
     UnlistHook, Recheck, SetRunning, StopSignal, StopMark, StopDrop, batch, LegsInBatch
<1>5. CASE UNCHANGED vars
  BY <1>5 DEF vars, batch, LegsInBatch
<1>. QED  BY <1>1, <1>2, <1>3, <1>4, <1>5 DEF Next

(* The loop and its calls only move forward: what is ahead after a step    *)
(* was ahead before it.                                                    *)
NothingComesBack == \A p \in Pause : Ahead(p)' => Ahead(p)

LEMMA AheadStep ==
  ASSUME TypeInv, LegShape, LegsInBatch, [Next]_vars
  PROVE  NothingComesBack
<1>. leg \in [Calls -> Leg] /\ turns \in Nat /\ MaxSteps \in Nat
  BY RunAssumption DEF TypeInv, TypeOK, BatchType, LiveType, Turns, RunAssumption
<1>. SUFFICES ASSUME NEW p \in Pause, Ahead(p)' PROVE Ahead(p)
  BY DEF NothingComesBack
<1>. p.turn \in Nat
  BY DEF Pause, Turns
<1>1. CASE LoopStep
  <2>1. CASE StreamToolCalls
    BY <2>1, AtType DEF StreamToolCalls, Ahead, AheadOfLoop, AheadOfCall, Position, live
  <2>2. CASE LoopPanics
    BY <2>2, FinishingType DEF LoopPanics, Ahead, AheadOfLoop, AheadOfCall, Terminal, live, Over
  <2>3. CASE UNCHANGED <<leg, turns>> /\ loop'.at \notin {"top", "stream", "hook", "tools"}
    BY <2>3 DEF Ahead, AheadOfLoop, AheadOfCall
  <2>4. CASE UNCHANGED <<leg, turns>> /\ loop.at \in {"top", "stream"}
    BY <2>4 DEF Ahead, AheadOfLoop, AheadOfCall
  <2>5. CASE UNCHANGED <<leg, turns>> /\ loop.at = "tools" /\ loop'.at = "hook"
    BY <2>5 DEF Ahead, AheadOfLoop, AheadOfCall
  <2>6. CASE turns' = turns + 1
    BY <2>6 DEF Ahead, AheadOfLoop, AheadOfCall
  <2>7. CASE LoopTop \/ StreamStopped \/ StreamFails \/ StreamReply
    BY <2>4, <2>7 DEF LoopTop, StreamStopped, StreamFails, StreamReply, live, batch
  <2>8. CASE StreamDropped
    BY <2>6, <2>8 DEF StreamDropped, NextTurn
  <2>9. CASE BatchOver
    BY <2>5, <2>9, AtHookType DEF BatchOver, live, Position
  <2>10. CASE HookAuto
    BY <2>3, <2>6, <2>10, FinishingType DEF HookAuto, NextTurn, live, batch, Terminal
  <2>11. CASE HookPost \/ HookAnnounce
    <3>1. loop.had \in BOOLEAN
      BY DEF TypeInv, TypeOK, Loop
    <3>2. loop'.at \in {"hook_announce", "hook_wait"}
      BY <2>11, <3>1, AtHookType DEF HookPost, HookAnnounce, Position
    <3>. QED  BY <2>3, <2>11, <3>2 DEF HookPost, HookAnnounce, SetStatus, batch
  <2>12. CASE HookWake
    <3>1. PICK d : loop' = [At("hook_apply") EXCEPT !.decision = d]
      BY <2>12 DEF HookWake
    <3>2. loop'.at = "hook_apply"
      BY <3>1 DEF At
    <3>. QED  BY <2>3, <2>12, <3>2 DEF HookWake, batch
  <2>13. CASE HookApply
    BY <2>3, <2>6, <2>13, FinishingType DEF HookApply, SetStatus, live, batch, Terminal
  <2>14. CASE Finish \/ LoopMark \/ LoopDrop
    <3>1. loop'.at \in {"exited", "mark", "drop"}
      BY <2>14, AtType DEF Finish, LoopMark, LoopDrop, Position, TypeInv, TypeOK, Loop
    <3>. QED  BY <2>3, <2>14, <3>1 DEF Finish, LoopMark, LoopDrop, MarkLive, live, batch
  <2>. QED  BY <1>1, <2>1, <2>2, <2>7, <2>8, <2>9, <2>10, <2>11, <2>12, <2>13, <2>14 DEF LoopStep
<1>2. ASSUME NEW c \in Calls, CallStep(c) PROVE Ahead(p)
  <2>1. UNCHANGED <<turns, loop>> /\ leg[c].at # "over"
    BY <1>2, LegMoves
  <2>2. PICK l : Moves(c, l)
    BY <1>2, LegMoves
  <2>3. leg' = [leg EXCEPT ![c] = l] /\ leg[c] \in Leg
    BY <2>2 DEF Moves
  <2>4. CASE AheadOfLoop(p)' \/ p.call # c
    BY <2>1, <2>3, <2>4 DEF Ahead, AheadOfLoop, AheadOfCall
  <2>5. CASE AheadOfCall(p)' /\ p.call = c
    <3>1. p.turn = turns /\ (l.at = "ready" \/ (p.kind \in l.left /\ l.at # "over") \/ (p.kind = l.at /\ l.step = "enter"))
      BY <2>1, <2>3, <2>5 DEF AheadOfCall
    <3>2. CASE Ends(c, l)
      BY <3>1, <3>2 DEF Ends, Over
    <3>3. CASE Starts(c, l)
      BY <3>1, <3>3, <2>5 DEF Starts, Ahead, AheadOfCall
    <3>4. CASE Passes(c, l)
      <4>1. leg[c].need \in SUBSET CallKind /\ leg[c].left \in SUBSET CallKind
        BY <2>3 DEF Leg
      <4>2. l.left \subseteq leg[c].left /\ l.at # "ready" /\ (l.step = "enter" => l.at \in leg[c].left)
        <5>1. PICK need, left : need = leg[c].need /\ left = leg[c].left
          OBVIOUS
        <5>3. need \in SUBSET CallKind /\ left \in SUBSET CallKind /\ l = Advance(need, left)
          BY <3>4, <4>1, <5>1 DEF Passes
        <5>2. l.left \subseteq left /\ l.at # "ready" /\ (l.step = "enter" => l.at \in left)
          BY <5>3, AdvanceShape
        <5>. QED  BY <5>1, <5>2
      <4>. QED  BY <2>1, <2>5, <3>1, <4>2 DEF Ahead, AheadOfCall
    <3>5. CASE Proceeds(c, l)
      <4>1. l.at = leg[c].at /\ l.left = leg[c].left /\ l.step # "enter" /\ l.at # "ready"
        BY <2>3, <3>5 DEF Proceeds, Leg, CallKind
      <4>. QED  BY <2>5, <3>1, <4>1 DEF Ahead, AheadOfCall
    <3>. QED  BY <2>2, <3>2, <3>3, <3>4, <3>5 DEF Moves
  <2>. QED  BY <2>4, <2>5 DEF Ahead
<1>3. CASE ClientStep
  BY <1>3 DEF ClientStep, RequestApprove, RequestGate, RequestAnswer, RequestHook, RequestStop,
     Request, SetHookMode, batch, live, Ahead, AheadOfLoop, AheadOfCall
<1>4. CASE HandlerStep
  BY <1>4 DEF HandlerStep, CheckId, ResolveApproval, ResolveGate, ResolveQuestion, ResolveHook,
     UnlistHook, Recheck, SetRunning, StopSignal, StopMark, StopDrop, MarkLive, SetStatus, batch, live,
     Ahead, AheadOfLoop, AheadOfCall
<1>5. CASE UNCHANGED vars
  BY <1>5 DEF vars, batch, live, Ahead, AheadOfLoop, AheadOfCall
<1>. QED  BY <1>1, <1>2, <1>3, <1>4, <1>5 DEF Next

LEMMA FreshStep ==
  ASSUME TypeInv, SendersWait, LegsInBatch, LegShape, Fresh, [Next]_vars
  PROVE  Fresh'
<1>. mail \in [Pause -> Mail] /\ leg \in [Calls -> Leg]
  BY DEF TypeInv, TypeOK, SendersType, BatchType
<1>1. NothingComesBack /\ MailMoves
  BY AheadStep, MailStep
<1>2. ASSUME \A p \in Pause : mail[p] = "unposted" => mail'[p] # "waiting" \/ ~Ahead(p)'
      PROVE  Fresh'
  BY <1>1, <1>2 DEF Fresh, NothingComesBack, MailMoves
<1>3. CASE UNCHANGED mail
  BY <1>2, <1>3
<1>4. ASSUME NEW S, mail' = Dropped(S) PROVE Fresh'
  BY <1>2, <1>4 DEF Dropped
<1>5. ASSUME NEW p \in Pause, NEW d \in Decision, mail' = [mail EXCEPT ![p] = d] PROVE Fresh'
  BY <1>2, <1>5 DEF Decision
<1>6. ASSUME NEW q \in Pause, ~Ahead(q)',
             \A p \in Pause : mail[p] = "unposted" /\ mail'[p] = "waiting" => p = q
      PROVE  Fresh'
  BY <1>2, <1>6
<1>7. ASSUME NEW c \in Calls, leg[c].at \in CallKind,
             NEW s \in {"list", "announce"}, leg' = [leg EXCEPT ![c] = [leg[c] EXCEPT !.step = s]],
             UNCHANGED <<turns, loop>>, loop.at = "tools",
             NEW q \in Pause, q = PauseOf(c, leg[c].at)
      PROVE  ~Ahead(q)'
  <2>1. leg'[c].at = leg[c].at /\ leg'[c].left = leg[c].left /\ leg'[c].step = s /\ leg[c].at \notin leg[c].left
    BY <1>7 DEF Leg, LegShape
  <2>. QED  BY <1>7, <2>1 DEF Ahead, AheadOfLoop, AheadOfCall, PauseOf, CallKind, TypeInv, TypeOK,
     LiveType, Turns
<1>8. ASSUME NEW c \in Calls, EnterApproval(c) PROVE Fresh'
  <2>1. PICK q \in Pause : q = PauseOf(c, "approval")
    BY PauseFacts DEF TypeInv, CallKind
  <2>2. ~Ahead(q)'
    BY <1>7, <1>8, <2>1 DEF EnterApproval, SetLeg, Polled, CallKind, live
  <2>3. mail' = [mail EXCEPT ![q] = "waiting"]
    BY <1>8, <2>1 DEF EnterApproval
  <2>. QED  BY <1>6, <2>2, <2>3
<1>9. ASSUME NEW c \in Calls, EnterQuestion(c) PROVE Fresh'
  <2>1. CASE UNCHANGED mail
    BY <1>3, <2>1
  <2>2. CASE mail' = [Dropped({questionTx}) EXCEPT ![PauseOf(c, "question")] = "waiting"]
             /\ SetLeg(c, [leg[c] EXCEPT !.step = "list"])
    <3>1. PICK q \in Pause : q = PauseOf(c, "question")
      BY PauseFacts DEF TypeInv, CallKind
    <3>2. ~Ahead(q)'
      BY <1>7, <1>9, <2>2, <3>1 DEF EnterQuestion, SetLeg, Polled, CallKind, live
    <3>3. mail' = [Dropped({questionTx}) EXCEPT ![q] = "waiting"]
      BY <2>2, <3>1
    <3>. QED  BY <1>6, <3>2, <3>3 DEF Dropped
  <2>. QED  BY <1>9, <2>1, <2>2 DEF EnterQuestion
<1>10. ASSUME NEW c \in Calls, EnterGate(c) PROVE Fresh'
  <2>1. CASE UNCHANGED mail
    BY <1>3, <2>1
  <2>2. CASE mail' = [mail EXCEPT ![PauseOf(c, leg[c].at)] = "waiting"]
             /\ SetLeg(c, [leg[c] EXCEPT !.step = "announce"])
    <3>1. leg[c].at \in CallKind
      BY <1>10 DEF EnterGate, GateKinds, CallKind
    <3>2. PICK q \in Pause : q = PauseOf(c, leg[c].at)
      BY <3>1, PauseFacts DEF TypeInv
    <3>3. ~Ahead(q)'
      BY <1>7, <1>10, <2>2, <3>1, <3>2 DEF EnterGate, SetLeg, Polled, live
    <3>4. mail' = [mail EXCEPT ![q] = "waiting"]
      BY <2>2, <3>2
    <3>. QED  BY <1>6, <3>3, <3>4
  <2>. QED  BY <1>10, <2>1, <2>2 DEF EnterGate
<1>11. ASSUME NEW c \in Calls, Resume(c) PROVE Fresh'
  BY <1>3, <1>4, <1>11 DEF Resume
<1>12. ASSUME NEW c \in Calls, GiveUp(c) PROVE Fresh'
  BY <1>4, <1>12 DEF GiveUp
<1>13. CASE HookPost
  <2>1. loop.had \in BOOLEAN
    BY DEF TypeInv, TypeOK, Loop
  <2>2. loop'.at = "hook_announce"
    BY <1>13, <2>1, AtHookType DEF HookPost, Position
  <2>3. UNCHANGED turns /\ turns \in Nat
    BY <1>13 DEF HookPost, TypeInv, TypeOK, LiveType, Turns
  <2>4. PICK q \in Pause : q = HookPause
    BY HookPauseType DEF TypeInv
  <2>. q.turn = turns /\ q.call = 0 /\ q.kind = "hook" /\ 0 \notin Calls
    BY <2>4 DEF HookPause, PauseOf, Calls
  <2>5. ~Ahead(q)'
    BY <2>2, <2>3 DEF Ahead, AheadOfLoop, AheadOfCall
  <2>6. mail' = [mail EXCEPT ![q] = "waiting"]
    BY <1>13, <2>4 DEF HookPost
  <2>. QED  BY <1>6, <2>5, <2>6
<1>14. CASE HookWake
  BY <1>4, <1>14 DEF HookWake
<1>15. CASE Drops
  BY <1>4, <1>15 DEF Drops, LoopDrop, StopDrop, DropSenders
<1>16. CASE Resolves
  <2>1. handler.decision \in Decision /\ "grant" \in Decision
    BY DEF TypeInv, TypeOK, ClientType, Handler, Decision
  <2>2. handler.pause = gateSlot /\ handler.at = "resolve" => gateSlot \in Pause
    BY DEF TypeInv, TypeOK, SendersType, RememberIsGrant
  <2>3. approvals \subseteq Pause /\ questionTx \in Pause \cup {NoPause} /\ hookWait \in Pause \cup {NoPause}
    BY DEF TypeInv, TypeOK, SendersType
  <2>4. CASE ResolveApproval
    BY <1>3, <1>5, <2>1, <2>3, <2>4 DEF ResolveApproval, Deliver
  <2>5. CASE ResolveGate
    BY <1>3, <1>5, <2>1, <2>2, <2>5 DEF ResolveGate, Deliver
  <2>6. CASE ResolveQuestion
    BY <1>3, <1>5, <2>1, <2>3, <2>6 DEF ResolveQuestion, Deliver
  <2>7. CASE ResolveHook
    BY <1>3, <1>5, <2>1, <2>3, <2>7 DEF ResolveHook, Deliver
  <2>. QED  BY <1>16, <2>4, <2>5, <2>6, <2>7 DEF Resolves
<1>17. CASE UNCHANGED senders
  BY <1>3, <1>17 DEF senders
<1>. QED  BY <1>8, <1>9, <1>10, <1>11, <1>12, <1>13, <1>14, <1>15, <1>16, <1>17, OtherSteps
     DEF SenderStep, Posts

-----------------------------------------------------------------------------
(* A turn does not end under a batch.                                      *)
LEMMA TurnKept ==
  ASSUME [Next]_vars, loop.at = "tools"
  PROVE  UNCHANGED turns
<1>1. CASE LoopStep
  BY <1>1 DEF LoopStep, LoopTop, StreamStopped, StreamFails, StreamReply, StreamDropped,
     StreamToolCalls, BatchOver, HookAuto, HookPost, HookAnnounce, HookWake, HookApply, Finish,
     LoopMark, LoopDrop, LoopPanics, live
<1>2. ASSUME NEW c \in Calls, CallStep(c) PROVE UNCHANGED turns
  BY <1>2 DEF CallStep, StartCall, EnterApproval, ListApproval, EnterQuestion, ListQuestion,
     EnterGate, Announce, Park, Resume, GiveUp, AbortCall, Execute, SetStatus, live
<1>3. CASE ClientStep
  BY <1>3 DEF ClientStep, RequestApprove, RequestGate, RequestAnswer, RequestHook, RequestStop,
     Request, SetHookMode, live
<1>4. CASE HandlerStep
  BY <1>4 DEF HandlerStep, CheckId, ResolveApproval, ResolveGate, ResolveQuestion, ResolveHook,
     UnlistHook, Recheck, SetRunning, StopSignal, StopMark, StopDrop, MarkLive, SetStatus, live
<1>5. CASE UNCHANGED vars
  BY <1>5 DEF vars, live
<1>. QED  BY <1>1, <1>2, <1>3, <1>4, <1>5 DEF Next

(* What a call in flight would have done is an effect of this turn.        *)
LEMMA EffectOfCall ==
  ASSUME TypeInv, NEW c \in Calls
  PROVE  [turn |-> turns, call |-> c, need |-> leg[c].need] \in Effect
  BY DEF TypeInv, TypeOK, LiveType, BatchType, Leg, Effect

LEMMA PassedGrantedStep ==
  ASSUME TypeInv, SendersWait, LegsInBatch, LegShape, Fresh, PassedGranted, [Next]_vars
  PROVE  PassedGranted'
<1>. leg \in [Calls -> Leg]
  BY DEF TypeInv, TypeOK, BatchType
<1>1. ASSUME UNCHANGED turns, NEW c \in Calls, leg'[c].need = leg[c].need, NEW k \in CallKind,
             Granted([turn |-> turns, call |-> c, need |-> leg[c].need], k)
      PROVE  Granted([turn |-> turns, call |-> c, need |-> leg[c].need], k)'
  <2>1. PICK r \in Effect : r = [turn |-> turns, call |-> c, need |-> leg[c].need]
    BY EffectOfCall
  <2>2. Granted(r, k)'
    BY <1>1, <2>1, GrantsStay
  <2>. QED  BY <1>1, <2>1, <2>2
<1>0. ASSUME UNCHANGED turns, NEW c \in Calls, leg[c].at \notin {"ready", "over"},
             leg'[c].need = leg[c].need, NEW k \in leg[c].need \ (leg[c].left \cup {leg[c].at})
      PROVE  Granted([turn |-> turns, call |-> c, need |-> leg[c].need], k)'
  BY <1>0, <1>1 DEF PassedGranted, Leg
<1>2. CASE UNCHANGED leg
  <2>. SUFFICES ASSUME NEW c \in Calls, leg[c].at \notin {"ready", "over"},
                       NEW k \in leg[c].need \ (leg[c].left \cup {leg[c].at})
                PROVE  Granted([turn |-> turns, call |-> c, need |-> leg[c].need], k)'
    BY <1>2 DEF PassedGranted
  <2>1. UNCHANGED turns
    BY TurnKept DEF LegsInBatch
  <2>. QED  BY <1>0, <1>2, <2>1
<1>3. CASE StreamToolCalls
  BY <1>3 DEF StreamToolCalls, PassedGranted, Ready, Over
<1>4. CASE LoopPanics
  BY <1>4 DEF LoopPanics, PassedGranted, Over
<1>5. ASSUME NEW d \in Calls, CallStep(d) PROVE PassedGranted'
  <2>1. UNCHANGED turns
    BY <1>5, LegMoves
  <2>2. PICK l : Moves(d, l)
    BY <1>5, LegMoves
  <2>3. leg' = [leg EXCEPT ![d] = l] /\ leg[d] \in Leg
    BY <2>2 DEF Moves
  <2>. SUFFICES ASSUME NEW c \in Calls, leg'[c].at \notin {"ready", "over"},
                       NEW k \in leg'[c].need \ (leg'[c].left \cup {leg'[c].at})
                PROVE  Granted([turn |-> turns, call |-> c, need |-> leg[c].need], k)'
    BY DEF PassedGranted
  <2>4. CASE c # d
    BY <1>0, <2>1, <2>3, <2>4
  <2>5. CASE c = d /\ Ends(d, l)
    BY <2>3, <2>5 DEF Ends, Over
  <2>6. CASE c = d /\ Starts(d, l)
    <3>1. PICK need \in SUBSET CallKind : l = Advance(need, need)
      BY <2>6, RunAssumption DEF Starts, RunAssumption
    <3>2. l.need = need /\ need \subseteq l.left \cup {l.at}
      BY <3>1, AdvanceKeeps
    <3>. QED  BY <2>3, <2>6, <3>2
  <2>7. CASE c = d /\ Passes(d, l)
    <3>1. PICK need \in SUBSET CallKind, left \in SUBSET CallKind :
                 need = leg[d].need /\ left = leg[d].left /\ l = Advance(need, left)
      BY <2>3, <2>7 DEF Passes, Leg
    <3>2. l.need = need /\ left \subseteq l.left \cup {l.at}
      BY <3>1, AdvanceKeeps
    <3>3. leg'[c].need = leg[c].need /\ k \in leg[c].need \ leg[c].left /\ k \in CallKind
      BY <2>3, <2>7, <3>1, <3>2
    <3>4. CASE k = leg[c].at
      BY <1>1, <2>1, <2>7, <3>3, <3>4 DEF Passes
    <3>5. CASE k # leg[c].at
      <4>1. leg[c].at \notin {"ready", "over"}
        BY <2>7 DEF Passes, CallKind
      <4>. QED  BY <1>0, <2>1, <3>3, <3>5, <4>1
    <3>. QED  BY <3>4, <3>5
  <2>8. CASE c = d /\ Proceeds(d, l)
    <3>1. /\ l.need = leg[d].need /\ l.left = leg[d].left /\ l.at = leg[d].at
          /\ leg[d].at \notin {"ready", "over"}
      BY <2>3, <2>8 DEF Proceeds, Leg, CallKind
    <3>. QED  BY <1>0, <2>1, <2>3, <2>8, <3>1
  <2>. QED  BY <2>2, <2>4, <2>5, <2>6, <2>7, <2>8 DEF Moves
<1>. QED  BY <1>2, <1>3, <1>4, <1>5, OtherLegSteps

LEMMA RanStep ==
  ASSUME TypeInv, SendersWait, LegShape, Fresh, PassedGranted, RanOnlyAsGranted, [Next]_vars
  PROVE  RanOnlyAsGranted'
<1>. ran \subseteq Effect
  BY DEF TypeInv, TypeOK, BatchType
<1>1. \A r \in ran : \A k \in r.need : Granted(r, k)'
  BY GrantsStay DEF RanOnlyAsGranted, Effect
<1>2. CASE UNCHANGED ran
  BY <1>1, <1>2 DEF RanOnlyAsGranted
<1>3. ASSUME NEW c \in Calls, Execute(c) PROVE RanOnlyAsGranted'
  <2>1. PICK r \in Effect : r = [turn |-> turns, call |-> c, need |-> leg[c].need]
    BY EffectOfCall
  <2>2. ran' = ran \cup {r}
    BY <1>3, <2>1 DEF Execute
  <2>3. leg[c].at = "exec" /\ leg[c].left = {} /\ leg[c].at \notin leg[c].need
    BY <1>3 DEF Execute, LegShape, TypeInv, TypeOK, BatchType, Leg, CallKind
  <2>4. \A k \in r.need : k \in CallKind /\ Granted(r, k)
    BY <2>1, <2>3 DEF PassedGranted, Effect
  <2>5. \A k \in r.need : Granted(r, k)'
    BY <2>4, GrantsStay
  <2>. QED  BY <1>1, <2>2, <2>5 DEF RanOnlyAsGranted
<1>4. CASE LoopStep
  BY <1>2, <1>4 DEF LoopStep, LoopTop, StreamStopped, StreamFails, StreamReply, StreamDropped,
     StreamToolCalls, BatchOver, HookAuto, HookPost, HookAnnounce, HookWake, HookApply, Finish,
     LoopMark, LoopDrop, LoopPanics, batch
<1>5. ASSUME NEW c \in Calls, CallStep(c) PROVE RanOnlyAsGranted'
  BY <1>2, <1>3, <1>5 DEF CallStep, StartCall, EnterApproval, ListApproval, EnterQuestion,
     ListQuestion, EnterGate, Announce, Park, Resume, GiveUp, AbortCall
<1>6. CASE ClientStep
  BY <1>2, <1>6 DEF ClientStep, RequestApprove, RequestGate, RequestAnswer, RequestHook,
     RequestStop, Request, SetHookMode, batch
<1>7. CASE HandlerStep
  BY <1>2, <1>7 DEF HandlerStep, CheckId, ResolveApproval, ResolveGate, ResolveQuestion,
     ResolveHook,
     UnlistHook, Recheck, SetRunning, StopSignal, StopMark, StopDrop, batch
<1>8. CASE UNCHANGED vars
  BY <1>2, <1>8 DEF vars, batch
<1>. QED  BY <1>4, <1>5, <1>6, <1>7, <1>8 DEF Next

-----------------------------------------------------------------------------
(* The inductive invariant. RanOnlyAsGranted speaks of calls that are over;*)
(* it holds because a call in flight already holds its grants              *)
(* (PassedGranted), grants cannot be overwritten (Fresh: nothing is posted *)
(* twice; SendersWait: only an undecided channel has a sender), and a turn *)
(* does not move under a call (LegsInBatch).                               *)
GateInv ==
  /\ SendersWait /\ LegsInBatch /\ LegShape /\ Fresh /\ PassedGranted /\ RanOnlyAsGranted

LEMMA InitGates == Init => GateInv
<1>. SUFFICES ASSUME Init PROVE GateInv
  OBVIOUS
<1>1. SendersWait
  BY DEF Init, SendersWait, ApprovalsWait, QuestionWaits, GateWaits, HookWaits
<1>2. LegsInBatch /\ LegShape /\ PassedGranted
  BY DEF Init, LegsInBatch, LegShape, PassedGranted, Over, CallKind
<1>3. Fresh
  BY DEF Init, Fresh
<1>4. RanOnlyAsGranted
  BY DEF Init, RanOnlyAsGranted
<1>. QED  BY <1>1, <1>2, <1>3, <1>4 DEF GateInv

LEMMA StepGates == TypeInv /\ GateInv /\ [Next]_vars => GateInv'
<1>. SUFFICES ASSUME TypeInv, GateInv, [Next]_vars PROVE GateInv'
  OBVIOUS
<1>. USE DEF GateInv
<1>1. SendersWait'
  BY SendersWaitStep
<1>2. LegsInBatch' /\ LegShape'
  BY LegsInBatchStep, LegShapeStep
<1>3. Fresh'
  BY FreshStep
<1>4. PassedGranted'
  BY PassedGrantedStep
<1>5. RanOnlyAsGranted'
  BY RanStep
<1>. QED  BY <1>1, <1>2, <1>3, <1>4, <1>5

THEOREM GatesInvariant == Spec => [](TypeInv /\ GateInv)
<1>1. Init => TypeInv /\ GateInv
  BY InitTypes, InitGates
<1>2. TypeInv /\ GateInv /\ [Next]_vars => (TypeInv /\ GateInv)'
  BY StepTypes, StepGates
<1>. QED  BY <1>1, <1>2, PTL DEF Spec

(* No call takes effect without the grants it needed, for every budget,    *)
(* batch and interleaving (await_approval, await_gate, dispatch).          *)
THEOREM CallsRunAsGranted == Spec => []RanOnlyAsGranted
<1>1. GateInv => RanOnlyAsGranted
  BY DEF GateInv
<1>. QED  BY <1>1, GatesInvariant, PTL

(* No decision is ever replaced, whoever else decides, times out or stops  *)
(* (the oneshot channels of gates.rs, taken out before they are used).     *)
THEOREM DecisionsAreFinal == Spec => DecidedOnce
<1>1. TypeInv /\ GateInv /\ [Next]_vars
        => [\A p \in Pause : mail[p] \notin {"unposted", "waiting"} => mail'[p] = mail[p]]_mail
  BY MailStep DEF GateInv, MailMoves
<1>. QED  BY <1>1, GatesInvariant, PTL DEF Spec, DecidedOnce

-----------------------------------------------------------------------------
(* A run with its locks, timeouts and stops implements the human gates it  *)
(* promises: every step of AgentRun is a step of HumanGates or a stutter.  *)

gates == [p \in Pause |-> GateOf(p)]

(* The gate of a pause is a reading of its channel.                        *)
LEMMA GateReads ==
  ASSUME NEW p \in Pause
  PROVE  /\ gates[p] = GateOf(p) /\ gates'[p] = GateOf(p)'
         /\ gates[p] = "granted" <=> mail[p] = "grant"
         /\ gates'[p] = "granted" <=> mail'[p] = "grant"
         /\ gates' \in [Pause -> Gates!GateState]
         /\ mail'[p] = mail[p] => gates'[p] = gates[p]
         /\ mail[p] = "unposted" => gates[p] = "shut"
         /\ mail[p] = "waiting" => gates[p] = "open"
         /\ mail'[p] = "waiting" => gates'[p] = "open"
         /\ mail'[p] \notin {"unposted", "waiting"} => gates'[p] \in {"granted", "refused"}
  BY DEF gates, GateOf, Gates!GateState

Newly == {p \in Pause : mail[p] # "grant" /\ mail'[p] = "grant"}

LEMMA NewlyIsNewly == Newly = Gates!NewlyGranted
  BY GateReads DEF Newly, Gates!NewlyGranted, gates

-----------------------------------------------------------------------------
(* Only an answer grants, and it grants the one pause whose sender it took.*)
LEMMA OneGrant ==
  ASSUME TypeInv, SendersWait, [Next]_vars
  PROVE  \A p, q \in Newly : p = q
<1>. mail \in [Pause -> Mail]
  BY DEF TypeInv, TypeOK, SendersType
<1>1. ASSUME NEW S, mail' = Dropped(S) PROVE Newly = {}
  BY <1>1 DEF Newly, Dropped
<1>2. ASSUME NEW p, mail' = [mail EXCEPT ![p] = "waiting"] PROVE Newly = {}
  BY <1>2 DEF Newly
<1>3. ASSUME NEW S, NEW p, mail' = [Dropped(S) EXCEPT ![p] = "waiting"] PROVE Newly = {}
  BY <1>3 DEF Newly, Dropped
<1>4. ASSUME NEW p, NEW d, mail' = [mail EXCEPT ![p] = d] PROVE Newly \subseteq {p}
  BY <1>4 DEF Newly
<1>5. CASE UNCHANGED mail
  BY <1>5 DEF Newly
<1>6. ASSUME NEW c \in Calls, Posts(c) PROVE Newly = {}
  <2>1. CASE EnterApproval(c)
    BY <1>2, <2>1 DEF EnterApproval
  <2>2. CASE EnterQuestion(c)
    BY <1>3, <1>5, <2>2 DEF EnterQuestion, Newly
  <2>3. CASE EnterGate(c)
    BY <1>2, <1>5, <2>3 DEF EnterGate, Newly
  <2>4. CASE Resume(c)
    BY <1>1, <1>5, <2>4 DEF Resume, Newly
  <2>5. CASE GiveUp(c)
    BY <1>1, <2>5 DEF GiveUp
  <2>. QED  BY <1>6, <2>1, <2>2, <2>3, <2>4, <2>5 DEF Posts
<1>7. CASE HookPost
  BY <1>2, <1>7 DEF HookPost
<1>8. CASE HookWake
  BY <1>1, <1>8 DEF HookWake
<1>9. CASE Drops
  BY <1>1, <1>9 DEF Drops, LoopDrop, StopDrop, DropSenders
<1>10. CASE ResolveApproval
  BY <1>4, <1>5, <1>10 DEF ResolveApproval, Deliver
<1>11. CASE ResolveGate
  BY <1>4, <1>5, <1>11 DEF ResolveGate, Deliver
<1>12. CASE ResolveQuestion
  BY <1>4, <1>5, <1>12 DEF ResolveQuestion, Deliver
<1>13. CASE ResolveHook
  BY <1>4, <1>5, <1>13 DEF ResolveHook, Deliver
<1>. QED
  BY <1>5, <1>6, <1>7, <1>8, <1>9, <1>10, <1>11, <1>12, <1>13, OtherSteps
  DEF SenderStep, Resolves, senders

(* A command is remembered only together with the grant of its risky gate. *)
LEMMA RememberedWithGrant ==
  ASSUME TypeInv, SendersWait, [Next]_vars
  PROVE  \/ approved' = approved
         \/ \E p \in Newly : p.kind = "risky" /\ approved' = approved \cup {p.call}
<1>1. CASE LoopStep
  BY <1>1 DEF LoopStep, LoopTop, StreamStopped, StreamFails, StreamReply, StreamDropped,
     StreamToolCalls, BatchOver, HookAuto, HookPost, HookAnnounce, HookWake, HookApply, Finish,
     LoopMark, LoopDrop, LoopPanics, config
<1>2. ASSUME NEW c \in Calls, CallStep(c) PROVE approved' = approved
  BY <1>2 DEF CallStep, StartCall, EnterApproval, ListApproval, EnterQuestion, ListQuestion,
     EnterGate, Announce, Park, Resume, GiveUp, AbortCall, Execute, config
<1>3. CASE ClientStep
  BY <1>3 DEF ClientStep, RequestApprove, RequestGate, RequestAnswer, RequestHook, RequestStop,
     Request, SetHookMode, config
<1>4. CASE ResolveGate
  <2>1. CASE handler.pause = gateSlot /\ handler.op = "remember"
    <3>1. gateSlot \in Pause /\ mail[gateSlot] = "waiting" /\ mail \in [Pause -> Mail]
      BY <1>4, <2>1 DEF ResolveGate, TypeInv, TypeOK, SendersType, RememberIsGrant, SendersWait,
         GateWaits
    <3>2. /\ gateSlot.kind = "risky" /\ handler.decision = "grant"
          /\ mail' = [mail EXCEPT ![gateSlot] = handler.decision]
          /\ approved' = approved \cup {gateSlot.call}
      BY <1>4, <2>1 DEF ResolveGate, Deliver, TypeInv, RememberIsGrant
    <3>. QED  BY <3>1, <3>2 DEF Newly
  <2>. QED  BY <1>4, <2>1 DEF ResolveGate
<1>5. CASE HandlerStep /\ ~ResolveGate
  BY <1>5 DEF HandlerStep, CheckId, ResolveApproval, ResolveQuestion, ResolveHook, UnlistHook,
     Recheck, SetRunning, StopSignal, StopMark, StopDrop, config
<1>6. CASE UNCHANGED vars
  BY <1>6 DEF vars, config
<1>. QED  BY <1>1, <1>2, <1>3, <1>4, <1>5, <1>6 DEF Next

(* Effects come from Execute alone.                                        *)
LEMMA OnlyExecuteRuns ==
  ASSUME [Next]_vars
  PROVE  ran' = ran \/ \E c \in Calls : Execute(c)
<1>1. CASE LoopStep
  BY <1>1 DEF LoopStep, LoopTop, StreamStopped, StreamFails, StreamReply, StreamDropped,
     StreamToolCalls, BatchOver, HookAuto, HookPost, HookAnnounce, HookWake, HookApply, Finish,
     LoopMark, LoopDrop, LoopPanics, batch
<1>2. ASSUME NEW c \in Calls, CallStep(c) PROVE ran' = ran \/ Execute(c)
  BY <1>2 DEF CallStep, StartCall, EnterApproval, ListApproval, EnterQuestion, ListQuestion,
     EnterGate, Announce, Park, Resume, GiveUp, AbortCall
<1>3. CASE ClientStep
  BY <1>3 DEF ClientStep, RequestApprove, RequestGate, RequestAnswer, RequestHook, RequestStop,
     Request, SetHookMode, batch
<1>4. CASE HandlerStep
  BY <1>4 DEF HandlerStep, CheckId, ResolveApproval, ResolveGate, ResolveQuestion, ResolveHook,
     UnlistHook, Recheck, SetRunning, StopSignal, StopMark, StopDrop, batch
<1>5. CASE UNCHANGED vars
  BY <1>5 DEF vars, batch
<1>. QED  BY <1>1, <1>2, <1>3, <1>4, <1>5 DEF Next

-----------------------------------------------------------------------------
LEMMA DecideOrStutter ==
  ASSUME TypeInv, GateInv, [Next]_vars, ran' = ran
  PROVE  Gates!Decide
<1>1. MailMoves /\ (\A p, q \in Newly : p = q)
  BY MailStep, OneGrant DEF GateInv
<1>2. gates' \in [Pause -> Gates!GateState]
  BY DEF gates, GateOf, Gates!GateState
<1>3. ASSUME NEW p \in Pause
      PROVE  \/ gates'[p] = gates[p]
             \/ gates[p] = "shut" /\ gates'[p] = "open"
             \/ gates[p] = "open" /\ gates'[p] \in {"granted", "refused"}
  BY <1>1, GateReads DEF MailMoves
<1>4. \/ approved' = approved
      \/ \E p \in Newly : p.kind = "risky" /\ approved' = approved \cup {p.call}
  BY RememberedWithGrant DEF GateInv
<1>. QED  BY <1>1, <1>2, <1>3, <1>4, NewlyIsNewly DEF Gates!Decide, gates

LEMMA ExecuteActs ==
  ASSUME TypeInv, GateInv, NEW c \in Calls, Execute(c)
  PROVE  Gates!Act
<1>1. PICK r \in Effect : r = [turn |-> turns, call |-> c, need |-> leg[c].need]
  BY EffectOfCall
<1>2. ran' = ran \cup {r} /\ UNCHANGED <<mail, approved>>
  BY <1>1 DEF Execute, senders, config
<1>3. leg[c].at = "exec" /\ leg[c].left = {} /\ leg[c].at \notin leg[c].need
  BY DEF Execute, GateInv, LegShape, TypeInv, TypeOK, BatchType, Leg, CallKind
<1>4. \A k \in r.need : k \in CallKind /\ Granted(r, k)
  BY <1>1, <1>3 DEF GateInv, PassedGranted, Effect
<1>5. ASSUME NEW k \in CallKind, Granted(r, k) PROVE Gates!Passed(r, k)
  <2>. DEFINE p == [turn |-> r.turn, call |-> r.call, kind |-> k]
  <2>1. p \in Pause
    BY DEF Effect, Pause
  <2>2. CASE mail[p] = "grant"
    BY <2>1, <2>2, GateReads DEF Gates!Passed, gates
  <2>3. CASE k = "risky" /\ r.call \in approved
    BY <2>3 DEF Gates!Passed
  <2>. QED  BY <1>5, <2>2, <2>3 DEF Granted
<1>6. gates' = gates
  BY <1>2 DEF gates, GateOf
<1>. QED  BY <1>2, <1>4, <1>5, <1>6 DEF Gates!Act, gates

LEMMA StartsShut == Init => Gates!Init
  BY DEF Init, Gates!Init, GateOf

(* Whatever its locks, timeouts, stops and clients do, a run keeps what    *)
(* the human gates promise: a pause is asked once and decided at most      *)
(* once, a decision grants one pause, and nothing takes effect without     *)
(* the grants it needs (gates.rs, tools.rs, run.rs).                       *)
THEOREM RunImplementsGates == Spec => HumanGatesHold
<1>1. TypeInv /\ GateInv /\ [Next]_vars => [Gates!Next]_(Gates!vars)
  BY DecideOrStutter, ExecuteActs, OnlyExecuteRuns DEF Gates!Next
<1>. QED  BY <1>1, StartsShut, GatesInvariant, PTL DEF Spec, HumanGatesHold, Gates!Spec

-----------------------------------------------------------------------------
(****************************************************************************)
(* The pauses: a decision reaches the pause it names, a call that sleeps   *)
(* can be woken, and a run that ended leaves nothing behind for a client   *)
(* to decide.                                                              *)
(****************************************************************************)

(* A channel that waits has its sender registered where its kind belongs.  *)
Held(p) ==
  \/ p.kind = "approval" /\ p \in approvals
  \/ p.kind = "question" /\ p = questionTx
  \/ p.kind = "hook" /\ p = hookWait
  \/ p.kind \in GateKinds /\ p = gateSlot
WaitingIsHeld == \A p \in Pause : mail[p] = "waiting" => Held(p)

(* The turn-end hook is pending only while the loop waits for it.          *)
HookInWait ==
  hookWait # NoPause \/ pendingHook # NoPause => loop.at \in {"hook_announce", "hook_wait"}

(* The futures of a batch share one task: one call is between two awaits.  *)
OneMidPoll == \A c, d \in Calls : MidPoll(c) /\ MidPoll(d) => c = d

(* stop() signals before it marks.                                         *)
StopSignalled == handler.at \in {"mark", "drop"} => stopSent

(* Before a stop, a call that announced its request is listed with it, and *)
(* only one question is listed at a time.                                  *)
ApprovalListed ==
  \A c \in Calls :
    leg[c].at = "approval" /\ leg[c].step \in {"announce", "poll", "wait"} =>
      stopSent \/ PauseOf(c, "approval") \in pendingApprovals
QuestionListed ==
  \A c \in Calls : leg[c].at = "question" /\ ~stopSent =>
    /\ leg[c].step = "list" => userQuestion = NoPause
    /\ leg[c].step \in {"announce", "poll", "wait"} => userQuestion = PauseOf(c, "question")

-----------------------------------------------------------------------------
(* Facts about pauses and channels.                                        *)

LEMMA PauseFields ==
  ASSUME NEW c, NEW k
  PROVE  PauseOf(c, k).call = c /\ PauseOf(c, k).kind = k /\ PauseOf(c, k).turn = turns
  BY DEF PauseOf

LEMMA DroppedWaits ==
  ASSUME NEW S, NEW p \in Pause
  PROVE  Dropped(S)[p] = "waiting" <=> mail[p] = "waiting" /\ p \notin S
  BY DEF Dropped

(* Every step of a call is made while no other call is between two awaits. *)
LEMMA CallIsPolled ==
  ASSUME NEW c \in Calls, CallStep(c)
  PROVE  loop.at = "tools" /\ \A d \in Calls \ {c} : ~MidPoll(d)
  BY DEF CallStep, StartCall, EnterApproval, ListApproval, EnterQuestion, ListQuestion,
     EnterGate, Announce, Park, Resume, GiveUp, AbortCall, Execute, Polled

LEMMA OtherLegsStand ==
  ASSUME TypeInv, LegShape, NEW c \in Calls, CallStep(c), NEW d \in Calls, d # c
  PROVE  leg'[d] = leg[d]
<1>1. PICK l : leg' = [leg EXCEPT ![c] = l]
  BY LegMoves DEF Moves
<1>. QED  BY <1>1 DEF TypeInv, TypeOK, BatchType

LEMMA OneMidPollStep ==
  ASSUME TypeInv, LegShape, OneMidPoll, [Next]_vars
  PROVE  OneMidPoll'
<1>1. CASE UNCHANGED leg
  BY <1>1 DEF OneMidPoll, MidPoll
<1>2. CASE StreamToolCalls
  BY <1>2 DEF StreamToolCalls, OneMidPoll, MidPoll, Ready, Over
<1>3. CASE LoopPanics
  BY <1>3 DEF LoopPanics, OneMidPoll, MidPoll, Over
<1>4. ASSUME NEW c \in Calls, CallStep(c) PROVE OneMidPoll'
  <2>1. \A d \in Calls \ {c} : ~MidPoll(d)'
    BY <1>4, CallIsPolled, OtherLegsStand DEF MidPoll
  <2>. QED  BY <2>1 DEF OneMidPoll
<1>. QED  BY <1>1, <1>2, <1>3, <1>4, OtherLegSteps

-----------------------------------------------------------------------------
(* A decision is addressed: approve and gate_decide take the sender by its *)
(* id, the two others whichever sender of their kind is there.             *)
LEMMA AddressedStep ==
  ASSUME TypeInv, SendersWait, DecisionsAreAddressed, [Next]_vars
  PROVE  DecisionsAreAddressed'
<1>1. CASE UNCHANGED misrouted
  BY <1>1 DEF DecisionsAreAddressed
<1>2. CASE LoopStep
  BY <1>1, <1>2 DEF LoopStep, LoopTop, StreamStopped, StreamFails, StreamReply, StreamDropped,
     StreamToolCalls, BatchOver, HookAuto, HookPost, HookAnnounce, HookWake, HookApply, Finish,
     LoopMark, LoopDrop, LoopPanics, client
<1>3. ASSUME NEW c \in Calls, CallStep(c) PROVE DecisionsAreAddressed'
  BY <1>1, <1>3 DEF CallStep, StartCall, EnterApproval, ListApproval, EnterQuestion,
     ListQuestion, EnterGate, Announce, Park, Resume, GiveUp, AbortCall, Execute, client
<1>4. CASE ClientStep
  BY <1>1, <1>4 DEF ClientStep, RequestApprove, RequestGate, RequestAnswer, RequestHook,
     RequestStop, Request, SetHookMode, client
<1>5. CASE ResolveApproval
  BY <1>5 DEF ResolveApproval, Deliver, DecisionsAreAddressed
<1>6. CASE ResolveGate
  BY <1>6 DEF ResolveGate, Deliver, DecisionsAreAddressed
<1>7. CASE ResolveQuestion
  BY <1>7 DEF ResolveQuestion, Deliver, DecisionsAreAddressed, SendersWait, QuestionWaits
<1>8. CASE ResolveHook
  BY <1>8 DEF ResolveHook, Deliver, DecisionsAreAddressed, SendersWait, HookWaits
<1>9. CASE HandlerStep
  BY <1>1, <1>5, <1>6, <1>7, <1>8, <1>9 DEF HandlerStep, CheckId, UnlistHook, Recheck,
     SetRunning, StopSignal, StopMark, StopDrop
<1>10. CASE UNCHANGED vars
  BY <1>1, <1>10 DEF vars, client
<1>. QED  BY <1>2, <1>3, <1>4, <1>9, <1>10 DEF Next

(* An approval or gate decision reaches the pause it names and no other,   *)
(* whatever else is pending (approve and gate_decide of run.rs).           *)
THEOREM DecisionsReachTheirPause == Spec => []DecisionsAreAddressed
<1>1. Init => DecisionsAreAddressed
  BY DEF Init, DecisionsAreAddressed
<1>2. TypeInv /\ GateInv /\ DecisionsAreAddressed /\ [Next]_vars => DecisionsAreAddressed'
  BY AddressedStep DEF GateInv
<1>. QED  BY <1>1, <1>2, GatesInvariant, PTL DEF Spec

-----------------------------------------------------------------------------
(* Where a handler goes.                                                   *)
LEMMA HandlerMoves ==
  ASSUME TypeInv, NEW at
  PROVE  /\ Step(at) => handler'.at = at
         /\ Settle(at) => handler'.at = at
         /\ Reply => handler'.at = "idle"
         /\ UNCHANGED client => handler' = handler
<1>1. handler = [op |-> handler.op, pause |-> handler.pause, decision |-> handler.decision,
                 at |-> handler.at]
  BY DEF TypeInv, TypeOK, ClientType, Handler
<1>2. Step(at) => handler'.at = at
  BY <1>1 DEF Step
<1>3. Settle(at) => handler'.at = at
  BY DEF Settle, NoHandler
<1>4. Reply => handler'.at = "idle"
  BY DEF Reply, NoHandler
<1>. QED  BY <1>2, <1>3, <1>4 DEF client

LEMMA StopSignalledStep ==
  ASSUME TypeInv, StopSignalled, [Next]_vars
  PROVE  StopSignalled'
<1>. stopSent \in BOOLEAN
  BY DEF TypeInv, TypeOK, ConfigType
<1>1. CASE LoopStep
  BY <1>1, HandlerMoves DEF LoopStep, LoopTop, StreamStopped, StreamFails, StreamReply,
     StreamDropped, StreamToolCalls, BatchOver, HookAuto, HookPost, HookAnnounce, HookWake,
     HookApply, Finish, LoopMark, LoopDrop, LoopPanics, StopSignalled
<1>2. ASSUME NEW c \in Calls, CallStep(c) PROVE StopSignalled'
  BY <1>2, HandlerMoves DEF CallStep, StartCall, EnterApproval, ListApproval, EnterQuestion,
     ListQuestion, EnterGate, Announce, Park, Resume, GiveUp, AbortCall, Execute, StopSignalled
<1>3. CASE ClientStep
  BY <1>3, HandlerMoves DEF ClientStep, RequestApprove, RequestGate, RequestAnswer, RequestHook,
     RequestStop, Request, SetHookMode, StopSignalled
<1>4. CASE HandlerStep
  BY <1>4, HandlerMoves DEF HandlerStep, CheckId, ResolveApproval, ResolveGate, ResolveQuestion,
     ResolveHook, UnlistHook, Recheck, SetRunning, StopSignal, StopMark, StopDrop, StopSignalled
<1>5. CASE UNCHANGED vars
  BY <1>5 DEF vars, client, StopSignalled
<1>. QED  BY <1>1, <1>2, <1>3, <1>4, <1>5 DEF Next

(* A stop is not taken back.                                               *)
LEMMA StopStays ==
  ASSUME TypeInv, [Next]_vars
  PROVE  stopSent => stopSent'
<1>1. CASE LoopStep
  BY <1>1 DEF LoopStep, LoopTop, StreamStopped, StreamFails, StreamReply,
     StreamDropped, StreamToolCalls, BatchOver, HookAuto, HookPost, HookAnnounce, HookWake,
     HookApply, Finish, LoopMark, LoopDrop, LoopPanics
<1>2. ASSUME NEW c \in Calls, CallStep(c) PROVE stopSent => stopSent'
  BY <1>2 DEF CallStep, StartCall, EnterApproval, ListApproval, EnterQuestion,
     ListQuestion, EnterGate, Announce, Park, Resume, GiveUp, AbortCall, Execute
<1>3. CASE ClientStep
  BY <1>3 DEF ClientStep, RequestApprove, RequestGate, RequestAnswer, RequestHook,
     RequestStop, Request, SetHookMode
<1>4. CASE HandlerStep
  BY <1>4 DEF HandlerStep, CheckId, ResolveApproval, ResolveGate, ResolveQuestion,
     ResolveHook, UnlistHook, Recheck, SetRunning, StopSignal, StopMark, StopDrop
<1>5. CASE UNCHANGED vars
  BY <1>5 DEF vars
<1>. QED  BY <1>1, <1>2, <1>3, <1>4, <1>5 DEF Next

(* The steps that change what a client sees pending.                       *)
Lists(c) == ListApproval(c) \/ ListQuestion(c) \/ Resume(c) \/ GiveUp(c)
ListStep == (\E c \in Calls : Lists(c)) \/ LoopMark \/ StopMark

LEMMA OtherListSteps ==
  ASSUME [Next]_vars
  PROVE  ListStep \/ UNCHANGED <<pendingApprovals, userQuestion>>
<1>1. CASE LoopStep
  BY <1>1 DEF LoopStep, LoopTop, StreamStopped, StreamFails, StreamReply, StreamDropped,
     StreamToolCalls, BatchOver, HookAuto, HookPost, HookAnnounce, HookWake, HookApply, Finish,
     LoopDrop, LoopPanics, ListStep, live, NextTurn, SetStatus
<1>2. ASSUME NEW c \in Calls, CallStep(c)
      PROVE  ListStep \/ UNCHANGED <<pendingApprovals, userQuestion>>
  BY <1>2 DEF CallStep, StartCall, EnterApproval, EnterQuestion, EnterGate, Announce, Park,
     AbortCall, Execute, ListStep, Lists, live, SetStatus
<1>3. CASE ClientStep
  BY <1>3 DEF ClientStep, RequestApprove, RequestGate, RequestAnswer, RequestHook, RequestStop,
     Request, SetHookMode, live
<1>4. CASE HandlerStep
  BY <1>4 DEF HandlerStep, CheckId, ResolveApproval, ResolveGate, ResolveQuestion, ResolveHook,
     UnlistHook, Recheck, SetRunning, StopSignal, StopDrop, ListStep, live, SetStatus
<1>5. CASE UNCHANGED vars
  BY <1>5 DEF vars, live
<1>. QED  BY <1>1, <1>2, <1>3, <1>4, <1>5 DEF Next

LEMMA HookInWaitStep ==
  ASSUME TypeInv, HookInWait, [Next]_vars
  PROVE  HookInWait'
<1>. loop.had \in BOOLEAN
  BY DEF TypeInv, TypeOK, Loop
<1>1. CASE UNCHANGED <<hookWait, pendingHook, loop>>
  BY <1>1 DEF HookInWait
<1>2. CASE HookPost \/ HookAnnounce
  <2>1. loop'.at \in {"hook_announce", "hook_wait"}
    BY <1>2, AtHookType DEF HookPost, HookAnnounce, Position
  <2>. QED  BY <2>1 DEF HookInWait
<1>3. CASE HookWake
  BY <1>3 DEF HookWake, HookInWait
<1>4. CASE LoopMark \/ LoopDrop
  BY <1>4 DEF LoopMark, LoopDrop, MarkLive, DropSenders, HookInWait, senders, live
<1>5. CASE LoopStep
  <2>1. CASE LoopPanics
    <3>1. loop.at \in {"stream", "tools"} /\ UNCHANGED <<hookWait, pendingHook>>
      BY <2>1 DEF LoopPanics, Polled, live, senders
    <3>. QED  BY <3>1 DEF HookInWait
  <2>2. CASE ~LoopPanics
    BY <1>2, <1>3, <1>4, <1>5, <2>2 DEF LoopStep, LoopTop, StreamStopped, StreamFails, StreamReply,
       StreamDropped, StreamToolCalls, BatchOver, HookAuto, HookApply, Finish, HookInWait,
       live, senders, NextTurn, SetStatus
  <2>. QED  BY <2>1, <2>2
<1>6. ASSUME NEW c \in Calls, CallStep(c) PROVE HookInWait'
  BY <1>1, <1>6 DEF CallStep, StartCall, EnterApproval, ListApproval, EnterQuestion,
     ListQuestion, EnterGate, Announce, Park, Resume, GiveUp, AbortCall, Execute, live, senders,
     SetStatus
<1>7. CASE ClientStep
  BY <1>1, <1>7 DEF ClientStep, RequestApprove, RequestGate, RequestAnswer, RequestHook,
     RequestStop, Request, SetHookMode, live, senders
<1>8. CASE HandlerStep
  <2>1. /\ loop' = loop
        /\ hookWait' \in {hookWait, NoPause}
        /\ pendingHook' \in {pendingHook, NoPause}
    BY <1>8 DEF HandlerStep, CheckId, ResolveApproval, ResolveGate, ResolveQuestion, ResolveHook,
       UnlistHook, Recheck, SetRunning, StopSignal, StopMark, StopDrop, live, senders, MarkLive,
       DropSenders, SetStatus
  <2>. QED  BY <2>1 DEF HookInWait
<1>9. CASE UNCHANGED vars
  BY <1>1, <1>9 DEF vars, live, senders
<1>. QED  BY <1>5, <1>6, <1>7, <1>8, <1>9 DEF Next

-----------------------------------------------------------------------------
(* Calls move through a gate step by step, and only a call that is at its  *)
(* own gate touches what is listed for it.                                 *)

LEMMA StepOfLeg ==
  ASSUME TypeInv, NEW c \in Calls, NEW s, SetLeg(c, [leg[c] EXCEPT !.step = s])
  PROVE  leg'[c].at = leg[c].at /\ leg'[c].step = s
  BY DEF SetLeg, TypeInv, TypeOK, BatchType, Leg

LEMMA LegSet ==
  ASSUME TypeInv, NEW c \in Calls, NEW l, SetLeg(c, l)
  PROVE  leg'[c] = l
  BY DEF SetLeg, TypeInv, TypeOK, BatchType

(* A call that just passed a gate or began is not announced at one.        *)
LEMMA AdvancedIsNew ==
  ASSUME TypeInv, NEW c \in Calls
  PROVE  /\ Advance(leg[c].need, leg[c].left).step \in {"none", "enter"}
         /\ \A need \in Needs : Advance(need, need).step \in {"none", "enter"}
         /\ Over.step = "none" /\ Ready.step = "none"
<1>1. leg[c].need \in SUBSET CallKind /\ leg[c].left \in SUBSET CallKind
  BY DEF TypeInv, TypeOK, BatchType, Leg
<1>2. \A need \in Needs : need \in SUBSET CallKind
  BY RunAssumption DEF RunAssumption
<1>3. Over.step = "none" /\ Ready.step = "none"
  BY DEF Over, Ready
<1>4. Advance(leg[c].need, leg[c].left).step \in {"none", "enter"}
  <2>1. PICK need, left : need = leg[c].need /\ left = leg[c].left
    OBVIOUS
  <2>2. need \in SUBSET CallKind /\ left \in SUBSET CallKind
    BY <1>1, <2>1
  <2>3. Advance(need, left).step \in {"none", "enter"}
    BY <2>2, AdvanceFacts
  <2>. QED  BY <2>1, <2>3
<1>5. \A need \in Needs : Advance(need, need).step \in {"none", "enter"}
  BY <1>2, AdvanceFacts
<1>. QED  BY <1>3, <1>4, <1>5

(* The step a call is in after it moved: new, or one further.              *)
LEMMA StepsOfCall ==
  ASSUME TypeInv, NEW c \in Calls, CallStep(c)
  PROVE  /\ UNCHANGED turns
         /\ \/ leg'[c].step \in {"none", "enter"}
            \/ /\ leg'[c].at = leg[c].at
               /\ \/ leg'[c].step = "list" /\ leg[c].step = "enter" /\ EnterApproval(c)
                  \/ leg'[c].step = "list" /\ leg[c].step = "enter" /\ EnterQuestion(c)
                  \/ leg'[c].step = "announce" /\ leg[c].step = "enter" /\ EnterGate(c)
                  \/ leg'[c].step = "announce" /\ leg[c].step = "list" /\ ListApproval(c)
                  \/ leg'[c].step = "announce" /\ leg[c].step = "list" /\ ListQuestion(c)
                  \/ leg'[c].step = "poll" /\ leg[c].step = "announce" /\ Announce(c)
                  \/ leg'[c].step = "wait" /\ leg[c].step = "poll" /\ Park(c)
<1>1. CASE StartCall(c)
  BY <1>1, LegSet, AdvancedIsNew DEF StartCall, live
<1>2. CASE EnterApproval(c)
  BY <1>2, StepOfLeg DEF EnterApproval, live
<1>3. CASE ListApproval(c)
  <2>1. SetLeg(c, [leg[c] EXCEPT !.step = "announce"])
    BY <1>3 DEF ListApproval
  <2>. QED  BY <1>3, <2>1, StepOfLeg DEF ListApproval
<1>4. CASE EnterQuestion(c)
  <2>1. CASE SetLeg(c, Over)
    BY <1>4, <2>1, LegSet, AdvancedIsNew DEF EnterQuestion, live
  <2>2. CASE SetLeg(c, [leg[c] EXCEPT !.step = "list"])
    BY <1>4, <2>2, StepOfLeg DEF EnterQuestion, live
  <2>. QED  BY <1>4, <2>1, <2>2 DEF EnterQuestion
<1>5. CASE ListQuestion(c)
  <2>1. SetLeg(c, [leg[c] EXCEPT !.step = "announce"])
    BY <1>5 DEF ListQuestion
  <2>. QED  BY <1>5, <2>1, StepOfLeg DEF ListQuestion
<1>6. CASE EnterGate(c)
  <2>1. CASE SetLeg(c, Over) \/ SetLeg(c, Advance(leg[c].need, leg[c].left))
    BY <1>6, <2>1, LegSet, AdvancedIsNew DEF EnterGate, live
  <2>2. CASE SetLeg(c, [leg[c] EXCEPT !.step = "announce"])
    BY <1>6, <2>2, StepOfLeg DEF EnterGate, live
  <2>. QED  BY <1>6, <2>1, <2>2 DEF EnterGate
<1>7. CASE Announce(c)
  <2>1. SetLeg(c, [leg[c] EXCEPT !.step = "poll"])
    BY <1>7 DEF Announce
  <2>. QED  BY <1>7, <2>1, StepOfLeg DEF Announce, SetStatus
<1>8. CASE Park(c)
  <2>1. SetLeg(c, [leg[c] EXCEPT !.step = "wait"])
    BY <1>8 DEF Park
  <2>. QED  BY <1>8, <2>1, StepOfLeg DEF Park, live
<1>9. CASE Resume(c)
  BY <1>9, LegSet, AdvancedIsNew DEF Resume
<1>10. CASE GiveUp(c) \/ AbortCall(c) \/ Execute(c)
  BY <1>10, LegSet, AdvancedIsNew DEF GiveUp, AbortCall, Execute, live
<1>. QED  BY <1>1, <1>2, <1>3, <1>4, <1>5, <1>6, <1>7, <1>8, <1>9, <1>10 DEF CallStep

(* A step that is no call's leaves the calls and what they have listed,    *)
(* unless it ends the batch or marks the run.                              *)
LEMMA CallsStand ==
  ASSUME TypeInv, LegsInBatch, StopSignalled, [Next]_vars, ~stopSent',
         \A d \in Calls : ~CallStep(d),
         NEW c \in Calls, leg'[c].step # "none", leg'[c].at # "over"
  PROVE  /\ leg'[c] = leg[c]
         /\ UNCHANGED <<turns, pendingApprovals, userQuestion>>
<1>. ~stopSent
  BY StopStays
<1>1. leg' = leg
  <2>1. CASE StreamToolCalls
    BY <2>1 DEF StreamToolCalls, Ready, Over
  <2>2. CASE LoopPanics
    BY <2>2 DEF LoopPanics, Over
  <2>. QED  BY <2>1, <2>2, OtherLegSteps
<1>2. loop.at = "tools"
  BY <1>1 DEF LegsInBatch
<1>3. UNCHANGED <<pendingApprovals, userQuestion>>
  <2>1. \A d \in Calls : ~Lists(d)
    BY DEF Lists, CallStep
  <2>2. ~LoopMark
    BY <1>2 DEF LoopMark
  <2>3. ~StopMark
    BY DEF StopMark, StopSignalled
  <2>. QED  BY <2>1, <2>2, <2>3, OtherListSteps DEF ListStep
<1>. QED  BY <1>1, <1>2, <1>3, TurnKept

(* A call takes no other call's request off the list.                      *)
LEMMA OwnRequestOnly ==
  ASSUME TypeInv, NEW c \in Calls, NEW d \in Calls, d # c, CallStep(d),
         PauseOf(c, "approval") \in pendingApprovals
  PROVE  PauseOf(c, "approval") \in pendingApprovals'
<1>1. \A k : PauseOf(d, k) # PauseOf(c, "approval")
  BY PauseFields
<1>. QED  BY <1>1 DEF CallStep, StartCall, EnterApproval, ListApproval, EnterQuestion,
     ListQuestion, EnterGate, Announce, Park, Resume, GiveUp, AbortCall, Execute, live, SetStatus

LEMMA ApprovalListedStep ==
  ASSUME TypeInv, LegsInBatch, LegShape, StopSignalled, ApprovalListed, [Next]_vars
  PROVE  ApprovalListed'
<1>. SUFFICES ASSUME NEW c \in Calls, ~stopSent', leg'[c].at = "approval",
                     leg'[c].step \in {"announce", "poll", "wait"}
              PROVE  PauseOf(c, "approval")' \in pendingApprovals'
  BY DEF ApprovalListed
<1>0. ~stopSent
  BY StopStays
<1>1. CASE \A d \in Calls : ~CallStep(d)
  BY <1>0, <1>1, CallsStand DEF ApprovalListed, PauseOf
<1>2. ASSUME NEW d \in Calls, CallStep(d) PROVE PauseOf(c, "approval")' \in pendingApprovals'
  <2>1. UNCHANGED turns
    BY <1>2, LegMoves
  <2>2. PauseOf(c, "approval")' = PauseOf(c, "approval")
    BY <2>1 DEF PauseOf
  <2>3. CASE d # c
    <3>1. leg'[c] = leg[c]
      BY <1>2, <2>3, OtherLegsStand
    <3>. QED  BY <1>0, <1>2, <2>2, <2>3, <3>1, OwnRequestOnly DEF ApprovalListed
  <2>4. CASE d = c
    <3>1. leg[c].at = "approval"
      BY <1>2, <2>4, StepsOfCall
    <3>2. CASE ListApproval(c)
      BY <2>2, <3>2 DEF ListApproval
    <3>3. CASE Announce(c) /\ leg[c].step = "announce"
      BY <1>0, <2>2, <3>1, <3>3 DEF Announce, SetStatus, ApprovalListed
    <3>4. CASE Park(c) /\ leg[c].step = "poll"
      BY <1>0, <2>2, <3>1, <3>4 DEF Park, live, ApprovalListed
    <3>. QED  BY <1>2, <2>4, <3>1, <3>2, <3>3, <3>4, StepsOfCall DEF EnterGate, ListQuestion,
         GateKinds
  <2>. QED  BY <2>3, <2>4
<1>. QED  BY <1>1, <1>2

LEMMA QuestionListedStep ==
  ASSUME TypeInv, LegsInBatch, LegShape, StopSignalled, QuestionListed, [Next]_vars
  PROVE  QuestionListed'
<1>. DEFINE Listed(c) == /\ leg[c].step = "list" => userQuestion = NoPause
                         /\ leg[c].step \in {"announce", "poll", "wait"} =>
                              userQuestion = PauseOf(c, "question")
<1>. SUFFICES ASSUME NEW c \in Calls, ~stopSent', leg'[c].at = "question"
              PROVE  Listed(c)'
  BY DEF QuestionListed
<1>0. ~stopSent
  BY StopStays
<1>1. CASE leg'[c].step \in {"none", "enter"}
  BY <1>1
<1>2. CASE leg'[c].step # "none" /\ \A d \in Calls : ~CallStep(d)
  BY <1>0, <1>2, CallsStand DEF QuestionListed, PauseOf
<1>3. ASSUME NEW d \in Calls, CallStep(d), leg'[c].step \notin {"none", "enter"} PROVE Listed(c)'
  <2>1. UNCHANGED turns
    BY <1>3, LegMoves
  <2>2. PauseOf(c, "question")' = PauseOf(c, "question") /\ PauseOf(c, "question") # NoPause
    BY <2>1, PauseFacts, NoPauseIsNone DEF PauseOf, TypeInv, CallKind
  <2>3. CASE d = c
    <3>1. leg[c].at = "question"
      BY <1>3, <2>3, StepsOfCall
    <3>2. CASE EnterQuestion(c) /\ leg'[c].step = "list"
      <4>1. ~SetLeg(c, Over)
        BY <3>2, LegSet, AdvancedIsNew
      <4>. QED  BY <3>2, <4>1 DEF EnterQuestion, live
    <3>3. CASE ListQuestion(c) /\ leg'[c].step = "announce"
      BY <2>2, <3>3 DEF ListQuestion
    <3>4. CASE Announce(c) /\ leg[c].step = "announce" /\ leg'[c].step = "poll"
      BY <1>0, <2>2, <3>1, <3>4 DEF Announce, SetStatus, QuestionListed
    <3>5. CASE Park(c) /\ leg[c].step = "poll" /\ leg'[c].step = "wait"
      BY <1>0, <2>2, <3>1, <3>5 DEF Park, live, QuestionListed
    <3>. QED  BY <1>3, <2>3, <3>1, <3>2, <3>3, <3>4, <3>5, StepsOfCall
         DEF EnterGate, EnterApproval, ListApproval, GateKinds
  <2>4. CASE d # c
    <3>1. leg'[c] = leg[c] /\ ~MidPoll(c)
      BY <1>3, <2>4, OtherLegsStand, CallIsPolled
    <3>2. leg[c].step = "wait"
      BY <1>3, <3>1 DEF MidPoll, TypeInv, TypeOK, BatchType, Leg
    <3>3. userQuestion = PauseOf(c, "question") /\ userQuestion # PauseOf(d, "question")
      BY <1>0, <2>4, <3>1, <3>2, PauseFields DEF QuestionListed
    <3>4. leg[d].at = "question" => leg[d].step \notin {"list", "announce", "poll", "wait"}
      BY <1>0, <2>2, <3>3 DEF QuestionListed
    <3>5. UNCHANGED userQuestion
      BY <1>3, <3>4 DEF CallStep, StartCall, EnterApproval, ListApproval, EnterQuestion,
         ListQuestion, EnterGate, Announce, Park, Resume, GiveUp, AbortCall, Execute, live, SetStatus
    <3>. QED  BY <2>2, <3>1, <3>2, <3>3, <3>5
  <2>. QED  BY <2>3, <2>4
<1>. QED  BY <1>1, <1>2, <1>3

-----------------------------------------------------------------------------
(* A sender leaves its place only with a decision or with its channel      *)
(* closed.                                                                 *)
LEMMA WaitingIsHeldStep ==
  ASSUME TypeInv, SendersWait, HookInWait, WaitingIsHeld, [Next]_vars
  PROVE  WaitingIsHeld'
<1>. USE NoPauseIsNone
<1>. approvals \subseteq Pause /\ mail \in [Pause -> Mail]
  BY DEF TypeInv, TypeOK, SendersType
<1>. SUFFICES ASSUME NEW q \in Pause, mail'[q] = "waiting" PROVE Held(q)'
  BY DEF WaitingIsHeld
<1>0. mail[q] = "waiting" => Held(q)
  BY DEF WaitingIsHeld
<1>1. CASE UNCHANGED senders
  BY <1>0, <1>1 DEF senders, Held
<1>2. ASSUME NEW c \in Calls, EnterApproval(c) PROVE Held(q)'
  <2>1. PauseOf(c, "approval").kind = "approval"
    BY PauseFields
  <2>. QED  BY <1>0, <1>2, <2>1 DEF EnterApproval, Held
<1>3. ASSUME NEW c \in Calls, EnterQuestion(c) PROVE Held(q)'
  <2>1. PauseOf(c, "question").kind = "question" /\ PauseOf(c, "question") \in Pause
    BY PauseFields, PauseFacts DEF TypeInv, CallKind
  <2>2. CASE mail' = [Dropped({questionTx}) EXCEPT ![PauseOf(c, "question")] = "waiting"]
             /\ questionTx' = PauseOf(c, "question") /\ UNCHANGED <<approvals, gateSlot, hookWait>>
    <3>1. CASE q = PauseOf(c, "question")
      BY <2>1, <2>2, <3>1 DEF Held
    <3>2. CASE q # PauseOf(c, "question")
      <4>1. mail'[q] = Dropped({questionTx})[q]
        BY <2>2, <3>2, DroppedType DEF TypeInv
      <4>2. mail[q] = "waiting" /\ q # questionTx
        BY <4>1, DroppedWaits
      <4>. QED  BY <1>0, <2>2, <4>2 DEF Held
    <3>. QED  BY <3>1, <3>2
  <2>. QED  BY <1>1, <1>3, <2>2 DEF EnterQuestion, senders
<1>4. ASSUME NEW c \in Calls, EnterGate(c) PROVE Held(q)'
  <2>1. PauseOf(c, leg[c].at).kind \in GateKinds
    BY <1>4, PauseFields DEF EnterGate
  <2>2. CASE gateSlot = NoPause /\ gateSlot' = PauseOf(c, leg[c].at)
             /\ mail' = [mail EXCEPT ![PauseOf(c, leg[c].at)] = "waiting"]
             /\ UNCHANGED <<approvals, questionTx, hookWait>>
    BY <1>0, <2>1, <2>2 DEF Held
  <2>. QED  BY <1>1, <1>4, <2>2 DEF EnterGate, senders
<1>5. ASSUME NEW c \in Calls, Resume(c) PROVE Held(q)'
  <2>1. CASE questionTx' = NoPause /\ mail' = Dropped({questionTx})
             /\ UNCHANGED <<approvals, gateSlot, hookWait>>
    BY <1>0, <2>1, DroppedWaits DEF Held
  <2>. QED  BY <1>1, <1>5, <2>1 DEF Resume, senders
<1>6. ASSUME NEW c \in Calls, GiveUp(c) PROVE Held(q)'
  <2>. DEFINE k == leg[c].at
              S == {PauseOf(c, k)} \cup (IF k = "question" THEN {questionTx} ELSE {})
                       \cup (IF k \in GateKinds THEN {gateSlot} ELSE {})
  <2>1. /\ approvals' = approvals \ {PauseOf(c, k)}
        /\ questionTx' = IF k = "question" THEN NoPause ELSE questionTx
        /\ gateSlot' = IF k \in GateKinds THEN NoPause ELSE gateSlot
        /\ UNCHANGED hookWait
        /\ mail' = Dropped(S)
    BY <1>6 DEF GiveUp
  <2>2. mail[q] = "waiting" /\ q \notin S
    BY <2>1, DroppedWaits
  <2>. QED  BY <1>0, <2>1, <2>2 DEF Held
<1>7. CASE HookPost
  <2>1. hookWait = NoPause
    BY <1>7 DEF HookPost, HookInWait
  <2>. QED  BY <1>0, <1>7, <2>1, KindOfPause DEF HookPost, Held
<1>8. CASE HookWake
  <2>1. mail[q] = "waiting" /\ q # hookWait
    BY <1>8, DroppedWaits DEF HookWake
  <2>. QED  BY <1>0, <1>8, <2>1 DEF HookWake, Held
<1>9. CASE Drops
  <2>1. mail[q] = "waiting" /\ q \notin approvals \cup {questionTx, gateSlot, hookWait}
    BY <1>9, DroppedWaits DEF Drops, LoopDrop, StopDrop, DropSenders
  <2>. QED  BY <1>0, <2>1 DEF Held
<1>10. CASE Resolves
  <2>1. handler.decision # "waiting"
    BY DEF TypeInv, TypeOK, ClientType, Handler, Decision
  <2>2. \A p, d : d # "waiting" /\ mail' = [mail EXCEPT ![p] = d] => q # p /\ mail[q] = "waiting"
    OBVIOUS
  <2>3. CASE ResolveApproval
    BY <1>0, <2>1, <2>2, <2>3 DEF ResolveApproval, Deliver, Held
  <2>4. CASE ResolveGate
    BY <1>0, <2>1, <2>2, <2>4 DEF ResolveGate, Deliver, Held
  <2>5. CASE ResolveQuestion
    BY <1>0, <2>1, <2>2, <2>5 DEF ResolveQuestion, Deliver, Held
  <2>6. CASE ResolveHook
    BY <1>0, <2>1, <2>2, <2>6 DEF ResolveHook, Deliver, Held
  <2>. QED  BY <1>10, <2>3, <2>4, <2>5, <2>6 DEF Resolves
<1>. QED  BY <1>1, <1>2, <1>3, <1>4, <1>5, <1>6, <1>7, <1>8, <1>9, <1>10, OtherSteps
     DEF SenderStep, Posts

-----------------------------------------------------------------------------
(* The inductive invariant of a sleeping call.                             *)
PauseInv ==
  /\ WaitingIsHeld /\ HookInWait /\ OneMidPoll /\ StopSignalled
  /\ ApprovalListed /\ QuestionListed

LEMMA InitPauses == Init => PauseInv
<1>. SUFFICES ASSUME Init PROVE PauseInv
  OBVIOUS
<1>1. \A c \in Calls : leg[c].at = "over" /\ leg[c].step = "none"
  BY DEF Init, Over
<1>2. WaitingIsHeld /\ HookInWait /\ StopSignalled
  BY DEF Init, WaitingIsHeld, HookInWait, StopSignalled, NoHandler
<1>3. OneMidPoll /\ ApprovalListed /\ QuestionListed
  BY <1>1 DEF OneMidPoll, MidPoll, ApprovalListed, QuestionListed
<1>. QED  BY <1>2, <1>3 DEF PauseInv

LEMMA StepPauses == TypeInv /\ GateInv /\ PauseInv /\ [Next]_vars => PauseInv'
<1>. SUFFICES ASSUME TypeInv, GateInv, PauseInv, [Next]_vars PROVE PauseInv'
  OBVIOUS
<1>. USE DEF GateInv, PauseInv
<1>1. WaitingIsHeld'
  BY WaitingIsHeldStep
<1>2. HookInWait' /\ OneMidPoll' /\ StopSignalled'
  BY HookInWaitStep, OneMidPollStep, StopSignalledStep
<1>3. ApprovalListed' /\ QuestionListed'
  BY ApprovalListedStep, QuestionListedStep
<1>. QED  BY <1>1, <1>2, <1>3

THEOREM PausesInvariant == Spec => [](TypeInv /\ GateInv /\ PauseInv)
<1>1. Init => PauseInv
  BY InitPauses
<1>2. TypeInv /\ GateInv /\ PauseInv /\ [Next]_vars => PauseInv'
  BY StepPauses
<1>. QED  BY <1>1, <1>2, GatesInvariant, PTL DEF Spec

(* A call, or the turn-end hook, that waits for a decision can get one:    *)
(* its sender is registered and, before a stop, it is listed for a client  *)
(* (the waits of gates.rs and the hook of engine_loop.rs).                 *)
THEOREM SleepersCanBeWoken == Spec => []SleeperIsResolvable
<1>1. ASSUME TypeInv, GateInv, PauseInv PROVE SleeperIsResolvable
  <2>1. ASSUME NEW c \in Calls, leg[c].step \in {"poll", "wait"},
               mail[PauseOf(c, leg[c].at)] = "waiting"
        PROVE  Registered(PauseOf(c, leg[c].at))
    <3>. DEFINE p == PauseOf(c, leg[c].at)
    <3>1. leg[c].at \in CallKind
      BY <1>1, <2>1 DEF GateInv, LegShape
    <3>2. p \in Pause /\ p.kind = leg[c].at
      BY <1>1, <3>1, PauseFacts, PauseFields DEF TypeInv
    <3>3. Held(p)
      BY <1>1, <2>1, <3>2 DEF PauseInv, WaitingIsHeld
    <3>4. p.kind = "approval" /\ ~stopSent => p \in pendingApprovals
      BY <1>1, <2>1, <3>2 DEF PauseInv, ApprovalListed
    <3>5. p.kind = "question" /\ ~stopSent => p = userQuestion
      BY <1>1, <2>1, <3>2 DEF PauseInv, QuestionListed
    <3>. HIDE DEF p
    <3>6. Registered(p)
      BY <3>1, <3>2, <3>3, <3>4, <3>5 DEF Registered, Held, CallKind, GateKinds
    <3>. QED  BY <3>6 DEF p
  <2>2. ASSUME mail[HookPause] = "waiting" PROVE Registered(HookPause)
    <3>1. HookPause \in Pause /\ HookPause.kind = "hook"
      BY <1>1, HookPauseType, KindOfPause DEF TypeInv
    <3>2. Held(HookPause)
      BY <1>1, <2>2, <3>1 DEF PauseInv, WaitingIsHeld
    <3>. QED  BY <3>1, <3>2 DEF Registered, Held, GateKinds
  <2>. QED  BY <2>1, <2>2 DEF SleeperIsResolvable
<1>. QED  BY <1>1, PausesInvariant, PTL

-----------------------------------------------------------------------------
(* What a run that ends leaves behind. Who cleans up depends on how it     *)
(* ends: its loop when it marks the run, the handler of the stop when that *)
(* was first, and, for what a call posts after the handler has cleaned up, *)
(* the call itself, before it sleeps.                                      *)

(* A terminal run was stopped or is beyond its own mark.                   *)
TerminalIsStopped == status \in Terminal => stopSent \/ loop.at \in {"drop", "exited"}

(* p is a pause of kind k whose call is in one of the steps S of it.       *)
In(p, k, S) ==
  /\ p.call \in Calls
  /\ p = PauseOf(p.call, k)
  /\ leg[p.call].at = k /\ leg[p.call].step \in S

(* After the mark of a stop, only a call that has not slept yet is listed. *)
ListedIsMoving ==
  stopSent /\ handler.at # "mark" =>
    /\ \A p \in pendingApprovals : In(p, "approval", {"announce", "poll"})
    /\ userQuestion # NoPause => In(userQuestion, "question", {"announce", "poll"})

(* After its drop, only such a call has a sender.                          *)
HeldIsMoving ==
  stopSent /\ handler.at \notin {"mark", "drop"} /\ loop.at # "drop" =>
    /\ \A p \in approvals : In(p, "approval", {"list", "announce", "poll"})
    /\ questionTx # NoPause => In(questionTx, "question", {"list", "announce", "poll"})
    /\ gateSlot # NoPause => In(gateSlot, gateSlot.kind, {"announce", "poll"})

Unlisted == pendingApprovals = {} /\ userQuestion = NoPause
Unheld == approvals = {} /\ questionTx = NoPause /\ gateSlot = NoPause
DropIsUnlisted == loop.at = "drop" => Unlisted
ExitIsClean == loop.at = "exited" => stopSent \/ (Unlisted /\ Unheld)

LEMMA TerminalIsStoppedStep ==
  ASSUME TypeInv, StopSignalled, TerminalIsStopped, [Next]_vars
  PROVE  TerminalIsStopped'
<1>. USE StopStays, AtType DEF Position
<1>1. ASSUME UNCHANGED <<status, loop>> PROVE TerminalIsStopped'
  BY <1>1 DEF TerminalIsStopped
<1>2. ASSUME UNCHANGED status, loop.at \notin {"drop", "exited"} PROVE TerminalIsStopped'
  BY <1>2 DEF TerminalIsStopped
<1>3. ASSUME status' \notin Terminal PROVE TerminalIsStopped'
  BY <1>3 DEF TerminalIsStopped
<1>4. "running" \notin Terminal /\ \A k : AwaitingStatus(k) \notin Terminal
  BY DEF Terminal, AwaitingStatus
<1>5. CASE LoopMark \/ LoopDrop
  BY <1>5 DEF LoopMark, LoopDrop, TerminalIsStopped
<1>6. CASE HookAnnounce \/ HookApply
  BY <1>2, <1>3, <1>4, <1>6 DEF HookAnnounce, HookApply, SetStatus, live, Terminal
<1>7. CASE LoopStep
  BY <1>2, <1>5, <1>6, <1>7 DEF LoopStep, LoopTop, StreamStopped, StreamFails,
     StreamReply, StreamDropped, StreamToolCalls, BatchOver, HookAuto, HookPost, HookWake,
     Finish, LoopPanics, Polled, live, NextTurn
<1>8. ASSUME NEW c \in Calls, CallStep(c) PROVE TerminalIsStopped'
  BY <1>1, <1>3, <1>4, <1>8 DEF CallStep, StartCall, EnterApproval, ListApproval, EnterQuestion,
     ListQuestion, EnterGate, Announce, Park, Resume, GiveUp, AbortCall, Execute, live, SetStatus
<1>9. CASE ClientStep
  BY <1>1, <1>9 DEF ClientStep, RequestApprove, RequestGate, RequestAnswer, RequestHook,
     RequestStop, Request, SetHookMode, live
<1>10. CASE StopMark
  BY <1>10 DEF StopMark, TerminalIsStopped, StopSignalled
<1>11. CASE HandlerStep
  BY <1>1, <1>3, <1>4, <1>10, <1>11 DEF HandlerStep, CheckId, ResolveApproval, ResolveGate,
     ResolveQuestion, ResolveHook, UnlistHook, Recheck, SetRunning, StopSignal, StopDrop, live,
     SetStatus
<1>12. CASE UNCHANGED vars
  BY <1>1, <1>12 DEF vars, live
<1>. QED  BY <1>7, <1>8, <1>9, <1>11, <1>12 DEF Next

(* Once stopped, a call that has not slept yet stays so until it resumes   *)
(* or gives up: it cannot park, and a dispatch is dropped only asleep.     *)
LEMMA MovingStays ==
  ASSUME TypeInv, LegsInBatch, LegShape, stopSent, [Next]_vars,
         NEW p, NEW k \in CallKind,
         NEW S, S = {"announce", "poll"} \/ S = {"list", "announce", "poll"},
         In(p, k, S)
  PROVE  \/ In(p, k, S)'
         \/ \E c \in Calls : p = PauseOf(c, k) /\ leg[c].at = k /\ (Resume(c) \/ GiveUp(c))
<1>. DEFINE c == p.call
<1>0. /\ c \in Calls /\ p = PauseOf(c, k) /\ leg[c].at = k
      /\ leg[c].step \in {"list", "announce", "poll"} /\ leg[c].step \in S
      /\ k \notin {"ready", "exec", "over"}
      /\ loop.at = "tools"
  BY DEF In, LegsInBatch, CallKind
<1>. HIDE DEF c
<1>1. UNCHANGED turns
  BY <1>0, TurnKept
<1>2. leg'[c].at = k /\ leg'[c].step \in S => In(p, k, S)'
  BY <1>0, <1>1 DEF In, PauseOf, c
<1>3. CASE UNCHANGED leg
  BY <1>0, <1>2, <1>3
<1>4. ~StreamToolCalls
  BY <1>0 DEF StreamToolCalls
<1>5. ~LoopPanics
  BY <1>0 DEF LoopPanics, Polled, MidPoll
<1>6. ASSUME NEW d \in Calls, d # c, CallStep(d) PROVE In(p, k, S)'
  BY <1>0, <1>2, <1>6, OtherLegsStand
<1>7. CASE CallStep(c)
  <2>1. CASE ListApproval(c) \/ ListQuestion(c)
    <3>1. SetLeg(c, [leg[c] EXCEPT !.step = "announce"])
      BY <2>1 DEF ListApproval, ListQuestion
    <3>. QED  BY <1>0, <1>2, <3>1, StepOfLeg
  <2>2. CASE Announce(c)
    <3>1. SetLeg(c, [leg[c] EXCEPT !.step = "poll"])
      BY <2>2 DEF Announce
    <3>. QED  BY <1>0, <1>2, <3>1, StepOfLeg
  <2>3. CASE Resume(c) \/ GiveUp(c)
    BY <1>0, <2>3
  <2>. QED  BY <1>0, <1>7, <2>1, <2>2, <2>3 DEF CallStep, StartCall, Startable, EnterApproval,
       EnterQuestion, EnterGate, Park, AbortCall, Execute
<1>. QED  BY <1>3, <1>4, <1>5, <1>6, <1>7, OtherLegSteps

(* The steps that signal a stop, and those that end its handler's parts.   *)
LEMMA StopMoves ==
  ASSUME TypeInv, [Next]_vars
  PROVE  /\ stopSent' = stopSent \/ StopSignal \/ LoopMark
         /\ handler.at = "mark" => handler'.at = "mark" \/ StopMark
         /\ handler.at = "drop" => handler'.at = "drop" \/ StopDrop
         /\ loop.at = "drop" => loop'.at = "drop" \/ LoopDrop
         /\ loop.at = "exited" => loop'.at = "exited"
<1>. DEFINE Goal == /\ stopSent' = stopSent \/ StopSignal \/ LoopMark
                    /\ handler.at = "mark" => handler'.at = "mark" \/ StopMark
                    /\ handler.at = "drop" => handler'.at = "drop" \/ StopDrop
                    /\ loop.at = "drop" => loop'.at = "drop" \/ LoopDrop
                    /\ loop.at = "exited" => loop'.at = "exited"
<1>1. CASE LoopStep
  BY <1>1, HandlerMoves DEF LoopStep, LoopTop, StreamStopped, StreamFails, StreamReply,
     StreamDropped, StreamToolCalls, BatchOver, HookAuto, HookPost, HookAnnounce, HookWake,
     HookApply, Finish, LoopMark, LoopDrop, LoopPanics, Polled
<1>2. ASSUME NEW c \in Calls, CallStep(c) PROVE Goal
  BY <1>2, HandlerMoves DEF CallStep, StartCall, EnterApproval, ListApproval, EnterQuestion,
     ListQuestion, EnterGate, Announce, Park, Resume, GiveUp, AbortCall, Execute
<1>3. CASE ClientStep
  BY <1>3, HandlerMoves DEF ClientStep, RequestApprove, RequestGate, RequestAnswer, RequestHook,
     RequestStop, Request, SetHookMode, NoHandler
<1>4. CASE HandlerStep
  BY <1>4, HandlerMoves DEF HandlerStep, CheckId, ResolveApproval, ResolveGate, ResolveQuestion,
     ResolveHook, UnlistHook, Recheck, SetRunning, StopSignal, StopMark, StopDrop
<1>5. CASE UNCHANGED vars
  BY <1>5 DEF vars, client
<1>. QED  BY <1>1, <1>2, <1>3, <1>4, <1>5 DEF Next

LEMMA ListedIsMovingStep ==
  ASSUME TypeInv, LegsInBatch, LegShape, ListedIsMoving, [Next]_vars
  PROVE  ListedIsMoving'
<1>. SUFFICES ASSUME stopSent', handler'.at # "mark"
              PROVE  /\ \A p \in pendingApprovals' : In(p, "approval", {"announce", "poll"})'
                     /\ userQuestion' # NoPause =>
                          In(userQuestion, "question", {"announce", "poll"})'
  BY DEF ListedIsMoving
<1>1. CASE StopMark \/ LoopMark
  BY <1>1 DEF StopMark, LoopMark, MarkLive
<1>2. CASE ~(StopMark \/ LoopMark)
  <2>1. ~StopSignal
    BY HandlerMoves DEF StopSignal
  <2>2. stopSent /\ handler.at # "mark"
    BY <1>2, <2>1, StopMoves
  <2>3. ASSUME NEW p \in pendingApprovals' PROVE In(p, "approval", {"announce", "poll"})'
    <3>1. CASE p \in pendingApprovals
      <4>1. In(p, "approval", {"announce", "poll"})
        BY <2>2, <3>1 DEF ListedIsMoving
      <4>2. ASSUME NEW c \in Calls, p = PauseOf(c, "approval"), leg[c].at = "approval",
                   Resume(c) \/ GiveUp(c)
            PROVE  FALSE
        BY <2>3, <4>2 DEF Resume, GiveUp
      <4>. QED  BY <2>2, <4>1, <4>2, MovingStays DEF CallKind
    <3>2. CASE p \notin pendingApprovals
      <4>1. PICK c \in Calls : Lists(c)
        BY <1>2, <2>3, <3>2, OtherListSteps DEF ListStep
      <4>2. ListApproval(c) /\ p = PauseOf(c, "approval")
        BY <2>3, <3>2, <4>1 DEF Lists, ListApproval, ListQuestion, Resume, GiveUp
      <4>3. SetLeg(c, [leg[c] EXCEPT !.step = "announce"]) /\ UNCHANGED turns
            /\ leg[c].at = "approval"
        BY <4>2 DEF ListApproval
      <4>4. leg'[c].at = "approval" /\ leg'[c].step = "announce"
        BY <4>3, StepOfLeg
      <4>. QED  BY <4>2, <4>3, <4>4, PauseFields DEF In, PauseOf
    <3>. QED  BY <3>1, <3>2
  <2>4. ASSUME userQuestion' # NoPause PROVE In(userQuestion, "question", {"announce", "poll"})'
    <3>0. PICK p : p = userQuestion'
      OBVIOUS
    <3>1. CASE p = userQuestion /\ \A c \in Calls : ~ListQuestion(c)
      <4>1. In(p, "question", {"announce", "poll"})
        BY <2>2, <2>4, <3>0, <3>1 DEF ListedIsMoving
      <4>2. ASSUME NEW c \in Calls, p = PauseOf(c, "question"), leg[c].at = "question",
                   Resume(c) \/ GiveUp(c)
            PROVE  FALSE
        BY <2>4, <4>2 DEF Resume, GiveUp
      <4>3. In(p, "question", {"announce", "poll"})'
        BY <2>2, <4>1, <4>2, MovingStays DEF CallKind
      <4>. QED  BY <3>0, <4>3 DEF In
    <3>2. ASSUME NEW c \in Calls, ListQuestion(c)
          PROVE  In(userQuestion, "question", {"announce", "poll"})'
      <4>1. SetLeg(c, [leg[c] EXCEPT !.step = "announce"]) /\ UNCHANGED turns
            /\ leg[c].at = "question" /\ userQuestion' = PauseOf(c, "question")
        BY <3>2 DEF ListQuestion
      <4>2. leg'[c].at = "question" /\ leg'[c].step = "announce"
        BY <4>1, StepOfLeg
      <4>. QED  BY <4>1, <4>2, PauseFields DEF In, PauseOf
    <3>3. CASE p # userQuestion
      BY <1>2, <2>4, <3>0, <3>2, <3>3, OtherListSteps
         DEF ListStep, Lists, ListApproval, Resume, GiveUp
    <3>. QED  BY <3>1, <3>2, <3>3
  <2>. QED  BY <2>3, <2>4
<1>. QED  BY <1>1, <1>2

(* The senders a step adds.                                                *)
LEMMA SendersAdded ==
  ASSUME TypeInv, [Next]_vars
  PROVE  /\ \A p \in approvals' \ approvals :
              \E c \in Calls : EnterApproval(c) /\ p = PauseOf(c, "approval")
         /\ questionTx' \notin {questionTx, NoPause} =>
              \E c \in Calls : EnterQuestion(c) /\ questionTx' = PauseOf(c, "question")
         /\ gateSlot' \notin {gateSlot, NoPause} =>
              \E c \in Calls : EnterGate(c) /\ gateSlot' = PauseOf(c, leg[c].at)
<1>. DEFINE Goal ==
         /\ \A p \in approvals' \ approvals :
              \E c \in Calls : EnterApproval(c) /\ p = PauseOf(c, "approval")
         /\ questionTx' \notin {questionTx, NoPause} =>
              \E c \in Calls : EnterQuestion(c) /\ questionTx' = PauseOf(c, "question")
         /\ gateSlot' \notin {gateSlot, NoPause} =>
              \E c \in Calls : EnterGate(c) /\ gateSlot' = PauseOf(c, leg[c].at)
<1>1. ASSUME NEW c \in Calls, Posts(c) PROVE Goal
  BY <1>1 DEF Posts, EnterApproval, EnterQuestion, EnterGate, Resume, GiveUp
<1>2. CASE HookPost \/ HookWake
  BY <1>2 DEF HookPost, HookWake
<1>3. CASE Resolves \/ Drops
  BY <1>3 DEF Resolves, ResolveApproval, ResolveGate, ResolveQuestion, ResolveHook, Drops, LoopDrop,
     StopDrop, DropSenders
<1>4. CASE UNCHANGED senders
  BY <1>4 DEF senders
<1>. QED  BY <1>1, <1>2, <1>3, <1>4, OtherSteps DEF SenderStep

LEMMA HeldIsMovingStep ==
  ASSUME TypeInv, SendersWait, LegsInBatch, LegShape, HeldIsMoving, [Next]_vars
  PROVE  HeldIsMoving'
<1>. approvals \subseteq Pause /\ questionTx \in Pause \cup {NoPause}
     /\ gateSlot \in Pause \cup {NoPause}
  BY DEF TypeInv, TypeOK, SendersType
<1>. SUFFICES ASSUME stopSent', handler'.at \notin {"mark", "drop"}, loop'.at # "drop"
              PROVE  /\ \A p \in approvals' : In(p, "approval", {"list", "announce", "poll"})'
                     /\ questionTx' # NoPause =>
                          In(questionTx, "question", {"list", "announce", "poll"})'
                     /\ gateSlot' # NoPause => In(gateSlot, gateSlot.kind, {"announce", "poll"})'
  BY DEF HeldIsMoving
<1>1. CASE StopDrop \/ LoopDrop
  BY <1>1 DEF StopDrop, LoopDrop, DropSenders
<1>2. CASE ~(StopDrop \/ LoopDrop)
  <2>1. ~StopSignal /\ ~StopMark /\ ~LoopMark
    BY HandlerMoves, AtType DEF StopSignal, StopMark, LoopMark, Position
  <2>2. stopSent /\ handler.at \notin {"mark", "drop"} /\ loop.at # "drop"
    BY <1>2, <2>1, StopMoves
  <2>3. ASSUME NEW p \in approvals' PROVE In(p, "approval", {"list", "announce", "poll"})'
    <3>1. CASE p \in approvals
      <4>1. In(p, "approval", {"list", "announce", "poll"}) /\ mail[p] = "waiting"
        BY <2>2, <3>1 DEF HeldIsMoving, SendersWait, ApprovalsWait
      <4>2. ASSUME NEW c \in Calls, p = PauseOf(c, "approval"), leg[c].at = "approval",
                   Resume(c) \/ GiveUp(c)
            PROVE  FALSE
        BY <2>3, <4>1, <4>2 DEF Resume, GiveUp
      <4>. QED  BY <2>2, <4>1, <4>2, MovingStays DEF CallKind
    <3>2. CASE p \notin approvals
      <4>1. PICK c \in Calls : EnterApproval(c) /\ p = PauseOf(c, "approval")
        BY <2>3, <3>2, SendersAdded
      <4>2. SetLeg(c, [leg[c] EXCEPT !.step = "list"]) /\ UNCHANGED turns /\ leg[c].at = "approval"
        BY <4>1 DEF EnterApproval, live
      <4>. QED  BY <4>1, <4>2, StepOfLeg, PauseFields DEF In, PauseOf
    <3>. QED  BY <3>1, <3>2
  <2>4. ASSUME questionTx' # NoPause
        PROVE  In(questionTx, "question", {"list", "announce", "poll"})'
    <3>0. PICK p : p = questionTx'
      OBVIOUS
    <3>1. CASE p = questionTx
      <4>1. In(p, "question", {"list", "announce", "poll"}) /\ mail[p] = "waiting"
        BY <2>2, <2>4, <3>0, <3>1 DEF HeldIsMoving, SendersWait, QuestionWaits
      <4>2. ASSUME NEW c \in Calls, p = PauseOf(c, "question"), leg[c].at = "question",
                   Resume(c) \/ GiveUp(c)
            PROVE  FALSE
        BY <2>4, <4>2 DEF Resume, GiveUp
      <4>3. In(p, "question", {"list", "announce", "poll"})'
        BY <2>2, <4>1, <4>2, MovingStays DEF CallKind
      <4>. QED  BY <3>0, <4>3 DEF In
    <3>2. CASE p # questionTx
      <4>1. PICK c \in Calls : EnterQuestion(c) /\ questionTx' = PauseOf(c, "question")
        BY <2>4, <3>0, <3>2, SendersAdded
      <4>2. leg[c].at = "question" /\ UNCHANGED turns
            /\ SetLeg(c, [leg[c] EXCEPT !.step = "list"])
        BY <3>0, <3>2, <4>1 DEF EnterQuestion, live
      <4>. QED  BY <4>1, <4>2, StepOfLeg, PauseFields DEF In, PauseOf
    <3>. QED  BY <3>1, <3>2
  <2>5. ASSUME gateSlot' # NoPause PROVE In(gateSlot, gateSlot.kind, {"announce", "poll"})'
    <3>0. PICK p : p = gateSlot'
      OBVIOUS
    <3>1. CASE p = gateSlot
      <4>1. In(p, p.kind, {"announce", "poll"}) /\ mail[p] = "waiting" /\ p.kind \in GateKinds
        BY <2>2, <2>5, <3>0, <3>1 DEF HeldIsMoving, SendersWait, GateWaits
      <4>2. ASSUME NEW c \in Calls, p = PauseOf(c, p.kind), leg[c].at = p.kind,
                   Resume(c) \/ GiveUp(c)
            PROVE  FALSE
        BY <2>5, <3>0, <4>1, <4>2 DEF Resume, GiveUp
      <4>3. In(p, p.kind, {"announce", "poll"})'
        BY <2>2, <4>1, <4>2, MovingStays DEF CallKind, GateKinds
      <4>. QED  BY <3>0, <4>3 DEF In
    <3>2. CASE p # gateSlot
      <4>1. PICK c \in Calls : EnterGate(c) /\ gateSlot' = PauseOf(c, leg[c].at)
        BY <2>5, <3>0, <3>2, SendersAdded
      <4>2. UNCHANGED turns /\ SetLeg(c, [leg[c] EXCEPT !.step = "announce"])
        BY <3>0, <3>2, <4>1 DEF EnterGate, live
      <4>. QED  BY <4>1, <4>2, StepOfLeg, PauseFields DEF In, PauseOf
    <3>. QED  BY <3>1, <3>2
  <2>. QED  BY <2>3, <2>4, <2>5
<1>. QED  BY <1>1, <1>2

(* How the loop comes to its drop and to its end.                          *)
LEMMA LoopEnds ==
  ASSUME TypeInv, [Next]_vars
  PROVE  /\ loop'.at = "drop" => loop.at = "drop" \/ LoopMark
         /\ loop'.at = "exited" =>
              \/ loop.at = "exited" \/ LoopDrop \/ StreamStopped
              \/ Finish /\ status \in Terminal
<1>. DEFINE Goal == /\ loop'.at = "drop" => loop.at = "drop" \/ LoopMark
                    /\ loop'.at = "exited" =>
                         \/ loop.at = "exited" \/ LoopDrop \/ StreamStopped
                         \/ Finish /\ status \in Terminal
<1>. USE AtType, FinishingType, AtHookType DEF Position
<1>0. loop.had \in BOOLEAN /\ {"done", "stopped", "error"} \subseteq Terminal /\ loop \in Loop
  BY DEF TypeInv, TypeOK, Loop, Terminal
<1>1. CASE UNCHANGED loop
  BY <1>1
<1>2. CASE LoopTop \/ StreamFails \/ StreamReply \/ StreamDropped
  <2>1. CASE LoopTop
    BY <1>0, <2>1 DEF LoopTop
  <2>2. CASE StreamFails
    <3>1. CASE loop.attempt < 3
      <4>1. PICK local \in {loop.local, CloudRun} :
                   loop' = [loop EXCEPT !.attempt = @ + 1, !.local = local]
        BY <2>2, <3>1 DEF StreamFails
      <4>2. loop'.at = loop.at
        BY <1>0, <4>1 DEF Loop
      <4>. QED  BY <2>2, <4>2 DEF StreamFails
    <3>2. CASE ~(loop.attempt < 3)
      BY <1>0, <2>2, <3>2 DEF StreamFails
    <3>. QED  BY <3>1, <3>2
  <2>3. CASE StreamReply \/ StreamDropped
    BY <1>0, <2>3 DEF StreamReply, StreamDropped
  <2>. QED  BY <1>2, <2>1, <2>2, <2>3
<1>3. CASE StreamToolCalls \/ BatchOver \/ LoopPanics
  BY <1>0, <1>3 DEF StreamToolCalls, BatchOver, LoopPanics
<1>4. CASE HookAuto \/ HookPost \/ HookAnnounce
  BY <1>0, <1>4 DEF HookAuto, HookPost, HookAnnounce
<1>5. CASE HookWake
  <2>1. PICK d \in {"done", "continue", "abort"} :
               loop' = [At("hook_apply") EXCEPT !.decision = d]
    BY <1>5 DEF HookWake
  <2>. QED  BY <2>1 DEF At
<1>6. CASE HookApply
  BY <1>0, <1>6 DEF HookApply
<1>7. CASE Finish
  <2>1. CASE status \in Terminal
    BY <1>7, <2>1 DEF Finish
  <2>2. CASE status \notin Terminal
    <3>1. loop' = [loop EXCEPT !.at = "mark"]
      BY <1>7, <2>2 DEF Finish
    <3>. QED  BY <1>0, <3>1 DEF Loop
  <2>. QED  BY <2>1, <2>2
<1>8. CASE LoopDrop \/ LoopMark \/ StreamStopped
  BY <1>8 DEF LoopDrop, LoopMark, StreamStopped
<1>9. CASE LoopStep
  BY <1>2, <1>3, <1>4, <1>5, <1>6, <1>7, <1>8, <1>9 DEF LoopStep
<1>10. ASSUME NEW c \in Calls, CallStep(c) PROVE UNCHANGED loop
  BY <1>10, LegMoves DEF CallStep, StartCall, EnterApproval, ListApproval, EnterQuestion,
     ListQuestion, EnterGate, Announce, Park, Resume, GiveUp, AbortCall, Execute
<1>11. CASE ClientStep
  BY <1>1, <1>11 DEF ClientStep, RequestApprove, RequestGate, RequestAnswer, RequestHook,
     RequestStop, Request, SetHookMode
<1>12. CASE HandlerStep
  BY <1>1, <1>12 DEF HandlerStep, CheckId, ResolveApproval, ResolveGate, ResolveQuestion,
     ResolveHook, UnlistHook, Recheck, SetRunning, StopSignal, StopMark, StopDrop
<1>13. CASE UNCHANGED vars
  BY <1>1, <1>13 DEF vars
<1>. QED  BY <1>1, <1>9, <1>10, <1>11, <1>12, <1>13 DEF Next

(* Outside a batch nothing is added to what is pending.                    *)
LEMMA NothingAdded ==
  ASSUME TypeInv, [Next]_vars, loop.at # "tools"
  PROVE  (Unlisted => Unlisted') /\ (Unheld => Unheld')
<1>1. \A c \in Calls : ~CallStep(c)
  BY CallIsPolled
<1>2. Unlisted => Unlisted'
  <2>1. \A c \in Calls : ~Lists(c)
    BY <1>1 DEF Lists, CallStep
  <2>2. LoopMark \/ StopMark => Unlisted'
    BY DEF LoopMark, StopMark, MarkLive, Unlisted
  <2>. QED  BY <2>1, <2>2, OtherListSteps DEF ListStep, Unlisted
<1>3. Unheld => Unheld'
  <2>1. \A c \in Calls : ~EnterApproval(c) /\ ~EnterQuestion(c) /\ ~EnterGate(c)
    BY <1>1 DEF CallStep
  <2>2. approvals' \subseteq approvals /\ questionTx' \in {questionTx, NoPause}
        /\ gateSlot' \in {gateSlot, NoPause}
    BY <2>1, SendersAdded
  <2>. QED  BY <2>2 DEF Unheld
<1>. QED  BY <1>2, <1>3

LEMMA CleanStep ==
  ASSUME TypeInv, TerminalIsStopped, DropIsUnlisted, ExitIsClean, [Next]_vars
  PROVE  DropIsUnlisted' /\ ExitIsClean'
<1>1. ASSUME loop'.at = "drop" PROVE Unlisted'
  <2>1. CASE LoopMark
    BY <2>1 DEF LoopMark, MarkLive, Unlisted
  <2>2. CASE loop.at = "drop"
    BY <2>2, NothingAdded DEF DropIsUnlisted
  <2>. QED  BY <1>1, <2>1, <2>2, LoopEnds
<1>2. ASSUME loop'.at = "exited", ~stopSent' PROVE Unlisted' /\ Unheld'
  <2>0. ~stopSent
    BY <1>2, StopStays
  <2>1. CASE loop.at = "exited"
    BY <2>0, <2>1, NothingAdded DEF ExitIsClean
  <2>2. CASE LoopDrop
    <3>1. Unheld' /\ loop.at = "drop"
      BY <2>2 DEF LoopDrop, DropSenders, Unheld
    <3>. QED  BY <3>1, NothingAdded DEF DropIsUnlisted
  <2>3. ~StreamStopped /\ ~(Finish /\ status \in Terminal)
    BY <2>0 DEF StreamStopped, Finish, TerminalIsStopped
  <2>. QED  BY <1>2, <2>1, <2>2, <2>3, LoopEnds
<1>. QED  BY <1>1, <1>2 DEF DropIsUnlisted, ExitIsClean

(* The inductive invariant of a run that ends.                             *)
OrphanInv ==
  /\ TerminalIsStopped /\ ListedIsMoving /\ HeldIsMoving /\ DropIsUnlisted /\ ExitIsClean

LEMMA StepOrphans == TypeInv /\ GateInv /\ PauseInv /\ OrphanInv /\ [Next]_vars => OrphanInv'
<1>. SUFFICES ASSUME TypeInv, GateInv, PauseInv, OrphanInv, [Next]_vars PROVE OrphanInv'
  OBVIOUS
<1>. USE DEF GateInv, PauseInv, OrphanInv
<1>1. TerminalIsStopped'
  BY TerminalIsStoppedStep
<1>2. ListedIsMoving'
  BY ListedIsMovingStep
<1>3. HeldIsMoving'
  BY HeldIsMovingStep
<1>4. DropIsUnlisted' /\ ExitIsClean'
  BY CleanStep
<1>. QED  BY <1>1, <1>2, <1>3, <1>4

(* Once the loop is gone and no handler is in flight, no request is listed *)
(* and no sender is left, whatever stops, timeouts and decisions raced     *)
(* (mark_terminal, and the arms of every wait).                            *)
THEOREM NoPauseIsOrphaned == Spec => []NoOrphanPause
<1>1. Init => OrphanInv
  BY AtType DEF Init, OrphanInv, TerminalIsStopped, ListedIsMoving, HeldIsMoving, DropIsUnlisted,
     ExitIsClean, Terminal, Position
<1>2. TypeInv /\ GateInv /\ PauseInv /\ OrphanInv /\ [Next]_vars => OrphanInv'
  BY StepOrphans
<1>3. ASSUME GateInv, PauseInv, OrphanInv PROVE NoOrphanPause
  <2>. SUFFICES ASSUME loop.at = "exited", handler = NoHandler
                PROVE  /\ approvals = {} /\ pendingApprovals = {}
                       /\ {questionTx, gateSlot, hookWait, userQuestion, pendingHook} = {NoPause}
    BY DEF NoOrphanPause
  <2>1. hookWait = NoPause /\ pendingHook = NoPause
    BY <1>3 DEF PauseInv, HookInWait
  <2>2. handler.at = "idle"
    BY DEF NoHandler
  <2>3. \A p, k, S : "none" \notin S => ~In(p, k, S)
    BY <1>3 DEF In, GateInv, LegsInBatch, LegShape, CallKind
  <2>4. Unlisted /\ Unheld
    BY <1>3, <2>2, <2>3 DEF OrphanInv, ListedIsMoving, HeldIsMoving, ExitIsClean, Unlisted, Unheld
  <2>. QED  BY <2>1, <2>4 DEF Unlisted, Unheld
<1>. QED  BY <1>1, <1>2, <1>3, PausesInvariant, PTL DEF Spec
=============================================================================
