------------------------- MODULE RunRegistryProofs -------------------------
(***************************************************************************)
(* The registry of runs, for any number of clients, runs and places: runs  *)
(* at work stay listed, their number is bounded, and eviction takes the    *)
(* runs that ended first.                                                  *)
(***************************************************************************)
EXTENDS RunRegistry, FiniteSetTheorems, SequenceTheorems, TLAPS

-----------------------------------------------------------------------------
(* Sequences without repetition: what is at their end, start and middle.   *)

LEMMA AppendNew ==
  ASSUME NEW s \in Seq(Runs), IsInjective(s), NEW r \in Runs, r \notin ToSet(s)
  PROVE  /\ Append(s, r) \in Seq(Runs) /\ IsInjective(Append(s, r))
         /\ ToSet(Append(s, r)) = ToSet(s) \cup {r}
<1>. DEFINE t == Append(s, r)
<1>1. t \in Seq(Runs) /\ Len(t) = Len(s) + 1 /\ DOMAIN t = 1..(Len(s) + 1) /\ DOMAIN s = 1..Len(s)
  BY AppendProperties
<1>2. t[Len(s) + 1] = r /\ \A i \in 1..Len(s) : t[i] = s[i]
  BY AppendProperties
<1>3. Len(s) \in Nat
  BY LenProperties
<1>. HIDE DEF t
<1>4. IsInjective(t)
  BY <1>1, <1>2, <1>3 DEF IsInjective, ToSet
<1>5. ToSet(t) = ToSet(s) \cup {r}
  BY <1>1, <1>2, <1>3 DEF ToSet
<1>. QED  BY <1>1, <1>4, <1>5 DEF t

LEMMA DropFirst ==
  ASSUME NEW s \in Seq(Runs), IsInjective(s), NEW n \in 0..Len(s)
  PROVE  LET t == SubSeq(s, n + 1, Len(s))
         IN  /\ t \in Seq(Runs) /\ IsInjective(t)
             /\ ToSet(t) = ToSet(s) \ {s[i] : i \in 1..n}
<1>. DEFINE t == SubSeq(s, n + 1, Len(s))
<1>0. Len(s) \in Nat /\ DOMAIN s = 1..Len(s) /\ \A i \in 1..Len(s) : s[i] \in Runs
  BY LenProperties, ElementOfSeq
<1>1. t \in Seq(Runs) /\ Len(t) = Len(s) - n /\ \A i \in 1..(Len(s) - n) : t[i] = s[n + i]
  <2>1. n + 1 \in Int /\ Len(s) \in Int /\ \A i \in (n + 1)..Len(s) : s[i] \in Runs
    BY <1>0
  <2>2. t \in Seq(Runs) /\ Len(t) = IF n + 1 <= Len(s) THEN Len(s) - (n + 1) + 1 ELSE 0
    BY <2>1, SubSeqProperties
  <2>3. \A i \in 1..(Len(s) - (n + 1) + 1) : t[i] = s[(n + 1) + i - 1]
    BY <2>1, SubSeqProperties
  <2>. HIDE DEF t
  <2>4. Len(t) = Len(s) - n
    <3>1. CASE n = Len(s)
      <4>1. ~(n + 1 <= Len(s)) /\ Len(s) - n = 0
        BY <1>0, <3>1
      <4>. QED  BY <2>2, <4>1
    <3>2. CASE n < Len(s)
      <4>1. n + 1 <= Len(s) /\ Len(s) - (n + 1) + 1 = Len(s) - n
        BY <1>0, <3>2
      <4>. QED  BY <2>2, <4>1
    <3>3. Len(s) \in Nat /\ n \in 0..Len(s)
      BY <1>0
    <3>4. n = Len(s) \/ n < Len(s)
      BY <3>3
    <3>. QED  BY <3>1, <3>2, <3>4
  <2>5. ASSUME NEW i \in 1..(Len(s) - n) PROVE t[i] = s[n + i]
    <3>1. i \in 1..(Len(s) - (n + 1) + 1) /\ (n + 1) + i - 1 = n + i
      BY <1>0
    <3>2. t[i] = s[(n + 1) + i - 1]
      BY <2>3, <3>1
    <3>. QED  BY <3>1, <3>2
  <2>. QED  BY <2>2, <2>4, <2>5
<1>2. DOMAIN t = 1..(Len(s) - n)
  BY <1>1, LenProperties
<1>. HIDE DEF t
<1>3. IsInjective(t)
  <2>. SUFFICES ASSUME NEW a \in 1..(Len(s) - n), NEW b \in 1..(Len(s) - n), t[a] = t[b] PROVE a = b
    BY <1>2 DEF IsInjective
  <2>1. n + a \in DOMAIN s /\ n + b \in DOMAIN s
    BY <1>0
  <2>2. s[n + a] = s[n + b]
    BY <1>1
  <2>3. n + a = n + b
    BY <2>1, <2>2 DEF IsInjective
  <2>. QED  BY <1>0, <2>3
<1>4. ToSet(t) = ToSet(s) \ {s[i] : i \in 1..n}
  <2>1. ASSUME NEW x \in ToSet(t) PROVE x \in ToSet(s) \ {s[i] : i \in 1..n}
    <3>1. PICK i \in 1..(Len(s) - n) : x = s[n + i]
      BY <1>1, <1>2, <2>1 DEF ToSet
    <3>2. n + i \in DOMAIN s /\ \A j \in 1..n : j \in DOMAIN s /\ j # n + i
      BY <1>0
    <3>. QED  BY <3>1, <3>2 DEF ToSet, IsInjective
  <2>2. ASSUME NEW x \in ToSet(s) \ {s[i] : i \in 1..n} PROVE x \in ToSet(t)
    <3>1. PICK j \in 1..Len(s) : x = s[j]
      BY <1>0 DEF ToSet
    <3>2. j \notin 1..n
      BY <3>1
    <3>3. (j - n) \in 1..(Len(s) - n) /\ n + (j - n) = j
      BY <1>0, <3>2
    <3>4. t[j - n] = x
      BY <1>1, <3>1, <3>3
    <3>. QED  BY <1>2, <3>3, <3>4 DEF ToSet
  <2>. QED  BY <2>1, <2>2
<1>. QED  BY <1>1, <1>3, <1>4 DEF t

LEMMA RemoveOne ==
  ASSUME NEW s \in Seq(Runs), IsInjective(s), NEW i \in DOMAIN s
  PROVE  /\ RemoveAt(s, i) \in Seq(Runs) /\ IsInjective(RemoveAt(s, i))
         /\ ToSet(RemoveAt(s, i)) = ToSet(s) \ {s[i]}
<1>. DEFINE u == SubSeq(s, 1, i - 1)
            v == SubSeq(s, i + 1, Len(s))
            t == u \o v
<1>0. Len(s) \in Nat /\ DOMAIN s = 1..Len(s) /\ i \in 1..Len(s) /\ \A j \in 1..Len(s) : s[j] \in Runs
  BY LenProperties, ElementOfSeq
<1>1. u \in Seq(Runs) /\ Len(u) = i - 1 /\ \A j \in 1..(i - 1) : u[j] = s[j]
  BY <1>0, SubSeqProperties
<1>2. v \in Seq(Runs) /\ Len(v) = Len(s) - i /\ \A j \in 1..(Len(s) - i) : v[j] = s[i + j]
  BY <1>0, SubSeqProperties
<1>. HIDE DEF u, v
<1>3. t \in Seq(Runs) /\ Len(t) = Len(s) - 1
  <2>1. t \in Seq(Runs) /\ Len(t) = Len(u) + Len(v)
    BY <1>1, <1>2, ConcatProperties
  <2>. QED  BY <1>0, <1>1, <1>2, <2>1
<1>4. DOMAIN t = 1..(Len(s) - 1)
  BY <1>3, LenProperties
<1>5. \A j \in 1..(Len(s) - 1) : t[j] = IF j < i THEN s[j] ELSE s[j + 1]
  <2>. TAKE j \in 1..(Len(s) - 1)
  <2>1. t[j] = IF j <= Len(u) THEN u[j] ELSE v[j - Len(u)]
    BY <1>0, <1>1, <1>2, ConcatProperties
  <2>2. CASE j < i
    BY <1>0, <1>1, <2>1, <2>2
  <2>3. CASE ~(j < i)
    <3>1. j - (i - 1) \in 1..(Len(s) - i) /\ i + (j - (i - 1)) = j + 1
      BY <1>0, <2>3
    <3>2. Len(u) = i - 1 /\ ~(j <= Len(u))
      BY <1>0, <1>1, <2>3
    <3>3. t[j] = v[j - (i - 1)]
      BY <2>1, <3>2
    <3>4. v[j - (i - 1)] = s[j + 1]
      BY <1>2, <3>1
    <3>. QED  BY <2>3, <3>3, <3>4
  <2>. QED  BY <2>2, <2>3
<1>. HIDE DEF t
<1>6. IsInjective(t)
  BY <1>0, <1>4, <1>5 DEF IsInjective
<1>7. ToSet(t) = ToSet(s) \ {s[i]}
  <2>1. ASSUME NEW x \in ToSet(t) PROVE x \in ToSet(s) \ {s[i]}
    <3>1. PICK j \in 1..(Len(s) - 1) : x = t[j]
      BY <1>4 DEF ToSet
    <3>2. PICK k \in 1..Len(s) : x = s[k] /\ k # i
      BY <1>0, <1>5, <3>1
    <3>. QED  BY <1>0, <3>2 DEF ToSet, IsInjective
  <2>2. ASSUME NEW x \in ToSet(s) \ {s[i]} PROVE x \in ToSet(t)
    <3>1. PICK k \in 1..Len(s) : x = s[k] /\ k # i
      BY <1>0 DEF ToSet
    <3>2. CASE k < i
      BY <1>0, <1>4, <1>5, <3>1, <3>2 DEF ToSet
    <3>3. CASE k > i
      <4>1. (k - 1) \in 1..(Len(s) - 1) /\ ~(k - 1 < i) /\ (k - 1) + 1 = k
        BY <1>0, <3>3
      <4>2. t[k - 1] = x
        BY <1>5, <3>1, <4>1
      <4>. QED  BY <1>4, <4>1, <4>2 DEF ToSet
    <3>. QED  BY <1>0, <3>1, <3>2, <3>3
  <2>. QED  BY <2>1, <2>2
<1>. QED  BY <1>3, <1>6, <1>7 DEF t, u, v, RemoveAt

-----------------------------------------------------------------------------
(* The inductive invariant.                                                *)

Ended == {r \in runs : status[r] \in Terminal}
EndedOK == ended \in Seq(Runs) /\ IsInjective(ended) /\ ToSet(ended) = Ended

StatusType == status \in [Runs -> Terminal \cup {"unborn", "running", "awaiting"}]
LoopType == loop \in [Runs -> {"none", "scheduled", "working", "paused", "gone"}]
CallType ==
  call \in [Runs -> {"none", "spawned", "subscribed", "waiting", "ok", "error", "dropped"}]
RequestType ==
  request \in [Clients -> [pc : {"idle", "admitted"}, run : {NoRun}]
                            \cup [pc : {"spawned"}, run : Runs]]
ParentType == parent \in [Runs -> Runs \cup {NoRun}] /\ \A r \in Runs : parent[r] < r
StopType == stopSent \in [Runs -> BOOLEAN]

(* Ids are taken in order.                                                 *)
BornInOrder == \A p, q \in Runs : p < q /\ p \in Unborn => q \in Unborn

(* Only a run that was spawned has a task or is waited for.                *)
TasksAreBorn == \A r \in Unborn : loop[r] = "none" /\ call[r] = "none"

(* A run at work is stored, and shows as running or waiting: what marks it *)
(* terminal is its end or its stop.                                        *)
WorkersAreActive == \A r \in Runs : AtWork(r) => r \in runs /\ status[r] \in {"running", "awaiting"}

LEMMA TypesAre ==
  TypeOK <=> /\ runs \subseteq Runs \ Unborn
             /\ EndedOK /\ StatusType /\ ParentType /\ StopType /\ LoopType /\ CallType
             /\ RequestType
  BY DEF TypeOK, EndedOK, Ended, StatusType, ParentType, StopType, LoopType, CallType, RequestType

LEMMA TypesAreNext ==
  TypeOK' <=> /\ (runs \subseteq Runs \ Unborn)'
              /\ EndedOK' /\ StatusType' /\ ParentType' /\ StopType' /\ LoopType' /\ CallType'
              /\ RequestType'
  BY DEF TypeOK, EndedOK, Ended, StatusType, ParentType, StopType, LoopType, CallType, RequestType

RegistryInv == TypeOK /\ BornInOrder /\ TasksAreBorn /\ WorkersAreActive

LEMMA TerminalFacts ==
  /\ Terminal = {"done", "stopped", "error"}
  /\ "running" \notin Terminal /\ "awaiting" \notin Terminal /\ "unborn" \notin Terminal
  BY DEF Terminal

LEMMA InitRegistry == Init => RegistryInv
<1>. SUFFICES ASSUME Init PROVE RegistryInv
  OBVIOUS
<1>1. runs \subseteq Runs \ Unborn /\ StatusType /\ StopType /\ LoopType /\ CallType
  BY DEF Init, StatusType, StopType, LoopType, CallType
<1>2. EndedOK
  BY EmptySeq DEF Init, EndedOK, Ended, IsInjective, ToSet
<1>3. ParentType
  BY RegistryAssumption DEF Init, ParentType, Runs, NoRun
<1>4. RequestType
  BY DEF Init, RequestType
<1>5. BornInOrder /\ TasksAreBorn /\ WorkersAreActive
  BY DEF Init, BornInOrder, TasksAreBorn, WorkersAreActive, AtWork, Unborn
<1>. QED  BY <1>1, <1>2, <1>3, <1>4, <1>5, TypesAre DEF RegistryInv

-----------------------------------------------------------------------------
(* How many runs are stored, and how many of them are evicted.             *)

LEMMA RunsAreFinite ==
  ASSUME NEW S \in SUBSET Runs
  PROVE  IsFiniteSet(S) /\ Cardinality(S) \in Nat
<1>1. IsFiniteSet(Runs)
  BY FS_Interval, RegistryAssumption DEF Runs
<1>. QED  BY <1>1, FS_Subset, FS_CardinalityType

LEMMA EvictedType ==
  ASSUME RegistryInv
  PROVE  /\ Excess \in Nat /\ Len(ended) \in Nat /\ Evicted \in 0..Len(ended)
         /\ Pruned \subseteq Ended
<1>1. Cardinality(runs) \in Nat
  BY RunsAreFinite, TypesAre DEF RegistryInv
<1>2. Len(ended) \in Nat /\ DOMAIN ended = 1..Len(ended)
  BY LenProperties, TypesAre DEF RegistryInv, EndedOK
<1>3. Excess \in Nat
  BY <1>1, RegistryAssumption DEF Excess
<1>4. Evicted \in 0..Len(ended)
  BY <1>2, <1>3 DEF Evicted
<1>5. Pruned \subseteq Ended
  BY <1>2, <1>4, TypesAre DEF RegistryInv, EndedOK, Pruned, ToSet
<1>. QED  BY <1>2, <1>3, <1>4, <1>5

(* A spawn: the run is stored and at work, those evicted had ended.        *)
LEMMA SpawnKeeps ==
  ASSUME RegistryInv, NEW r \in Runs, NEW p \in (Runs \ Unborn) \cup {NoRun}, SpawnRun(r, p),
         UNCHANGED stopSent
  PROVE  /\ (runs \subseteq Runs \ Unborn)' /\ EndedOK'
         /\ StatusType' /\ ParentType' /\ StopType' /\ LoopType'
         /\ BornInOrder' /\ WorkersAreActive' /\ Unborn' = Unborn \ {r}
<1>. runs \subseteq Runs \ Unborn /\ EndedOK /\ StatusType /\ ParentType /\ StopType /\ LoopType
  BY TypesAre DEF RegistryInv
<1>1. status' = [status EXCEPT ![r] = "running"] /\ r \in Unborn
  BY DEF SpawnRun
<1>2. StatusType' /\ Unborn' = Unborn \ {r} /\ \A q \in Runs \ {r} : status'[q] = status[q]
  BY <1>1 DEF StatusType, Unborn
<1>3. (runs \subseteq Runs \ Unborn)'
  BY <1>1, <1>2 DEF SpawnRun
<1>4. EndedOK'
  <2>1. Pruned = {ended[i] : i \in 1..Evicted} /\ Evicted \in 0..Len(ended)
    BY EvictedType DEF Pruned
  <2>2. ended' \in Seq(Runs) /\ IsInjective(ended') /\ ToSet(ended') = Ended \ Pruned
    BY <2>1, DropFirst DEF EndedOK, SpawnRun
  <2>3. Ended' = Ended \ Pruned
    BY <1>1, <1>2, TerminalFacts DEF Ended, SpawnRun, StatusType
  <2>. QED  BY <2>2, <2>3 DEF EndedOK
<1>5. ParentType'
  <2>1. p < r /\ p \in Runs \cup {NoRun}
    <3>1. CASE p = NoRun
      BY <3>1 DEF NoRun, Runs
    <3>2. CASE p \in Runs \ Unborn
      <4>1. p # r /\ ~(r < p)
        BY <1>1, <3>2 DEF RegistryInv, BornInOrder
      <4>. QED  BY <3>2, <4>1 DEF Runs
    <3>. QED  BY <3>1, <3>2
  <2>. QED  BY <2>1 DEF SpawnRun, ParentType
<1>6. StopType' /\ LoopType'
  BY DEF SpawnRun, StopType, LoopType
<1>7. BornInOrder'
  <2>. SUFFICES ASSUME NEW a \in Runs, NEW b \in Runs, a < b, a \in Unborn', b \notin Unborn'
                PROVE  FALSE
    BY DEF BornInOrder
  <2>1. b = r
    BY <1>2 DEF RegistryInv, BornInOrder
  <2>2. r <= a
    BY <1>2 DEF SpawnRun
  <2>. QED  BY <2>1, <2>2 DEF Runs
<1>8. WorkersAreActive'
  <2>. SUFFICES ASSUME NEW q \in Runs, AtWork(q)' PROVE q \in runs' /\ status'[q] \in {"running", "awaiting"}
    BY DEF WorkersAreActive
  <2>1. CASE q = r
    BY <1>1, <2>1 DEF SpawnRun, StatusType
  <2>2. CASE q # r
    <3>1. AtWork(q)
      BY <2>2 DEF AtWork, SpawnRun, LoopType
    <3>2. q \in runs /\ status[q] \in {"running", "awaiting"}
      BY <3>1 DEF RegistryInv, WorkersAreActive
    <3>3. q \notin Pruned
      BY <3>2, EvictedType, TerminalFacts DEF Ended
    <3>. QED  BY <1>2, <2>2, <3>2, <3>3 DEF SpawnRun
  <2>. QED  BY <2>1, <2>2
<1>. QED  BY <1>2, <1>3, <1>4, <1>5, <1>6, <1>7, <1>8

(* The status of one run that was spawned changes: the others and the      *)
(* order of ids stand.                                                     *)
LEMMA StatusChange ==
  ASSUME RegistryInv, NEW r \in Runs \ Unborn, NEW s \in Terminal \cup {"running", "awaiting"},
         status' = [status EXCEPT ![r] = s], UNCHANGED runs
  PROVE  /\ StatusType' /\ Unborn' = Unborn /\ (runs \subseteq Runs \ Unborn)' /\ BornInOrder'
         /\ status'[r] = s /\ \A q \in Runs \ {r} : status'[q] = status[q]
<1>. runs \subseteq Runs \ Unborn /\ StatusType
  BY TypesAre DEF RegistryInv
<1>1. StatusType' /\ status'[r] = s /\ \A q \in Runs \ {r} : status'[q] = status[q]
  BY DEF StatusType
<1>2. Unborn' = Unborn
  BY <1>1, TerminalFacts DEF Unborn
<1>3. BornInOrder'
  BY <1>2 DEF RegistryInv, BornInOrder
<1>. QED  BY <1>1, <1>2, <1>3

(* A run that ends, if it is stored, is the last to have ended.            *)
LEMMA EndingKeeps ==
  ASSUME RegistryInv, NEW r \in Runs \ Unborn, NEW s \in Terminal, status[r] \notin Terminal,
         status' = [status EXCEPT ![r] = s], UNCHANGED runs,
         ended' = IF r \in runs THEN Append(ended, r) ELSE ended
  PROVE  EndedOK'
<1>. EndedOK
  BY TypesAre DEF RegistryInv
<1>1. r \notin ToSet(ended)
  BY DEF EndedOK, Ended
<1>2. status'[r] = s /\ \A q \in Runs \ {r} : status'[q] = status[q]
  BY StatusChange
<1>3. runs \subseteq Runs
  BY TypesAre DEF RegistryInv
<1>4. CASE r \in runs
  <2>1. Ended' = Ended \cup {r}
    BY <1>2, <1>3, <1>4 DEF Ended
  <2>2. /\ ended' \in Seq(Runs) /\ IsInjective(ended')
        /\ ToSet(ended') = ToSet(ended) \cup {r}
    BY <1>1, <1>4, AppendNew DEF EndedOK
  <2>. QED  BY <2>1, <2>2 DEF EndedOK
<1>5. CASE r \notin runs
  <2>1. Ended' = Ended
    BY <1>2, <1>3, <1>5 DEF Ended
  <2>. QED  BY <1>5, <2>1 DEF EndedOK
<1>. QED  BY <1>4, <1>5

(* What is stored, as a whole, when a run that was spawned is stopped.     *)
LEMMA StopKeeps ==
  ASSUME RegistryInv, NEW r \in Runs \ Unborn, StopRun(r), UNCHANGED <<runs, parent, loop>>
  PROVE  /\ (runs \subseteq Runs \ Unborn)' /\ EndedOK' /\ StatusType' /\ StopType'
         /\ BornInOrder' /\ WorkersAreActive' /\ Unborn' = Unborn
<1>. /\ runs \subseteq Runs \ Unborn /\ EndedOK /\ StatusType /\ StopType /\ BornInOrder
     /\ WorkersAreActive
  BY TypesAre DEF RegistryInv
<1>1. CASE status[r] \in Terminal
  <2>1. UNCHANGED <<runs, ended, status, stopSent, loop>>
    BY <1>1 DEF StopRun
  <2>. QED  BY <2>1 DEF EndedOK, Ended, StatusType, StopType, BornInOrder, WorkersAreActive,
                        AtWork, Unborn
<1>2. CASE status[r] \notin Terminal
  <2>1. /\ stopSent' = [stopSent EXCEPT ![r] = TRUE] /\ status' = [status EXCEPT ![r] = "stopped"]
        /\ ended' = IF r \in runs THEN Append(ended, r) ELSE ended
    BY <1>2 DEF StopRun
  <2>2. /\ StatusType' /\ Unborn' = Unborn /\ (runs \subseteq Runs \ Unborn)' /\ BornInOrder'
        /\ \A q \in Runs \ {r} : status'[q] = status[q]
    BY <2>1, StatusChange, TerminalFacts
  <2>3. EndedOK'
    BY <1>2, <2>1, EndingKeeps, TerminalFacts
  <2>4. StopType' /\ WorkersAreActive'
    BY <2>1, <2>2 DEF StopType, WorkersAreActive, AtWork
  <2>. QED  BY <2>2, <2>3, <2>4
<1>. QED  BY <1>1, <1>2

(* Steps that leave what is stored alone.                                  *)
LEMMA StoredStands ==
  ASSUME RegistryInv, UNCHANGED <<runs, ended, status>>
  PROVE  /\ (runs \subseteq Runs \ Unborn)' /\ EndedOK' /\ StatusType' /\ BornInOrder'
         /\ Unborn' = Unborn
<1>1. /\ runs \subseteq Runs \ Unborn /\ EndedOK /\ StatusType /\ BornInOrder
  BY TypesAre DEF RegistryInv
<1>. QED  BY <1>1 DEF EndedOK, Ended, StatusType, BornInOrder, Unborn

-----------------------------------------------------------------------------
(* Each action keeps the invariant.                                        *)

LEMMA RequestSteps ==
  ASSUME RegistryInv, NEW c \in Clients,
         StartAdmitted(c) \/ StartConfigure(c) \/ \E r \in Runs : StartSpawn(c, r)
  PROVE  RegistryInv'
<1>. TypeOK /\ RequestType /\ TasksAreBorn /\ Unborn \subseteq Runs
  BY TypesAre DEF RegistryInv, Unborn
<1>1. CASE StartAdmitted(c) \/ StartConfigure(c)
  <2>1. UNCHANGED <<runs, ended, status, parent, stopSent, loop, call>> /\ RequestType'
    BY <1>1 DEF StartAdmitted, StartConfigure, RequestType
  <2>2. /\ (runs \subseteq Runs \ Unborn)' /\ EndedOK' /\ StatusType' /\ BornInOrder'
        /\ Unborn' = Unborn
    BY <2>1, StoredStands
  <2>3. ParentType' /\ StopType' /\ LoopType' /\ CallType'
    BY <2>1, TypesAre DEF ParentType, StopType, LoopType, CallType
  <2>4. TasksAreBorn' /\ WorkersAreActive'
    BY <2>1, <2>2 DEF RegistryInv, TasksAreBorn, WorkersAreActive, AtWork
  <2>. QED  BY <2>1, <2>2, <2>3, <2>4, TypesAreNext DEF RegistryInv
<1>2. ASSUME NEW r \in Runs, StartSpawn(c, r) PROVE RegistryInv'
  <2>1. SpawnRun(r, NoRun) /\ UNCHANGED <<stopSent, call>>
    BY <1>2 DEF StartSpawn
  <2>2. /\ (runs \subseteq Runs \ Unborn)' /\ EndedOK' /\ StatusType' /\ ParentType' /\ StopType'
        /\ LoopType' /\ BornInOrder' /\ WorkersAreActive' /\ Unborn' = Unborn \ {r}
    BY <2>1, SpawnKeeps
  <2>3. RequestType' /\ CallType'
    BY <1>2, TypesAre DEF StartSpawn, RequestType, CallType
  <2>4. TasksAreBorn'
    BY <2>1, <2>2, TypesAre DEF TasksAreBorn, SpawnRun, LoopType
  <2>. QED  BY <2>2, <2>3, <2>4, TypesAreNext DEF RegistryInv
<1>. QED  BY <1>1, <1>2

(* The loop of a run, between its spawn and its end.                       *)
LEMMA LoopSteps ==
  ASSUME RegistryInv, NEW r \in Runs, Loop(r) \/ Pause(r) \/ Resume(r)
  PROVE  RegistryInv'
<1>. /\ runs \subseteq Runs \ Unborn /\ EndedOK /\ StatusType /\ ParentType /\ StopType /\ LoopType
     /\ CallType /\ RequestType /\ BornInOrder /\ TasksAreBorn /\ WorkersAreActive
     /\ Unborn \subseteq Runs
  BY TypesAre DEF RegistryInv, Unborn
<1>1. /\ loop[r] \in {"scheduled", "working", "paused"}
      /\ \E l \in {"working", "paused", "gone"} : loop' = [loop EXCEPT ![r] = l]
      /\ UNCHANGED <<runs, parent, stopSent, call, request>>
  BY DEF Loop, Begin, Finish, Unwind, Pause, Resume
<1>2. r \in Runs \ Unborn
  BY <1>1 DEF TasksAreBorn
<1>3. /\ LoopType' /\ ParentType' /\ StopType' /\ CallType' /\ RequestType'
      /\ \A q \in Runs \ {r} : loop'[q] = loop[q]
  BY <1>1 DEF LoopType, ParentType, StopType, CallType, RequestType
<1>4. SUFFICES /\ (runs \subseteq Runs \ Unborn)' /\ EndedOK' /\ StatusType' /\ BornInOrder'
               /\ Unborn' = Unborn /\ WorkersAreActive'
  <2>1. ASSUME Unborn' = Unborn PROVE TasksAreBorn'
    BY <1>1, <1>2, <1>3, <2>1 DEF TasksAreBorn
  <2>. QED  BY <1>3, <2>1, TypesAreNext DEF RegistryInv
<1>5. ASSUME UNCHANGED <<ended, status>>,
             AtWork(r)' => AtWork(r)
      PROVE  /\ (runs \subseteq Runs \ Unborn)' /\ EndedOK' /\ StatusType' /\ BornInOrder'
             /\ Unborn' = Unborn /\ WorkersAreActive'
  <2>1. WorkersAreActive'
    BY <1>1, <1>3, <1>5 DEF WorkersAreActive, AtWork
  <2>. QED  BY <1>1, <1>5, <2>1, StoredStands
<1>6. CASE Begin(r) \/ Unwind(r)
  BY <1>5, <1>6 DEF Begin, Unwind, AtWork, LoopType
<1>7. CASE Resume(r)
  <2>1. CASE status[r] = "awaiting"
    <3>1. status' = [status EXCEPT ![r] = "running"] /\ UNCHANGED ended
      BY <1>7, <2>1 DEF Resume
    <3>2. /\ StatusType' /\ Unborn' = Unborn /\ (runs \subseteq Runs \ Unborn)' /\ BornInOrder'
          /\ status'[r] = "running" /\ \A q \in Runs \ {r} : status'[q] = status[q]
      BY <1>1, <1>2, <3>1, StatusChange, TerminalFacts
    <3>3. EndedOK'
      BY <1>1, <2>1, <3>1, <3>2, TerminalFacts DEF EndedOK, Ended
    <3>4. WorkersAreActive'
      BY <1>1, <1>3, <3>2 DEF WorkersAreActive, AtWork
    <3>. QED  BY <3>2, <3>3, <3>4
  <2>2. CASE status[r] # "awaiting"
    BY <1>5, <1>7, <2>2 DEF Resume, AtWork, LoopType
  <2>. QED  BY <2>1, <2>2
<1>8. CASE Pause(r)
  <2>1. status' = [status EXCEPT ![r] = "awaiting"]
    BY <1>8 DEF Pause
  <2>2. /\ StatusType' /\ Unborn' = Unborn /\ (runs \subseteq Runs \ Unborn)' /\ BornInOrder'
        /\ status'[r] = "awaiting" /\ \A q \in Runs \ {r} : status'[q] = status[q]
    BY <1>1, <1>2, <2>1, StatusChange, TerminalFacts
  <2>3. Ended' = Ended \ {r}
    BY <1>1, <2>2, TerminalFacts DEF Ended
  <2>4. EndedOK'
    <3>1. CASE r \notin ToSet(ended) /\ UNCHANGED ended
      BY <2>3, <3>1 DEF EndedOK
    <3>2. ASSUME NEW i \in DOMAIN ended, ended[i] = r, ended' = RemoveAt(ended, i)
          PROVE  EndedOK'
      BY <2>3, <3>2, RemoveOne DEF EndedOK
    <3>. QED  BY <1>8, <3>1, <3>2 DEF Pause
  <2>5. WorkersAreActive'
    BY <1>1, <1>3, <2>2 DEF WorkersAreActive, AtWork
  <2>. QED  BY <2>2, <2>4, <2>5
<1>9. ASSUME NEW s \in {"done", "error"}, Finish(r, s)
      PROVE  /\ (runs \subseteq Runs \ Unborn)' /\ EndedOK' /\ StatusType' /\ BornInOrder'
             /\ Unborn' = Unborn /\ WorkersAreActive'
  <2>0. loop'[r] = "gone" /\ ~AtWork(r)'
    BY <1>9 DEF Finish, LoopType, AtWork
  <2>1. CASE status[r] \in Terminal
    BY <1>5, <1>9, <2>0, <2>1 DEF Finish
  <2>2. CASE status[r] \notin Terminal
    <3>1. /\ status' = [status EXCEPT ![r] = s] /\ s \in Terminal
          /\ ended' = IF r \in runs THEN Append(ended, r) ELSE ended
      BY <1>9, <2>2, TerminalFacts DEF Finish
    <3>2. /\ StatusType' /\ Unborn' = Unborn /\ (runs \subseteq Runs \ Unborn)' /\ BornInOrder'
          /\ \A q \in Runs \ {r} : status'[q] = status[q]
      BY <1>1, <1>2, <3>1, StatusChange
    <3>3. EndedOK'
      BY <1>1, <1>2, <2>2, <3>1, EndingKeeps
    <3>4. WorkersAreActive'
      BY <1>1, <1>3, <2>0, <3>2 DEF WorkersAreActive, AtWork
    <3>. QED  BY <3>2, <3>3, <3>4
  <2>. QED  BY <2>1, <2>2
<1>. QED  BY <1>6, <1>7, <1>8, <1>9 DEF Loop

(* A child is spawned, waited for, stopped or left.                        *)
LEMMA ChildSteps ==
  ASSUME RegistryInv, NEW r \in Runs,
         Stop(r) \/ Call(r) \/ \E c \in Runs : SpawnChild(r, c)
  PROVE  RegistryInv'
<1>. /\ runs \subseteq Runs \ Unborn /\ EndedOK /\ StatusType /\ ParentType /\ StopType /\ LoopType
     /\ CallType /\ RequestType /\ BornInOrder /\ TasksAreBorn /\ WorkersAreActive
     /\ Unborn \subseteq Runs
  BY TypesAre DEF RegistryInv, Unborn
<1>1. ASSUME NEW c \in Runs, SpawnChild(r, c) PROVE RegistryInv'
  <2>1. /\ SpawnRun(c, r) /\ UNCHANGED <<stopSent, request>> /\ r \in Runs \ Unborn
        /\ call' = [call EXCEPT ![c] = "spawned"]
    BY <1>1 DEF SpawnChild, TasksAreBorn
  <2>2. /\ (runs \subseteq Runs \ Unborn)' /\ EndedOK' /\ StatusType' /\ ParentType' /\ StopType'
        /\ LoopType' /\ BornInOrder' /\ WorkersAreActive' /\ Unborn' = Unborn \ {c}
    BY <2>1, SpawnKeeps
  <2>3. RequestType' /\ CallType'
    BY <2>1 DEF RequestType, CallType
  <2>4. TasksAreBorn'
    BY <2>1, <2>2 DEF TasksAreBorn, SpawnRun, LoopType, CallType
  <2>. QED  BY <2>2, <2>3, <2>4, TypesAreNext DEF RegistryInv
<1>2. CASE Stop(r) \/ ChildTimeout(r)
  <2>1. StopRun(r) /\ UNCHANGED <<runs, parent, loop, request>>
    BY <1>2 DEF Stop, ChildTimeout
  <2>2. r \in Runs \ Unborn
    BY <1>2 DEF Stop, ChildTimeout, Active, TasksAreBorn
  <2>3. /\ (runs \subseteq Runs \ Unborn)' /\ EndedOK' /\ StatusType' /\ StopType'
        /\ BornInOrder' /\ WorkersAreActive' /\ Unborn' = Unborn
    BY <2>1, <2>2, StopKeeps
  <2>4. CallType' /\ \A q \in Runs \ {r} : call'[q] = call[q]
    BY <1>2 DEF Stop, ChildTimeout, CallType
  <2>5. ParentType' /\ LoopType' /\ RequestType' /\ TasksAreBorn'
    BY <2>1, <2>2, <2>3, <2>4 DEF ParentType, LoopType, RequestType, TasksAreBorn
  <2>. QED  BY <2>3, <2>4, <2>5, TypesAreNext DEF RegistryInv
<1>3. CASE Subscribe(r) \/ ReadStatus(r) \/ ChildDone(r) \/ CallDropped(r)
  <2>1. /\ UNCHANGED <<runs, ended, status, parent, stopSent, loop, request>>
        /\ call[r] # "none"
        /\ \E x \in {"subscribed", "waiting", "ok", "error", "dropped"} :
             call' = [call EXCEPT ![r] = x]
    BY <1>3 DEF Subscribe, ReadStatus, ChildDone, CallDropped, Outcome
  <2>2. r \in Runs \ Unborn
    BY <2>1 DEF TasksAreBorn
  <2>3. /\ (runs \subseteq Runs \ Unborn)' /\ EndedOK' /\ StatusType' /\ BornInOrder'
        /\ Unborn' = Unborn
    BY <2>1, StoredStands
  <2>4. CallType' /\ \A q \in Runs \ {r} : call'[q] = call[q]
    BY <2>1 DEF CallType
  <2>5. ParentType' /\ StopType' /\ LoopType' /\ RequestType' /\ TasksAreBorn' /\ WorkersAreActive'
    BY <2>1, <2>2, <2>3, <2>4
    DEF ParentType, StopType, LoopType, RequestType, TasksAreBorn, WorkersAreActive, AtWork
  <2>. QED  BY <2>3, <2>4, <2>5, TypesAreNext DEF RegistryInv
<1>. QED  BY <1>1, <1>2, <1>3 DEF Call

(* The registry's types, and what they rest on: the stored terminal runs   *)
(* are exactly those in the order of eviction, ids are taken in order, and *)
(* a run at work is stored and not shown as ended.                         *)
THEOREM RegistryTypes == Spec => []RegistryInv
<1>1. RegistryInv /\ [Next]_vars => RegistryInv'
  <2>. SUFFICES ASSUME RegistryInv, [Next]_vars PROVE RegistryInv'
    OBVIOUS
  <2>1. CASE Next
    BY <2>1, RequestSteps, LoopSteps, ChildSteps DEF Next
  <2>2. CASE UNCHANGED vars
    BY <2>2 DEF vars, RegistryInv, TypeOK, BornInOrder, TasksAreBorn, WorkersAreActive, AtWork,
                Unborn
  <2>. QED  BY <2>1, <2>2
<1>. QED  BY <1>1, InitRegistry, PTL DEF Spec

(* TypeOK: the registry is well typed, and its list of ended runs is the   *)
(* set of stored runs with a terminal status (agent/run.rs:694-716).       *)
THEOREM RegistryIsWellTyped == Spec => []TypeOK
<1>1. RegistryInv => TypeOK
  BY DEF RegistryInv
<1>. QED  BY <1>1, RegistryTypes, PTL

(* WorkingRunsAreListed: a run whose task works and that nobody stopped    *)
(* can be looked up, so it can be watched and stopped, whatever was        *)
(* evicted before.                                                         *)
THEOREM EvictionSparesWorkers == Spec => []WorkingRunsAreListed
<1>1. RegistryInv => WorkingRunsAreListed
  BY DEF RegistryInv, WorkersAreActive, WorkingRunsAreListed
<1>. QED  BY <1>1, RegistryTypes, PTL

-----------------------------------------------------------------------------
(* The order of eviction.                                                  *)

(* No run is evicted twice, so as many leave the registry as were counted. *)
LEMMA PrunedCount ==
  ASSUME RegistryInv
  PROVE  Cardinality(Pruned) = Evicted
<1>. DEFINE first == [i \in 1..Evicted |-> ended[i]]
<1>1. /\ Evicted \in Nat /\ 1..Evicted \subseteq DOMAIN ended
  <2>1. Len(ended) \in Nat /\ Evicted \in 0..Len(ended) /\ ended \in Seq(Runs)
    BY EvictedType, TypesAre DEF RegistryInv, EndedOK
  <2>2. DOMAIN ended = 1..Len(ended)
    BY <2>1, LenProperties
  <2>. QED  BY <2>1, <2>2
<1>2. IsInjective(ended)
  BY TypesAre DEF RegistryInv, EndedOK
<1>3. first \in Bijection(1..Evicted, Pruned)
  <2>1. first \in [1..Evicted -> Pruned] /\ \A x \in Pruned : \E i \in 1..Evicted : first[i] = x
    BY DEF Pruned
  <2>2. IsInjective(first)
    BY <1>1, <1>2 DEF IsInjective
  <2>. QED  BY <2>1, <2>2 DEF Bijection, Injection, Surjection
<1>4. IsFiniteSet(1..Evicted) /\ Cardinality(1..Evicted) = Evicted
  BY <1>1, FS_Interval
<1>5. ExistsBijection(1..Evicted, Pruned)
  BY <1>3 DEF ExistsBijection
<1>. QED  BY <1>4, <1>5, FS_Bijection

(* A spawn leaves no more runs than places, unless none of those that are  *)
(* left has ended.                                                         *)
LEMMA SpawnFits ==
  ASSUME RegistryInv, NEW r \in Runs, NEW p, SpawnRun(r, p)
  PROVE  Cardinality(runs') <= MaxStored \/ ended' = << >>
<1>. DEFINE kept == runs \ Pruned
<1>1. Pruned \subseteq runs /\ runs \subseteq Runs /\ r \notin runs
  BY EvictedType, TypesAre DEF RegistryInv, Ended, SpawnRun
<1>2. /\ IsFiniteSet(Pruned) /\ IsFiniteSet(kept) /\ Cardinality(kept) \in Nat
      /\ Cardinality(runs) \in Nat
  BY <1>1, RunsAreFinite
<1>3. Cardinality(kept) = Cardinality(runs) - Evicted
  <2>1. kept \cup Pruned = runs /\ kept \cap Pruned = {}
    BY <1>1
  <2>. HIDE DEF kept
  <2>2. Cardinality(runs) = Cardinality(kept) + Cardinality(Pruned) - Cardinality({})
    BY <1>2, <2>1, FS_Union
  <2>3. Cardinality(Pruned) = Evicted /\ Cardinality({}) = 0 /\ Evicted \in Nat
    BY PrunedCount, FS_EmptySet, EvictedType
  <2>. QED  BY <1>2, <2>2, <2>3
<1>4. Cardinality(runs') = Cardinality(runs) - Evicted + 1
  <2>1. runs' = kept \cup {r} /\ r \notin kept
    BY <1>1 DEF SpawnRun
  <2>. HIDE DEF kept
  <2>. QED  BY <1>2, <1>3, <2>1, FS_AddElement
<1>5. CASE Excess < Len(ended)
  <2>1. Evicted = Excess
    BY <1>5 DEF Evicted
  <2>. QED  BY <1>2, <1>4, <2>1, RegistryAssumption DEF Excess
<1>6. CASE ~(Excess < Len(ended))
  <2>1. ended' = SubSeq(ended, Len(ended) + 1, Len(ended))
    BY <1>6 DEF Evicted, SpawnRun
  <2>2. Len(ended) \in Nat /\ ended \in Seq(Runs)
    BY EvictedType, TypesAre DEF RegistryInv, EndedOK
  <2>3. ended' \in Seq(Runs) /\ Len(ended') = 0
    BY <2>1, <2>2, SubSeqProperties
  <2>. QED  BY <2>3, EmptySeq
<1>. QED  BY <1>5, <1>6

(* Those that leave are the first to have ended.                           *)
LEMMA EvictsFirst ==
  ASSUME RegistryInv, NEW r \in Runs, NEW p, SpawnRun(r, p),
         NEW i \in DOMAIN ended, NEW j \in DOMAIN ended, i < j, ended[j] \notin runs'
  PROVE  ended[i] \notin runs'
<1>1. /\ Evicted \in 0..Len(ended) /\ Len(ended) \in Nat /\ DOMAIN ended = 1..Len(ended)
      /\ IsInjective(ended) /\ \A k \in DOMAIN ended : ended[k] \in runs
  <2>1. EndedOK
    BY TypesAre DEF RegistryInv
  <2>. QED  BY <2>1, EvictedType, LenProperties DEF EndedOK, Ended, ToSet
<1>2. ended[j] \in Pruned
  BY <1>1 DEF SpawnRun
<1>3. PICK k \in 1..Evicted : ended[j] = ended[k]
  BY <1>2 DEF Pruned
<1>4. j = k
  <2>1. k \in DOMAIN ended
    BY <1>1
  <2>. QED  BY <1>1, <1>3, <2>1 DEF IsInjective
<1>5. ended[i] \in Pruned
  BY <1>1, <1>4 DEF Pruned
<1>6. ended[i] # r
  BY <1>1, TypesAre DEF RegistryInv, SpawnRun
<1>. QED  BY <1>5, <1>6 DEF SpawnRun

(* EvictsOldestTerminal: a spawn evicts the runs that ended first, and     *)
(* stops at the limit or when no run is left that could be evicted         *)
(* (prune_terminal_runs, agent/run.rs:694-716).                            *)
THEOREM EvictionIsInOrder == Spec => EvictsOldestTerminal
<1>. DEFINE Orderly ==
       /\ Cardinality(runs') > Cardinality(runs) =>
            Cardinality(runs') <= MaxStored \/ ended' = << >>
       /\ \A i, j \in DOMAIN ended :
            i < j /\ ended[j] \notin runs' => ended[i] \notin runs'
<1>1. RegistryInv /\ [Next]_vars => [Orderly]_vars
  <2>. SUFFICES ASSUME RegistryInv, [Next]_vars PROVE Orderly
    OBVIOUS
  <2>1. CASE UNCHANGED runs
    <3>1. Cardinality(runs) \in Nat
      BY RunsAreFinite, TypesAre DEF RegistryInv
    <3>2. \A j \in DOMAIN ended : ended[j] \in runs
      BY TypesAre DEF RegistryInv, EndedOK, Ended, ToSet
    <3>. QED  BY <2>1, <3>1, <3>2
  <2>2. ASSUME NEW r \in Runs, NEW p, SpawnRun(r, p) PROVE Orderly
    BY <2>2, SpawnFits, EvictsFirst
  <2>3. UNCHANGED runs \/ \E r \in Runs : \E p \in Runs \cup {NoRun} : SpawnRun(r, p)
    <3>1. CASE Next
      <4>1. ASSUME NEW c \in Clients, StartAdmitted(c) \/ StartConfigure(c) PROVE UNCHANGED runs
        BY <4>1 DEF StartAdmitted, StartConfigure
      <4>2. ASSUME NEW r \in Runs, Loop(r) \/ Pause(r) \/ Resume(r) \/ Stop(r) \/ Call(r)
            PROVE  UNCHANGED runs
        BY <4>2 DEF Loop, Begin, Finish, Unwind, Pause, Resume, Stop, Call, Subscribe, ReadStatus,
                    ChildDone, ChildTimeout, CallDropped
      <4>3. ASSUME NEW c \in Clients, NEW r \in Runs, StartSpawn(c, r) PROVE SpawnRun(r, NoRun)
        BY <4>3 DEF StartSpawn
      <4>4. ASSUME NEW r \in Runs, NEW c \in Runs, SpawnChild(r, c) PROVE SpawnRun(c, r)
        BY <4>4 DEF SpawnChild
      <4>. QED  BY <3>1, <4>1, <4>2, <4>3, <4>4 DEF Next
    <3>2. CASE UNCHANGED vars
      BY <3>2 DEF vars
    <3>. QED  BY <3>1, <3>2
  <2>. QED  BY <2>1, <2>2, <2>3
<1>. QED  BY <1>1, RegistryTypes, PTL DEF Spec, EvictsOldestTerminal

-----------------------------------------------------------------------------
(* The bound on runs at work.                                              *)

TopWork == {r \in Runs : AtWork(r) /\ parent[r] = NoRun}
Admitted == {c \in Clients : request[c].pc = "admitted"}

(* A request that was admitted and has not spawned its run yet counts as   *)
(* the run it will spawn: the sum is below the ceiling when it is taken,   *)
(* and each further client can add one before it looks again.              *)
WorkInv == Cardinality(TopWork) + Cardinality(Admitted) < MaxConcurrent + Cardinality(Clients)

LEMMA CountsAre ==
  /\ IsFiniteSet(TopWork) /\ Cardinality(TopWork) \in Nat
  /\ IsFiniteSet(Admitted) /\ Cardinality(Admitted) \in Nat
  /\ Cardinality(Clients) \in Nat /\ Cardinality(Admitted) <= Cardinality(Clients)
<1>1. TopWork \in SUBSET Runs /\ Admitted \in SUBSET Clients
  BY DEF TopWork, Admitted
<1>. QED  BY <1>1, RunsAreFinite, FS_Subset, FS_CardinalityType, RegistryAssumption

(* The counts only fall when the sets do not grow.                         *)
LEMMA CountsFall ==
  ASSUME WorkInv, TopWork' \subseteq TopWork, Admitted' \subseteq Admitted
  PROVE  WorkInv'
<1>1. /\ Cardinality(TopWork') <= Cardinality(TopWork) /\ Cardinality(TopWork') \in Nat
      /\ Cardinality(Admitted') <= Cardinality(Admitted) /\ Cardinality(Admitted') \in Nat
  BY CountsAre, FS_Subset, FS_CardinalityType
<1>2. (MaxConcurrent + Cardinality(Clients))' = MaxConcurrent + Cardinality(Clients)
  OBVIOUS
<1>. QED  BY <1>1, CountsAre, RegistryAssumption DEF WorkInv

(* Working runs of clients are among those that admission counts.          *)
LEMMA AdmissionCounts ==
  ASSUME RegistryInv
  PROVE  Cardinality(TopWork) <= Cardinality(Active)
<1>1. TopWork \subseteq Active
  BY TerminalFacts DEF RegistryInv, WorkersAreActive, TopWork, Active
<1>2. IsFiniteSet(Active)
  BY RunsAreFinite, TypesAre DEF RegistryInv, Active
<1>. QED  BY <1>1, <1>2, FS_Subset

LEMMA WorkStep ==
  ASSUME RegistryInv, WorkInv, Next
  PROVE  WorkInv'
<1>. StatusType /\ ParentType /\ StopType /\ LoopType /\ RequestType
  BY TypesAre DEF RegistryInv
<1>1. ASSUME NEW c \in Clients, StartAdmitted(c) PROVE WorkInv'
  <2>1. TopWork' = TopWork
    BY <1>1 DEF StartAdmitted, TopWork, AtWork
  <2>2. Cardinality(TopWork) < MaxConcurrent
    <3>1. Cardinality(Active) < MaxConcurrent /\ Cardinality(Active) \in Nat
      BY <1>1, RunsAreFinite, TypesAre DEF StartAdmitted, RegistryInv, Active
    <3>. QED  BY <3>1, AdmissionCounts, CountsAre, RegistryAssumption
  <2>3. Admitted' \in SUBSET Clients
    BY DEF Admitted
  <2>4. Cardinality(Admitted') <= Cardinality(Clients) /\ Cardinality(Admitted') \in Nat
    BY <2>3, FS_Subset, FS_CardinalityType, RegistryAssumption
  <2>. QED  BY <2>1, <2>2, <2>4, CountsAre, RegistryAssumption DEF WorkInv
<1>2. ASSUME NEW c \in Clients, StartConfigure(c) PROVE WorkInv'
  <2>1. TopWork' = TopWork /\ Admitted' \subseteq Admitted
    BY <1>2 DEF StartConfigure, TopWork, AtWork, Admitted, RequestType
  <2>. QED  BY <2>1, CountsFall
<1>3. ASSUME NEW c \in Clients, NEW r \in Runs, StartSpawn(c, r) PROVE WorkInv'
  <2>1. TopWork' \in SUBSET (TopWork \cup {r})
    BY <1>3 DEF StartSpawn, SpawnRun, TopWork, AtWork, LoopType, ParentType
  <2>2. Admitted' = Admitted \ {c} /\ c \in Admitted
    BY <1>3 DEF StartSpawn, Admitted, RequestType
  <2>3. /\ IsFiniteSet(TopWork \cup {r})
        /\ Cardinality(TopWork \cup {r}) <= Cardinality(TopWork) + 1
    <3>1. /\ IsFiniteSet(TopWork \cup {r})
          /\ Cardinality(TopWork \cup {r}) =
               IF r \in TopWork THEN Cardinality(TopWork) ELSE Cardinality(TopWork) + 1
      BY CountsAre, FS_AddElement
    <3>. QED  BY <3>1, CountsAre
  <2>4. Cardinality(TopWork') <= Cardinality(TopWork \cup {r}) /\ Cardinality(TopWork') \in Nat
        /\ Cardinality(TopWork \cup {r}) \in Nat
    BY <2>1, <2>3, FS_Subset, FS_CardinalityType
  <2>5. Cardinality(Admitted') = Cardinality(Admitted) - 1
    BY <2>2, CountsAre, FS_RemoveElement
  <2>. QED  BY <2>3, <2>4, <2>5, CountsAre, RegistryAssumption DEF WorkInv
<1>4. ASSUME NEW r \in Runs, NEW c \in Runs, SpawnChild(r, c) PROVE WorkInv'
  <2>1. TopWork' \subseteq TopWork /\ Admitted' = Admitted
    BY <1>4 DEF SpawnChild, SpawnRun, TopWork, AtWork, LoopType, ParentType, Admitted, Runs, NoRun
  <2>. QED  BY <2>1, CountsFall
<1>5. ASSUME NEW r \in Runs, Loop(r) \/ Pause(r) \/ Resume(r) \/ Stop(r) \/ Call(r) PROVE WorkInv'
  <2>. SUFFICES TopWork' \subseteq TopWork /\ Admitted' = Admitted
    BY CountsFall
  <2>1. CASE Loop(r) \/ Pause(r) \/ Resume(r)
    <3>1. /\ loop[r] \in {"scheduled", "working", "paused"}
          /\ \E l \in {"working", "paused", "gone"} : loop' = [loop EXCEPT ![r] = l]
          /\ UNCHANGED <<parent, stopSent, request>>
      BY <2>1 DEF Loop, Begin, Finish, Unwind, Pause, Resume
    <3>. QED  BY <3>1 DEF TopWork, AtWork, LoopType, Admitted
  <2>2. CASE Stop(r) \/ ChildTimeout(r)
    <3>1. /\ UNCHANGED stopSent \/ stopSent' = [stopSent EXCEPT ![r] = TRUE]
          /\ UNCHANGED <<parent, loop, request>>
      BY <2>2 DEF Stop, ChildTimeout, StopRun
    <3>. QED  BY <3>1 DEF TopWork, AtWork, StopType, Admitted
  <2>3. CASE Subscribe(r) \/ ReadStatus(r) \/ ChildDone(r) \/ CallDropped(r)
    <3>1. UNCHANGED <<parent, stopSent, loop, request>>
      BY <2>3 DEF Subscribe, ReadStatus, ChildDone, CallDropped
    <3>. QED  BY <3>1 DEF TopWork, AtWork, Admitted
  <2>. QED  BY <1>5, <2>1, <2>2, <2>3 DEF Call
<1>. QED  BY <1>1, <1>2, <1>3, <1>4, <1>5 DEF Next

(* WorkIsBounded: admission counts the runs under the lock and inserts     *)
(* after it was released (agent/run.rs), so several clients can pass the   *)
(* ceiling together, each by one run and no more.                          *)
THEOREM AdmissionBoundsWork == Spec => []WorkIsBounded
<1>1. Init => WorkInv
  <2>. SUFFICES ASSUME Init PROVE WorkInv
    OBVIOUS
  <2>1. TopWork = {} /\ Admitted = {}
    BY DEF Init, TopWork, AtWork, Admitted
  <2>. QED  BY <2>1, FS_EmptySet, CountsAre, RegistryAssumption DEF WorkInv
<1>2. RegistryInv /\ WorkInv /\ [Next]_vars => WorkInv'
  <2>. SUFFICES ASSUME RegistryInv, WorkInv, [Next]_vars PROVE WorkInv'
    OBVIOUS
  <2>1. CASE UNCHANGED vars
    <3>1. TopWork' = TopWork /\ Admitted' = Admitted
      BY <2>1 DEF vars, TopWork, AtWork, Admitted
    <3>. QED  BY <3>1, CountsFall
  <2>. QED  BY <2>1, WorkStep
<1>3. WorkInv => WorkIsBounded
  <2>1. WorkIsBounded <=> Cardinality(TopWork) < MaxConcurrent + Cardinality(Clients)
    BY DEF WorkIsBounded, TopWork
  <2>. QED  BY <2>1, CountsAre, RegistryAssumption DEF WorkInv
<1>. QED  BY <1>1, <1>2, <1>3, RegistryTypes, PTL DEF Spec
=============================================================================
