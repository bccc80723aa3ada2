------------------------- MODULE GuardAndQueueProofs -------------------------
(***************************************************************************)
(* Proofs about ConcurrencyGuard and DisableStore for any requests,        *)
(* callers and limits. The guard: its counters are right and its caps      *)
(* hold; a cap survives an admission only because the counter that was     *)
(* tested equals the number of slots held. The disable store: the write    *)
(* queue lets one job work at a time, which is why its edit of the cache   *)
(* is an edit of the file, and an update is only ever wiped by a load that *)
(* comes back late or fails.                                               *)
(***************************************************************************)
EXTENDS MCGuardAndQueue, FiniteSetTheorems, SequenceTheorems, TLAPS

-------------------------------------------------------------------------------
(* ConcurrencyGuard: counters and caps                                     *)

\* The inductive invariant.
GuardInv == TypeOK /\ CountersMatchSlots /\ CapsRespected

\* The caps in force are at least one, whatever the settings are.
LEMMA LimitsArePositive ==
    /\ maxGlobal \in Nat /\ maxGlobal >= 1
    /\ maxPerMember \in Nat /\ maxPerMember >= 1
  BY GuardAssumption DEF maxGlobal, maxPerMember, AtLeastOne

\* Slots held are finitely many.
LEMMA SlotSetsFinite ==
    /\ IsFiniteSet(Held)
    /\ \A k \in Keys : IsFiniteSet(HeldBy(k))
  <1>1. Held \in SUBSET Requests /\ \A k \in Keys : HeldBy(k) \in SUBSET Requests
    BY DEF Held, HeldBy
  <1>2. QED
    BY <1>1, GuardAssumption, FS_Subset

\* So they are after a step.
LEMMA SlotSetsFiniteNext ==
    /\ IsFiniteSet(Held')
    /\ \A k \in Keys : IsFiniteSet(HeldBy(k)')
  <1>1. Held' \in SUBSET Requests /\ \A k \in Keys : HeldBy(k)' \in SUBSET Requests
    BY DEF Held, HeldBy
  <1>2. QED
    BY <1>1, GuardAssumption, FS_Subset

\* Nothing the invariant speaks of moves in a step that neither takes nor
\* gives back a slot.
LEMMA SameSlotsHeld ==
  ASSUME GuardInv, TypeOK', UNCHANGED <<global, byMember>>,
         Held' = Held, \A r \in Held : key'[r] = key[r]
  PROVE  GuardInv'
  <1>1. \A k \in Members : HeldBy(k)' = HeldBy(k)
    BY DEF HeldBy
  <1>2. \A k \in Members : MemberCount(k)' = MemberCount(k)
    BY DEF MemberCount
  <1>3. CountersMatchSlots'
    BY <1>1, <1>2 DEF GuardInv, CountersMatchSlots
  <1>4. CapsRespected'
    BY <1>1 DEF GuardInv, CapsRespected, maxGlobal, maxPerMember
  <1>5. QED
    BY <1>3, <1>4 DEF GuardInv

\* An admission keeps the invariant: the counter tested was the number of
\* slots held.
LEMMA AdmitStep ==
  ASSUME GuardInv, NEW r \in Requests, NEW k \in Keys, Admit(r, k)
  PROVE  GuardInv'
  <1> USE DEF GuardInv
  <1>1. Held' = Held \cup {r} /\ r \notin Held
    BY DEF Admit, Held, TypeOK, SlotStates
  <1>2. \A m \in Keys : HeldBy(m)' = IF m = k THEN HeldBy(m) \cup {r} ELSE HeldBy(m)
    BY <1>1 DEF Admit, HeldBy, TypeOK
  <1>3. \A m \in Keys : r \notin HeldBy(m)
    BY <1>1 DEF HeldBy
  <1>4. Cardinality(Held') = Cardinality(Held) + 1
    BY <1>1, SlotSetsFinite, FS_AddElement
  <1>5. /\ Cardinality(HeldBy(k)') = Cardinality(HeldBy(k)) + 1
        /\ \A m \in Keys \ {k} : HeldBy(m)' = HeldBy(m)
    BY <1>2, <1>3, SlotSetsFinite, FS_AddElement
  <1>6. TypeOK'
    <2>1. global' \in Nat /\ slot' \in [Requests -> SlotStates] /\ key' \in [Requests -> Keys]
      BY DEF Admit, TypeOK, SlotStates
    <2>2. DOMAIN byMember' \subseteq Members /\ byMember' \in [DOMAIN byMember' -> Nat]
      BY DEF Admit, Counted, TypeOK, MemberCount, Keys
    <2>3. QED
      BY <2>1, <2>2 DEF TypeOK
  <1>7. \A m \in Members : MemberCount(m)' = IF m = k THEN MemberCount(m) + 1 ELSE MemberCount(m)
    BY GuardAssumption DEF Admit, Counted, MemberCount, TypeOK, Keys
  <1>8. DOMAIN byMember' = IF k = NoMember THEN DOMAIN byMember ELSE DOMAIN byMember \cup {k}
    BY DEF Admit, Counted
  <1>9. CountersMatchSlots'
    <2>1. global' = Cardinality(Held')
      BY <1>4 DEF Admit, CountersMatchSlots
    <2>2. \A m \in Members : MemberCount(m)' = Cardinality(HeldBy(m)')
      BY <1>5, <1>7 DEF CountersMatchSlots, Keys
    <2>3. DOMAIN byMember' = {m \in Members : HeldBy(m)' # {}}
      BY <1>2, <1>8, GuardAssumption DEF CountersMatchSlots, Keys
    <2>4. QED
      BY <2>1, <2>2, <2>3 DEF CountersMatchSlots
  <1>10. CapsRespected'
    <2>1. Cardinality(Held') <= maxGlobal
      BY <1>4, LimitsArePositive DEF Admit, GlobalFull, CountersMatchSlots, TypeOK
    <2>2. ASSUME NEW m \in Members
          PROVE  Cardinality(HeldBy(m)') <= maxPerMember
      <3>1. CASE m = k
        <4>1. MemberCount(k) < maxPerMember /\ MemberCount(k) \in Nat
          BY <3>1, GuardAssumption, LimitsArePositive DEF Admit, MemberFull, MemberCount, TypeOK
        <4>2. QED
          BY <3>1, <4>1, <1>5, LimitsArePositive DEF CountersMatchSlots
      <3>2. CASE m # k
        BY <3>2, <1>5 DEF CapsRespected, Keys
      <3>3. QED
        BY <3>1, <3>2
    <2>3. QED
      BY <2>1, <2>2 DEF CapsRespected, maxGlobal, maxPerMember
  <1>11. QED
    BY <1>6, <1>9, <1>10

\* Giving a slot back keeps it; a member whose counter comes to zero is
\* forgotten.
LEMMA ReleaseStep ==
  ASSUME GuardInv, NEW r \in Requests, Release(r)
  PROVE  GuardInv'
  <1> USE DEF GuardInv
  <1>1. CASE AlreadyReleased(r)
    <2>1. UNCHANGED vars
      BY <1>1 DEF Release, vars
    <2>2. TypeOK' /\ Held' = Held
      BY <2>1 DEF vars, TypeOK, Held
    <2>3. QED
      BY <2>1, <2>2, SameSlotsHeld DEF vars
  <1>2. CASE ~AlreadyReleased(r)
    <2>0. PICK k \in Keys : k = key[r]
      BY DEF TypeOK
    <2>1. r \in Held /\ k \in Keys /\ r \in HeldBy(k) /\ key' = key
      BY <1>2, <2>0 DEF Release, AlreadyReleased, Held, HeldBy, TypeOK
    <2>2. Held' = Held \ {r}
      BY <1>2 DEF Release, AlreadyReleased, Held, TypeOK, SlotStates
    <2>3. \A m \in Keys : HeldBy(m)' = IF m = k THEN HeldBy(m) \ {r} ELSE HeldBy(m)
      BY <2>0, <2>1, <2>2 DEF HeldBy
    <2>4. Cardinality(Held') = Cardinality(Held) - 1 /\ Cardinality(Held) \in Nat
      BY <2>1, <2>2, SlotSetsFinite, FS_RemoveElement, FS_CardinalityType
    <2>5. Cardinality(HeldBy(k)') = Cardinality(HeldBy(k)) - 1
      BY <2>1, <2>3, SlotSetsFinite, FS_RemoveElement
    <2>6. Cardinality(Held') \in Nat /\ \A m \in Keys : Cardinality(HeldBy(m)') \in Nat
      BY SlotSetsFiniteNext, FS_CardinalityType
    <2>7. \A m \in Keys : Cardinality(HeldBy(m)) \in Nat
      BY SlotSetsFinite, FS_CardinalityType
    <2>8. global' = Cardinality(Held')
      BY <1>2, <2>4, <2>6 DEF Release, Lowered, CountersMatchSlots
    <2>9. k \in Members =>
            /\ k \in DOMAIN byMember
            /\ byMember[k] = Cardinality(HeldBy(k))
            /\ Cardinality(HeldBy(k)) >= 1
      BY <2>1, <2>5, <2>6, <2>7 DEF CountersMatchSlots, MemberCount
    <2>10. byMember' = Uncounted(k)
      BY <1>2, <2>0 DEF Release
    <2>11. /\ DOMAIN byMember' = {m \in Members : HeldBy(m)' # {}}
           /\ byMember' \in [DOMAIN byMember' -> Nat]
           /\ \A m \in Members : MemberCount(m)' = Cardinality(HeldBy(m)')
      <3>1. CASE k = NoMember
        <4>1. byMember' = byMember
          BY <2>10, <3>1 DEF Uncounted
        <4>2. \A m \in Members : HeldBy(m)' = HeldBy(m)
          BY <3>1, <2>3, GuardAssumption DEF Keys
        <4>3. QED
          BY <4>1, <4>2 DEF CountersMatchSlots, MemberCount, TypeOK
      <3>2. CASE k # NoMember /\ Cardinality(HeldBy(k)) = 1
        <4>1. k \in Members
          BY <3>2, <2>1 DEF Keys
        <4>2. byMember' = [m \in DOMAIN byMember \ {k} |-> byMember[m]]
          BY <4>1, <3>2, <2>9, <2>10 DEF Uncounted
        <4>3. HeldBy(k)' = {}
          BY <2>1, <2>5, <3>2, SlotSetsFiniteNext, FS_EmptySet
        <4>4. Cardinality(HeldBy(k)') = 0
          BY <2>5, <3>2
        <4>5. \A m \in Members \ {k} : HeldBy(m)' = HeldBy(m)
          BY <2>3 DEF Keys
        <4>6. DOMAIN byMember' = DOMAIN byMember \ {k}
          BY <4>2
        <4>7. DOMAIN byMember' = {m \in Members : HeldBy(m)' # {}}
          BY <4>3, <4>5, <4>6 DEF CountersMatchSlots
        <4>8. byMember' \in [DOMAIN byMember' -> Nat]
          BY <4>2 DEF TypeOK
        <4>9. \A m \in Members : MemberCount(m)' = IF m = k THEN 0 ELSE MemberCount(m)
          BY <4>2, <4>6 DEF MemberCount
        <4>10. QED
          BY <4>4, <4>5, <4>7, <4>8, <4>9 DEF CountersMatchSlots
      <3>3. CASE k # NoMember /\ Cardinality(HeldBy(k)) # 1
        <4>1. k \in Members
          BY <3>3, <2>1 DEF Keys
        <4>2. Cardinality(HeldBy(k)) \in Nat /\ Cardinality(HeldBy(k)) - 1 > 0
          BY <4>1, <3>3, <2>1, <2>7, <2>9
        <4>3. byMember' = [m \in DOMAIN byMember \cup {k} |->
                             IF m = k THEN Cardinality(HeldBy(k)) - 1 ELSE byMember[m]]
          BY <4>1, <4>2, <3>3, <2>9, <2>10 DEF Uncounted
        <4>4. HeldBy(k)' # {}
          BY <4>2, <2>5, FS_EmptySet
        <4>5. \A m \in Members \ {k} : HeldBy(m)' = HeldBy(m)
          BY <2>3 DEF Keys
        <4>6. DOMAIN byMember' = DOMAIN byMember
          BY <4>1, <4>3, <2>9
        <4>7. DOMAIN byMember' = {m \in Members : HeldBy(m)' # {}}
          BY <4>1, <4>4, <4>5, <4>6, <2>1 DEF CountersMatchSlots
        <4>8. byMember' \in [DOMAIN byMember' -> Nat]
          BY <4>2, <4>3 DEF TypeOK
        <4>9. \A m \in Members : MemberCount(m)' =
                IF m = k THEN Cardinality(HeldBy(k)) - 1 ELSE MemberCount(m)
          BY <4>1, <4>3, <4>6, <2>9 DEF MemberCount
        <4>10. QED
          BY <4>5, <4>7, <4>8, <4>9, <2>5 DEF CountersMatchSlots
      <3>4. QED
        BY <3>1, <3>2, <3>3
    <2>12. TypeOK'
      BY <1>2, <2>1, <2>6, <2>8, <2>11 DEF Release, TypeOK, SlotStates
    <2>13. CountersMatchSlots'
      BY <2>8, <2>11 DEF CountersMatchSlots
    <2>14. CapsRespected'
      <3>1. Cardinality(Held') <= maxGlobal
        BY <2>4, LimitsArePositive DEF CapsRespected
      <3>2. ASSUME NEW m \in Members PROVE Cardinality(HeldBy(m)') <= maxPerMember
        <4>1. Cardinality(HeldBy(m)) <= maxPerMember /\ Cardinality(HeldBy(m)) \in Nat
          BY <2>7 DEF CapsRespected, Keys
        <4>2. CASE m = k
          BY <4>1, <4>2, <2>5, LimitsArePositive
        <4>3. CASE m # k
          BY <4>1, <4>3, <2>3 DEF Keys
        <4>4. QED
          BY <4>2, <4>3
      <3>3. QED
        BY <3>1, <3>2 DEF CapsRespected, maxGlobal, maxPerMember
    <2>15. QED
      BY <2>12, <2>13, <2>14
  <1>3. QED
    BY <1>1, <1>2

\* The initial states satisfy the invariant.
LEMMA GuardInit == Init => GuardInv
  <1> SUFFICES ASSUME Init PROVE GuardInv
    OBVIOUS
  <1>1. Held = {} /\ \A k \in Keys : HeldBy(k) = {}
    BY DEF Init, Held, HeldBy
  <1>2. DOMAIN byMember = {} /\ byMember \in [{} -> Nat]
    BY DEF Init
  <1>3. TypeOK
    BY <1>2 DEF Init, TypeOK, SlotStates, Keys
  <1>4. CountersMatchSlots
    BY <1>1, <1>2, FS_EmptySet DEF Init, CountersMatchSlots, MemberCount, Keys
  <1>5. CapsRespected
    BY <1>1, FS_EmptySet, LimitsArePositive DEF CapsRespected, Keys
  <1>6. QED
    BY <1>3, <1>4, <1>5 DEF GuardInv

\* Every step keeps it.
LEMMA GuardInvKept == GuardInv /\ [Next]_vars => GuardInv'
  <1> SUFFICES ASSUME GuardInv, [Next]_vars PROVE GuardInv'
    OBVIOUS
  <1>1. ASSUME NEW r \in Requests, PassReadOnly(r) \/ Answer(r) PROVE GuardInv'
    <2>1. TypeOK' /\ UNCHANGED <<global, byMember>> /\ Held' = Held /\ key' = key
      BY <1>1 DEF PassReadOnly, Answer, GuardInv, TypeOK, Held, SlotStates
    <2>2. QED
      BY <2>1, SameSlotsHeld
  <1>2. ASSUME NEW r \in Requests, NEW k \in Keys, Refuse(r, k) PROVE GuardInv'
    <2>1. /\ TypeOK' /\ UNCHANGED <<global, byMember>>
          /\ Held' = Held /\ r \notin Held
      BY <1>2 DEF Refuse, GuardInv, TypeOK, Held, SlotStates
    <2>2. \A q \in Held : key'[q] = key[q]
      BY <1>2, <2>1 DEF Refuse, Held, GuardInv, TypeOK
    <2>3. QED
      BY <2>1, <2>2, SameSlotsHeld
  <1>3. ASSUME UNCHANGED vars PROVE GuardInv'
    <2>1. TypeOK' /\ Held' = Held
      BY <1>3 DEF vars, GuardInv, TypeOK, Held
    <2>2. QED
      BY <1>3, <2>1, SameSlotsHeld DEF vars
  <1>4. QED
    BY <1>1, <1>2, <1>3, AdmitStep, ReleaseStep DEF Next

\* It holds in every reachable state.
LEMMA GuardAlways == Spec => []GuardInv
  BY GuardInit, GuardInvKept, PTL DEF Spec

\* The state of the guard keeps its shape: counts are naturals, and the Map
\* never gains an entry for a blank key.
THEOREM TypeCorrect == Spec => []TypeOK
  BY GuardAlways, PTL DEF GuardInv

\* The counters never drift from the slots that are held, whatever the order
\* of admissions, refusals and repeated releases.
THEOREM CountersCorrect == Spec => []CountersMatchSlots
  BY GuardAlways, PTL DEF GuardInv

\* The executions in flight never exceed the global cap, nor those of a member
\* the member's cap.
THEOREM CapsHold == Spec => []CapsRespected
  BY GuardAlways, PTL DEF GuardInv

\* A refusal always means the cap was really full.
THEOREM RefusalsJustified == Spec => RefusedOnlyWhenFull
  <1> DEFINE A == \A r \in Requests :
         /\ (slot[r] = "idle" /\ slot'[r] = "refusedGlobal") => Cardinality(Held) = maxGlobal
         /\ (slot[r] = "idle" /\ slot'[r] = "refusedMember") =>
               /\ Cardinality(Held) < maxGlobal
               /\ Cardinality(HeldBy(key'[r])) = maxPerMember
  <1>1. GuardInv /\ [Next]_vars => [A]_vars
    <2> SUFFICES ASSUME GuardInv, Next, NEW r \in Requests, slot[r] = "idle",
                        slot'[r] \in {"refusedGlobal", "refusedMember"}
                 PROVE  /\ slot'[r] = "refusedGlobal" => Cardinality(Held) = maxGlobal
                        /\ slot'[r] = "refusedMember" =>
                             /\ Cardinality(Held) < maxGlobal
                             /\ Cardinality(HeldBy(key'[r])) = maxPerMember
      OBVIOUS
    <2>1. PICK k \in Keys : Refuse(r, k)
      <3>1. PICK q \in Requests : \/ PassReadOnly(q)
                                  \/ \E k \in Keys : Refuse(q, k)
                                  \/ \E k \in Keys : Admit(q, k)
                                  \/ Release(q)
                                  \/ Answer(q)
        BY DEF Next
      <3>2. ~PassReadOnly(q) /\ ~(\E k \in Keys : Admit(q, k)) /\ ~Release(q) /\ ~Answer(q)
        BY DEF PassReadOnly, Admit, Release, Answer, GuardInv, TypeOK
      <3>3. PICK k \in Keys : Refuse(q, k)
        BY <3>1, <3>2
      <3>4. q = r
        BY <3>3 DEF Refuse, GuardInv, TypeOK
      <3>5. QED
        BY <3>3, <3>4
    <2>2. key'[r] = k
      BY <2>1 DEF Refuse, GuardInv, TypeOK
    <2>3. Cardinality(Held) \in Nat /\ Cardinality(HeldBy(k)) \in Nat
      BY SlotSetsFinite, FS_CardinalityType
    <2>4. CASE slot'[r] = "refusedGlobal"
      <3>1. GlobalFull
        BY <2>1, <2>4 DEF Refuse, GuardInv, TypeOK
      <3>2. QED
        BY <2>3, <2>4, <3>1, LimitsArePositive
           DEF GlobalFull, GuardInv, CountersMatchSlots, CapsRespected
    <2>5. CASE slot'[r] = "refusedMember"
      <3>1. ~GlobalFull /\ MemberFull(k)
        BY <2>1, <2>5 DEF Refuse, GuardInv, TypeOK
      <3>2. k \in Members
        BY <3>1 DEF MemberFull, Keys
      <3>3. QED
        BY <2>2, <2>3, <2>5, <3>1, <3>2, LimitsArePositive
           DEF GlobalFull, MemberFull, GuardInv, CountersMatchSlots, CapsRespected
    <2>6. QED
      BY <2>4, <2>5
  <1>2. QED
    BY <1>1, GuardAlways, PTL DEF Spec, RefusedOnlyWhenFull

-------------------------------------------------------------------------------
(* DisableStore: the chain of jobs, the file and the cache                 *)

\* w's job is the first of the chain.
InFront(w) == queue # <<>> /\ Head(queue) = w

\* The chain holds each job under way once, and only the first one works.
Chain ==
    /\ queue \in Seq(Writers)
    /\ \A i, j \in 1..Len(queue) : queue[i] = queue[j] => i = j
    /\ \A w \in Writers : pc[w] # "idle" <=> \E i \in 1..Len(queue) : queue[i] = w
    /\ \A w \in Writers : pc[w] \notin {"idle", "queued"} => InFront(w)

\* The chain stays in order when a job is added.
LEMMA AppendKeepsChain ==
  ASSUME Chain, NEW w \in Writers, pc[w] = "idle", queue' = Append(queue, w),
         pc'[w] = "queued", \A v \in Writers \ {w} : pc'[v] = pc[v]
  PROVE  Chain'
  <1>1. \A i \in 1..Len(queue) : queue[i] # w
    BY DEF Chain
  <1>2. /\ queue' \in Seq(Writers) /\ Len(queue') = Len(queue) + 1
        /\ queue'[Len(queue) + 1] = w /\ \A i \in 1..Len(queue) : queue'[i] = queue[i]
    BY DEF Chain
  <1>3. Len(queue) \in Nat
    BY DEF Chain
  <1>4. \A i, j \in 1..Len(queue') : queue'[i] = queue'[j] => i = j
    BY <1>1, <1>2, <1>3 DEF Chain
  <1>5. \A v \in Writers : pc'[v] # "idle" <=> \E i \in 1..Len(queue') : queue'[i] = v
    <2>1. 1..Len(queue') = (1..Len(queue)) \cup {Len(queue) + 1}
      BY <1>2, <1>3
    <2>2. QED
      BY <1>2, <2>1 DEF Chain
  <1>6. \A v \in Writers : pc'[v] \notin {"idle", "queued"} => InFront(v)'
    <2>1. ASSUME NEW v \in Writers, pc'[v] \notin {"idle", "queued"} PROVE InFront(v)'
      <3>1. InFront(v)
        BY <2>1 DEF Chain
      <3>2. Head(queue') = Head(queue) /\ queue' # <<>>
        BY <1>2, <1>3, <3>1 DEF Chain, InFront
      <3>3. QED
        BY <3>1, <3>2 DEF InFront
    <2>2. QED
      BY <2>1
  <1>7. QED
    BY <1>2, <1>4, <1>5, <1>6 DEF Chain

\* The chain stays in order when the first job leaves.
LEMMA TailKeepsChain ==
  ASSUME Chain, NEW w \in Writers, InFront(w), queue' = Tail(queue),
         pc'[w] = "idle", \A v \in Writers \ {w} : pc'[v] = pc[v]
  PROVE  Chain'
  <1>1. queue # <<>> /\ queue \in Seq(Writers) /\ Head(queue) = w /\ Len(queue) \in Nat \ {0}
    BY DEF Chain, InFront
  <1>2. /\ queue' \in Seq(Writers) /\ Len(queue') = Len(queue) - 1
        /\ \A i \in 1..Len(queue') : queue'[i] = queue[i + 1]
    BY <1>1, HeadTailProperties
  <1>3. queue[1] = w
    BY <1>1
  <1>4. \A i, j \in 1..Len(queue') : queue'[i] = queue'[j] => i = j
    BY <1>1, <1>2 DEF Chain
  <1>5. \A i \in 1..Len(queue') : queue'[i] # w
    BY <1>1, <1>2, <1>3 DEF Chain
  <1>6. \A v \in Writers : pc'[v] # "idle" <=> \E i \in 1..Len(queue') : queue'[i] = v
    <2>1. ASSUME NEW v \in Writers, v # w, pc[v] # "idle"
          PROVE  \E i \in 1..Len(queue') : queue'[i] = v
      <3>1. PICK i \in 1..Len(queue) : queue[i] = v
        BY <2>1 DEF Chain
      <3>2. i - 1 \in 1..Len(queue') /\ queue'[i - 1] = queue[i]
        BY <1>1, <1>2, <1>3, <2>1, <3>1
      <3>3. QED
        BY <3>1, <3>2
    <2>2. ASSUME NEW v \in Writers, NEW i \in 1..Len(queue'), queue'[i] = v
          PROVE  v # w /\ pc[v] # "idle"
      <3>1. i + 1 \in 1..Len(queue) /\ queue[i + 1] = v
        BY <1>1, <1>2, <2>2
      <3>2. QED
        BY <1>5, <2>2, <3>1 DEF Chain
    <2>3. QED
      BY <2>1, <2>2
  <1>7. \A v \in Writers : pc'[v] \in {"idle", "queued"}
    BY <1>1 DEF Chain, InFront
  <1>8. QED
    BY <1>2, <1>4, <1>6, <1>7 DEF Chain

\* The types, with what a caller has at each step.
StoreTypes ==
    /\ file \subseteq Connections /\ promised \subseteq Connections /\ raced \in BOOLEAN /\ unread \in BOOLEAN
    /\ cache = Cold \/ cache \subseteq Connections
    /\ pc \in [Disable!Callers -> Disable!Steps]
    /\ arg \in [Writers -> Disable!Settings \cup {None}]
    /\ data \in [Disable!Callers -> (SUBSET Connections) \cup {None}]
    /\ answer \in [Readers -> (SUBSET Connections) \cup {None}]
    /\ \A w \in Writers : pc[w] # "idle" => arg[w] \in Disable!Settings
    /\ \A c \in Disable!Callers :
          pc[c] \in {"loaded", "writing", "renamed"} => data[c] \subseteq Connections

\* While the cache is cold nobody has written since the start, so that whatever was
\* loaded is what the file holds, if it could be read.
ColdIsFresh ==
    cache = Cold => \A c \in Disable!Callers : /\ pc[c] = "loaded" => data[c] = file \/ unread
                                               /\ pc[c] \notin {"writing", "renamed"}

\* Without a load that is late or fails the file and the cache follow what was promised, and the
\* job at work writes the next of it.
Followed ==
    ~raced /\ ~unread =>
        /\ file = promised
        /\ cache \in {Cold, promised} \/ \E w \in Writers : pc[w] = "renamed"
        /\ \A w \in Writers : pc[w] = "writing" => data[w] = Disable!Apply(promised, arg[w])
        /\ \A w \in Writers : pc[w] = "renamed" => data[w] = promised

\* The inductive invariant.
StoreInv == StoreTypes /\ Chain /\ ColdIsFresh /\ Followed

\* A set changed by a setting is a set of keys.
LEMMA ApplyType ==
  ASSUME NEW set \in SUBSET Connections, NEW s \in Disable!Settings
  PROVE  Disable!Apply(set, s) \in SUBSET Connections
  BY DEF Disable!Apply, Disable!Settings

\* No other job works besides the first.
LEMMA OneAtWork ==
  ASSUME Chain, NEW v \in Writers, NEW w \in Writers, InFront(w), v # w
  PROVE  pc[v] \in {"idle", "queued"}
  BY DEF Chain, InFront

\* Whoever works, or has its turn, is the first.
LEMMA AtWorkInFront ==
  ASSUME Chain, NEW w \in Writers, pc[w] \notin {"idle", "queued"} \/ Disable!Turn(w)
  PROVE  InFront(w)
  <1>1. CASE Disable!Turn(w)
    <2>1. PICK i \in 1..Len(queue) : queue[i] = w
      BY <1>1 DEF Disable!Turn, Chain
    <2>2. queue # <<>>
      BY <2>1 DEF Chain
    <2>3. QED
      BY <1>1, <2>2 DEF Disable!Turn, InFront
  <1>2. CASE pc[w] \notin {"idle", "queued"}
    BY <1>2 DEF Chain
  <1>3. QED
    BY <1>1, <1>2

\* The chain stays in order when its first job goes on.
LEMMA SameChain ==
  ASSUME Chain, queue' = queue,
         \A w \in Writers : \/ pc'[w] = pc[w]
                            \/ pc[w] # "idle" /\ pc'[w] # "idle" /\ InFront(w)
  PROVE  Chain'
  BY DEF Chain, InFront

\* A new job keeps the invariant.
LEMMA EnqueueKeeps ==
  ASSUME StoreInv, NEW w \in Writers, Disable!Enqueue(w)
  PROVE  StoreInv'
  <1>1. PICK s \in Disable!Settings : arg' = [arg EXCEPT ![w] = s]
    BY DEF Disable!Enqueue
  <1>2. /\ pc[w] = "idle" /\ pc' = [pc EXCEPT ![w] = "queued"] /\ queue' = Append(queue, w)
        /\ UNCHANGED <<file, cache, data, answer, promised, raced, unread>>
    BY DEF Disable!Enqueue, Disable!Goto
  <1>3. /\ pc'[w] = "queued" /\ arg'[w] = s
        /\ \A c \in Disable!Callers \ {w} : pc'[c] = pc[c]
        /\ \A v \in Writers \ {w} : arg'[v] = arg[v]
    BY <1>1, <1>2 DEF StoreInv, StoreTypes, Disable!Callers
  <1>4. Chain'
    BY <1>2, <1>3, AppendKeepsChain DEF StoreInv, Disable!Callers
  <1>5. StoreTypes'
    BY <1>1, <1>2, <1>3 DEF StoreInv, StoreTypes, Disable!Steps
  <1>6. ColdIsFresh' /\ Followed'
    BY <1>2, <1>3 DEF StoreInv, ColdIsFresh, Followed, Disable!Callers
  <1>7. QED
    BY <1>4, <1>5, <1>6 DEF StoreInv

\* So does an edit of the cache: nobody has renamed, so the cache is what was promised.
LEMMA EditCachedKeeps ==
  ASSUME StoreInv, NEW w \in Writers, Disable!EditCached(w)
  PROVE  StoreInv'
  <1>1. /\ pc[w] = "queued" /\ cache # Cold
        /\ data' = [data EXCEPT ![w] = Disable!Apply(cache, arg[w])]
        /\ pc' = [pc EXCEPT ![w] = "writing"]
        /\ UNCHANGED <<file, cache, queue, arg, answer, promised, raced, unread>>
    BY DEF Disable!EditCached, Disable!Turn, Disable!Goto
  <1>2. InFront(w)
    BY AtWorkInFront DEF Disable!EditCached, StoreInv
  <1>3. /\ pc'[w] = "writing" /\ data'[w] = Disable!Apply(cache, arg[w])
        /\ \A c \in Disable!Callers \ {w} : pc'[c] = pc[c] /\ data'[c] = data[c]
    BY <1>1 DEF StoreInv, StoreTypes, Disable!Callers
  <1>4. Chain'
    BY <1>1, <1>2, <1>3, SameChain DEF StoreInv, Disable!Callers
  <1>5. Disable!Apply(cache, arg[w]) \in SUBSET Connections
    BY <1>1, ApplyType DEF StoreInv, StoreTypes
  <1>6. StoreTypes'
    BY <1>1, <1>3, <1>5 DEF StoreInv, StoreTypes, Disable!Steps
  <1>7. ColdIsFresh'
    BY <1>1 DEF ColdIsFresh
  <1>8. Followed'
    <2>1. \A v \in Writers : pc[v] # "renamed" /\ pc[v] # "writing"
      BY <1>1, <1>2, OneAtWork DEF StoreInv
    <2>2. QED
      BY <1>1, <1>3, <2>1 DEF StoreInv, Followed, Disable!Callers
  <1>9. QED
    BY <1>4, <1>6, <1>7, <1>8 DEF StoreInv

\* So does the start of a load.
LEMMA StartLoadKeeps ==
  ASSUME StoreInv, NEW c \in Disable!Callers, Disable!StartLoad(c), Disable!ConstantsOK
  PROVE  StoreInv'
  <1>1. /\ pc' = [pc EXCEPT ![c] = "loading"] /\ cache = Cold
        /\ UNCHANGED <<file, cache, queue, arg, data, answer, promised, raced, unread>>
    BY DEF Disable!StartLoad, Disable!Goto
  <1>2. pc'[c] = "loading" /\ \A d \in Disable!Callers \ {c} : pc'[d] = pc[d]
    BY <1>1 DEF StoreInv, StoreTypes
  <1>3. c \in Writers => pc[c] = "queued" /\ InFront(c)
    BY AtWorkInFront DEF Disable!StartLoad, Disable!Turn, StoreInv
  <1>4. Chain'
    BY <1>1, <1>2, <1>3, SameChain DEF StoreInv, Disable!Callers
  <1>5. StoreTypes'
    BY <1>1, <1>2, <1>3 DEF StoreInv, StoreTypes, Disable!Steps
  <1>6. ColdIsFresh' /\ Followed'
    BY <1>1, <1>2, <1>3 DEF StoreInv, ColdIsFresh, Followed, Disable!Callers
  <1>7. QED
    BY <1>4, <1>5, <1>6 DEF StoreInv

\* So does reading the file.
LEMMA LoadKeeps ==
  ASSUME StoreInv, NEW c \in Disable!Callers, Disable!Load(c)
  PROVE  StoreInv'
  <1>1. /\ pc[c] = "loading" /\ data' = [data EXCEPT ![c] = file]
        /\ pc' = [pc EXCEPT ![c] = "loaded"]
        /\ UNCHANGED <<file, cache, queue, arg, answer, promised, raced, unread>>
    BY DEF Disable!Load, Disable!Goto
  <1>2. /\ pc'[c] = "loaded" /\ data'[c] = file
        /\ \A d \in Disable!Callers \ {c} : pc'[d] = pc[d] /\ data'[d] = data[d]
    BY <1>1 DEF StoreInv, StoreTypes
  <1>3. c \in Writers => InFront(c)
    BY <1>1, AtWorkInFront DEF StoreInv
  <1>4. Chain'
    BY <1>1, <1>2, <1>3, SameChain DEF StoreInv, Disable!Callers
  <1>5. StoreTypes'
    BY <1>1, <1>2 DEF StoreInv, StoreTypes, Disable!Steps
  <1>6. ColdIsFresh' /\ Followed'
    BY <1>1, <1>2 DEF StoreInv, ColdIsFresh, Followed, Disable!Callers
  <1>7. QED
    BY <1>4, <1>5, <1>6 DEF StoreInv

\* So does a read of the file that fails.
LEMMA LoadFailsKeeps ==
  ASSUME StoreInv, NEW c \in Disable!Callers, Disable!LoadFails(c)
  PROVE  StoreInv'
  <1>1. /\ pc[c] = "loading" /\ data' = [data EXCEPT ![c] = {}]
        /\ unread' = (unread \/ file # {})
        /\ pc' = [pc EXCEPT ![c] = "loaded"]
        /\ UNCHANGED <<file, cache, queue, arg, answer, promised, raced>>
    BY DEF Disable!LoadFails, Disable!Goto
  <1>2. /\ pc'[c] = "loaded" /\ data'[c] = {}
        /\ \A d \in Disable!Callers \ {c} : pc'[d] = pc[d] /\ data'[d] = data[d]
    BY <1>1 DEF StoreInv, StoreTypes
  <1>3. c \in Writers => InFront(c)
    BY <1>1, AtWorkInFront DEF StoreInv
  <1>4. Chain'
    BY <1>1, <1>2, <1>3, SameChain DEF StoreInv, Disable!Callers
  <1>5. StoreTypes'
    BY <1>1, <1>2 DEF StoreInv, StoreTypes, Disable!Steps
  <1>6. ColdIsFresh' /\ Followed'
    BY <1>1, <1>2 DEF StoreInv, ColdIsFresh, Followed, Disable!Callers
  <1>7. QED
    BY <1>4, <1>5, <1>6 DEF StoreInv

\* So does an edit of what was loaded: it is the file, or what the cache is anyway.
LEMMA EditLoadedKeeps ==
  ASSUME StoreInv, NEW w \in Writers, Disable!EditLoaded(w), Disable!ConstantsOK
  PROVE  StoreInv'
  <1>1. /\ pc[w] = "loaded" /\ cache' = data[w]
        /\ raced' = (raced \/ (cache # Cold /\ cache # data[w]))
        /\ data' = [data EXCEPT ![w] = Disable!Apply(data[w], arg[w])]
        /\ pc' = [pc EXCEPT ![w] = "writing"]
        /\ UNCHANGED <<file, queue, arg, answer, promised, unread>>
    BY DEF Disable!EditLoaded, Disable!FillCache, Disable!Goto
  <1>2. InFront(w) /\ data[w] \in SUBSET Connections /\ arg[w] \in Disable!Settings
    BY <1>1, AtWorkInFront DEF StoreInv, StoreTypes, Disable!Callers
  <1>3. /\ pc'[w] = "writing" /\ data'[w] = Disable!Apply(data[w], arg[w])
        /\ \A c \in Disable!Callers \ {w} : pc'[c] = pc[c] /\ data'[c] = data[c]
    BY <1>1 DEF StoreInv, StoreTypes, Disable!Callers
  <1>4. Chain'
    BY <1>1, <1>2, <1>3, SameChain DEF StoreInv, Disable!Callers
  <1>5. StoreTypes'
    <2>1. Disable!Apply(data[w], arg[w]) \in SUBSET Connections
      BY <1>2, ApplyType
    <2>2. raced' \in BOOLEAN
      BY <1>1 DEF StoreInv, StoreTypes
    <2>3. QED
      BY <1>1, <1>2, <1>3, <2>1, <2>2 DEF StoreInv, StoreTypes, Disable!Steps
  <1>6. ColdIsFresh'
    BY <1>1, <1>2 DEF ColdIsFresh, Disable!ConstantsOK
  <1>7. Followed'
    <2>1. \A v \in Writers : pc[v] # "renamed" /\ pc[v] # "writing"
      BY <1>1, <1>2, OneAtWork DEF StoreInv
    <2>2. ASSUME ~raced', ~unread' PROVE ~raced /\ (cache = Cold \/ cache = data[w])
      BY <1>1, <2>2 DEF StoreInv, StoreTypes
    <2>3. cache = Cold => data[w] = file \/ unread
      BY <1>1 DEF StoreInv, ColdIsFresh, Disable!Callers
    <2>4. ASSUME ~raced', ~unread' PROVE data[w] = promised /\ file = promised
      <3>1. ~raced /\ ~unread
        BY <1>1, <2>2, <2>4
      <3>2. QED
        BY <1>2, <2>1, <2>2, <2>3, <2>4, <3>1 DEF StoreInv, Followed, Disable!ConstantsOK
    <2>5. QED
      BY <1>1, <1>3, <2>1, <2>4 DEF Followed, Disable!Callers
  <1>8. QED
    BY <1>4, <1>5, <1>6, <1>7 DEF StoreInv

\* So does an answer from the cache.
LEMMA AnswerCachedKeeps ==
  ASSUME StoreInv, NEW r \in Readers, Disable!AnswerCached(r)
  PROVE  StoreInv'
  <1>1. /\ cache # Cold /\ answer' = [answer EXCEPT ![r] = cache]
        /\ UNCHANGED <<file, cache, queue, pc, arg, data, promised, raced, unread>>
    BY DEF Disable!AnswerCached
  <1>2. QED
    BY <1>1 DEF StoreInv, StoreTypes, Chain, InFront, ColdIsFresh, Followed

\* So does an answer from the file, which fills the cache.
LEMMA AnswerLoadedKeeps ==
  ASSUME StoreInv, NEW r \in Readers, Disable!AnswerLoaded(r), Disable!ConstantsOK
  PROVE  StoreInv'
  <1>1. /\ pc[r] = "loaded" /\ cache' = data[r]
        /\ raced' = (raced \/ (cache # Cold /\ cache # data[r]))
        /\ answer' = [answer EXCEPT ![r] = data[r]] /\ data' = [data EXCEPT ![r] = None]
        /\ pc' = [pc EXCEPT ![r] = "idle"] /\ UNCHANGED <<file, queue, arg, promised, unread>>
    BY DEF Disable!AnswerLoaded, Disable!FillCache, Disable!Goto
  <1>2. data[r] \in SUBSET Connections /\ r \notin Writers
    BY <1>1 DEF StoreInv, StoreTypes, Disable!Callers, Disable!ConstantsOK
  <1>3. /\ pc'[r] = "idle" /\ data'[r] = None
        /\ \A c \in Disable!Callers \ {r} : pc'[c] = pc[c] /\ data'[c] = data[c]
    BY <1>1 DEF StoreInv, StoreTypes, Disable!Callers
  <1>4. Chain'
    BY <1>1, <1>2, <1>3, SameChain DEF StoreInv, Disable!Callers
  <1>5. StoreTypes'
    <2>1. raced' \in BOOLEAN
      BY <1>1 DEF StoreInv, StoreTypes
    <2>2. QED
      BY <1>1, <1>2, <1>3, <2>1 DEF StoreInv, StoreTypes, Disable!Steps, Disable!Callers
  <1>6. ColdIsFresh'
    BY <1>1, <1>2 DEF ColdIsFresh, Disable!ConstantsOK
  <1>7. Followed'
    <2>1. ASSUME ~raced', ~unread' PROVE ~raced /\ (cache = Cold \/ cache = data[r])
      BY <1>1, <2>1 DEF StoreInv, StoreTypes
    <2>2. cache = Cold => data[r] = file \/ unread
      BY <1>1 DEF StoreInv, ColdIsFresh, Disable!Callers
    <2>3. QED
      BY <1>1, <1>2, <1>3, <2>1, <2>2
         DEF StoreInv, Followed, Disable!Callers, Disable!ConstantsOK
  <1>8. QED
    BY <1>4, <1>5, <1>6, <1>7 DEF StoreInv

\* So does the rename: what was promised moves on with the file.
LEMMA RenameKeeps ==
  ASSUME StoreInv, NEW w \in Writers, Disable!Rename(w)
  PROVE  StoreInv'
  <1>1. /\ pc[w] = "writing" /\ file' = data[w] /\ promised' = Disable!Apply(promised, arg[w])
        /\ pc' = [pc EXCEPT ![w] = "renamed"]
        /\ UNCHANGED <<cache, queue, arg, data, answer, raced, unread>>
    BY DEF Disable!Rename, Disable!Goto
  <1>2. /\ InFront(w) /\ data[w] \in SUBSET Connections /\ arg[w] \in Disable!Settings
        /\ Disable!Apply(promised, arg[w]) \in SUBSET Connections
    BY <1>1, AtWorkInFront, ApplyType DEF StoreInv, StoreTypes, Disable!Callers
  <1>3. pc'[w] = "renamed" /\ \A c \in Disable!Callers \ {w} : pc'[c] = pc[c]
    BY <1>1 DEF StoreInv, StoreTypes, Disable!Callers
  <1>4. Chain'
    BY <1>1, <1>2, <1>3, SameChain DEF StoreInv, Disable!Callers
  <1>5. StoreTypes'
    BY <1>1, <1>2, <1>3 DEF StoreInv, StoreTypes, Disable!Steps
  <1>6. ColdIsFresh'
    BY <1>1 DEF StoreInv, ColdIsFresh, Disable!Callers
  <1>7. Followed'
    <2>1. \A v \in Writers \ {w} : pc[v] \in {"idle", "queued"}
      BY <1>2, OneAtWork DEF StoreInv
    <2>2. QED
      BY <1>1, <1>3, <2>1 DEF StoreInv, Followed, Disable!Callers
  <1>8. QED
    BY <1>4, <1>5, <1>6, <1>7 DEF StoreInv

\* What a job leaves when it has ended, well or badly.
LEMMA LeaveKeeps ==
  ASSUME StoreInv, NEW w \in Writers, NEW failed, Disable!Leave(w, failed),
         pc[w] \in {"writing", "renamed"}
  PROVE  /\ Chain'
         /\ pc'[w] = "idle"
         /\ \A c \in Disable!Callers \ {w} : pc'[c] = pc[c] /\ data'[c] = data[c]
         /\ \A v \in Writers \ {w} : arg'[v] = arg[v] /\ pc[v] \in {"idle", "queued"}
         /\ pc' \in [Disable!Callers -> Disable!Steps]
         /\ arg' \in [Writers -> Disable!Settings \cup {None}]
         /\ data' \in [Disable!Callers -> (SUBSET Connections) \cup {None}]
  <1>1. /\ queue' = Tail(queue) /\ pc' = [pc EXCEPT ![w] = "idle"]
        /\ arg' = [arg EXCEPT ![w] = None] /\ data' = [data EXCEPT ![w] = None]
    BY DEF Disable!Leave, Disable!ChainAfter
  <1>2. InFront(w)
    BY AtWorkInFront DEF StoreInv
  <1>3. /\ pc'[w] = "idle"
        /\ \A c \in Disable!Callers \ {w} : pc'[c] = pc[c] /\ data'[c] = data[c]
        /\ \A v \in Writers \ {w} : arg'[v] = arg[v]
    BY <1>1 DEF StoreInv, StoreTypes, Disable!Callers
  <1>4. Chain'
    BY <1>1, <1>2, <1>3, TailKeepsChain DEF StoreInv, Disable!Callers
  <1>5. \A v \in Writers \ {w} : pc[v] \in {"idle", "queued"}
    BY <1>2, OneAtWork DEF StoreInv
  <1>6. QED
    BY <1>1, <1>3, <1>4, <1>5 DEF StoreInv, StoreTypes, Disable!Steps

\* A failed write keeps the invariant.
LEMMA WriteFailsKeeps ==
  ASSUME StoreInv, NEW w \in Writers, Disable!WriteFails(w)
  PROVE  StoreInv'
  <1>1. /\ Disable!Leave(w, TRUE) /\ pc[w] = "writing"
        /\ UNCHANGED <<file, cache, answer, promised, raced, unread>>
    BY DEF Disable!WriteFails
  <1>2. /\ Chain'
        /\ pc'[w] = "idle"
        /\ \A c \in Disable!Callers \ {w} : pc'[c] = pc[c] /\ data'[c] = data[c]
        /\ \A v \in Writers \ {w} : arg'[v] = arg[v] /\ pc[v] \in {"idle", "queued"}
        /\ pc' \in [Disable!Callers -> Disable!Steps]
        /\ arg' \in [Writers -> Disable!Settings \cup {None}]
        /\ data' \in [Disable!Callers -> (SUBSET Connections) \cup {None}]
    BY <1>1, LeaveKeeps
  <1>3. StoreTypes'
    BY <1>1, <1>2 DEF StoreInv, StoreTypes, Disable!Callers
  <1>4. ColdIsFresh' /\ Followed'
    BY <1>1, <1>2 DEF StoreInv, ColdIsFresh, Followed, Disable!Callers
  <1>5. QED
    BY <1>2, <1>3, <1>4 DEF StoreInv

\* So does the end of a job that wrote.
LEMMA ResolveKeeps ==
  ASSUME StoreInv, NEW w \in Writers, Disable!Resolve(w), Disable!ConstantsOK
  PROVE  StoreInv'
  <1>1. /\ Disable!Leave(w, FALSE) /\ pc[w] = "renamed" /\ cache' = data[w]
        /\ UNCHANGED <<file, answer, promised, raced, unread>>
    BY DEF Disable!Resolve
  <1>2. /\ Chain'
        /\ pc'[w] = "idle"
        /\ \A c \in Disable!Callers \ {w} : pc'[c] = pc[c] /\ data'[c] = data[c]
        /\ \A v \in Writers \ {w} : arg'[v] = arg[v] /\ pc[v] \in {"idle", "queued"}
        /\ pc' \in [Disable!Callers -> Disable!Steps]
        /\ arg' \in [Writers -> Disable!Settings \cup {None}]
        /\ data' \in [Disable!Callers -> (SUBSET Connections) \cup {None}]
    BY <1>1, LeaveKeeps
  <1>3. data[w] \in SUBSET Connections
    BY <1>1 DEF StoreInv, StoreTypes, Disable!Callers
  <1>4. StoreTypes'
    BY <1>1, <1>2, <1>3 DEF StoreInv, StoreTypes, Disable!Callers
  <1>5. ColdIsFresh' /\ Followed'
    BY <1>1, <1>2, <1>3
       DEF StoreInv, ColdIsFresh, Followed, Disable!Callers, Disable!ConstantsOK
  <1>6. QED
    BY <1>2, <1>4, <1>5 DEF StoreInv

\* So does a restart.
LEMMA RestartKeeps ==
  ASSUME StoreInv, Disable!Restart
  PROVE  StoreInv'
  <1>1. /\ cache' = Cold /\ queue' = <<>> /\ pc' = [c \in Disable!Callers |-> "idle"]
        /\ arg' = [w \in Writers |-> None] /\ data' = [c \in Disable!Callers |-> None]
        /\ promised' = file /\ raced' = FALSE /\ unread' = FALSE /\ file' = file /\ answer' = answer
    BY DEF Disable!Restart
  <1>2. Chain'
    BY <1>1 DEF Chain, Disable!Callers
  <1>3. StoreTypes'
    BY <1>1 DEF StoreInv, StoreTypes, Disable!Steps, Disable!Callers
  <1>4. ColdIsFresh' /\ Followed'
    BY <1>1 DEF ColdIsFresh, Followed, Disable!Callers
  <1>5. QED
    BY <1>2, <1>3, <1>4 DEF StoreInv

-------------------------------------------------------------------------------
\* The initial states satisfy it.
LEMMA InitEstablishes == Disable!Init => StoreInv
  <1> SUFFICES ASSUME Disable!Init PROVE StoreInv
    OBVIOUS
  <1>1. Chain
    BY DEF Disable!Init, Chain, Disable!Callers
  <1>2. StoreTypes
    BY DEF Disable!Init, StoreTypes, Disable!Steps, Disable!Callers
  <1>3. ColdIsFresh /\ Followed
    BY DEF Disable!Init, ColdIsFresh, Followed, Disable!Callers
  <1>4. QED
    BY <1>1, <1>2, <1>3 DEF StoreInv

\* Every step keeps it.
LEMMA StepKeeps ==
  ASSUME Disable!ConstantsOK
  PROVE  StoreInv /\ [Disable!Next]_(Disable!vars) => StoreInv'
  <1> SUFFICES ASSUME StoreInv, [Disable!Next]_(Disable!vars) PROVE StoreInv'
    OBVIOUS
  <1>1. CASE UNCHANGED Disable!vars
    BY <1>1 DEF Disable!vars, StoreInv, StoreTypes, Chain, InFront, ColdIsFresh, Followed
  <1>2. ASSUME NEW c \in Disable!Callers, Disable!Progress(c) PROVE StoreInv'
    BY <1>2, StartLoadKeeps, LoadKeeps, LoadFailsKeeps, EditCachedKeeps, EditLoadedKeeps, RenameKeeps,
       WriteFailsKeeps, ResolveKeeps, AnswerCachedKeeps, AnswerLoadedKeeps DEF Disable!Progress
  <1>3. QED
    BY <1>1, <1>2, EnqueueKeeps, RestartKeeps DEF Disable!Next

\* It holds in every reachable state.
LEMMA StoreAlways == Disable!Spec => []StoreInv
  <1>1. Disable!ConstantsOK
    BY DisableStoreAssumption
  <1>2. Disable!Init => StoreInv
    BY InitEstablishes
  <1>3. StoreInv /\ [Disable!Next]_(Disable!vars) => StoreInv'
    BY <1>1, StepKeeps
  <1>4. QED
    BY <1>2, <1>3, PTL DEF Disable!Spec

\* The file, the cache and the calls keep their types, and the chain holds exactly
\* the jobs under way.
THEOREM StoreTypeCorrect == Disable!Spec => []DisableTypeOK
  <1>1. ASSUME StoreInv PROVE DisableTypeOK
    <2>1. DOMAIN queue = 1..Len(queue)
      BY <1>1 DEF StoreInv, Chain
    <2>2. QED
      BY <1>1, <2>1 DEF StoreInv, StoreTypes, Chain, DisableTypeOK, Disable!TypeOK
  <1>2. QED
    BY <1>1, StoreAlways, PTL

\* Unless a load has come back after the cache had moved on, or its read has failed,
\* the file holds what the sets come to, and the cache that answers isDisabled agrees.
THEOREM OnlyBadLoadsWipe == Disable!Spec => []WipedOnlyByBadLoad
  <1>1. StoreInv => WipedOnlyByBadLoad
    BY DEF StoreInv, Followed, WipedOnlyByBadLoad, Disable!WipedOnlyByBadLoad
  <1>2. QED
    BY <1>1, StoreAlways, PTL

-------------------------------------------------------------------------------
(* Side by side                                                            *)

\* A behaviour of the run is one of each component's own specification, and whatever
\* is fair in it is fair there.
LEMMA PartsMove == MCSpec => FairSpec /\ Disable!FairSpec
  <1>1. MCInit => Init /\ Disable!Init
    BY DEF MCInit
  <1>2. [MCNext]_<<part, vars, disableVars>> => [Next]_vars /\ [Disable!Next]_(Disable!vars)
    BY DEF MCNext, GuardMoves, DisableMoves, disableVars, Disable!vars
  <1>3. QED
    BY <1>1, <1>2, PTL DEF MCSpec, FairSpec, Spec, Disable!FairSpec, Disable!Spec

\* So what is proved of the two holds of the run that TLC checks.
THEOREM SafeSideBySide ==
  MCSpec => /\ []TypeOK /\ []CountersMatchSlots /\ []CapsRespected
            /\ RefusedOnlyWhenFull
            /\ []DisableTypeOK /\ []WipedOnlyByBadLoad
  BY PartsMove, TypeCorrect, CountersCorrect, CapsHold, RefusalsJustified, StoreTypeCorrect,
     OnlyBadLoadsWipe, PTL DEF FairSpec, Disable!FairSpec
===============================================================================
