-------------------------- MODULE IdempotencyProofs --------------------------
(***************************************************************************)
(* The idempotency table is right for any number of requests, keys and     *)
(* isolates, on both stores. The rows carry the proof: whatever the        *)
(* statements of D1 interleave with, a row belongs to the request that     *)
(* acquired it and expires when that request's lease ends                  *)
(* (RowsBelongToOwners), and a request whose lease has not ended still has *)
(* its row (LeaseKept). Stages ties the handlers' positions to both. The   *)
(* last section shows that the table, in either store, implements the      *)
(* contract of an Idempotency-Key step by step: an unexpired or not yet    *)
(* purged row names its owner, and a stored response is the owner's own.   *)
(***************************************************************************)
EXTENDS Idempotency, TLAPS

\* What the position of a handler says about its claim and its answer.
Stages ==
    \A r \in Requests :
       /\ pc[r] \in {"idle", "arrived", "purge", "insert", "select"} => r \notin owned
       /\ pc[r] \in {"running", "complete"} => r \notin published
       /\ pc[r] = "respond" => r \in published
       /\ pc[r] \notin {"done", "dead"} => answer[r] = NoAnswer
       /\ pc[r] \in {"purge", "insert", "select"} => backend = "d1"
       /\ at[r] <= clock

\* A lease that has not ended has its row.
LeaseKept ==
    \A q \in owned : clock < LeaseEnd(q) =>
        records[Key(q)] # None /\ records[Key(q)].claim = q

IInv == TypeOK /\ Stages /\ RowsBelongToOwners /\ LeaseKept

\* Time passing keeps the invariant: it opens no lease that has ended.
LEMMA TickStep ==
  ASSUME IInv, Tick
  PROVE  IInv'
  <1> USE DEF IInv, Tick
  <1>1. TypeOK'
    BY DEF TypeOK
  <1>2. Stages'
    BY DEF Stages, TypeOK
  <1>3. RowsBelongToOwners'
    BY DEF RowsBelongToOwners, RowFits, Key, PrintOf, LeaseEnd
  <1>4. LeaseKept'
    <2>1. \A q \in owned : LeaseEnd(q) \in Nat /\ LeaseEnd(q)' = LeaseEnd(q) /\ Key(q)' = Key(q)
      BY IdempotencyAssumption DEF TypeOK, LeaseEnd, Key
    <2>2. QED
      BY <2>1 DEF LeaseKept, TypeOK
  <1>5. QED
    BY <1>1, <1>2, <1>3, <1>4

\* So does a request that comes in.
LEMMA ArriveStep ==
  ASSUME IInv, NEW r \in Requests, Arrive(r)
  PROVE  IInv'
  <1> USE DEF IInv, Arrive
  <1>0. r \notin owned
    BY DEF Stages
  <1>1. TypeOK'
    BY DEF TypeOK, Steps
  <1>2. Stages'
    BY DEF Stages, TypeOK
  <1>3. \A q \in owned : Key(q)' = Key(q) /\ PrintOf(q)' = PrintOf(q) /\ LeaseEnd(q)' = LeaseEnd(q)
    BY <1>0 DEF Key, PrintOf, LeaseEnd, TypeOK
  <1>4. RowsBelongToOwners'
    BY <1>3 DEF RowsBelongToOwners, RowFits
  <1>5. LeaseKept'
    BY <1>3 DEF LeaseKept
  <1>6. QED
    BY <1>1, <1>2, <1>4, <1>5

\* Taking a row that is free or has expired, at a time not later than the clock.
LEMMA AcquireStep ==
  ASSUME IInv, NEW r \in Requests,
         pc[r] \in {"arrived", "insert"}, at'[r] \in Nat, at'[r] <= clock,
         at' = [at EXCEPT ![r] = at'[r]],
         records' \in [Keys -> Record \cup {None}],
         records'[Key(r)] = [claim |-> r, print |-> PrintOf(r), state |-> "in_progress",
                             response |-> None, expires |-> at'[r] + Retention],
         \A k \in Keys \ {Key(r)} : records'[k] # None => records'[k] = records[k],
         \A k \in Keys : \/ records'[k] = records[k] \/ records[k] = None
                         \/ records[k].expires <= at'[r],
         owned' = owned \cup {r}, pc' = [pc EXCEPT ![r] = "running"],
         UNCHANGED <<backend, clock, ask, exp, answer, published>>
  PROVE  IInv'
  <1> USE DEF IInv
  <1>0. /\ r \notin owned /\ r \notin published /\ ask[r] \in Asks
        /\ Key(r) \in Keys /\ records'[Key(r)] # None
    BY NoneIsNoRecord, IdempotencyAssumption
       DEF Stages, TypeOK, Asks, Key, PrintOf, Fingerprint, Record
  <1>1. TypeOK'
    BY <1>0 DEF TypeOK, Steps
  <1>2. Stages'
    BY <1>0 DEF Stages, TypeOK
  <1>3. /\ \A q \in owned : LeaseEnd(q)' = LeaseEnd(q) /\ LeaseEnd(q) \in Nat
        /\ LeaseEnd(r)' = at'[r] + Retention
        /\ \A q \in Requests : Key(q)' = Key(q) /\ PrintOf(q)' = PrintOf(q)
    BY <1>0, IdempotencyAssumption DEF LeaseEnd, Key, PrintOf, TypeOK
  <1>4. RowsBelongToOwners'
    <2> SUFFICES ASSUME NEW k \in Keys, records'[k] # None
                 PROVE  RowFits(k)'
      BY DEF RowsBelongToOwners
    <2>1. CASE k = Key(r)
      BY <2>1, <1>0, <1>3 DEF RowFits
    <2>2. CASE k # Key(r)
      <3>1. records'[k] = records[k] /\ RowFits(k) /\ records[k].claim \in Requests
        BY <2>2 DEF RowsBelongToOwners, RowFits, TypeOK
      <3>2. QED
        BY <3>1, <1>0, <1>3 DEF RowFits
    <2>3. QED
      BY <2>1, <2>2
  <1>5. LeaseKept'
    <2> SUFFICES ASSUME NEW q \in owned', clock < LeaseEnd(q)'
                 PROVE  records'[Key(q)] # None /\ records'[Key(q)].claim = q
      BY <1>3 DEF LeaseKept, TypeOK
    <2>1. CASE q = r
      BY <2>1, <1>0
    <2>2. CASE q # r
      <3>1. q \in owned /\ clock < LeaseEnd(q) /\ Key(q) \in Keys
        BY <2>2, <1>3 DEF TypeOK, Stages, Asks, Key
      <3>2. records[Key(q)] # None /\ records[Key(q)].claim = q /\ records[Key(q)].expires = LeaseEnd(q)
        BY <3>1 DEF LeaseKept, RowsBelongToOwners, RowFits
      <3>3. at'[r] < LeaseEnd(q)
        BY <3>1, <1>3 DEF TypeOK
      <3>4. records'[Key(q)] = records[Key(q)]
        BY <3>1, <3>2, <3>3, <1>3
      <3>5. QED
        BY <3>2, <3>4
    <2>3. QED
      BY <2>1, <2>2
  <1>6. QED
    BY <1>1, <1>2, <1>4, <1>5

\* Dropping rows that have expired at a time not later than the clock.
LEMMA PurgeKeeps ==
  ASSUME IInv, NEW STATE now, now \in Nat, now <= clock,
         records' = Purged(now), UNCHANGED <<clock, ask, exp, owned, published>>,
         \A q \in owned : at'[q] = at[q]
  PROVE  RowsBelongToOwners' /\ LeaseKept' /\ records' \in [Keys -> Record \cup {None}]
  <1> USE DEF IInv
  <1>1. \A q \in owned : /\ Key(q)' = Key(q) /\ PrintOf(q)' = PrintOf(q)
                          /\ LeaseEnd(q)' = LeaseEnd(q) /\ LeaseEnd(q) \in Nat
    BY IdempotencyAssumption DEF Key, PrintOf, LeaseEnd, TypeOK
  <1>2. \A k \in Keys : records'[k] # None => records'[k] = records[k]
    BY DEF Purged
  <1>3. RowsBelongToOwners'
    BY <1>1, <1>2 DEF RowsBelongToOwners, RowFits
  <1>4. LeaseKept'
    <2> SUFFICES ASSUME NEW q \in owned, clock < LeaseEnd(q)
                 PROVE  records'[Key(q)] # None /\ records'[Key(q)].claim = q
      BY <1>1 DEF LeaseKept
    <2>1. Key(q) \in Keys
      BY DEF TypeOK, Stages, Asks, Key
    <2>2. records[Key(q)] # None /\ records[Key(q)].claim = q /\ records[Key(q)].expires = LeaseEnd(q)
      BY <2>1 DEF LeaseKept, RowsBelongToOwners, RowFits
    <2>3. now < LeaseEnd(q)
      BY <1>1 DEF TypeOK
    <2>4. ~Expired(records[Key(q)], now)
      BY <1>1, <2>2, <2>3 DEF Expired
    <2>5. QED
      BY <2>1, <2>2, <2>4 DEF Purged
  <1>5. records' \in [Keys -> Record \cup {None}]
    BY DEF Purged, TypeOK
  <1>6. QED
    BY <1>3, <1>4, <1>5

\* A row that fits gives an answer of the right type.
LEMMA ExistingIsAnswer ==
  ASSUME IInv, NEW r \in Requests, NEW k \in Keys, records[k] # None
  PROVE  Existing(r, records[k]) \in Answers
  <1>1. records[k] \in Record /\ RowFits(k)
    BY DEF IInv, TypeOK, RowsBelongToOwners
  <1>2. records[k].state # "in_progress" => records[k].response \in Requests
    BY <1>1 DEF RowFits, Record
  <1>3. QED
    BY <1>2 DEF Existing, Refusal, ResultOf, Answers

\* A new claim is a row.
LEMMA NewClaimIsRecord ==
  ASSUME NEW r \in Requests, NEW STATE now, now \in Nat, ask[r] \in Asks
  PROVE  NewClaim(r, now) \in Record
  BY IdempotencyAssumption DEF NewClaim, Record, PrintOf, Fingerprint, Asks

\* The claim on SQLite, in one transaction, keeps the invariant: it takes
\* over a row only when the lease has ended.
LEMMA ClaimTransactionStep ==
  ASSUME IInv, NEW r \in Requests, ClaimTransaction(r)
  PROVE  IInv'
  <1> USE DEF IInv
  <1>0. r \notin owned /\ ask[r] \in Asks /\ Key(r) \in Keys /\ clock \in Nat /\ pc[r] = "arrived"
    BY DEF ClaimTransaction, Stages, TypeOK, Asks, Key
  <1>1. Purged(clock) \in [Keys -> Record \cup {None}]
    BY DEF Purged, TypeOK
  <1>2. \A k \in Keys : \/ Purged(clock)[k] = records[k]
                        \/ Purged(clock)[k] = None /\ records[k].expires <= clock
    BY DEF Purged, Expired
  <1>3. CASE Purged(clock)[Key(r)] = None
    <2>1. records' = [Purged(clock) EXCEPT ![Key(r)] = NewClaim(r, clock)]
      BY <1>3 DEF ClaimTransaction, Acquire
    <2>2. at'[r] = clock /\ at' = [at EXCEPT ![r] = at'[r]]
      BY DEF ClaimTransaction, TypeOK
    <2>3. records' \in [Keys -> Record \cup {None}] /\ records'[Key(r)] = NewClaim(r, clock)
      BY <2>1, <1>0, <1>1, NewClaimIsRecord
    <2>4. /\ \A k \in Keys \ {Key(r)} : records'[k] # None => records'[k] = records[k]
          /\ \A k \in Keys : \/ records'[k] = records[k] \/ records[k] = None
                           \/ records[k].expires <= at'[r]
      BY <2>1, <2>2, <1>1, <1>2, <1>3
    <2>5. at'[r] \in Nat /\ at'[r] <= clock
      BY <2>2, <1>0
    <2>6. records'[Key(r)] = [claim |-> r, print |-> PrintOf(r), state |-> "in_progress",
                              response |-> None, expires |-> at'[r] + Retention]
      BY <2>2, <2>3 DEF NewClaim
    <2>7. /\ owned' = owned \cup {r} /\ pc' = [pc EXCEPT ![r] = "running"]
          /\ UNCHANGED <<backend, clock, ask, exp, answer, published>>
      BY <1>3 DEF ClaimTransaction, Acquire
    <2>8. QED
      BY <2>2, <2>3, <2>4, <2>5, <2>6, <2>7, <1>0, AcquireStep
  <1>4. CASE Purged(clock)[Key(r)] # None
    <2>1. /\ records' = Purged(clock) /\ UNCHANGED <<backend, clock, ask, exp, owned, published>>
          /\ answer' = [answer EXCEPT ![r] = Existing(r, records[Key(r)])]
          /\ pc' = [pc EXCEPT ![r] = "done"] /\ at' = [at EXCEPT ![r] = clock]
          /\ records[Key(r)] # None
      BY <1>0, <1>2, <1>4 DEF ClaimTransaction, Reply
    <2>2. \A q \in owned : at'[q] = at[q]
      BY <2>1, <1>0 DEF TypeOK
    <2>3. clock <= clock
      BY <1>0
    <2>4. RowsBelongToOwners' /\ LeaseKept' /\ records' \in [Keys -> Record \cup {None}]
      BY <1>0, <2>1, <2>2, <2>3, PurgeKeeps
    <2>5. Existing(r, records[Key(r)]) \in Answers
      BY <1>0, <2>1, ExistingIsAnswer
    <2>6. TypeOK'
      BY <2>1, <2>4, <2>5, <1>0 DEF TypeOK, Steps
    <2>7. Stages'
      BY <2>1, <1>0 DEF Stages, TypeOK
    <2>8. QED
      BY <2>4, <2>6, <2>7
  <1>5. QED
    BY <1>3, <1>4

\* Reading the clock keeps it.
LEMMA SampleNowStep ==
  ASSUME IInv, NEW r \in Requests, SampleNow(r)
  PROVE  IInv'
  <1> USE DEF IInv, SampleNow
  <1>0. r \notin owned /\ clock \in Nat
    BY DEF Stages, TypeOK
  <1>1. TypeOK'
    BY <1>0 DEF TypeOK, Steps
  <1>2. Stages'
    BY <1>0 DEF Stages, TypeOK
  <1>3. \A q \in owned : Key(q)' = Key(q) /\ PrintOf(q)' = PrintOf(q) /\ LeaseEnd(q)' = LeaseEnd(q)
    BY <1>0 DEF Key, PrintOf, LeaseEnd, TypeOK
  <1>4. RowsBelongToOwners' /\ LeaseKept'
    BY <1>3 DEF RowsBelongToOwners, RowFits, LeaseKept
  <1>5. QED
    BY <1>1, <1>2, <1>4

\* So does the purge: the rows it drops have expired by now, whenever the
\* clock was read.
LEMMA PurgeStep ==
  ASSUME IInv, NEW r \in Requests, Purge(r)
  PROVE  IInv'
  <1> USE DEF IInv, Purge
  <1>1. at[r] \in Nat /\ at[r] <= clock
    BY DEF Stages, TypeOK
  <1>2. RowsBelongToOwners' /\ LeaseKept' /\ records' \in [Keys -> Record \cup {None}]
    BY <1>1, PurgeKeeps
  <1>3. TypeOK'
    BY <1>2 DEF TypeOK, Steps
  <1>4. Stages'
    BY DEF Stages, TypeOK
  <1>5. QED
    BY <1>2, <1>3, <1>4

\* So does the insert, which leaves a row that is there alone.
LEMMA InsertStep ==
  ASSUME IInv, NEW r \in Requests, Insert(r)
  PROVE  IInv'
  <1> USE DEF IInv
  <1>0. /\ at[r] \in Nat /\ at[r] <= clock /\ pc[r] = "insert" /\ Key(r) \in Keys
        /\ ask[r] \in Asks
    BY DEF Insert, Stages, TypeOK, Key, Asks
  <1>1. CASE records[Key(r)] = None
    <2>1. /\ records' = [records EXCEPT ![Key(r)] = NewClaim(r, at[r])]
          /\ owned' = owned \cup {r} /\ pc' = [pc EXCEPT ![r] = "running"]
          /\ UNCHANGED <<backend, clock, ask, at, exp, answer, published>>
      BY <1>1 DEF Insert, Acquire
    <2>2. at' = [at EXCEPT ![r] = at'[r]] /\ at'[r] = at[r]
      BY <2>1 DEF TypeOK
    <2>3. records \in [Keys -> Record \cup {None}]
      BY DEF TypeOK
    <2>4. records' \in [Keys -> Record \cup {None}] /\ records'[Key(r)] = NewClaim(r, at[r])
      BY <2>1, <2>3, <1>0, NewClaimIsRecord
    <2>5. /\ \A k \in Keys \ {Key(r)} : records'[k] = records[k]
          /\ records[Key(r)] = None
      BY <2>1, <2>3, <1>1
    <2>6. QED
      BY <2>1, <2>2, <2>4, <2>5, <1>0, AcquireStep DEF NewClaim
  <1>2. CASE records[Key(r)] # None
    <2>1. pc' = [pc EXCEPT ![r] = "select"] /\ UNCHANGED <<backend, clock, records, ask, at, exp, answer, owned, published>>
      BY <1>2 DEF Insert
    <2>2. TypeOK'
      BY <1>0, <2>1 DEF TypeOK, Steps
    <2>3. Stages'
      BY <1>0, <2>1 DEF Stages, TypeOK
    <2>4. RowsBelongToOwners' /\ LeaseKept'
      BY <2>1 DEF RowsBelongToOwners, RowFits, LeaseKept, LeaseEnd, Key, PrintOf
    <2>5. QED
      BY <2>2, <2>3, <2>4
  <1>3. QED
    BY <1>1, <1>2

\* A step that leaves the table, the claims and the leases alone.
LEMMA TableUntouched ==
  ASSUME IInv, UNCHANGED <<clock, records, ask, at, owned, published>>,
         \A q \in published : exp'[q] = exp[q]
  PROVE  RowsBelongToOwners' /\ LeaseKept'
  <1>1. \A q \in owned : Key(q)' = Key(q) /\ PrintOf(q)' = PrintOf(q) /\ LeaseEnd(q)' = LeaseEnd(q)
    BY DEF Key, PrintOf, LeaseEnd
  <1>2. QED
    BY <1>1 DEF IInv, RowsBelongToOwners, RowFits, LeaseKept

\* A refusal is an answer.
LEMMA RefusalIsAnswer ==
  ASSUME NEW kind \in {"conflict", "in_progress", "error"}
  PROVE  Refusal(kind) \in Answers
  BY DEF Refusal, Answers

\* Reading the row that was in the way keeps the invariant.
LEMMA SelectStep ==
  ASSUME IInv, NEW r \in Requests, Select(r)
  PROVE  IInv'
  <1> USE DEF IInv
  <1>1. /\ pc[r] = "select" /\ Key(r) \in Keys /\ pc' = [pc EXCEPT ![r] = "done"]
        /\ UNCHANGED <<backend, clock, records, ask, at, exp, owned, published>>
    BY DEF Select, Reply, TypeOK, Key, Asks
  <1>2. \E a \in Answers : answer' = [answer EXCEPT ![r] = a]
    <2>1. CASE records[Key(r)] = None
      <3>1. answer' = [answer EXCEPT ![r] = Refusal("error")]
        BY <2>1 DEF Select, Reply
      <3>2. QED
        BY <3>1, RefusalIsAnswer
    <2>2. CASE records[Key(r)] # None
      <3>1. Existing(r, records[Key(r)]) \in Answers
        BY <1>1, <2>2, ExistingIsAnswer
      <3>2. QED
        BY <2>2, <3>1 DEF Select, Reply
    <2>3. QED
      BY <2>1, <2>2
  <1>3. TypeOK'
    BY <1>1, <1>2 DEF TypeOK, Steps
  <1>4. Stages'
    BY <1>1, <1>2 DEF Stages, TypeOK
  <1>5. QED
    BY <1>1, <1>3, <1>4, TableUntouched

\* So does the end of a run.
LEMMA FinishStep ==
  ASSUME IInv, NEW r \in Requests, Finish(r)
  PROVE  IInv'
  <1> USE DEF IInv, Finish
  <1>1. r \notin published
    BY DEF Stages
  <1>2. TypeOK'
    BY IdempotencyAssumption DEF TypeOK, Steps
  <1>3. Stages'
    BY <1>1 DEF Stages, TypeOK
  <1>4. \A q \in published : exp'[q] = exp[q]
    BY <1>1 DEF TypeOK
  <1>5. QED
    BY <1>2, <1>3, <1>4, TableUntouched

\* So does one that throws.
LEMMA ThrowStep ==
  ASSUME IInv, NEW r \in Requests, Throw(r)
  PROVE  IInv'
  <1> USE DEF IInv, Throw, Reply
  <1>1. TypeOK'
    BY DEF TypeOK, Steps, Refusal, Answers
  <1>2. Stages'
    BY DEF Stages, TypeOK
  <1>3. QED
    BY <1>1, <1>2, TableUntouched

\* The row that is completed is the claim of the request that completes it.
LEMMA CompleteStep ==
  ASSUME IInv, NEW r \in Requests, Complete(r)
  PROVE  IInv'
  <1> USE DEF IInv
  <1>0. pc[r] = "complete" /\ Key(r) \in Keys /\ r \notin published
    BY DEF Complete, Stages, TypeOK, Key, Asks
  <1>1. CASE OwnOpenRow(r)
    <2>1. /\ records' = [records EXCEPT ![Key(r)] =
                            [@ EXCEPT !.state = "completed", !.response = r, !.expires = exp[r]]]
          /\ published' = published \cup {r} /\ pc' = [pc EXCEPT ![r] = "respond"]
          /\ UNCHANGED <<backend, clock, ask, at, exp, answer, owned>>
      BY <1>1 DEF Complete
    <2>2. /\ records[Key(r)] \in Record /\ records[Key(r)].claim = r
          /\ records[Key(r)].print = PrintOf(r) /\ r \in owned
      BY <1>0, <1>1 DEF OwnOpenRow, TypeOK, RowsBelongToOwners, RowFits
    <2>3. /\ records'[Key(r)] \in Record /\ records'[Key(r)] # None
          /\ records'[Key(r)].claim = r /\ records'[Key(r)].print = PrintOf(r)
          /\ records'[Key(r)].state = "completed" /\ records'[Key(r)].response = r
          /\ records'[Key(r)].expires = exp[r]
      <3>1. records'[Key(r)] = [records[Key(r)] EXCEPT !.state = "completed", !.response = r,
                                                       !.expires = exp[r]]
        BY <1>0, <2>1 DEF TypeOK
      <3>2. exp[r] \in Nat
        BY DEF TypeOK
      <3>3. records'[Key(r)] \in Record
        BY <2>2, <3>1, <3>2 DEF Record
      <3>4. QED
        BY <2>2, <3>1, <3>3, NoneIsNoRecord DEF Record
    <2>4. \A k \in Keys \ {Key(r)} : records'[k] = records[k]
      BY <1>0, <2>1 DEF TypeOK
    <2>5. /\ \A q \in owned : Key(q)' = Key(q) /\ PrintOf(q)' = PrintOf(q)
          /\ \A q \in owned \ {r} : LeaseEnd(q)' = LeaseEnd(q)
          /\ LeaseEnd(r)' = exp[r]
      BY <2>1 DEF Key, PrintOf, LeaseEnd
    <2>6. TypeOK'
      <3>1. records' \in [Keys -> Record \cup {None}]
        BY <2>1, <2>3, <1>0 DEF TypeOK
      <3>2. published' \subseteq owned' /\ owned' \subseteq Requests
        BY <2>1, <2>2 DEF TypeOK
      <3>3. pc' \in [Requests -> Steps] /\ \A q \in Requests : pc'[q] # "idle" => ask'[q] \in Asks
        BY <1>0, <2>1 DEF TypeOK, Steps
      <3>4. UNCHANGED <<backend, clock, ask, at, exp, answer>>
        BY <2>1
      <3>5. QED
        BY <3>1, <3>2, <3>3, <3>4 DEF TypeOK
    <2>7. Stages'
      BY <2>1, <1>0 DEF Stages, TypeOK
    <2>8. RowsBelongToOwners'
      <3> SUFFICES ASSUME NEW k \in Keys, records'[k] # None
                   PROVE  RowFits(k)'
        BY DEF RowsBelongToOwners
      <3>1. CASE k = Key(r)
        BY <3>1, <2>1, <2>2, <2>3, <2>5 DEF RowFits
      <3>2. CASE k # Key(r)
        <4>1. records'[k] = records[k] /\ RowFits(k) /\ records[k].claim # r
          BY <3>2, <2>4 DEF RowsBelongToOwners, RowFits
        <4>2. QED
          BY <4>1, <2>1, <2>5 DEF RowFits
      <3>3. QED
        BY <3>1, <3>2
    <2>9. LeaseKept'
      <3> SUFFICES ASSUME NEW q \in owned, clock < LeaseEnd(q)'
                   PROVE  records'[Key(q)] # None /\ records'[Key(q)].claim = q
        BY <2>1, <2>5 DEF LeaseKept
      <3>1. CASE q = r
        BY <3>1, <2>3
      <3>2. CASE q # r
        <4>1. clock < LeaseEnd(q) /\ Key(q) \in Keys
          BY <3>2, <2>5 DEF TypeOK, Stages, Key, Asks
        <4>2. records[Key(q)] # None /\ records[Key(q)].claim = q
          BY <4>1 DEF LeaseKept
        <4>3. records'[Key(q)] = records[Key(q)]
          BY <4>1, <4>2, <3>2, <2>2, <2>4
        <4>4. QED
          BY <4>2, <4>3
      <3>3. QED
        BY <3>1, <3>2
    <2>10. QED
      BY <2>6, <2>7, <2>8, <2>9
  <1>2. CASE ~OwnOpenRow(r)
    <2>1. /\ answer' = [answer EXCEPT ![r] = Refusal("error")] /\ pc' = [pc EXCEPT ![r] = "done"]
          /\ UNCHANGED <<backend, clock, records, ask, at, exp, owned, published>>
      BY <1>2 DEF Complete, Reply
    <2>2. TypeOK'
      BY <1>0, <2>1, RefusalIsAnswer DEF TypeOK, Steps
    <2>3. Stages'
      BY <2>1 DEF Stages, TypeOK
    <2>4. QED
      BY <2>1, <2>2, <2>3, TableUntouched
  <1>3. QED
    BY <1>1, <1>2

\* So does the answer.
LEMMA RespondStep ==
  ASSUME IInv, NEW r \in Requests, Respond(r)
  PROVE  IInv'
  <1> USE DEF IInv, Respond, Reply
  <1>1. TypeOK'
    BY DEF TypeOK, Steps, ResultOf, Answers
  <1>2. Stages'
    BY DEF Stages, TypeOK
  <1>3. QED
    BY <1>1, <1>2, TableUntouched

\* So does a process that goes away.
LEMMA DieStep ==
  ASSUME IInv, NEW r \in Requests, Die(r)
  PROVE  IInv'
  <1> USE DEF IInv, Die
  <1>1. TypeOK'
    BY DEF TypeOK, Steps
  <1>2. Stages'
    BY DEF Stages, TypeOK
  <1>3. QED
    BY <1>1, <1>2, TableUntouched

\* The initial states satisfy the invariant.
LEMMA InitIInv == Init => IInv
  <1> SUFFICES ASSUME Init
               PROVE  IInv
    OBVIOUS
  <1>1. TypeOK
    BY DEF Init, TypeOK, Steps, Answers, NoAnswer
  <1>2. Stages
    <2> SUFFICES ASSUME NEW r \in Requests
                 PROVE  /\ r \notin owned /\ r \notin published
                        /\ pc[r] = "idle" /\ answer[r] = NoAnswer /\ at[r] <= clock
      BY DEF Stages
    <2>1. QED
      BY DEF Init
  <1>3. RowsBelongToOwners /\ LeaseKept
    BY DEF Init, RowsBelongToOwners, LeaseKept
  <1>4. QED
    BY <1>1, <1>2, <1>3 DEF IInv

\* Every step keeps it.
LEMMA NextIInv == IInv /\ [Next]_vars => IInv'
  <1> SUFFICES ASSUME IInv, [Next]_vars
               PROVE  IInv'
    OBVIOUS
  <1>1. CASE Tick
    BY <1>1, TickStep
  <1>2. ASSUME NEW r \in Requests, Handle(r)
        PROVE  IInv'
    BY <1>2, ArriveStep, ClaimTransactionStep, SampleNowStep, PurgeStep, InsertStep, SelectStep,
       FinishStep, ThrowStep, CompleteStep, RespondStep, DieStep DEF Handle
  <1>3. CASE UNCHANGED vars
    BY <1>3 DEF IInv, TypeOK, Stages, RowsBelongToOwners, RowFits, LeaseKept, LeaseEnd, Key,
                PrintOf, vars
  <1>4. QED
    BY <1>1, <1>2, <1>3 DEF Next

\* The strengthened invariant holds in every reachable state.
THEOREM Invariant == Spec => []IInv
  BY InitIInv, NextIInv, PTL DEF Spec

\* The table, the handlers and the answers keep their types.
THEOREM TypeCorrect == Spec => []TypeOK
  BY Invariant, PTL DEF IInv

\* Every row of the table is what the request that acquired the key put there,
\* with that request's lease and, once completed, its own response: claim and
\* complete of both stores.
THEOREM RowsCorrect == Spec => []RowsBelongToOwners
  BY Invariant, PTL DEF IInv

\* A key is only taken from an owner whose lease has ended.
LEMMA TakenAfterLease ==
  ASSUME IInv, Next, NEW q \in owned, NEW r \in owned' \ owned, Key(q) = Key(r)
  PROVE  clock >= LeaseEnd(q)
  <1> USE DEF IInv
  <1>1. Key(q) \in Keys /\ clock \in Nat /\ LeaseEnd(q) \in Nat
    BY IdempotencyAssumption DEF TypeOK, Stages, Key, Asks, LeaseEnd
  <1>2. records[Key(q)] = None \/ records[Key(q)].expires <= clock
    <2>1. ASSUME NEW s \in Requests, ClaimTransaction(s), owned' # owned
          PROVE  s = r /\ Purged(clock)[Key(r)] = None
      BY <2>1 DEF ClaimTransaction, Acquire
    <2>2. ASSUME NEW s \in Requests, Insert(s), owned' # owned
          PROVE  s = r /\ records[Key(r)] = None
      BY <2>2 DEF Insert, Acquire
    <2>3. PICK s \in Requests : ClaimTransaction(s) \/ Insert(s)
      BY DEF Next, Tick, Handle, Arrive, SampleNow, Purge, Select, Finish, Throw, Complete, Respond, Die
    <2>4. Purged(clock)[Key(r)] = None \/ records[Key(r)] = None
      BY <2>1, <2>2, <2>3
    <2>5. QED
      BY <1>1, <2>4 DEF Purged, Expired
  <1>3. CASE clock < LeaseEnd(q)
    <2>1. records[Key(q)] # None /\ records[Key(q)].expires = LeaseEnd(q)
      BY <1>1, <1>3 DEF LeaseKept, RowsBelongToOwners, RowFits
    <2>2. QED
      BY <1>1, <1>2, <1>3, <2>1
  <1>4. QED
    BY <1>1, <1>3

\* While a claim or its response is alive no other request is dispatched under
\* the same key, on SQLite and across the isolates of D1, whatever crashed.
THEOREM LeaseCorrect == Spec => LeaseHonoured
  <1>1. IInv /\ [Next]_vars =>
          [\A q \in owned, r \in owned' \ owned : Key(q) = Key(r) => clock >= LeaseEnd(q)]_vars
    BY TakenAfterLease
  <1>2. QED
    BY <1>1, Invariant, PTL DEF Spec, LeaseHonoured

Answered(r) == answer[r].kind \in {"conflict", "in_progress", "result"}

\* What a step leaves alone: nothing is taken back, and a request that owns its
\* key or has been answered keeps its question and its times.
Kept ==
    /\ owned \subseteq owned' /\ published \subseteq published' /\ UNCHANGED backend
    /\ \A q \in Requests : q \in owned \/ pc[q] \in {"done", "dead"} =>
          /\ UNCHANGED <<Key(q), PrintOf(q)>> /\ at'[q] = at[q]
          /\ exp'[q] = exp[q] \/ exp'[q] > clock

\* Every step is of that kind.
LEMMA StepKeeps ==
  ASSUME IInv, Next
  PROVE  Kept
  <1> USE DEF IInv, Kept
  <1>1. CASE Tick
    BY <1>1 DEF Tick, Key, PrintOf
  <1>2. ASSUME NEW r \in Requests, Handle(r)
        PROVE  Kept
    <2>1. CASE Arrive(r)
      BY <2>1 DEF Arrive, Stages, TypeOK, Key, PrintOf
    <2>2. CASE ClaimTransaction(r)
      BY <2>2 DEF ClaimTransaction, Acquire, Stages, TypeOK, Key, PrintOf
    <2>3. CASE SampleNow(r)
      BY <2>3 DEF SampleNow, Stages, TypeOK, Key, PrintOf
    <2>4. CASE Finish(r)
      <3>1. exp'[r] > clock
        BY <2>4, IdempotencyAssumption DEF Finish, TypeOK
      <3>2. QED
        BY <2>4, <3>1 DEF Finish, TypeOK, Key, PrintOf
    <2>5. CASE Purge(r) \/ Insert(r) \/ Select(r) \/ Throw(r) \/ Complete(r) \/ Respond(r) \/ Die(r)
      BY <2>5 DEF Purge, Insert, Acquire, Select, Throw, Complete, Respond, Die, Key, PrintOf
    <2>6. QED
      BY <1>2, <2>1, <2>2, <2>3, <2>4, <2>5 DEF Handle
  <1>3. QED
    BY <1>1, <1>2 DEF Next

\* An answer that had its cause still has it.
LEMMA CauseLasts ==
  ASSUME IInv, Kept, exp' \in [Requests -> Nat],
         NEW r \in Requests, answer'[r] = answer[r], Answered(r), Caused(r)
  PROVE  Caused(r)'
  <1>1. pc[r] \in {"done", "dead"} /\ at[r] \in Nat /\ at[r] <= clock /\ clock \in Nat
    BY DEF IInv, Stages, TypeOK, Answered, NoAnswer
  <1>2. PICK q \in owned :
          /\ Key(q) = Key(r)
          /\ (answer[r].kind = "conflict") # (PrintOf(q) = PrintOf(r))
          /\ answer[r].kind = "result" => q = answer[r].of /\ q \in published
          /\ answer[r].kind # "result" => q # r
          /\ (backend = "sqlite" /\ q # r) => (at[r] < at[q] + Retention \/ at[r] < exp[q])
    BY DEF Caused
  <1>3. q \in Requests
    BY DEF IInv, TypeOK
  <1>4. /\ UNCHANGED <<Key(q), PrintOf(q), Key(r), PrintOf(r)>> /\ at'[q] = at[q] /\ at'[r] = at[r]
        /\ exp'[q] = exp[q] \/ exp'[q] > clock
    BY <1>1, <1>3 DEF Kept
  <1>5. at[r] < exp[q] => at[r] < exp'[q]
    <2>1. CASE exp'[q] = exp[q]
      BY <2>1
    <2>2. CASE exp'[q] > clock
      <3>1. exp'[q] \in Nat
        BY <1>3
      <3>2. QED
        BY <1>1, <2>2, <3>1
    <2>3. QED
      BY <1>4, <2>1, <2>2
  <1>6. q \in owned' /\ (q \in published => q \in published') /\ backend' = backend
    BY DEF Kept
  <1>7. QED
    BY <1>2, <1>4, <1>5, <1>6 DEF Caused

\* The request a row belongs to is the cause of what the row answers.
LEMMA RowIsCause ==
  ASSUME IInv, NEW r \in Requests, r \notin owned, Key(r) \in Keys, records[Key(r)] # None,
         NEW q, q = records[Key(r)].claim
  PROVE  /\ q \in owned /\ q # r /\ q \in Requests
         /\ Key(q) = Key(r) /\ records[Key(r)].expires = LeaseEnd(q)
         /\ LET a == Existing(r, records[Key(r)])
            IN  /\ (a.kind = "conflict") # (PrintOf(q) = PrintOf(r))
                /\ a.kind = "result" => q = a.of /\ q \in published
  <1> DEFINE rec == records[Key(r)]
  <1>1. RowFits(Key(r)) /\ rec \in Record
    BY DEF IInv, RowsBelongToOwners, TypeOK
  <1>2. /\ q \in owned /\ q # r /\ q \in Requests /\ Key(q) = Key(r)
        /\ rec.expires = LeaseEnd(q) /\ rec.print = PrintOf(q)
        /\ rec.state = "completed" => rec.response = q /\ q \in published
    BY <1>1 DEF RowFits, IInv, TypeOK
  <1>3. rec.state \in {"in_progress", "completed"}
    BY <1>1 DEF Record
  <1>4. CASE rec.print # PrintOf(r)
    BY <1>2, <1>4 DEF Existing, Refusal
  <1>5. CASE rec.print = PrintOf(r) /\ rec.state = "in_progress"
    BY <1>2, <1>5 DEF Existing, Refusal
  <1>6. CASE rec.print = PrintOf(r) /\ rec.state = "completed"
    BY <1>2, <1>6 DEF Existing, ResultOf
  <1>7. QED
    BY <1>2, <1>3, <1>4, <1>5, <1>6

\* An answer that is given now has its cause.
LEMMA NewAnswerCaused ==
  ASSUME IInv, Next, NEW r \in Requests, answer'[r] # answer[r], Answered(r)'
  PROVE  Caused(r)'
  <1> USE DEF IInv
  <1>1. PICK s \in Requests : \/ ClaimTransaction(s) \/ Select(s) \/ Throw(s)
                              \/ Complete(s) \/ Respond(s)
    BY DEF Next, Tick, Handle, Arrive, SampleNow, Purge, Insert, Acquire, Finish, Die
  <1>2. CASE ClaimTransaction(s)
    <2>1. /\ s = r /\ backend = "sqlite" /\ pc[r] = "arrived" /\ Purged(clock)[Key(r)] # None
          /\ answer'[r] = Existing(r, Purged(clock)[Key(r)])
          /\ at' = [at EXCEPT ![r] = clock]
          /\ UNCHANGED <<backend, clock, ask, exp, owned, published>>
      BY <1>2 DEF ClaimTransaction, Acquire, Reply, TypeOK
    <2>2. r \notin owned /\ Key(r) \in Keys
      BY <2>1 DEF Stages, TypeOK, Key, Asks
    <2>3. /\ records[Key(r)] # None /\ Purged(clock)[Key(r)] = records[Key(r)]
          /\ ~(records[Key(r)].expires <= clock)
      BY <2>1, <2>2 DEF Purged, Expired
    <2>4. PICK q : q = records[Key(r)].claim
      OBVIOUS
    <2>5. /\ q \in owned /\ q # r /\ q \in Requests
          /\ Key(q) = Key(r) /\ records[Key(r)].expires = LeaseEnd(q)
          /\ (answer'[r].kind = "conflict") # (PrintOf(q) = PrintOf(r))
          /\ answer'[r].kind = "result" => q = answer'[r].of /\ q \in published
      BY <2>1, <2>2, <2>3, <2>4, RowIsCause
    <2>6. /\ Key(q)' = Key(q) /\ Key(r)' = Key(r)
          /\ PrintOf(q)' = PrintOf(q) /\ PrintOf(r)' = PrintOf(r)
      BY <2>1 DEF Key, PrintOf
    <2>7. at'[r] < at'[q] + Retention \/ at'[r] < exp'[q]
      <3>1. at'[r] = clock /\ at'[q] = at[q] /\ exp'[q] = exp[q]
        BY <2>1, <2>5 DEF TypeOK
      <3>2. clock < LeaseEnd(q)
        <4>1. LeaseEnd(q) \in Nat /\ clock \in Nat
          BY <2>5, IdempotencyAssumption DEF LeaseEnd, TypeOK
        <4>2. QED
          BY <2>3, <2>5, <4>1
      <3>3. QED
        BY <3>1, <3>2 DEF LeaseEnd
    <2>8. QED
      BY <2>1, <2>5, <2>6, <2>7 DEF Caused
  <1>3. CASE Select(s)
    <2>1. /\ s = r /\ pc[r] = "select" /\ records[Key(r)] # None
          /\ answer'[r] = Existing(r, records[Key(r)])
          /\ UNCHANGED <<backend, clock, ask, at, exp, owned, published>>
      BY <1>3 DEF Select, Reply, Refusal, TypeOK, Answered
    <2>2. r \notin owned /\ Key(r) \in Keys /\ backend = "d1"
      BY <2>1 DEF Stages, TypeOK, Key, Asks
    <2>3. QED
      BY <2>1, <2>2, RowIsCause DEF Caused, Key, PrintOf
  <1>4. CASE Throw(s) \/ Complete(s)
    BY <1>4 DEF Throw, Complete, Reply, Refusal, TypeOK, Answered
  <1>5. CASE Respond(s)
    <2>1. /\ s = r /\ r \in published /\ r \in owned /\ answer'[r] = ResultOf(r)
          /\ UNCHANGED <<backend, clock, ask, at, exp, owned, published>>
      BY <1>5 DEF Respond, Reply, Stages, TypeOK
    <2>2. QED
      BY <2>1 DEF Caused, Key, PrintOf, ResultOf
  <1>6. QED
    BY <1>1, <1>2, <1>3, <1>4, <1>5

\* A replayed result was published under the same key and fingerprint, a refusal
\* is due to another owner of the key, and on SQLite to one whose lease had not
\* ended: claim, getExistingIdempotencyClaim and the handler around them.
THEOREM AnswersCorrect == Spec => []AnswersHaveCause
  <1>1. Init => AnswersHaveCause
    BY DEF Init, AnswersHaveCause, NoAnswer
  <1>2. ASSUME IInv, IInv', Next, AnswersHaveCause
        PROVE  AnswersHaveCause'
    <2> SUFFICES ASSUME NEW r \in Requests, Answered(r)'
                 PROVE  Caused(r)'
      BY DEF AnswersHaveCause, Answered
    <2>1. exp' \in [Requests -> Nat]
      BY <1>2 DEF IInv, TypeOK
    <2>2. CASE answer'[r] = answer[r]
      <3>1. Answered(r) /\ Caused(r)
        BY <1>2, <2>2 DEF AnswersHaveCause, Answered
      <3>2. QED
        BY <1>2, <2>1, <2>2, <3>1, StepKeeps, CauseLasts
    <2>3. CASE answer'[r] # answer[r]
      BY <1>2, <2>3, NewAnswerCaused
    <2>4. QED
      BY <2>2, <2>3
  <1>3. IInv /\ IInv' /\ AnswersHaveCause /\ [Next]_vars => AnswersHaveCause'
    <2>1. CASE UNCHANGED vars
      BY <2>1 DEF AnswersHaveCause, Caused, Key, PrintOf, vars
    <2>2. QED
      BY <1>2, <2>1
  <1>4. QED
    BY <1>1, <1>3, Invariant, PTL DEF Spec

-------------------------------------------------------------------------------
(* The contract                                                            *)

\* Steps that change neither the table nor what the contract sees of a handler.
LEMMA QuietStep ==
  ASSUME IInv, UNCHANGED <<records, ask, owned, published>>, got' = got,
         \A s \in Requests : (pc'[s] = "idle") = (pc[s] = "idle")
  PROVE  UNCHANGED Contract!vars
  <1>1. keyOf' = keyOf
    BY DEF keyOf, Key
  <1>2. owner' = owner
    BY DEF owner
  <1>3. QED
    BY <1>1, <1>2 DEF Contract!vars

\* A request that comes in asks.
LEMMA ArriveImplements ==
  ASSUME IInv, NEW r \in Requests, Arrive(r)
  PROVE  Contract!Ask(r)
  <1> USE DEF IInv, Arrive
  <1>1. PICK a \in Asks : ask' = [ask EXCEPT ![r] = a]
    OBVIOUS
  <1>2. keyOf[r] = None
    BY DEF keyOf
  <1>3. a.key \in Keys
    BY DEF Asks
  <1>4. keyOf' = [keyOf EXCEPT ![r] = a.key]
    BY <1>1 DEF keyOf, Key, TypeOK
  <1>5. owner' = owner /\ got' = got
    BY DEF owner, got
  <1>6. QED
    BY <1>2, <1>3, <1>4, <1>5 DEF Contract!Ask

\* The keys whose rows have expired are the ones forgotten.
LEMMA PurgeForgets ==
  ASSUME NEW STATE now, NEW STATE F, F = {k \in Keys : Expired(records[k], now)}
  PROVE  Contract!Forgotten(F) =
           [k \in Keys |-> IF Purged(now)[k] = None THEN None ELSE Purged(now)[k].claim]
  <1>1. \A k \in Keys : k \in F => Purged(now)[k] = None
    BY DEF Purged
  <1>2. \A k \in Keys : k \notin F => Purged(now)[k] = records[k]
    BY DEF Purged
  <1>3. QED
    BY <1>1, <1>2 DEF Contract!Forgotten, owner

\* Taking a free key of the table is the contract's Claim.
LEMMA AcquireImplements ==
  ASSUME IInv, NEW r \in Requests, pc[r] \in {"arrived", "insert"},
         NEW STATE table, NEW STATE now, now \in Nat, table \in [Keys -> Record \cup {None}],
         table[Key(r)] = None, Acquire(r, table, now), UNCHANGED <<ask, published>>,
         NEW STATE F, F \in SUBSET Keys,
         Contract!Forgotten(F) = [k \in Keys |-> IF table[k] = None THEN None ELSE table[k].claim]
  PROVE  Contract!Claim(r)
  <1>1. /\ keyOf[r] = Key(r) /\ Key(r) \in Keys /\ r \notin owned /\ r # None
        /\ Key(r) # None /\ ask[r] \in Asks
    BY IdempotencyAssumption DEF IInv, TypeOK, Stages, keyOf, Key, Asks
  <1>2. Contract!Forgotten(F)[keyOf[r]] = None
    BY <1>1
  <1>3. owner' = [Contract!Forgotten(F) EXCEPT ![keyOf[r]] = r]
    <2>1. records' = [table EXCEPT ![Key(r)] = NewClaim(r, now)]
      BY DEF Acquire
    <2>2. NewClaim(r, now).claim = r
      BY DEF NewClaim
    <2>3. NewClaim(r, now) # None
      BY <1>1, NewClaimIsRecord, NoneIsNoRecord
    <2>4. QED
      BY <1>1, <2>1, <2>2, <2>3 DEF owner
  <1>4. owned' = owned \cup {r} /\ got' = got
    BY DEF Acquire, got
  <1>5. keyOf' = keyOf
    BY DEF Acquire, keyOf, Key, IInv, TypeOK
  <1>6. QED
    BY <1>1, <1>2, <1>3, <1>4, <1>5 DEF Contract!Claim

\* What a row replays is the published result of the owner it names.
LEMMA ExistingReplays ==
  ASSUME IInv, NEW r \in Requests, Key(r) \in Keys, records[Key(r)] # None
  PROVE  LET a == Existing(r, records[Key(r)])
         IN  a.of = None \/ (a.of = records[Key(r)].claim /\ a.of \in published)
  <1>1. RowFits(Key(r)) /\ records[Key(r)] \in Record
    BY DEF IInv, RowsBelongToOwners, TypeOK
  <1>2. QED
    BY <1>1 DEF RowFits, Record, Existing, Refusal, ResultOf

\* Answering from a row is the contract's Replay, or at most its Forget.
LEMMA ReplayImplements ==
  ASSUME IInv, NEW r \in Requests, pc[r] \in {"arrived", "select"},
         records[Key(r)] # None, records'[Key(r)] = records[Key(r)],
         answer' = [answer EXCEPT ![r] = Existing(r, records[Key(r)])],
         pc' = [pc EXCEPT ![r] = "done"], UNCHANGED <<ask, owned, published>>,
         NEW STATE F, F \in SUBSET Keys, owner' = Contract!Forgotten(F)
  PROVE  Contract!Forget \/ Contract!Replay(r)
  <1>1. /\ keyOf[r] = Key(r) /\ Key(r) \in Keys /\ r \notin owned
        /\ Key(r) # None /\ got[r] = None
    BY IdempotencyAssumption
       DEF IInv, TypeOK, Stages, keyOf, Key, Asks, got, NoAnswer
  <1>2. keyOf' = keyOf
    BY DEF keyOf, Key, IInv, TypeOK
  <1>3. got' = [got EXCEPT ![r] = Existing(r, records[Key(r)]).of]
    BY DEF got, IInv, TypeOK
  <1>4. CASE Existing(r, records[Key(r)]).of = None
    BY <1>1, <1>2, <1>3, <1>4 DEF Contract!Forget, got
  <1>5. CASE Existing(r, records[Key(r)]).of # None
    <2>1. Existing(r, records[Key(r)]).of = owner'[Key(r)] /\ owner'[Key(r)] \in published
      <3>1. owner'[Key(r)] = records[Key(r)].claim
        BY <1>1 DEF owner
      <3>2. QED
        BY <1>1, <1>5, <3>1, ExistingReplays
    <2>2. QED
      BY <1>1, <1>2, <1>3, <2>1 DEF Contract!Replay
  <1>6. QED
    BY <1>4, <1>5

\* The transaction of SQLite claims the key, or answers from its row, and forgets
\* the keys whose rows have expired.
LEMMA ClaimTransactionImplements ==
  ASSUME IInv, NEW r \in Requests, ClaimTransaction(r)
  PROVE  Contract!Claim(r) \/ Contract!Forget \/ Contract!Replay(r)
  <1> DEFINE F == {k \in Keys : Expired(records[k], clock)}
  <1>1. /\ pc[r] = "arrived" /\ Key(r) \in Keys /\ clock \in Nat
        /\ UNCHANGED <<ask, published>>
    BY DEF ClaimTransaction, IInv, TypeOK, Asks, Key
  <1>2. Contract!Forgotten(F) =
          [k \in Keys |-> IF Purged(clock)[k] = None THEN None ELSE Purged(clock)[k].claim]
    BY PurgeForgets
  <1>3. CASE Purged(clock)[Key(r)] = None
    <2>1. Acquire(r, Purged(clock), clock)
      BY <1>3 DEF ClaimTransaction
    <2>2. Purged(clock) \in [Keys -> Record \cup {None}]
      BY DEF Purged, IInv, TypeOK
    <2>3. QED
      BY <1>1, <1>2, <1>3, <2>1, <2>2, AcquireImplements
  <1>4. CASE Purged(clock)[Key(r)] # None
    <2>1. /\ records' = Purged(clock) /\ UNCHANGED owned
          /\ Purged(clock)[Key(r)] = records[Key(r)]
          /\ answer' = [answer EXCEPT ![r] = Existing(r, records[Key(r)])]
          /\ pc' = [pc EXCEPT ![r] = "done"]
      BY <1>1, <1>4 DEF ClaimTransaction, Reply, Purged
    <2>2. owner' = Contract!Forgotten(F)
      BY <1>2, <2>1 DEF owner
    <2>3. QED
      BY <1>1, <1>4, <2>1, <2>2, ReplayImplements
  <1>5. QED
    BY <1>3, <1>4

\* The purge of D1 forgets the keys whose rows have expired.
LEMMA PurgeImplements ==
  ASSUME IInv, NEW r \in Requests, Purge(r)
  PROVE  Contract!Forget
  <1> DEFINE F == {k \in Keys : Expired(records[k], at[r])}
  <1>1. Contract!Forgotten(F) =
          [k \in Keys |-> IF Purged(at[r])[k] = None THEN None ELSE Purged(at[r])[k].claim]
    BY PurgeForgets
  <1>2. owner' = Contract!Forgotten(F)
    BY <1>1 DEF Purge, owner
  <1>3. keyOf' = keyOf /\ got' = got
    BY DEF Purge, keyOf, Key, got, IInv, TypeOK
  <1>4. QED
    BY <1>2, <1>3 DEF Contract!Forget, Purge

\* Forgetting no key leaves every owner.
LEMMA ForgetNothing ==
  Contract!Forgotten({}) = [k \in Keys |-> IF records[k] = None THEN None ELSE records[k].claim]
  BY DEF Contract!Forgotten, owner

\* The insert of D1 claims, or does nothing.
LEMMA InsertImplements ==
  ASSUME IInv, NEW r \in Requests, Insert(r)
  PROVE  Contract!Claim(r) \/ UNCHANGED Contract!vars
  <1>1. pc[r] = "insert" /\ at[r] \in Nat /\ UNCHANGED <<ask, published>>
    BY DEF Insert, IInv, TypeOK
  <1>2. CASE records[Key(r)] = None
    <2>1. Acquire(r, records, at[r])
      BY <1>2 DEF Insert
    <2>2. records \in [Keys -> Record \cup {None}]
      BY DEF IInv, TypeOK
    <2>3. QED
      BY <1>1, <1>2, <2>1, <2>2, ForgetNothing, AcquireImplements
  <1>3. CASE records[Key(r)] # None
    <2>1. /\ pc' = [pc EXCEPT ![r] = "select"] /\ got' = got
          /\ UNCHANGED <<records, ask, owned, published>>
      BY <1>3 DEF Insert, got
    <2>2. QED
      BY <1>1, <2>1, QuietStep DEF IInv, TypeOK
  <1>4. QED
    BY <1>2, <1>3

\* Reading the row answers from it.
LEMMA SelectImplements ==
  ASSUME IInv, NEW r \in Requests, Select(r)
  PROVE  Contract!Forget \/ Contract!Replay(r) \/ UNCHANGED Contract!vars
  <1>1. pc[r] = "select" /\ UNCHANGED <<records, ask, owned, published>>
        /\ pc' = [pc EXCEPT ![r] = "done"]
    BY DEF Select, Reply
  <1>2. CASE records[Key(r)] = None
    <2>1. got' = got
      BY <1>1, <1>2 DEF Select, Reply, Refusal, got, IInv, TypeOK, Stages, NoAnswer
    <2>2. QED
      BY <1>1, <2>1, QuietStep DEF IInv, TypeOK
  <1>3. CASE records[Key(r)] # None
    <2>1. answer' = [answer EXCEPT ![r] = Existing(r, records[Key(r)])]
      BY <1>3 DEF Select, Reply
    <2>2. owner' = Contract!Forgotten({})
      BY <1>1, ForgetNothing DEF owner
    <2>3. QED
      BY <1>1, <1>3, <2>1, <2>2, ReplayImplements
  <1>4. QED
    BY <1>2, <1>3

\* A refusal leaves the contract where it was.
LEMMA CompleteImplements ==
  ASSUME IInv, NEW r \in Requests, Complete(r)
  PROVE  Contract!Publish(r) \/ UNCHANGED Contract!vars
  <1>1. pc[r] = "complete" /\ UNCHANGED <<ask, owned>> /\ r \notin published
    BY DEF Complete, IInv, Stages
  <1>2. CASE OwnOpenRow(r)
    <2>1. /\ keyOf[r] = Key(r) /\ Key(r) \in Keys /\ Key(r) # None
          /\ records[Key(r)] # None /\ records[Key(r)] \in Record /\ records[Key(r)].claim = r
      BY <1>1, <1>2, IdempotencyAssumption
         DEF OwnOpenRow, keyOf, Key, IInv, TypeOK, Asks
    <2>2. owner[keyOf[r]] = r
      BY <2>1 DEF owner
    <2>3. owner' = owner
      <3>1. PICK rec : /\ rec = [records[Key(r)] EXCEPT !.state = "completed",
                                                       !.response = r, !.expires = exp[r]]
                       /\ records' = [records EXCEPT ![Key(r)] = rec]
        BY <1>2 DEF Complete
      <3>2. rec.claim = r
        BY <2>1, <3>1 DEF Record
      <3>3. rec \in Record
        BY <2>1, <3>1 DEF Record, IInv, TypeOK
      <3>4. \A k \in Keys \ {Key(r)} : records'[k] = records[k]
        BY <3>1
      <3>5. records'[Key(r)] = rec
        BY <2>1, <3>1 DEF IInv, TypeOK
      <3>6. QED
        BY <2>1, <3>2, <3>3, <3>4, <3>5, NoneIsNoRecord DEF owner
    <2>4. keyOf' = keyOf /\ got' = got /\ published' = published \cup {r}
      BY <1>1, <1>2 DEF Complete, keyOf, Key, got, IInv, TypeOK
    <2>5. QED
      BY <1>1, <2>1, <2>2, <2>3, <2>4 DEF Contract!Publish
  <1>3. CASE ~OwnOpenRow(r)
    <2>1. got' = got /\ UNCHANGED <<records, published>> /\ pc' = [pc EXCEPT ![r] = "done"]
      BY <1>1, <1>3 DEF Complete, Reply, Refusal, got, IInv, TypeOK, Stages, NoAnswer
    <2>2. QED
      BY <1>1, <2>1, QuietStep DEF IInv, TypeOK
  <1>4. QED
    BY <1>2, <1>3

\* The answer of a request that has run delivers its own response.
LEMMA RespondImplements ==
  ASSUME IInv, NEW r \in Requests, Respond(r)
  PROVE  Contract!Deliver(r)
  <1>1. pc[r] = "respond" /\ r \in published /\ got[r] = None
    BY DEF Respond, IInv, Stages, got, NoAnswer
  <1>2. got' = [got EXCEPT ![r] = r]
    BY DEF Respond, Reply, ResultOf, got, IInv, TypeOK
  <1>3. keyOf' = keyOf /\ owner' = owner
    BY <1>1 DEF Respond, Reply, keyOf, Key, owner, IInv, TypeOK
  <1>4. QED
    BY <1>1, <1>2, <1>3 DEF Contract!Deliver, Respond

\* The contract does not see the other steps.
LEMMA QuietImplements ==
  ASSUME IInv, NEW r \in Requests,
         SampleNow(r) \/ Finish(r) \/ Throw(r) \/ Die(r)
  PROVE  UNCHANGED Contract!vars
  <1>1. /\ UNCHANGED <<records, ask, owned, published>>
        /\ \A s \in Requests : (pc'[s] = "idle") = (pc[s] = "idle")
    BY DEF SampleNow, Finish, Throw, Die, Reply, IInv, TypeOK
  <1>2. got' = got
    BY DEF SampleNow, Finish, Throw, Die, Reply, Refusal, got, IInv, TypeOK, Stages, NoAnswer
  <1>3. QED
    BY <1>1, <1>2, QuietStep

\* Initial states are initial states of the contract.
LEMMA InitImplements == Init => Contract!Init
  BY DEF Init, Contract!Init, keyOf, owner, got, NoAnswer

\* Every step is a step of the contract, or it stutters.
LEMMA NextImplements == IInv /\ [Next]_vars => [Contract!Next]_(Contract!vars)
  <1> SUFFICES ASSUME IInv, [Next]_vars
               PROVE  Contract!Next \/ UNCHANGED Contract!vars
    OBVIOUS
  <1>1. CASE Tick \/ UNCHANGED vars
    <2>1. UNCHANGED <<records, ask, owned, published, pc>> /\ got' = got
      BY <1>1 DEF Tick, vars, got
    <2>2. QED
      BY <2>1, QuietStep
  <1>2. ASSUME NEW r \in Requests, Handle(r)
        PROVE  Contract!Next \/ UNCHANGED Contract!vars
    BY <1>2, ArriveImplements, ClaimTransactionImplements, PurgeImplements, InsertImplements,
       SelectImplements, CompleteImplements, RespondImplements, QuietImplements
       DEF Handle, Contract!Next
  <1>3. QED
    BY <1>1, <1>2 DEF Next

\* The table implements the contract of an Idempotency-Key for any number of
\* requests and keys, on both stores: one owner per key at a time, a result
\* published once by its owner, duplicates answered with the current owner's.
THEOREM ContractImplemented == Spec => ImplementsContract
  BY Invariant, InitImplements, NextImplements, PTL DEF Spec, ImplementsContract, Contract!Spec
===============================================================================
