----------------------------- MODULE Idempotency -----------------------------
(***************************************************************************)
(* POST /v1/actions/:actionId with an Idempotency-Key.  A handler claims   *)
(* the key in the idempotency table, runs the action, and completes the    *)
(* claim with the response; a duplicate is answered from the table.  Two   *)
(* stores implement the table: SQLite claims in one transaction, D1 (the   *)
(* Workers build) in three statements between which other isolates run,    *)
(* with a "now" sampled before the first of them.  Handlers may die        *)
(* between any two steps; the table survives.                              *)
(***************************************************************************)
EXTENDS Integers

CONSTANTS
    Requests,    \* HTTP requests, retries of one another when they share a key
    Keys,        \* Idempotency-Key values
    Identities,  \* action id + canonical input + effective connection
    Tokens,      \* runtime token ids
    Retention,   \* createIdempotencyExpiry: lifetime of a claim or a response
    MaxTime,     \* bound on the clock
    Backends,    \* the stores the process may be built with
    None

ASSUME IdempotencyAssumption ==
    /\ Retention \in Nat \ {0}
    /\ MaxTime \in Nat
    /\ Backends \subseteq {"sqlite", "d1"}
    /\ None \notin Requests
    /\ None \notin Keys

VARIABLES
    backend,  \* which store this deployment uses
    clock,
    records,  \* the idempotency_records table
    pc,       \* where each handler is
    ask,      \* what each request asks for
    at,       \* the "now" the handler passed to claim
    exp,      \* the expiry the handler passed to complete
    answer,   \* the response sent
    owned,    \* history: the requests that acquired their claim
    published \* history: the requests that completed their claim

vars == <<backend, clock, records, pc, ask, at, exp, answer, owned, published>>

Asks == [key : Keys, identity : Identities, token : Tokens]

Fingerprint(a) == <<a.identity, a.token>>
Key(r) == ask[r].key
PrintOf(r) == Fingerprint(ask[r])

Record == [claim : Requests, print : Identities \X Tokens,
           state : {"in_progress", "completed"},
           response : Requests \cup {None}, expires : Nat]

ASSUME NoneIsNoRecord == None \notin Record

Steps == {"idle", "arrived", "purge", "insert", "select", "running", "complete",
          "respond", "done", "dead"}
Answers == [kind : {"none", "conflict", "in_progress", "error"}, of : {None}]
             \cup [kind : {"result"}, of : Requests]
NoAnswer == [kind |-> "none", of |-> None]
Refusal(kind) == [kind |-> kind, of |-> None]
ResultOf(r) == [kind |-> "result", of |-> r]

Init ==
    /\ backend \in Backends
    /\ clock = 0
    /\ records = [k \in Keys |-> None]
    /\ pc = [r \in Requests |-> "idle"]
    /\ ask = [r \in Requests |-> None]
    /\ at = [r \in Requests |-> 0]
    /\ exp = [r \in Requests |-> 0]
    /\ answer = [r \in Requests |-> NoAnswer]
    /\ owned = {}
    /\ published = {}

Tick ==
    /\ clock < MaxTime
    /\ clock' = clock + 1
    /\ UNCHANGED <<backend, records, pc, ask, at, exp, answer, owned, published>>

\* The handler has read the body, found the policy allows the action, and has a
\* valid key.
Arrive(r) ==
    /\ pc[r] = "idle"
    /\ \E a \in Asks : ask' = [ask EXCEPT ![r] = a]
    /\ pc' = [pc EXCEPT ![r] = "arrived"]
    /\ UNCHANGED <<backend, clock, records, at, exp, answer, owned, published>>

\* Seeded fault: rows are dropped one unit of time too early.
ExpiredEarly(rec, now) == rec # None /\ rec.expires <= now + 1
Expired(rec, now) == rec # None /\ rec.expires <= now

\* The table after "delete ... where expires_at <= now".
Purged(now) == [k \in Keys |-> IF Expired(records[k], now) THEN None ELSE records[k]]

NewClaim(r, now) ==
    [claim |-> r, print |-> PrintOf(r), state |-> "in_progress",
     response |-> None, expires |-> now + Retention]

\* Seeded fault: the fingerprint of the row is not compared.
ExistingAnyPrint(r, rec) ==
    IF rec.state = "in_progress" THEN Refusal("in_progress") ELSE ResultOf(rec.response)

\* Seeded fault: the response column is read before the state is.
ExistingUnread(r, rec) ==
    IF rec.print # PrintOf(r) THEN Refusal("conflict") ELSE ResultOf(rec.response)

\* What a row that is already there means for a request.
Existing(r, rec) ==
    CASE rec.print # PrintOf(r) -> Refusal("conflict")
      [] rec.print = PrintOf(r) /\ rec.state = "in_progress" -> Refusal("in_progress")
      [] OTHER -> ResultOf(rec.response)

Reply(r, a) ==
    /\ answer' = [answer EXCEPT ![r] = a]
    /\ pc' = [pc EXCEPT ![r] = "done"]

\* "insert ... on conflict do nothing" took the row: run the action.
Acquire(r, table, now) ==
    /\ records' = [table EXCEPT ![Key(r)] = NewClaim(r, now)]
    /\ owned' = owned \cup {r}
    /\ pc' = [pc EXCEPT ![r] = "running"]
    /\ UNCHANGED answer

\* SQLite: purge, insert and select in one transaction, at the current time.
ClaimTransaction(r) ==
    /\ backend = "sqlite"
    /\ pc[r] = "arrived"
    /\ at' = [at EXCEPT ![r] = clock]
    /\ LET table == Purged(clock)
       IN  IF table[Key(r)] = None
             THEN Acquire(r, table, clock)
             ELSE /\ records' = table
                  /\ Reply(r, Existing(r, table[Key(r)]))
                  /\ UNCHANGED owned
    /\ UNCHANGED <<backend, clock, ask, exp, published>>

\* D1: "now" is sampled, and the first statement sent.
SampleNow(r) ==
    /\ backend = "d1"
    /\ pc[r] = "arrived"
    /\ at' = [at EXCEPT ![r] = clock]
    /\ pc' = [pc EXCEPT ![r] = "purge"]
    /\ UNCHANGED <<backend, clock, records, ask, exp, answer, owned, published>>

Purge(r) ==
    /\ pc[r] = "purge"
    /\ records' = Purged(at[r])
    /\ pc' = [pc EXCEPT ![r] = "insert"]
    /\ UNCHANGED <<backend, clock, ask, at, exp, answer, owned, published>>

Insert(r) ==
    /\ pc[r] = "insert"
    /\ IF records[Key(r)] = None
         THEN Acquire(r, records, at[r])
         ELSE /\ pc' = [pc EXCEPT ![r] = "select"]
              /\ UNCHANGED <<records, answer, owned>>
    /\ UNCHANGED <<backend, clock, ask, at, exp, published>>

\* The row may be gone again: "Idempotency record disappeared while claiming it."
Select(r) ==
    /\ pc[r] = "select"
    /\ Reply(r, IF records[Key(r)] = None THEN Refusal("error")
                                          ELSE Existing(r, records[Key(r)]))
    /\ UNCHANGED <<backend, clock, records, ask, at, exp, owned, published>>

\* The action ran and has a result, good or bad; a fresh expiry is computed.
Finish(r) ==
    /\ pc[r] = "running"
    /\ exp' = [exp EXCEPT ![r] = clock + Retention]
    /\ pc' = [pc EXCEPT ![r] = "complete"]
    /\ UNCHANGED <<backend, clock, records, ask, at, answer, owned, published>>

\* Something other than a ConnectionError was thrown: 500, and the claim stays.
Throw(r) ==
    /\ pc[r] = "running"
    /\ Reply(r, Refusal("error"))
    /\ UNCHANGED <<backend, clock, records, ask, at, exp, owned, published>>

\* Seeded fault: any open claim on the key may be completed.
OpenRow(r) == records[Key(r)] # None /\ records[Key(r)].state = "in_progress"

\* The row the update's where clause selects.
OwnOpenRow(r) ==
    /\ records[Key(r)] # None
    /\ records[Key(r)].claim = r
    /\ records[Key(r)].print = PrintOf(r)
    /\ records[Key(r)].state = "in_progress"

Complete(r) ==
    /\ pc[r] = "complete"
    /\ IF OwnOpenRow(r)
         THEN /\ records' = [records EXCEPT ![Key(r)] =
                               [@ EXCEPT !.state = "completed", !.response = r, !.expires = exp[r]]]
              /\ published' = published \cup {r}
              /\ pc' = [pc EXCEPT ![r] = "respond"]
              /\ UNCHANGED answer
         ELSE /\ Reply(r, Refusal("error"))
              /\ UNCHANGED <<records, published>>
    /\ UNCHANGED <<backend, clock, ask, at, exp, owned>>

Respond(r) ==
    /\ pc[r] = "respond"
    /\ Reply(r, ResultOf(r))
    /\ UNCHANGED <<backend, clock, records, ask, at, exp, owned, published>>

\* The process or isolate goes away with the handler in it.
Die(r) ==
    /\ pc[r] \notin {"idle", "done", "dead"}
    /\ pc' = [pc EXCEPT ![r] = "dead"]
    /\ UNCHANGED <<backend, clock, records, ask, at, exp, answer, owned, published>>

Handle(r) ==
    \/ Arrive(r) \/ ClaimTransaction(r)
    \/ SampleNow(r) \/ Purge(r) \/ Insert(r) \/ Select(r)
    \/ Finish(r) \/ Throw(r) \/ Complete(r) \/ Respond(r)
    \/ Die(r)

Next == Tick \/ \E r \in Requests : Handle(r)

Spec == Init /\ [][Next]_vars

-------------------------------------------------------------------------------
TypeOK ==
    /\ backend \in Backends
    /\ clock \in Nat
    /\ records \in [Keys -> Record \cup {None}]
    /\ pc \in [Requests -> Steps]
    /\ ask \in [Requests -> Asks \cup {None}]
    /\ \A r \in Requests : pc[r] # "idle" => ask[r] \in Asks
    /\ at \in [Requests -> Nat]
    /\ exp \in [Requests -> Nat]
    /\ answer \in [Requests -> Answers]
    /\ published \subseteq owned
    /\ owned \subseteq Requests

\* Until when a claim protects its key: its own lifetime, or the lifetime of the
\* response once there is one.
LeaseEnd(r) == IF r \in published THEN exp[r] ELSE at[r] + Retention

\* An action is not dispatched a second time under a key while the first claim
\* is alive: not while it runs, not after its response was stored, not after
\* the handler crashed or threw with the outcome unknown.
LeaseHonoured ==
    [][\A q \in owned, r \in owned' \ owned : Key(q) = Key(r) => clock >= LeaseEnd(q)]_vars

\* Every answer drawn from the table has its cause.  A replayed result was
\* published by a request with the same key and fingerprint; a refusal means
\* another request really owned the key, and on SQLite that its claim was still
\* alive, so an expired claim never blocks a key.
Caused(r) ==
    \E q \in owned :
       /\ Key(q) = Key(r)
       /\ (answer[r].kind = "conflict") # (PrintOf(q) = PrintOf(r))
       /\ answer[r].kind = "result" => q = answer[r].of /\ q \in published
       /\ answer[r].kind # "result" => q # r
       /\ (backend = "sqlite" /\ q # r) => (at[r] < at[q] + Retention \/ at[r] < exp[q])

AnswersHaveCause ==
    \A r \in Requests : answer[r].kind \in {"conflict", "in_progress", "result"} => Caused(r)

\* The row of k is the claim of a request that acquired it, with its lease, and
\* a stored response is that claim's own.
RowFits(k) ==
    LET rec == records[k]
    IN  /\ rec.claim \in owned
        /\ Key(rec.claim) = k /\ rec.print = PrintOf(rec.claim)
        /\ rec.state = "completed" => rec.response = rec.claim /\ rec.claim \in published
        /\ rec.state = "in_progress" => rec.claim \notin published
        /\ rec.expires = LeaseEnd(rec.claim)

\* Whatever interleaves, crashes or comes back late, the table never holds
\* anything but what the request that acquired a key put there.
RowsBelongToOwners == \A k \in Keys : records[k] # None => RowFits(k)

\* The contract's view of the handlers and the table.
keyOf == [r \in Requests |-> IF pc[r] = "idle" THEN None ELSE Key(r)]
owner == [k \in Keys |-> IF records[k] = None THEN None ELSE records[k].claim]
got == [r \in Requests |-> answer[r].of]

Contract == INSTANCE IdempotencyContract WITH claimed <- owned

\* The table implements the contract of an idempotency key: one owner per key at
\* a time, a result published once and by the owner alone, and every duplicate
\* answered with the result of whoever owns the key then.
ImplementsContract == Contract!Spec

\* docs/runtime-api.md: the request identity is the action id, the input and the
\* effective connection, and a completed request is replayed to a retry with the
\* same identity.  A conflict is then only ever reported to a request whose
\* identity differs from that of some owner of the key.
ConflictMeansOtherIdentity ==
    \A r \in Requests : answer[r].kind = "conflict" =>
        \E q \in owned : Key(q) = Key(r) /\ ask[q].identity # ask[r].identity
===============================================================================
