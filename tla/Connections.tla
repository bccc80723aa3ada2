----------------------------- MODULE Connections -----------------------------
(***************************************************************************)
(* ConnectionService over the connections table: executions resolve a      *)
(* connection's credential, refreshing an expired OAuth credential at the  *)
(* provider's token endpoint; calls that meet the same row revision share  *)
(* one refresh; meanwhile people connect, reconnect and disconnect.        *)
(* Credentials, row ids and row revisions are fresh random values in the   *)
(* code, and every write stores a credential never stored before: here a   *)
(* credential is a serial number, which is also the revision of the row    *)
(* that holds it, and a row's id is the serial it was inserted with.       *)
(***************************************************************************)
EXTENDS Integers

CONSTANTS
    Callers,    \* executions and proxy requests, one call each
    Names,      \* connection names of one service
    Kinds,      \* kinds of credential people connect the service with
    MaxSerial,  \* bound on the credentials issued
    None

ASSUME ConnectionsAssumption ==
    /\ Kinds \subseteq {"api_key", "oauth", "oauth_without_refresh_token"}
    /\ MaxSerial \in Nat
    /\ None \notin Nat \cup [id : Nat, rev : Nat, kind : Kinds]

VARIABLES
    rows,      \* the connections table
    serial,    \* credentials issued so far
    expired,   \* credentials within 60 s of their expiry, or past it
    inflight,  \* oauthCredentialRefreshes: refreshes by row id and revision
    pc,        \* where each call is
    on,        \* the name each call is about
    snap,      \* the row each call has read
    leader,    \* the caller whose refresh a call waits for
    fresh,     \* what the token endpoint gave each leader
    outcome,   \* how each leader's promise settled: a credential or "failed"
    answer,    \* the credential each call returned
    grant,     \* history: the last connect of each name since its last disconnect
    root,      \* history: the connect each credential descends from
    seen       \* history: credentials in the row during each call so far

table == <<rows, serial, expired>>
history == <<grant, root, seen>>
vars == <<table, inflight, pc, on, snap, leader, fresh, outcome, answer, history>>

Serials == 1..MaxSerial
Failed == 0
Row == [id : Serials, rev : Serials, kind : Kinds]
Refresh == [id : Serials, rev : Serials, by : Callers]
Steps == {"idle", "check", "read", "decode", "joined", "asking", "storing", "settled",
          "done", "error"}

Active(c) == pc[c] \notin {"idle", "done", "error"}

Init ==
    /\ rows = [n \in Names |-> None]
    /\ serial = 0
    /\ expired = {} /\ inflight = {}
    /\ pc = [c \in Callers |-> "idle"]
    /\ on \in [Callers -> Names]
    /\ snap = [c \in Callers |-> None]
    /\ leader = [c \in Callers |-> None]
    /\ fresh = [c \in Callers |-> None]
    /\ outcome = [c \in Callers |-> None]
    /\ answer = [c \in Callers |-> None]
    /\ grant = [n \in Names |-> None]
    /\ root = [s \in Serials |-> None]
    /\ seen = [c \in Callers |-> {}]

-------------------------------------------------------------------------------
(* The table and its writers                                               *)

\* The row of n becomes row; calls under way have now seen its credential.
SetRow(n, row) ==
    /\ rows' = [rows EXCEPT ![n] = row]
    /\ seen' = [c \in Callers |->
                  IF Active(c) /\ on[c] = n /\ row # None THEN seen[c] \cup {row.rev}
                                                          ELSE seen[c]]

\* IConnectionStore.set: insert, or on conflict a new revision under the old id.
Upserted(n, s, kind) ==
    [id |-> IF rows[n] = None THEN s ELSE rows[n].id, rev |-> s, kind |-> kind]

Connect(n, kind) ==
    /\ serial < MaxSerial
    /\ serial' = serial + 1
    /\ SetRow(n, Upserted(n, serial', kind))
    /\ grant' = [grant EXCEPT ![n] = serial']
    /\ root' = [root EXCEPT ![serial'] = serial']
    /\ UNCHANGED <<expired, inflight, pc, on, snap, leader, fresh, outcome, answer>>

Disconnect(n) ==
    /\ rows[n] # None
    /\ SetRow(n, None)
    /\ grant' = [grant EXCEPT ![n] = None]
    /\ UNCHANGED <<serial, expired, inflight, pc, on, snap, leader, fresh, outcome,
                   answer, root>>

Expire(n) ==
    /\ rows[n] # None
    /\ rows[n].kind # "api_key"
    /\ rows[n].rev \notin expired
    /\ expired' = expired \cup {rows[n].rev}
    /\ UNCHANGED <<rows, serial, inflight, pc, on, snap, leader, fresh, outcome, answer,
                   history>>

-------------------------------------------------------------------------------
(* Resolving a credential                                                  *)

Goto(c, step) == pc' = [pc EXCEPT ![c] = step]

\* The call ends, with credential s or with an error, and its locals are gone.
End(c) ==
    /\ snap' = [snap EXCEPT ![c] = None]
    /\ leader' = [leader EXCEPT ![c] = None]
    /\ fresh' = [fresh EXCEPT ![c] = None]
    /\ seen' = [seen EXCEPT ![c] = {}]

Return(c, s) ==
    /\ answer' = [answer EXCEPT ![c] = s]
    /\ Goto(c, "done")
    /\ End(c)

Throw(c) ==
    /\ Goto(c, "error")
    /\ End(c)
    /\ UNCHANGED answer

\* resolveForExecution starts with the disable check, getCredential (the proxy)
\* with the read.
Begin(c, step) ==
    /\ pc[c] = "idle"
    /\ step \in {"check", "read"}
    /\ Goto(c, step)
    /\ seen' = [seen EXCEPT ![c] = IF rows[on[c]] = None THEN {} ELSE {rows[on[c]].rev}]
    /\ UNCHANGED <<table, inflight, on, snap, leader, fresh, outcome, answer, grant, root>>

\* The company's disable store answers either way; see DisableStore.
CheckDisabled(c) ==
    /\ pc[c] = "check"
    /\ \/ Throw(c)
       \/ Goto(c, "read") /\ UNCHANGED <<snap, leader, fresh, answer, seen>>
    /\ UNCHANGED <<table, inflight, on, outcome, grant, root>>

\* store.get: the row is read, then its value decoded with an await between.
Read(c) ==
    /\ pc[c] = "read"
    /\ IF rows[on[c]] = None
         THEN Throw(c)
         ELSE /\ snap' = [snap EXCEPT ![c] = rows[on[c]]]
              /\ Goto(c, "decode")
              /\ UNCHANGED <<leader, fresh, answer, seen>>
    /\ UNCHANGED <<table, inflight, on, outcome, grant, root>>

NeedsRefresh(c) == snap[c].kind # "api_key" /\ snap[c].rev \in expired

UseStored(c) ==
    /\ pc[c] = "decode"
    /\ ~NeedsRefresh(c)
    /\ Return(c, snap[c].rev)
    /\ UNCHANGED <<table, inflight, on, outcome, grant, root>>

NoRefreshToken(c) ==
    /\ pc[c] = "decode"
    /\ NeedsRefresh(c)
    /\ snap[c].kind = "oauth_without_refresh_token"
    /\ Throw(c)
    /\ UNCHANGED <<table, inflight, on, outcome, grant, root>>

\* Seeded fault: a refresh already under way is not looked for.
NeverShared(c) == {}

\* The refresh of the row revision that c has read, if one is under way.
SameRefresh(c) == {e \in inflight : e.id = snap[c].id /\ e.rev = snap[c].rev}

Join(c) ==
    /\ pc[c] = "decode"
    /\ NeedsRefresh(c)
    /\ snap[c].kind = "oauth"
    /\ \E e \in SameRefresh(c) : leader' = [leader EXCEPT ![c] = e.by]
    /\ Goto(c, "joined")
    /\ UNCHANGED <<table, inflight, on, snap, fresh, outcome, answer, history>>

StartRefresh(c) ==
    /\ pc[c] = "decode"
    /\ NeedsRefresh(c)
    /\ snap[c].kind = "oauth"
    /\ SameRefresh(c) = {}
    /\ inflight' = inflight \cup {[id |-> snap[c].id, rev |-> snap[c].rev, by |-> c]}
    /\ Goto(c, "asking")
    /\ UNCHANGED <<table, on, snap, leader, fresh, outcome, answer, history>>

\* The token endpoint answers with a new credential, or does not.
ProviderIssues(c) ==
    /\ pc[c] = "asking"
    /\ serial < MaxSerial
    /\ serial' = serial + 1
    /\ fresh' = [fresh EXCEPT ![c] = serial']
    /\ root' = [root EXCEPT ![serial'] = root[snap[c].rev]]
    /\ Goto(c, "storing")
    /\ UNCHANGED <<rows, expired, inflight, on, snap, leader, outcome, answer, grant,
                   seen>>

\* Seeded fault: a failed refresh leaves its promise pending.
Unsettled(c) == None

Rejected(c) == Failed

ProviderRefuses(c) ==
    /\ pc[c] = "asking"
    /\ outcome' = [outcome EXCEPT ![c] = Rejected(c)]
    /\ Goto(c, "settled")
    /\ UNCHANGED <<table, inflight, on, snap, leader, fresh, answer, history>>

\* Seeded fault: the update's where clause names the connection only.
SameName(c) == rows[on[c]] # None

\* The row the where clause of updateCredential selects is the one c read.
SameRow(c) ==
    /\ rows[on[c]] # None
    /\ rows[on[c]].id = snap[c].id
    /\ rows[on[c]].rev = snap[c].rev

\* Seeded fault: the caller gets the new credential even if it was not stored.
StoredOrNot(c) == fresh[c]

\* How the promise settles: "connection changed while ... refreshing" if no row
\* was updated.
Settlement(c) == IF SameRow(c) THEN fresh[c] ELSE Failed

\* updateCredential and the settling of the refresh.
Store(c) ==
    /\ pc[c] = "storing"
    /\ IF SameRow(c)
         THEN SetRow(on[c], [rows[on[c]] EXCEPT !.rev = fresh[c], !.kind = snap[c].kind])
         ELSE UNCHANGED <<rows, seen>>
    /\ outcome' = [outcome EXCEPT ![c] = Settlement(c)]
    /\ Goto(c, "settled")
    /\ UNCHANGED <<serial, expired, inflight, on, snap, leader, fresh, answer, grant,
                   root>>

Settle(c, l) ==
    /\ outcome[l] # None
    /\ IF outcome[l] = Failed THEN Throw(c) ELSE Return(c, outcome[l])

\* Seeded fault: the finally block is missing.
Kept(c) == inflight
Released(c) == {e \in inflight : e.by # c}

WakeLeader(c) ==
    /\ pc[c] = "settled"
    /\ Settle(c, c)
    /\ inflight' = Released(c)
    /\ UNCHANGED <<table, on, outcome, grant, root>>

WakeJoiner(c) ==
    /\ pc[c] = "joined"
    /\ Settle(c, leader[c])
    /\ UNCHANGED <<table, inflight, on, outcome, grant, root>>

-------------------------------------------------------------------------------
Admin(n) ==
    \/ \E kind \in Kinds : Connect(n, kind)
    \/ Disconnect(n) \/ Expire(n)

\* What a call does once it has begun.
Proceed(c) ==
    \/ CheckDisabled(c) \/ Read(c) \/ UseStored(c) \/ NoRefreshToken(c)
    \/ Join(c) \/ StartRefresh(c) \/ ProviderIssues(c) \/ ProviderRefuses(c)
    \/ Store(c) \/ WakeLeader(c) \/ WakeJoiner(c)

Next ==
    \/ \E n \in Names : Admin(n)
    \/ \E c \in Callers : Proceed(c) \/ \E step \in {"check", "read"} : Begin(c, step)

Spec == Init /\ [][Next]_vars

\* The event loop runs every continuation, and the token endpoint answers or
\* its request is aborted.
FairSpec == Spec /\ \A c \in Callers : WF_vars(Proceed(c))

-------------------------------------------------------------------------------
TypeOK ==
    /\ rows \in [Names -> Row \cup {None}]
    /\ serial \in 0..MaxSerial
    /\ expired \subseteq Serials /\ inflight \subseteq Refresh
    /\ pc \in [Callers -> Steps]
    /\ on \in [Callers -> Names]
    /\ snap \in [Callers -> Row \cup {None}]
    /\ leader \in [Callers -> Callers \cup {None}]
    /\ fresh \in [Callers -> Serials \cup {None}]
    /\ outcome \in [Callers -> Serials \cup {Failed, None}]
    /\ \A c \in Callers : pc[c] = "settled" => outcome[c] # None
    /\ answer \in [Callers -> Serials \cup {None}]
    /\ grant \in [Names -> Serials \cup {None}]
    /\ root \in [Serials -> Serials \cup {None}]
    /\ seen \in [Callers -> SUBSET Serials]

\* A refresh never undoes what a person did: whatever credential a name holds
\* descends from the latest connect of that name, and a name disconnected since
\* holds none, however long a refresh of the old credential takes to come back.
LatestGrantKept ==
    \A n \in Names : grant[n] = IF rows[n] = None THEN None ELSE root[rows[n].rev]

\* A call returns a credential that its connection held at some moment of the
\* call, whether it read it, refreshed it or waited for another call's refresh.
AnswerWasHeld ==
    [][\A c \in Callers : answer'[c] # answer[c] => answer'[c] \in seen[c]]_vars

\* One refresh token is never redeemed by two refreshes at once.
OneRefreshPerRevision ==
    \A d, e \in inflight : d.id = e.id /\ d.rev = e.rev => d = e

\* The map of refreshes holds exactly the refreshes under way: a finished one
\* never answers a later call.
RefreshMapExact ==
    {e.by : e \in inflight} = {c \in Callers : pc[c] \in {"asking", "storing", "settled"}}

\* Every call that has begun comes to an end, also one that waits for another
\* call's refresh.
CallsEnd == \A c \in Callers : Active(c) ~> ~Active(c)
===============================================================================
