-------------------------- MODULE ConnectionsProofs --------------------------
(***************************************************************************)
(* Proofs about Connections for any number of callers and names: a refresh *)
(* never undoes what a person did, concurrent refreshes are shared, and a  *)
(* call only returns a credential which its connection held during the     *)
(* call. IInv is the inductive invariant of the first two, a conjunction   *)
(* of named parts; one lemma per part shows that every step keeps it. The  *)
(* last section builds on it: it has to follow a credential from the       *)
(* leader that stores it to every call that joins the leader, before or    *)
(* after it is stored.                                                     *)
(***************************************************************************)
EXTENDS Connections, TLAPS

\* The steps at which a call has a refresh of its own in the map.
Asked == {"asking", "storing", "settled"}

\* What a call knows at each step: the row it read from decode on, the caller it
\* joined, the credential the provider gave it.
Stages ==
    \A c \in Callers :
       /\ pc[c] \in {"decode", "joined"} \cup Asked => snap[c] # None
       /\ pc[c] = "joined" => leader[c] \in Callers
       /\ pc[c] = "storing" => fresh[c] # None

\* Nothing holds a serial number that has not been issued.
Issued ==
    /\ \A n \in Names : rows[n] # None => rows[n].id <= serial /\ rows[n].rev <= serial
    /\ \A c \in Callers : snap[c] # None => snap[c].id <= serial /\ snap[c].rev <= serial
    /\ \A c \in Callers : fresh[c] # None => fresh[c] <= serial

\* A refresh about to be stored continues the connect of the credential it used.
Descends ==
    \A c \in Callers : pc[c] = "storing" => root[fresh[c]] = root[snap[c].rev]

\* The entries of the map are those of the calls at a step in Asked, each for the
\* row revision that its call has read.
MapOfAsked ==
    /\ \A e \in inflight : pc[e.by] \in Asked /\ snap[e.by].id = e.id /\ snap[e.by].rev = e.rev
    /\ \A c \in Callers : pc[c] \in Asked => \E e \in inflight : e.by = c

-------------------------------------------------------------------------------
\* What Store does when the row is still the one that was read.
LEMMA StoreWrites ==
  ASSUME TypeOK, Stages, NEW c \in Callers, Store(c), SameRow(c)
  PROVE  /\ on[c] \in Names /\ rows[on[c]] # None
         /\ snap[c].id = rows[on[c]].id /\ snap[c].rev = rows[on[c]].rev
         /\ rows'[on[c]] # None /\ rows'[on[c]].id = snap[c].id /\ rows'[on[c]].rev = fresh[c]
         /\ \A n \in Names \ {on[c]} : rows'[n] = rows[n]
         /\ pc[c] = "storing" /\ pc'[c] = "settled" /\ outcome'[c] = fresh[c]
         /\ \A d \in Callers \ {c} : pc'[d] = pc[d] /\ outcome'[d] = outcome[d]
         /\ \A d \in Callers : seen[d] \subseteq seen'[d]
         /\ \A d \in Callers : Active(d) /\ on[d] = on[c] => fresh[c] \in seen'[d]
         /\ UNCHANGED <<on, snap, leader, fresh, serial, inflight>>
  <1> DEFINE row == [rows[on[c]] EXCEPT !.rev = fresh[c], !.kind = snap[c].kind]
  <1>1. /\ rows' = [rows EXCEPT ![on[c]] = row]
        /\ seen' = [d \in Callers |-> IF Active(d) /\ on[d] = on[c] /\ row # None
                                        THEN seen[d] \cup {row.rev} ELSE seen[d]]
    BY DEF Store, SetRow
  <1>2. on[c] \in Names /\ rows[on[c]] \in Row /\ rows[on[c]] # None
    BY DEF SameRow, TypeOK
  <1>3. fresh[c] \in Serials /\ snap[c].kind \in Kinds /\ pc[c] = "storing"
    BY DEF Store, TypeOK, Stages, Asked, Row
  <1>4. row \in Row /\ row.id = rows[on[c]].id /\ row.rev = fresh[c]
    BY <1>2, <1>3 DEF Row
  <1>5. row # None
    <2>1. None \notin Row
      BY ConnectionsAssumption DEF Row, Serials
    <2>2. QED
      BY <1>4, <2>1
  <1> HIDE DEF row
  <1>6. rows'[on[c]] = row /\ \A n \in Names \ {on[c]} : rows'[n] = rows[n]
    BY <1>1, <1>2 DEF TypeOK
  <1>7. /\ pc'[c] = "settled" /\ outcome'[c] = fresh[c]
        /\ \A d \in Callers \ {c} : pc'[d] = pc[d] /\ outcome'[d] = outcome[d]
    BY DEF Store, Settlement, Goto, TypeOK
  <1>8. /\ \A d \in Callers : seen[d] \subseteq seen'[d]
        /\ \A d \in Callers : Active(d) /\ on[d] = on[c] => fresh[c] \in seen'[d]
    BY <1>1, <1>4, <1>5
  <1>9. UNCHANGED <<on, snap, leader, fresh, serial, inflight>>
    BY DEF Store
  <1>10. snap[c].id = rows[on[c]].id /\ snap[c].rev = rows[on[c]].rev
    BY DEF SameRow
  <1>11. QED
    BY <1>2, <1>3, <1>4, <1>5, <1>6, <1>7, <1>8, <1>9, <1>10

\* What a step that ends a call leaves alone.
LEMMA CallEnds ==
  ASSUME TypeOK, NEW c \in Callers,
         WakeLeader(c) \/ WakeJoiner(c) \/ (Read(c) /\ rows[on[c]] = None)
  PROVE  /\ pc'[c] \in {"done", "error"} /\ snap'[c] = None
         /\ \A d \in Callers \ {c} : /\ pc'[d] = pc[d] /\ snap'[d] = snap[d]
                                      /\ fresh'[d] = fresh[d] /\ seen'[d] = seen[d]
         /\ UNCHANGED <<rows, serial, on, outcome>>
  <1>1. Throw(c) \/ \E s : Return(c, s)
    BY DEF WakeLeader, WakeJoiner, Settle, Read
  <1>2. UNCHANGED <<rows, serial, on, outcome>>
    BY DEF WakeLeader, WakeJoiner, Read, table
  <1>3. End(c) /\ (Goto(c, "error") \/ Goto(c, "done"))
    BY <1>1 DEF Throw, Return
  <1>4. QED
    BY <1>2, <1>3 DEF End, Goto, TypeOK

\* What Read does when there is a row.
LEMMA ReadTakes ==
  ASSUME TypeOK, NEW c \in Callers, Read(c), rows[on[c]] # None
  PROVE  /\ on[c] \in Names /\ snap'[c] = rows[on[c]] /\ pc'[c] = "decode"
         /\ \A d \in Callers \ {c} : pc'[d] = pc[d] /\ snap'[d] = snap[d]
         /\ UNCHANGED <<rows, serial, on, outcome, fresh, seen>>
  BY DEF Read, Goto, TypeOK, table

\* Every step keeps the types.
LEMMA TypesKept ==
  ASSUME TypeOK, Stages, [Next]_vars
  PROVE  TypeOK'
  <1>1. ASSUME NEW n \in Names, NEW kind \in Kinds, Connect(n, kind) PROVE TypeOK'
    BY <1>1, ConnectionsAssumption
       DEF Connect, SetRow, Upserted, TypeOK, Stages, Asked, Steps, Serials, Row, Refresh,
           table, history
  <1>2. ASSUME NEW n \in Names, Disconnect(n) PROVE TypeOK'
    BY <1>2, ConnectionsAssumption
       DEF Disconnect, SetRow, TypeOK, Stages, Asked, Steps, Serials, Row, Refresh, table,
           history
  <1>3. ASSUME NEW n \in Names, Expire(n) PROVE TypeOK'
    <2>1. rows[n].rev \in Serials
      BY <1>3 DEF Expire, TypeOK, Row
    <2>2. QED
      BY <1>3, <2>1 DEF Expire, TypeOK, table, history
  <1>4. ASSUME NEW c \in Callers, NEW step \in {"check", "read"}, Begin(c, step) PROVE TypeOK'
    BY <1>4, ConnectionsAssumption
       DEF Begin, Goto, TypeOK, Stages, Asked, Steps, table, history, Row
  <1>5. ASSUME NEW c \in Callers, CheckDisabled(c) PROVE TypeOK'
    <2>1. CASE Throw(c)
      BY <1>5, <2>1, ConnectionsAssumption
         DEF CheckDisabled, Throw, End, Goto, TypeOK, Stages, Asked, Steps, table, history
    <2>2. CASE Goto(c, "read") /\ UNCHANGED <<snap, leader, fresh, answer, seen>>
      BY <1>5, <2>2, ConnectionsAssumption
         DEF CheckDisabled, Throw, End, Goto, TypeOK, Stages, Asked, Steps, table, history
    <2>3. QED
      BY <1>5, <2>1, <2>2 DEF CheckDisabled
  <1>6. ASSUME NEW c \in Callers, Read(c) PROVE TypeOK'
    <2>1. CASE rows[on[c]] = None
      BY <1>6, <2>1, ConnectionsAssumption
         DEF Read, Throw, End, Goto, TypeOK, Stages, Asked, Steps, table, history, Row
    <2>2. CASE rows[on[c]] # None
      BY <1>6, <2>2, ConnectionsAssumption
         DEF Read, Throw, End, Goto, TypeOK, Stages, Asked, Steps, table, history, Row
    <2>3. QED
      BY <1>6, <2>1, <2>2 DEF Read
  <1>7. ASSUME NEW c \in Callers, UseStored(c) PROVE TypeOK'
    BY <1>7, ConnectionsAssumption
       DEF UseStored, Return, End, Goto, TypeOK, Stages, Asked, Steps, table, history, Row
  <1>8. ASSUME NEW c \in Callers, NoRefreshToken(c) PROVE TypeOK'
    BY <1>8, ConnectionsAssumption
       DEF NoRefreshToken, Throw, End, Goto, TypeOK, Stages, Asked, Steps, table, history
  <1>9. ASSUME NEW c \in Callers, Join(c) PROVE TypeOK'
    BY <1>9, ConnectionsAssumption
       DEF Join, SameRefresh, Goto, TypeOK, Stages, Asked, Steps, table, history, Refresh
  <1>10. ASSUME NEW c \in Callers, StartRefresh(c) PROVE TypeOK'
    BY <1>10, ConnectionsAssumption
       DEF StartRefresh, SameRefresh, Goto, TypeOK, Stages, Asked, Steps, Serials, Row,
           Refresh, table, history
  <1>11. ASSUME NEW c \in Callers, ProviderIssues(c) PROVE TypeOK'
    BY <1>11, ConnectionsAssumption
       DEF ProviderIssues, Goto, TypeOK, Stages, Asked, Steps, Serials, Row, Refresh, table,
           history
  <1>12. ASSUME NEW c \in Callers, ProviderRefuses(c) PROVE TypeOK'
    BY <1>12, ConnectionsAssumption
       DEF ProviderRefuses, Rejected, Failed, Goto, TypeOK, Stages, Asked, Steps, Serials,
           Row, Refresh, table, history
  <1>13. ASSUME NEW c \in Callers, Store(c) PROVE TypeOK'
    <2>1. \A d \in Callers : pc[d] = "storing" => fresh[d] \in Serials /\ snap[d] \in Row
      BY ConnectionsAssumption DEF TypeOK, Stages, Asked
    <2>2. rows' \in [Names -> Row \cup {None}] /\ seen' \in [Callers -> SUBSET Serials]
      <3>1. CASE SameRow(c)
        <4>1. rows[on[c]] \in Row /\ on[c] \in Names
          BY <3>1 DEF SameRow, TypeOK
        <4>2. [rows[on[c]] EXCEPT !.rev = fresh[c], !.kind = snap[c].kind] \in Row
          BY <1>13, <2>1, <4>1 DEF Store, Row
        <4>3. rows' = [rows EXCEPT ![on[c]] = [rows[on[c]] EXCEPT !.rev = fresh[c], !.kind = snap[c].kind]]
          BY <1>13, <3>1 DEF Store, SetRow
        <4>4. rows' \in [Names -> Row \cup {None}]
          BY <4>1, <4>2, <4>3 DEF TypeOK
        <4>5. seen' \in [Callers -> SUBSET Serials]
          <5> DEFINE row == [rows[on[c]] EXCEPT !.rev = fresh[c], !.kind = snap[c].kind]
          <5>1. seen' = [d \in Callers |-> IF Active(d) /\ on[d] = on[c] /\ row # None
                                             THEN seen[d] \cup {row.rev} ELSE seen[d]]
            BY <1>13, <3>1 DEF Store, SetRow
          <5>2. row.rev \in Serials
            BY <4>2 DEF Row
          <5> HIDE DEF row
          <5>3. QED
            BY <5>1, <5>2 DEF TypeOK
        <4>6. QED
          BY <4>4, <4>5
      <3>2. CASE ~SameRow(c)
        BY <1>13, <3>2 DEF Store, TypeOK
      <3>3. QED
        BY <3>1, <3>2
    <2>3. outcome' \in [Callers -> Serials \cup {Failed, None}]
      BY <1>13, <2>1 DEF Store, Settlement, TypeOK
    <2>4. \A d \in Callers : pc'[d] = "settled" => outcome'[d] # None
      BY <1>13, <2>1, ConnectionsAssumption
         DEF Store, Settlement, Goto, TypeOK, Serials, Failed
    <2>5. QED
      BY <1>13, <2>2, <2>3, <2>4 DEF Store, Goto, TypeOK, Steps, table, history
  <1>14. ASSUME NEW c \in Callers, WakeLeader(c) PROVE TypeOK'
    <2>1. CASE outcome[c] = Failed
      BY <1>14, <2>1, ConnectionsAssumption
         DEF WakeLeader, Settle, Return, Throw, End, Released, Failed, Goto, TypeOK, Stages,
             Asked, Steps, table, history
    <2>2. CASE outcome[c] # Failed
      BY <1>14, <2>2, ConnectionsAssumption
         DEF WakeLeader, Settle, Return, Throw, End, Released, Failed, Goto, TypeOK, Stages,
             Asked, Steps, table, history
    <2>3. QED
      BY <1>14, <2>1, <2>2 DEF WakeLeader
  <1>15. ASSUME NEW c \in Callers, WakeJoiner(c) PROVE TypeOK'
    <2>1. CASE outcome[leader[c]] = Failed
      BY <1>15, <2>1, ConnectionsAssumption
         DEF WakeJoiner, Settle, Return, Throw, End, Failed, Goto, TypeOK, Stages, Asked,
             Steps, table, history
    <2>2. CASE outcome[leader[c]] # Failed
      BY <1>15, <2>2, ConnectionsAssumption
         DEF WakeJoiner, Settle, Return, Throw, End, Failed, Goto, TypeOK, Stages, Asked,
             Steps, table, history
    <2>3. QED
      BY <1>15, <2>1, <2>2 DEF WakeJoiner
  <1>16. CASE UNCHANGED vars
    BY <1>16, ConnectionsAssumption
       DEF vars, TypeOK, Stages, Asked, Steps, Serials, Row, Refresh, table, history
  <1>17. QED
    BY <1>1, <1>2, <1>3, <1>4, <1>5, <1>6, <1>7, <1>8, <1>9, <1>10, <1>11, <1>12, <1>13,
       <1>14, <1>15, <1>16
       DEF Next, Admin, Proceed

\* Every step keeps what a call knows.
LEMMA StagesKept ==
  ASSUME TypeOK, Stages, TypeOK', [Next]_vars
  PROVE  Stages'
  <1>1. ASSUME NEW n \in Names, NEW kind \in Kinds, Connect(n, kind) PROVE Stages'
    BY <1>1, ConnectionsAssumption
       DEF Connect, SetRow, Upserted, TypeOK, Stages, Asked, table, history
  <1>2. ASSUME NEW n \in Names, Disconnect(n) PROVE Stages'
    BY <1>2, ConnectionsAssumption
       DEF Disconnect, SetRow, TypeOK, Stages, Asked, table, history
  <1>3. ASSUME NEW n \in Names, Expire(n) PROVE Stages'
    BY <1>3, ConnectionsAssumption DEF Expire, TypeOK, Stages, Asked, table, history
  <1>4. ASSUME NEW c \in Callers, NEW step \in {"check", "read"}, Begin(c, step) PROVE Stages'
    BY <1>4, ConnectionsAssumption DEF Begin, Goto, TypeOK, Stages, Asked, table, history
  <1>5. ASSUME NEW c \in Callers, CheckDisabled(c) PROVE Stages'
    <2>1. CASE Throw(c)
      BY <1>5, <2>1, ConnectionsAssumption
         DEF CheckDisabled, Throw, End, Goto, TypeOK, Stages, Asked, table, history
    <2>2. CASE Goto(c, "read") /\ UNCHANGED <<snap, leader, fresh, answer, seen>>
      BY <1>5, <2>2, ConnectionsAssumption
         DEF CheckDisabled, Throw, End, Goto, TypeOK, Stages, Asked, table, history
    <2>3. QED
      BY <1>5, <2>1, <2>2 DEF CheckDisabled
  <1>6. ASSUME NEW c \in Callers, Read(c) PROVE Stages'
    <2>1. CASE rows[on[c]] = None
      BY <1>6, <2>1, ConnectionsAssumption
         DEF Read, Throw, End, Goto, TypeOK, Stages, Asked, table, history
    <2>2. CASE rows[on[c]] # None
      BY <1>6, <2>2, ConnectionsAssumption
         DEF Read, Throw, End, Goto, TypeOK, Stages, Asked, table, history
    <2>3. QED
      BY <1>6, <2>1, <2>2 DEF Read
  <1>7. ASSUME NEW c \in Callers, UseStored(c) PROVE Stages'
    BY <1>7, ConnectionsAssumption
       DEF UseStored, Return, End, Goto, TypeOK, Stages, Asked, table, history
  <1>8. ASSUME NEW c \in Callers, NoRefreshToken(c) PROVE Stages'
    BY <1>8, ConnectionsAssumption
       DEF NoRefreshToken, Throw, End, Goto, TypeOK, Stages, Asked, table, history
  <1>9. ASSUME NEW c \in Callers, Join(c) PROVE Stages'
    BY <1>9, ConnectionsAssumption
       DEF Join, SameRefresh, Goto, TypeOK, Stages, Asked, Refresh, table, history
  <1>10. ASSUME NEW c \in Callers, StartRefresh(c) PROVE Stages'
    BY <1>10, ConnectionsAssumption
       DEF StartRefresh, SameRefresh, Goto, TypeOK, Stages, Asked, table, history
  <1>11. ASSUME NEW c \in Callers, ProviderIssues(c) PROVE Stages'
    BY <1>11, ConnectionsAssumption
       DEF ProviderIssues, Goto, TypeOK, Stages, Asked, table, history
  <1>12. ASSUME NEW c \in Callers, ProviderRefuses(c) PROVE Stages'
    BY <1>12, ConnectionsAssumption
       DEF ProviderRefuses, Rejected, Failed, Goto, TypeOK, Stages, Asked, table, history
  <1>13. ASSUME NEW c \in Callers, Store(c) PROVE Stages'
    <2>1. CASE SameRow(c)
      BY <1>13, <2>1, ConnectionsAssumption
         DEF Store, SameRow, Settlement, SetRow, Failed, Goto, TypeOK, Stages, Asked, table,
             history
    <2>2. CASE ~SameRow(c)
      BY <1>13, <2>2, ConnectionsAssumption
         DEF Store, SameRow, Settlement, SetRow, Failed, Goto, TypeOK, Stages, Asked, table,
             history
    <2>3. QED
      BY <1>13, <2>1, <2>2 DEF Store
  <1>14. ASSUME NEW c \in Callers, WakeLeader(c) PROVE Stages'
    <2>1. CASE outcome[c] = Failed
      BY <1>14, <2>1, ConnectionsAssumption
         DEF WakeLeader, Settle, Return, Throw, End, Released, Failed, Goto, TypeOK, Stages,
             Asked, table, history
    <2>2. CASE outcome[c] # Failed
      BY <1>14, <2>2, ConnectionsAssumption
         DEF WakeLeader, Settle, Return, Throw, End, Released, Failed, Goto, TypeOK, Stages,
             Asked, table, history
    <2>3. QED
      BY <1>14, <2>1, <2>2 DEF WakeLeader
  <1>15. ASSUME NEW c \in Callers, WakeJoiner(c) PROVE Stages'
    <2>1. CASE outcome[leader[c]] = Failed
      BY <1>15, <2>1, ConnectionsAssumption
         DEF WakeJoiner, Settle, Return, Throw, End, Failed, Goto, TypeOK, Stages, Asked,
             table, history
    <2>2. CASE outcome[leader[c]] # Failed
      BY <1>15, <2>2, ConnectionsAssumption
         DEF WakeJoiner, Settle, Return, Throw, End, Failed, Goto, TypeOK, Stages, Asked,
             table, history
    <2>3. QED
      BY <1>15, <2>1, <2>2 DEF WakeJoiner
  <1>16. CASE UNCHANGED vars
    BY <1>16, ConnectionsAssumption DEF vars, TypeOK, Stages, Asked, table, history
  <1>17. QED
    BY <1>1, <1>2, <1>3, <1>4, <1>5, <1>6, <1>7, <1>8, <1>9, <1>10, <1>11, <1>12, <1>13,
       <1>14, <1>15, <1>16
       DEF Next, Admin, Proceed

\* Every step only uses serial numbers that have been issued.
LEMMA IssuedKept ==
  ASSUME TypeOK, Stages, Issued, TypeOK', [Next]_vars
  PROVE  Issued'
  <1>1. ASSUME NEW n \in Names, NEW kind \in Kinds, Connect(n, kind) PROVE Issued'
    BY <1>1, ConnectionsAssumption
       DEF Connect, SetRow, Upserted, TypeOK, Stages, Issued, Asked, Serials, Row, table,
           history
  <1>2. ASSUME NEW n \in Names, Disconnect(n) PROVE Issued'
    BY <1>2, ConnectionsAssumption
       DEF Disconnect, SetRow, TypeOK, Stages, Issued, Asked, Serials, Row, table, history
  <1>3. ASSUME NEW n \in Names, Expire(n) PROVE Issued'
    BY <1>3, ConnectionsAssumption
       DEF Expire, TypeOK, Stages, Issued, Asked, Serials, Row, table, history
  <1>4. ASSUME NEW c \in Callers, NEW step \in {"check", "read"}, Begin(c, step) PROVE Issued'
    BY <1>4, ConnectionsAssumption DEF Begin, Goto, TypeOK, Issued, table, history
  <1>5. ASSUME NEW c \in Callers, CheckDisabled(c) PROVE Issued'
    <2>1. CASE Throw(c)
      BY <1>5, <2>1, ConnectionsAssumption
         DEF CheckDisabled, Throw, End, Goto, TypeOK, Issued, table, history
    <2>2. CASE Goto(c, "read") /\ UNCHANGED <<snap, leader, fresh, answer, seen>>
      BY <1>5, <2>2, ConnectionsAssumption
         DEF CheckDisabled, Throw, End, Goto, TypeOK, Issued, table, history
    <2>3. QED
      BY <1>5, <2>1, <2>2 DEF CheckDisabled
  <1>6. ASSUME NEW c \in Callers, Read(c) PROVE Issued'
    <2>1. CASE rows[on[c]] = None
      BY <1>6, <2>1, ConnectionsAssumption
         DEF Read, Throw, End, Goto, TypeOK, Issued, table, history
    <2>2. CASE rows[on[c]] # None
      BY <1>6, <2>2, ConnectionsAssumption
         DEF Read, Throw, End, Goto, TypeOK, Issued, table, history
    <2>3. QED
      BY <1>6, <2>1, <2>2 DEF Read
  <1>7. ASSUME NEW c \in Callers, UseStored(c) PROVE Issued'
    BY <1>7, ConnectionsAssumption
       DEF UseStored, Return, End, Goto, TypeOK, Issued, table, history
  <1>8. ASSUME NEW c \in Callers, NoRefreshToken(c) PROVE Issued'
    BY <1>8, ConnectionsAssumption
       DEF NoRefreshToken, Throw, End, Goto, TypeOK, Issued, table, history
  <1>9. ASSUME NEW c \in Callers, Join(c) PROVE Issued'
    BY <1>9, ConnectionsAssumption
       DEF Join, SameRefresh, Goto, TypeOK, Issued, table, history
  <1>10. ASSUME NEW c \in Callers, StartRefresh(c) PROVE Issued'
    BY <1>10, ConnectionsAssumption
       DEF StartRefresh, SameRefresh, Goto, TypeOK, Stages, Issued, Asked, Serials, Row,
           table, history
  <1>11. ASSUME NEW c \in Callers, ProviderIssues(c) PROVE Issued'
    BY <1>11, ConnectionsAssumption
       DEF ProviderIssues, Goto, TypeOK, Stages, Issued, Asked, Serials, Row, table, history
  <1>12. ASSUME NEW c \in Callers, ProviderRefuses(c) PROVE Issued'
    BY <1>12, ConnectionsAssumption
       DEF ProviderRefuses, Rejected, Failed, Goto, TypeOK, Stages, Issued, Asked, Serials,
           Row, table, history
  <1>13. ASSUME NEW c \in Callers, Store(c) PROVE Issued'
    <2>1. CASE SameRow(c)
      BY <1>13, <2>1, StoreWrites DEF Issued, Stages
    <2>2. CASE ~SameRow(c)
      BY <1>13, <2>2 DEF Store, table, Issued
    <2>3. QED
      BY <2>1, <2>2
  <1>14. ASSUME NEW c \in Callers, WakeLeader(c) PROVE Issued'
    <2>1. CASE outcome[c] = Failed
      BY <1>14, <2>1, ConnectionsAssumption
         DEF WakeLeader, Settle, Return, Throw, End, Released, Failed, Goto, TypeOK, Issued,
             table, history
    <2>2. CASE outcome[c] # Failed
      BY <1>14, <2>2, ConnectionsAssumption
         DEF WakeLeader, Settle, Return, Throw, End, Released, Failed, Goto, TypeOK, Issued,
             table, history
    <2>3. QED
      BY <1>14, <2>1, <2>2 DEF WakeLeader
  <1>15. ASSUME NEW c \in Callers, WakeJoiner(c) PROVE Issued'
    <2>1. CASE outcome[leader[c]] = Failed
      BY <1>15, <2>1, ConnectionsAssumption
         DEF WakeJoiner, Settle, Return, Throw, End, Failed, Goto, TypeOK, Issued, table,
             history
    <2>2. CASE outcome[leader[c]] # Failed
      BY <1>15, <2>2, ConnectionsAssumption
         DEF WakeJoiner, Settle, Return, Throw, End, Failed, Goto, TypeOK, Issued, table,
             history
    <2>3. QED
      BY <1>15, <2>1, <2>2 DEF WakeJoiner
  <1>16. CASE UNCHANGED vars
    BY <1>16, ConnectionsAssumption
       DEF vars, TypeOK, Stages, Issued, Asked, Serials, Row, table, history
  <1>17. QED
    BY <1>1, <1>2, <1>3, <1>4, <1>5, <1>6, <1>7, <1>8, <1>9, <1>10, <1>11, <1>12, <1>13,
       <1>14, <1>15, <1>16
       DEF Next, Admin, Proceed

\* Only four actions touch the table, the connects or the descent.
LEMMA OthersLeaveGrants ==
  ASSUME [Next]_vars
  PROVE  \/ \E n \in Names, kind \in Kinds : Connect(n, kind)
         \/ \E n \in Names : Disconnect(n)
         \/ \E c \in Callers : ProviderIssues(c)
         \/ \E c \in Callers : Store(c)
         \/ UNCHANGED <<rows, grant, root>>
  <1>1. CASE UNCHANGED vars
    BY <1>1 DEF vars, table, history
  <1>2. ASSUME NEW n \in Names, Expire(n) PROVE UNCHANGED <<rows, grant, root>>
    BY <1>2 DEF Expire, table, history
  <1>3. ASSUME NEW c \in Callers, NEW step \in {"check", "read"}, Begin(c, step) PROVE UNCHANGED <<rows, grant, root>>
    BY <1>3 DEF Begin, table, history
  <1>4. ASSUME NEW c \in Callers, CheckDisabled(c) PROVE UNCHANGED <<rows, grant, root>>
    BY <1>4 DEF CheckDisabled, table, history
  <1>5. ASSUME NEW c \in Callers, Read(c) PROVE UNCHANGED <<rows, grant, root>>
    BY <1>5 DEF Read, table, history
  <1>6. ASSUME NEW c \in Callers, UseStored(c) PROVE UNCHANGED <<rows, grant, root>>
    BY <1>6 DEF UseStored, table, history
  <1>7. ASSUME NEW c \in Callers, NoRefreshToken(c) PROVE UNCHANGED <<rows, grant, root>>
    BY <1>7 DEF NoRefreshToken, table, history
  <1>8. ASSUME NEW c \in Callers, Join(c) PROVE UNCHANGED <<rows, grant, root>>
    BY <1>8 DEF Join, table, history
  <1>9. ASSUME NEW c \in Callers, StartRefresh(c) PROVE UNCHANGED <<rows, grant, root>>
    BY <1>9 DEF StartRefresh, table, history
  <1>10. ASSUME NEW c \in Callers, ProviderRefuses(c) PROVE UNCHANGED <<rows, grant, root>>
    BY <1>10 DEF ProviderRefuses, table, history
  <1>11. ASSUME NEW c \in Callers, WakeLeader(c) PROVE UNCHANGED <<rows, grant, root>>
    BY <1>11 DEF WakeLeader, table, history
  <1>12. ASSUME NEW c \in Callers, WakeJoiner(c) PROVE UNCHANGED <<rows, grant, root>>
    BY <1>12 DEF WakeJoiner, table, history
  <1>13. QED
    BY <1>1, <1>2, <1>3, <1>4, <1>5, <1>6, <1>7, <1>8, <1>9, <1>10, <1>11, <1>12
       DEF Next, Admin, Proceed

\* Every step keeps a name's credential a descendant of its latest connect: a
\* new serial number is no row's revision, and Store checks the revision.
LEMMA GrantKept ==
  ASSUME TypeOK, Stages, Issued, LatestGrantKept, Descends, [Next]_vars
  PROVE  LatestGrantKept'
  <1>1. ASSUME NEW n \in Names, NEW kind \in Kinds, Connect(n, kind) PROVE LatestGrantKept'
    <2> DEFINE new == Upserted(n, serial', kind)
    <2>1. /\ serial' = serial + 1 /\ serial' \in Serials
          /\ rows' = [rows EXCEPT ![n] = new]
          /\ grant' = [grant EXCEPT ![n] = serial']
          /\ root' = [root EXCEPT ![serial'] = serial']
      BY <1>1, ConnectionsAssumption DEF Connect, SetRow, Serials, TypeOK
    <2>2. new # None /\ new.rev = serial'
      <3>1. new \in [id : Nat, rev : Nat, kind : Kinds]
        BY <2>1, ConnectionsAssumption DEF Upserted, TypeOK, Row, Serials
      <3>2. QED
        BY <3>1, ConnectionsAssumption DEF Upserted
    <2> HIDE DEF new
    <2>3. ASSUME NEW m \in Names, m # n, rows[m] # None PROVE root'[rows[m].rev] = root[rows[m].rev]
      <3>1. rows[m].rev \in Nat /\ rows[m].rev <= serial /\ serial \in Nat
        BY <2>3, ConnectionsAssumption DEF Issued, TypeOK, Row, Serials
      <3>2. rows[m].rev # serial'
        BY <2>1, <3>1
      <3>3. QED
        BY <2>1, <3>2, <2>3 DEF TypeOK, Row
    <2>4. rows'[n] = new /\ grant'[n] = serial' /\ root'[serial'] = serial'
      BY <2>1 DEF TypeOK
    <2>5. \A m \in Names \ {n} : rows'[m] = rows[m] /\ grant'[m] = grant[m]
      BY <2>1 DEF TypeOK
    <2>6. QED
      BY <2>2, <2>3, <2>4, <2>5 DEF LatestGrantKept
  <1>2. ASSUME NEW n \in Names, Disconnect(n) PROVE LatestGrantKept'
    BY <1>2 DEF Disconnect, SetRow, TypeOK, LatestGrantKept
  <1>3. ASSUME NEW c \in Callers, ProviderIssues(c) PROVE LatestGrantKept'
    <2>1. /\ serial' = serial + 1
          /\ root' = [root EXCEPT ![serial'] = root[snap[c].rev]]
          /\ rows' = rows /\ grant' = grant
      BY <1>3 DEF ProviderIssues
    <2>2. ASSUME NEW m \in Names, rows[m] # None PROVE root'[rows[m].rev] = root[rows[m].rev]
      <3>1. rows[m].rev \in Nat /\ rows[m].rev <= serial /\ serial \in Nat
        BY <2>2, ConnectionsAssumption DEF Issued, TypeOK, Row, Serials
      <3>2. rows[m].rev # serial'
        BY <2>1, <3>1
      <3>3. QED
        BY <2>1, <3>2, <2>2 DEF TypeOK, Row
    <2>3. QED
      BY <2>1, <2>2 DEF LatestGrantKept
  <1>4. ASSUME NEW c \in Callers, Store(c) PROVE LatestGrantKept'
    <2>1. CASE SameRow(c)
      <3>1. root[fresh[c]] = root[rows[on[c]].rev]
        BY <1>4, <2>1, StoreWrites DEF Descends
      <3>2. grant' = grant /\ root' = root
        BY <1>4 DEF Store
      <3>3. QED
        BY <1>4, <2>1, <3>1, <3>2, StoreWrites DEF LatestGrantKept
    <2>2. CASE ~SameRow(c)
      BY <1>4, <2>2 DEF Store, LatestGrantKept
    <2>3. QED
      BY <2>1, <2>2
  <1>5. CASE UNCHANGED <<rows, grant, root>>
    BY <1>5 DEF LatestGrantKept
  <1>6. QED
    BY <1>1, <1>2, <1>3, <1>4, <1>5, OthersLeaveGrants

\* Every step keeps the descent of what is about to be stored.
LEMMA DescentKept ==
  ASSUME TypeOK, Stages, Issued, Descends, TypeOK', [Next]_vars
  PROVE  Descends'
  <1>1. ASSUME NEW n \in Names, NEW kind \in Kinds, Connect(n, kind) PROVE Descends'
    BY <1>1, ConnectionsAssumption
       DEF Connect, SetRow, Upserted, TypeOK, Stages, Issued, Descends, Asked, Serials, Row,
           table, history
  <1>2. ASSUME NEW n \in Names, Disconnect(n) PROVE Descends'
    BY <1>2, ConnectionsAssumption
       DEF Disconnect, SetRow, TypeOK, Stages, Issued, Descends, Asked, Serials, Row, table,
           history
  <1>3. ASSUME NEW n \in Names, Expire(n) PROVE Descends'
    BY <1>3, ConnectionsAssumption
       DEF Expire, TypeOK, Stages, Issued, Descends, Asked, Serials, Row, table, history
  <1>4. ASSUME NEW c \in Callers, NEW step \in {"check", "read"}, Begin(c, step) PROVE Descends'
    BY <1>4, ConnectionsAssumption
       DEF Begin, Goto, TypeOK, Stages, Issued, Descends, Asked, Serials, Row, table,
           history
  <1>5. ASSUME NEW c \in Callers, CheckDisabled(c) PROVE Descends'
    <2>1. CASE Throw(c)
      BY <1>5, <2>1, ConnectionsAssumption
         DEF CheckDisabled, Throw, End, Goto, TypeOK, Stages, Issued, Descends, Asked,
             Serials, Row, table, history
    <2>2. CASE Goto(c, "read") /\ UNCHANGED <<snap, leader, fresh, answer, seen>>
      BY <1>5, <2>2, ConnectionsAssumption
         DEF CheckDisabled, Throw, End, Goto, TypeOK, Stages, Issued, Descends, Asked,
             Serials, Row, table, history
    <2>3. QED
      BY <1>5, <2>1, <2>2 DEF CheckDisabled
  <1>6. ASSUME NEW c \in Callers, Read(c) PROVE Descends'
    <2>1. CASE rows[on[c]] = None
      BY <1>6, <2>1, ConnectionsAssumption
         DEF Read, Throw, End, Goto, TypeOK, Stages, Issued, Descends, Asked, Serials, Row,
             table, history
    <2>2. CASE rows[on[c]] # None
      BY <1>6, <2>2, ConnectionsAssumption
         DEF Read, Throw, End, Goto, TypeOK, Stages, Issued, Descends, Asked, Serials, Row,
             table, history
    <2>3. QED
      BY <1>6, <2>1, <2>2 DEF Read
  <1>7. ASSUME NEW c \in Callers, UseStored(c) PROVE Descends'
    BY <1>7, ConnectionsAssumption
       DEF UseStored, Return, End, Goto, TypeOK, Stages, Issued, Descends, Asked, Serials,
           Row, table, history
  <1>8. ASSUME NEW c \in Callers, NoRefreshToken(c) PROVE Descends'
    BY <1>8, ConnectionsAssumption
       DEF NoRefreshToken, Throw, End, Goto, TypeOK, Stages, Issued, Descends, Asked,
           Serials, Row, table, history
  <1>9. ASSUME NEW c \in Callers, Join(c) PROVE Descends'
    BY <1>9, ConnectionsAssumption
       DEF Join, SameRefresh, Goto, TypeOK, Stages, Issued, Descends, Asked, Serials, Row,
           table, history
  <1>10. ASSUME NEW c \in Callers, StartRefresh(c) PROVE Descends'
    BY <1>10, ConnectionsAssumption
       DEF StartRefresh, SameRefresh, Goto, TypeOK, Stages, Issued, Descends, Asked,
           Serials, Row, table, history
  <1>11. ASSUME NEW c \in Callers, ProviderIssues(c) PROVE Descends'
    BY <1>11, ConnectionsAssumption
       DEF ProviderIssues, Goto, TypeOK, Stages, Issued, Descends, Asked, Serials, Row,
           table, history
  <1>12. ASSUME NEW c \in Callers, ProviderRefuses(c) PROVE Descends'
    BY <1>12, ConnectionsAssumption
       DEF ProviderRefuses, Rejected, Failed, Goto, TypeOK, Stages, Issued, Descends, Asked,
           Serials, Row, table, history
  <1>13. ASSUME NEW c \in Callers, Store(c) PROVE Descends'
    <2>1. CASE SameRow(c)
      BY <1>13, <2>1, ConnectionsAssumption
         DEF Store, SameRow, Settlement, SetRow, Failed, Goto, TypeOK, Stages, Issued,
             Descends, Asked, Serials, Row, table, history
    <2>2. CASE ~SameRow(c)
      BY <1>13, <2>2, ConnectionsAssumption
         DEF Store, SameRow, Settlement, SetRow, Failed, Goto, TypeOK, Stages, Issued,
             Descends, Asked, Serials, Row, table, history
    <2>3. QED
      BY <1>13, <2>1, <2>2 DEF Store
  <1>14. ASSUME NEW c \in Callers, WakeLeader(c) PROVE Descends'
    <2>1. CASE outcome[c] = Failed
      BY <1>14, <2>1, ConnectionsAssumption
         DEF WakeLeader, Settle, Return, Throw, End, Released, Failed, Goto, TypeOK, Stages,
             Issued, Descends, Asked, Serials, Row, table, history
    <2>2. CASE outcome[c] # Failed
      BY <1>14, <2>2, ConnectionsAssumption
         DEF WakeLeader, Settle, Return, Throw, End, Released, Failed, Goto, TypeOK, Stages,
             Issued, Descends, Asked, Serials, Row, table, history
    <2>3. QED
      BY <1>14, <2>1, <2>2 DEF WakeLeader
  <1>15. ASSUME NEW c \in Callers, WakeJoiner(c) PROVE Descends'
    <2>1. CASE outcome[leader[c]] = Failed
      BY <1>15, <2>1, ConnectionsAssumption
         DEF WakeJoiner, Settle, Return, Throw, End, Failed, Goto, TypeOK, Stages, Issued,
             Descends, Asked, Serials, Row, table, history
    <2>2. CASE outcome[leader[c]] # Failed
      BY <1>15, <2>2, ConnectionsAssumption
         DEF WakeJoiner, Settle, Return, Throw, End, Failed, Goto, TypeOK, Stages, Issued,
             Descends, Asked, Serials, Row, table, history
    <2>3. QED
      BY <1>15, <2>1, <2>2 DEF WakeJoiner
  <1>16. CASE UNCHANGED vars
    BY <1>16, ConnectionsAssumption
       DEF vars, TypeOK, Stages, Issued, Descends, Asked, Serials, Row, table, history
  <1>17. QED
    BY <1>1, <1>2, <1>3, <1>4, <1>5, <1>6, <1>7, <1>8, <1>9, <1>10, <1>11, <1>12, <1>13,
       <1>14, <1>15, <1>16
       DEF Next, Admin, Proceed

\* Only two actions touch the map of refreshes.
LEMMA OthersLeaveRefreshes ==
  ASSUME [Next]_vars
  PROVE  \/ \E c \in Callers : StartRefresh(c)
         \/ \E c \in Callers : WakeLeader(c)
         \/ UNCHANGED inflight
  <1>1. CASE UNCHANGED vars
    BY <1>1 DEF vars, table, history
  <1>2. ASSUME NEW n \in Names, NEW kind \in Kinds, Connect(n, kind) PROVE UNCHANGED inflight
    BY <1>2 DEF Connect, SetRow, table, history
  <1>3. ASSUME NEW n \in Names, Disconnect(n) PROVE UNCHANGED inflight
    BY <1>3 DEF Disconnect, SetRow, table, history
  <1>4. ASSUME NEW n \in Names, Expire(n) PROVE UNCHANGED inflight
    BY <1>4 DEF Expire, table, history
  <1>5. ASSUME NEW c \in Callers, NEW step \in {"check", "read"}, Begin(c, step) PROVE UNCHANGED inflight
    BY <1>5 DEF Begin, table, history
  <1>6. ASSUME NEW c \in Callers, CheckDisabled(c) PROVE UNCHANGED inflight
    BY <1>6 DEF CheckDisabled, table, history
  <1>7. ASSUME NEW c \in Callers, Read(c) PROVE UNCHANGED inflight
    BY <1>7 DEF Read, table, history
  <1>8. ASSUME NEW c \in Callers, UseStored(c) PROVE UNCHANGED inflight
    BY <1>8 DEF UseStored, table, history
  <1>9. ASSUME NEW c \in Callers, NoRefreshToken(c) PROVE UNCHANGED inflight
    BY <1>9 DEF NoRefreshToken, table, history
  <1>10. ASSUME NEW c \in Callers, Join(c) PROVE UNCHANGED inflight
    BY <1>10 DEF Join, table, history
  <1>11. ASSUME NEW c \in Callers, ProviderIssues(c) PROVE UNCHANGED inflight
    BY <1>11 DEF ProviderIssues, table, history
  <1>12. ASSUME NEW c \in Callers, ProviderRefuses(c) PROVE UNCHANGED inflight
    BY <1>12 DEF ProviderRefuses, table, history
  <1>13. ASSUME NEW c \in Callers, Store(c) PROVE UNCHANGED inflight
    BY <1>13 DEF Store, SetRow, table, history
  <1>14. ASSUME NEW c \in Callers, WakeJoiner(c) PROVE UNCHANGED inflight
    BY <1>14 DEF WakeJoiner, table, history
  <1>15. QED
    BY <1>1, <1>2, <1>3, <1>4, <1>5, <1>6, <1>7, <1>8, <1>9, <1>10, <1>11, <1>12, <1>13,
       <1>14
       DEF Next, Admin, Proceed

\* Every step keeps one refresh per revision: StartRefresh looks first.
LEMMA RefreshesKept ==
  ASSUME OneRefreshPerRevision, [Next]_vars
  PROVE  OneRefreshPerRevision'
  <1>1. ASSUME NEW c \in Callers, StartRefresh(c) PROVE OneRefreshPerRevision'
    <2> DEFINE e == [id |-> snap[c].id, rev |-> snap[c].rev, by |-> c]
    <2>1. inflight' = inflight \cup {e} /\ e.id = snap[c].id /\ e.rev = snap[c].rev
      BY <1>1 DEF StartRefresh
    <2>2. \A d \in inflight : ~(d.id = snap[c].id /\ d.rev = snap[c].rev)
      BY <1>1 DEF StartRefresh, SameRefresh
    <2> HIDE DEF e
    <2>3. QED
      BY <2>1, <2>2 DEF OneRefreshPerRevision
  <1>2. ASSUME NEW c \in Callers, WakeLeader(c) PROVE OneRefreshPerRevision'
    BY <1>2 DEF WakeLeader, Released, OneRefreshPerRevision
  <1>3. CASE UNCHANGED inflight
    BY <1>3 DEF OneRefreshPerRevision
  <1>4. QED
    BY <1>1, <1>2, <1>3, OthersLeaveRefreshes

\* Every step keeps the map and the calls' steps in agreement.
LEMMA MapKept ==
  ASSUME TypeOK, Stages, MapOfAsked, TypeOK', [Next]_vars
  PROVE  MapOfAsked'
  <1>1. ASSUME NEW n \in Names, NEW kind \in Kinds, Connect(n, kind) PROVE MapOfAsked'
    BY <1>1, ConnectionsAssumption
       DEF Connect, SetRow, Upserted, TypeOK, Stages, MapOfAsked, Asked, Refresh, table,
           history
  <1>2. ASSUME NEW n \in Names, Disconnect(n) PROVE MapOfAsked'
    BY <1>2, ConnectionsAssumption
       DEF Disconnect, SetRow, TypeOK, Stages, MapOfAsked, Asked, Refresh, table, history
  <1>3. ASSUME NEW n \in Names, Expire(n) PROVE MapOfAsked'
    BY <1>3, ConnectionsAssumption
       DEF Expire, TypeOK, Stages, MapOfAsked, Asked, Refresh, table, history
  <1>4. ASSUME NEW c \in Callers, NEW step \in {"check", "read"}, Begin(c, step) PROVE MapOfAsked'
    BY <1>4, ConnectionsAssumption
       DEF Begin, Goto, TypeOK, Stages, MapOfAsked, Asked, Refresh, table, history
  <1>5. ASSUME NEW c \in Callers, CheckDisabled(c) PROVE MapOfAsked'
    <2>1. CASE Throw(c)
      BY <1>5, <2>1, ConnectionsAssumption
         DEF CheckDisabled, Throw, End, Goto, TypeOK, Stages, MapOfAsked, Asked, Refresh,
             table, history
    <2>2. CASE Goto(c, "read") /\ UNCHANGED <<snap, leader, fresh, answer, seen>>
      BY <1>5, <2>2, ConnectionsAssumption
         DEF CheckDisabled, Throw, End, Goto, TypeOK, Stages, MapOfAsked, Asked, Refresh,
             table, history
    <2>3. QED
      BY <1>5, <2>1, <2>2 DEF CheckDisabled
  <1>6. ASSUME NEW c \in Callers, Read(c) PROVE MapOfAsked'
    <2>1. CASE rows[on[c]] = None
      BY <1>6, <2>1, ConnectionsAssumption
         DEF Read, Throw, End, Goto, TypeOK, Stages, MapOfAsked, Asked, Refresh, table,
             history
    <2>2. CASE rows[on[c]] # None
      BY <1>6, <2>2, ConnectionsAssumption
         DEF Read, Throw, End, Goto, TypeOK, Stages, MapOfAsked, Asked, Refresh, table,
             history
    <2>3. QED
      BY <1>6, <2>1, <2>2 DEF Read
  <1>7. ASSUME NEW c \in Callers, UseStored(c) PROVE MapOfAsked'
    BY <1>7, ConnectionsAssumption
       DEF UseStored, Return, End, Goto, TypeOK, Stages, MapOfAsked, Asked, Refresh, table,
           history
  <1>8. ASSUME NEW c \in Callers, NoRefreshToken(c) PROVE MapOfAsked'
    BY <1>8, ConnectionsAssumption
       DEF NoRefreshToken, Throw, End, Goto, TypeOK, Stages, MapOfAsked, Asked, Refresh,
           table, history
  <1>9. ASSUME NEW c \in Callers, Join(c) PROVE MapOfAsked'
    BY <1>9, ConnectionsAssumption
       DEF Join, SameRefresh, Goto, TypeOK, Stages, MapOfAsked, Asked, Refresh, table,
           history
  <1>10. ASSUME NEW c \in Callers, StartRefresh(c) PROVE MapOfAsked'
    <2> DEFINE e == [id |-> snap[c].id, rev |-> snap[c].rev, by |-> c]
    <2>1. inflight' = inflight \cup {e} /\ snap' = snap
      BY <1>10 DEF StartRefresh
    <2>2. pc'[c] = "asking" /\ \A d \in Callers \ {c} : pc'[d] = pc[d]
      BY <1>10 DEF StartRefresh, Goto, TypeOK
    <2>3. \A f \in inflight : f.by \in Callers \ {c}
      BY <1>10 DEF StartRefresh, MapOfAsked, Asked, TypeOK, Refresh
    <2>4. \A f \in inflight' : pc'[f.by] \in Asked /\ snap'[f.by].id = f.id /\ snap'[f.by].rev = f.rev
      BY <2>1, <2>2, <2>3 DEF MapOfAsked, Asked
    <2>5. e \in inflight' /\ e.by = c
      BY <2>1
    <2>6. \A d \in Callers \ {c} : pc'[d] \in Asked => \E f \in inflight : f.by = d
      BY <2>2 DEF MapOfAsked
    <2> HIDE DEF e
    <2>7. \A d \in Callers : pc'[d] \in Asked => \E f \in inflight' : f.by = d
      BY <2>1, <2>5, <2>6
    <2>8. QED
      BY <2>4, <2>7 DEF MapOfAsked
  <1>11. ASSUME NEW c \in Callers, ProviderIssues(c) PROVE MapOfAsked'
    BY <1>11, ConnectionsAssumption
       DEF ProviderIssues, Goto, TypeOK, Stages, MapOfAsked, Asked, Refresh, table, history
  <1>12. ASSUME NEW c \in Callers, ProviderRefuses(c) PROVE MapOfAsked'
    BY <1>12, ConnectionsAssumption
       DEF ProviderRefuses, Rejected, Failed, Goto, TypeOK, Stages, MapOfAsked, Asked,
           Refresh, table, history
  <1>13. ASSUME NEW c \in Callers, Store(c) PROVE MapOfAsked'
    <2>1. CASE SameRow(c)
      BY <1>13, <2>1, ConnectionsAssumption
         DEF Store, SameRow, Settlement, SetRow, Failed, Goto, TypeOK, Stages, MapOfAsked,
             Asked, Refresh, table, history
    <2>2. CASE ~SameRow(c)
      BY <1>13, <2>2, ConnectionsAssumption
         DEF Store, SameRow, Settlement, SetRow, Failed, Goto, TypeOK, Stages, MapOfAsked,
             Asked, Refresh, table, history
    <2>3. QED
      BY <1>13, <2>1, <2>2 DEF Store
  <1>14. ASSUME NEW c \in Callers, WakeLeader(c) PROVE MapOfAsked'
    <2>1. CASE outcome[c] = Failed
      BY <1>14, <2>1, ConnectionsAssumption
         DEF WakeLeader, Settle, Return, Throw, End, Released, Failed, Goto, TypeOK, Stages,
             MapOfAsked, Asked, Refresh, table, history
    <2>2. CASE outcome[c] # Failed
      BY <1>14, <2>2, ConnectionsAssumption
         DEF WakeLeader, Settle, Return, Throw, End, Released, Failed, Goto, TypeOK, Stages,
             MapOfAsked, Asked, Refresh, table, history
    <2>3. QED
      BY <1>14, <2>1, <2>2 DEF WakeLeader
  <1>15. ASSUME NEW c \in Callers, WakeJoiner(c) PROVE MapOfAsked'
    <2>1. CASE outcome[leader[c]] = Failed
      BY <1>15, <2>1, ConnectionsAssumption
         DEF WakeJoiner, Settle, Return, Throw, End, Failed, Goto, TypeOK, Stages,
             MapOfAsked, Asked, Refresh, table, history
    <2>2. CASE outcome[leader[c]] # Failed
      BY <1>15, <2>2, ConnectionsAssumption
         DEF WakeJoiner, Settle, Return, Throw, End, Failed, Goto, TypeOK, Stages,
             MapOfAsked, Asked, Refresh, table, history
    <2>3. QED
      BY <1>15, <2>1, <2>2 DEF WakeJoiner
  <1>16. CASE UNCHANGED vars
    BY <1>16, ConnectionsAssumption
       DEF vars, TypeOK, Stages, MapOfAsked, Asked, Refresh, table, history
  <1>17. QED
    BY <1>1, <1>2, <1>3, <1>4, <1>5, <1>6, <1>7, <1>8, <1>9, <1>10, <1>11, <1>12, <1>13,
       <1>14, <1>15, <1>16
       DEF Next, Admin, Proceed

-------------------------------------------------------------------------------
\* The inductive invariant. The grant of a name says something of a stored
\* credential only if serials are fresh and a refresh remembers its descent.
IInv ==
    /\ TypeOK /\ Stages /\ Issued
    /\ LatestGrantKept /\ Descends
    /\ OneRefreshPerRevision /\ MapOfAsked

\* The initial states satisfy it.
LEMMA InitEstablishes == Init => IInv
  <1> SUFFICES ASSUME Init PROVE IInv
    OBVIOUS
  <1>1. TypeOK
    BY ConnectionsAssumption DEF Init, TypeOK, Steps, Serials
  <1>2. Stages /\ Issued /\ Descends
    BY DEF Init, Stages, Issued, Descends, Asked
  <1>3. LatestGrantKept
    BY DEF Init, LatestGrantKept
  <1>4. OneRefreshPerRevision /\ MapOfAsked
    BY DEF Init, OneRefreshPerRevision, MapOfAsked, Asked
  <1>5. QED
    BY <1>1, <1>2, <1>3, <1>4 DEF IInv

\* Every step keeps it.
LEMMA StepKeeps == IInv /\ [Next]_vars => IInv'
  <1> SUFFICES ASSUME IInv, [Next]_vars PROVE IInv'
    OBVIOUS
  <1>1. TypeOK'
    BY TypesKept DEF IInv
  <1>2. Stages'
    BY <1>1, StagesKept DEF IInv
  <1>3. Issued'
    BY <1>1, IssuedKept DEF IInv
  <1>4. LatestGrantKept'
    BY GrantKept DEF IInv
  <1>5. Descends'
    BY <1>1, DescentKept DEF IInv
  <1>6. OneRefreshPerRevision'
    BY RefreshesKept DEF IInv
  <1>7. MapOfAsked'
    BY <1>1, MapKept DEF IInv
  <1>8. QED
    BY <1>1, <1>2, <1>3, <1>4, <1>5, <1>6, <1>7 DEF IInv

\* It holds in every reachable state.
LEMMA AlwaysIInv == Spec => []IInv
  <1>1. Init => IInv
    BY InitEstablishes
  <1>2. IInv /\ [Next]_vars => IInv'
    BY StepKeeps
  <1>3. QED
    BY <1>1, <1>2, PTL DEF Spec

\* The map's callers are those at a step in Asked.
LEMMA MapIsExact ==
  ASSUME TypeOK, MapOfAsked
  PROVE  RefreshMapExact
  <1>1. \A e \in inflight : e.by \in Callers
    BY DEF TypeOK, Refresh
  <1>2. QED
    BY <1>1 DEF MapOfAsked, RefreshMapExact, Asked

-------------------------------------------------------------------------------
\* Every variable keeps its type, and a settled call has an outcome.
THEOREM TypeCorrect == Spec => []TypeOK
  <1>1. IInv => TypeOK
    BY DEF IInv
  <1>2. QED
    BY <1>1, AlwaysIInv, PTL

\* Whatever credential a name holds descends from the latest connect of that
\* name, however updateCredential and the people who connect, reconnect and
\* disconnect interleave.
THEOREM GrantsKept == Spec => []LatestGrantKept
  <1>1. IInv => LatestGrantKept
    BY DEF IInv
  <1>2. QED
    BY <1>1, AlwaysIInv, PTL

\* oauthCredentialRefreshes never holds two refreshes of one row revision.
THEOREM RefreshesShared == Spec => []OneRefreshPerRevision
  <1>1. IInv => OneRefreshPerRevision
    BY DEF IInv
  <1>2. QED
    BY <1>1, AlwaysIInv, PTL

\* oauthCredentialRefreshes holds exactly the refreshes under way: none is left
\* behind by a failure, none is released while it runs.
THEOREM MapCorrect == Spec => []RefreshMapExact
  <1>1. IInv => RefreshMapExact
    BY MapIsExact DEF IInv
  <1>2. QED
    BY <1>1, AlwaysIInv, PTL

-------------------------------------------------------------------------------
(* What a call returns                                                     *)

\* The steps at which a call has read its row.
Staged == {"decode", "joined"} \cup Asked

\* An id is of one name: among the rows, and the rows that calls have read.
OneNamePerId ==
    /\ \A m, n \in Names :
          rows[m] # None /\ rows[n] # None /\ rows[m].id = rows[n].id => m = n
    /\ \A n \in Names, c \in Callers :
          rows[n] # None /\ snap[c] # None /\ rows[n].id = snap[c].id => on[c] = n
    /\ \A c, d \in Callers :
          snap[c] # None /\ snap[d] # None /\ snap[c].id = snap[d].id => on[c] = on[d]

\* A credential just issued is not yet in any row, read or refresh but its own.
Unstored ==
    \A c \in Callers : pc[c] = "storing" =>
       /\ \A n \in Names : rows[n] # None => rows[n].rev # fresh[c]
       /\ \A d \in Callers : snap[d] # None => snap[d].rev # fresh[c]
       /\ \A d \in Callers \ {c} : pc[d] = "storing" => fresh[d] # fresh[c]

\* The history of a call has the row's credential and the one the call read.
Held ==
    \A c \in Callers :
       /\ Active(c) /\ rows[on[c]] # None => rows[on[c]].rev \in seen[c]
       /\ pc[c] \in Staged => snap[c].rev \in seen[c]

\* A call's promise has no outcome before it settles.
Unsettling == \A c \in Callers : pc[c] \notin {"settled", "done", "error"} => outcome[c] = None

\* The refresh of d has settled with a credential.
Stored(d) == pc[d] = "settled" /\ outcome[d] # Failed

\* The row has moved on from the revision of a refresh that succeeded, so no
\* call can read that revision any more and join it.
Superseded ==
    \A d \in Callers, n \in Names :
       Stored(d) /\ rows[n] # None /\ rows[n].id = snap[d].id => rows[n].rev # snap[d].rev

\* Whoever has read the revision of a refresh that succeeded, and may still
\* join it, was there when its credential was stored.
SharedHeld ==
    \A c, d \in Callers :
       Stored(d) /\ pc[c] \in Staged /\ snap[c].id = snap[d].id /\ snap[c].rev = snap[d].rev
          => outcome[d] \in seen[c]

\* What a leader gives to those who joined it, they have held.
JoinedHeld ==
    \A c \in Callers : pc[c] = "joined" =>
       on[leader[c]] = on[c] /\ outcome[leader[c]] \in {None, Failed} \cup seen[c]

-------------------------------------------------------------------------------
\* Every step keeps an id to one name.
LEMMA NamesKept ==
  ASSUME TypeOK, Stages, Issued, OneNamePerId, TypeOK', [Next]_vars
  PROVE  OneNamePerId'
  <1>1. ASSUME NEW n \in Names, NEW kind \in Kinds, Connect(n, kind) PROVE OneNamePerId'
    BY <1>1, ConnectionsAssumption
       DEF Connect, SetRow, Upserted, TypeOK, Stages, Asked, Issued, OneNamePerId, Row,
           Serials, table, history
  <1>2. ASSUME NEW n \in Names, Disconnect(n) PROVE OneNamePerId'
    BY <1>2 DEF Disconnect, SetRow, TypeOK, OneNamePerId, table, history
  <1>3. ASSUME NEW n \in Names, Expire(n) PROVE OneNamePerId'
    BY <1>3 DEF Expire, TypeOK, OneNamePerId, table, history
  <1>4. ASSUME NEW c \in Callers, NEW step \in {"check", "read"}, Begin(c, step) PROVE OneNamePerId'
    BY <1>4 DEF Begin, Goto, TypeOK, OneNamePerId, table, history
  <1>5. ASSUME NEW c \in Callers, CheckDisabled(c) PROVE OneNamePerId'
    <2>1. CASE Throw(c)
      BY <1>5, <2>1
         DEF CheckDisabled, Throw, End, Goto, TypeOK, OneNamePerId, table, history
    <2>2. CASE Goto(c, "read") /\ UNCHANGED <<snap, leader, fresh, answer, seen>>
      BY <1>5, <2>2
         DEF CheckDisabled, Throw, End, Goto, TypeOK, OneNamePerId, table, history
    <2>3. QED
      BY <1>5, <2>1, <2>2 DEF CheckDisabled
  <1>6. ASSUME NEW c \in Callers, Read(c) PROVE OneNamePerId'
    <2>1. CASE rows[on[c]] = None
      BY <1>6, <2>1, CallEnds DEF OneNamePerId
    <2>2. CASE rows[on[c]] # None
      BY <1>6, <2>2, ReadTakes DEF OneNamePerId
    <2>3. QED
      BY <2>1, <2>2
  <1>7. ASSUME NEW c \in Callers, UseStored(c) PROVE OneNamePerId'
    BY <1>7 DEF UseStored, Return, End, Goto, TypeOK, OneNamePerId, table, history
  <1>8. ASSUME NEW c \in Callers, NoRefreshToken(c) PROVE OneNamePerId'
    BY <1>8 DEF NoRefreshToken, Throw, End, Goto, TypeOK, OneNamePerId, table, history
  <1>9. ASSUME NEW c \in Callers, Join(c) PROVE OneNamePerId'
    BY <1>9 DEF Join, SameRefresh, Goto, TypeOK, OneNamePerId, table, history
  <1>10. ASSUME NEW c \in Callers, StartRefresh(c) PROVE OneNamePerId'
    BY <1>10 DEF StartRefresh, SameRefresh, Goto, TypeOK, OneNamePerId, table, history
  <1>11. ASSUME NEW c \in Callers, ProviderIssues(c) PROVE OneNamePerId'
    BY <1>11 DEF ProviderIssues, Goto, TypeOK, OneNamePerId, table, history
  <1>12. ASSUME NEW c \in Callers, ProviderRefuses(c) PROVE OneNamePerId'
    BY <1>12
       DEF ProviderRefuses, Rejected, Failed, Goto, TypeOK, OneNamePerId, table, history
  <1>13. ASSUME NEW c \in Callers, Store(c) PROVE OneNamePerId'
    <2>1. CASE SameRow(c)
      BY <1>13, <2>1, StoreWrites DEF OneNamePerId, Stages, Asked
    <2>2. CASE ~SameRow(c)
      BY <1>13, <2>2 DEF Store, Settlement, Failed, Goto, table, TypeOK, OneNamePerId
    <2>3. QED
      BY <2>1, <2>2
  <1>14. ASSUME NEW c \in Callers, WakeLeader(c) PROVE OneNamePerId'
    BY <1>14, CallEnds DEF OneNamePerId
  <1>15. ASSUME NEW c \in Callers, WakeJoiner(c) PROVE OneNamePerId'
    BY <1>15, CallEnds DEF OneNamePerId
  <1>16. CASE UNCHANGED vars
    BY <1>16 DEF vars, TypeOK, OneNamePerId, table, history
  <1>17. QED
    BY <1>1, <1>2, <1>3, <1>4, <1>5, <1>6, <1>7, <1>8, <1>9, <1>10, <1>11, <1>12, <1>13,
       <1>14, <1>15, <1>16
       DEF Next, Admin, Proceed

\* Every step keeps the credentials just issued out of the table.
LEMMA UnstoredKept ==
  ASSUME TypeOK, Stages, Issued, Unstored, TypeOK', [Next]_vars
  PROVE  Unstored'
  <1>1. ASSUME NEW n \in Names, NEW kind \in Kinds, Connect(n, kind) PROVE Unstored'
    BY <1>1, ConnectionsAssumption
       DEF Connect, SetRow, Upserted, TypeOK, Stages, Asked, Issued, Unstored, Row, Serials,
           table, history
  <1>2. ASSUME NEW n \in Names, Disconnect(n) PROVE Unstored'
    BY <1>2 DEF Disconnect, SetRow, TypeOK, Unstored, table, history
  <1>3. ASSUME NEW n \in Names, Expire(n) PROVE Unstored'
    BY <1>3 DEF Expire, TypeOK, Unstored, table, history
  <1>4. ASSUME NEW c \in Callers, NEW step \in {"check", "read"}, Begin(c, step) PROVE Unstored'
    BY <1>4 DEF Begin, Goto, TypeOK, Unstored, table, history
  <1>5. ASSUME NEW c \in Callers, CheckDisabled(c) PROVE Unstored'
    <2>1. CASE Throw(c)
      BY <1>5, <2>1 DEF CheckDisabled, Throw, End, Goto, TypeOK, Unstored, table, history
    <2>2. CASE Goto(c, "read") /\ UNCHANGED <<snap, leader, fresh, answer, seen>>
      BY <1>5, <2>2 DEF CheckDisabled, Throw, End, Goto, TypeOK, Unstored, table, history
    <2>3. QED
      BY <1>5, <2>1, <2>2 DEF CheckDisabled
  <1>6. ASSUME NEW c \in Callers, Read(c) PROVE Unstored'
    <2>1. CASE rows[on[c]] = None
      BY <1>6, <2>1, CallEnds DEF Unstored
    <2>2. CASE rows[on[c]] # None
      BY <1>6, <2>2, ReadTakes DEF Unstored
    <2>3. QED
      BY <2>1, <2>2
  <1>7. ASSUME NEW c \in Callers, UseStored(c) PROVE Unstored'
    BY <1>7 DEF UseStored, Return, End, Goto, TypeOK, Unstored, table, history
  <1>8. ASSUME NEW c \in Callers, NoRefreshToken(c) PROVE Unstored'
    BY <1>8 DEF NoRefreshToken, Throw, End, Goto, TypeOK, Unstored, table, history
  <1>9. ASSUME NEW c \in Callers, Join(c) PROVE Unstored'
    BY <1>9 DEF Join, SameRefresh, Goto, TypeOK, Unstored, table, history
  <1>10. ASSUME NEW c \in Callers, StartRefresh(c) PROVE Unstored'
    BY <1>10 DEF StartRefresh, SameRefresh, Goto, TypeOK, Unstored, table, history
  <1>11. ASSUME NEW c \in Callers, ProviderIssues(c) PROVE Unstored'
    BY <1>11, ConnectionsAssumption
       DEF ProviderIssues, Goto, TypeOK, Stages, Asked, Issued, Unstored, Row, Serials,
           table, history
  <1>12. ASSUME NEW c \in Callers, ProviderRefuses(c) PROVE Unstored'
    BY <1>12 DEF ProviderRefuses, Rejected, Failed, Goto, TypeOK, Unstored, table, history
  <1>13. ASSUME NEW c \in Callers, Store(c) PROVE Unstored'
    <2>1. CASE SameRow(c)
      BY <1>13, <2>1, StoreWrites DEF Unstored
    <2>2. CASE ~SameRow(c)
      BY <1>13, <2>2 DEF Store, Settlement, Failed, Goto, table, TypeOK, Unstored
    <2>3. QED
      BY <2>1, <2>2
  <1>14. ASSUME NEW c \in Callers, WakeLeader(c) PROVE Unstored'
    BY <1>14, CallEnds DEF Unstored
  <1>15. ASSUME NEW c \in Callers, WakeJoiner(c) PROVE Unstored'
    BY <1>15, CallEnds DEF Unstored
  <1>16. CASE UNCHANGED vars
    BY <1>16 DEF vars, TypeOK, Unstored, table, history
  <1>17. QED
    BY <1>1, <1>2, <1>3, <1>4, <1>5, <1>6, <1>7, <1>8, <1>9, <1>10, <1>11, <1>12, <1>13,
       <1>14, <1>15, <1>16
       DEF Next, Admin, Proceed

\* Every step keeps the histories complete.
LEMMA HeldKept ==
  ASSUME TypeOK, Stages, Held, TypeOK', [Next]_vars
  PROVE  Held'
  <1>1. ASSUME NEW n \in Names, NEW kind \in Kinds, Connect(n, kind) PROVE Held'
    BY <1>1 DEF Connect, SetRow, Upserted, TypeOK, Staged, Held, Active, table, history
  <1>2. ASSUME NEW n \in Names, Disconnect(n) PROVE Held'
    BY <1>2 DEF Disconnect, SetRow, TypeOK, Staged, Held, Active, table, history
  <1>3. ASSUME NEW n \in Names, Expire(n) PROVE Held'
    BY <1>3 DEF Expire, TypeOK, Staged, Held, Active, table, history
  <1>4. ASSUME NEW c \in Callers, NEW step \in {"check", "read"}, Begin(c, step) PROVE Held'
    BY <1>4, ConnectionsAssumption
       DEF Begin, Goto, TypeOK, Stages, Staged, Asked, Held, Active, Row, table, history
  <1>5. ASSUME NEW c \in Callers, CheckDisabled(c) PROVE Held'
    <2>1. CASE Throw(c)
      BY <1>5, <2>1, ConnectionsAssumption
         DEF CheckDisabled, Throw, End, Goto, TypeOK, Stages, Staged, Asked, Held, Active,
             Row, table, history
    <2>2. CASE Goto(c, "read") /\ UNCHANGED <<snap, leader, fresh, answer, seen>>
      BY <1>5, <2>2, ConnectionsAssumption
         DEF CheckDisabled, Throw, End, Goto, TypeOK, Stages, Staged, Asked, Held, Active,
             Row, table, history
    <2>3. QED
      BY <1>5, <2>1, <2>2 DEF CheckDisabled
  <1>6. ASSUME NEW c \in Callers, Read(c) PROVE Held'
    <2>1. CASE rows[on[c]] = None
      BY <1>6, <2>1, ConnectionsAssumption
         DEF Read, Throw, End, Goto, TypeOK, Stages, Staged, Asked, Held, Active, Row,
             table, history
    <2>2. CASE rows[on[c]] # None
      BY <1>6, <2>2
         DEF Read, Throw, End, Goto, TypeOK, Staged, Held, Active, table, history
    <2>3. QED
      BY <1>6, <2>1, <2>2 DEF Read
  <1>7. ASSUME NEW c \in Callers, UseStored(c) PROVE Held'
    BY <1>7, ConnectionsAssumption
       DEF UseStored, Return, End, Goto, TypeOK, Stages, Staged, Asked, Held, Active, Row,
           table, history
  <1>8. ASSUME NEW c \in Callers, NoRefreshToken(c) PROVE Held'
    BY <1>8, ConnectionsAssumption
       DEF NoRefreshToken, Throw, End, Goto, TypeOK, Stages, Staged, Asked, Held, Active,
           Row, table, history
  <1>9. ASSUME NEW c \in Callers, Join(c) PROVE Held'
    BY <1>9 DEF Join, SameRefresh, Goto, TypeOK, Staged, Held, Active, table, history
  <1>10. ASSUME NEW c \in Callers, StartRefresh(c) PROVE Held'
    BY <1>10
       DEF StartRefresh, SameRefresh, Goto, TypeOK, Staged, Held, Active, table, history
  <1>11. ASSUME NEW c \in Callers, ProviderIssues(c) PROVE Held'
    BY <1>11, ConnectionsAssumption
       DEF ProviderIssues, Goto, TypeOK, Stages, Staged, Asked, Held, Active, Row, table,
           history
  <1>12. ASSUME NEW c \in Callers, ProviderRefuses(c) PROVE Held'
    BY <1>12, ConnectionsAssumption
       DEF ProviderRefuses, Rejected, Failed, Goto, TypeOK, Stages, Staged, Asked, Held,
           Active, Row, table, history
  <1>13. ASSUME NEW c \in Callers, Store(c) PROVE Held'
    <2>1. CASE SameRow(c)
      BY <1>13, <2>1, StoreWrites DEF Held, Active, Staged, Asked, TypeOK
    <2>2. CASE ~SameRow(c)
      BY <1>13, <2>2, ConnectionsAssumption
         DEF Store, Settlement, Failed, Goto, table, TypeOK, Held, Active, Staged, Asked
    <2>3. QED
      BY <2>1, <2>2
  <1>14. ASSUME NEW c \in Callers, WakeLeader(c) PROVE Held'
    <2>1. CASE outcome[c] = Failed
      BY <1>14, <2>1, ConnectionsAssumption
         DEF WakeLeader, Settle, Return, Throw, End, Released, Failed, Goto, TypeOK, Stages,
             Staged, Asked, Held, Active, Row, table, history
    <2>2. CASE outcome[c] # Failed
      BY <1>14, <2>2, ConnectionsAssumption
         DEF WakeLeader, Settle, Return, Throw, End, Released, Failed, Goto, TypeOK, Stages,
             Staged, Asked, Held, Active, Row, table, history
    <2>3. QED
      BY <1>14, <2>1, <2>2 DEF WakeLeader
  <1>15. ASSUME NEW c \in Callers, WakeJoiner(c) PROVE Held'
    <2>1. CASE outcome[leader[c]] = Failed
      BY <1>15, <2>1, ConnectionsAssumption
         DEF WakeJoiner, Settle, Return, Throw, End, Failed, Goto, TypeOK, Stages, Staged,
             Asked, Held, Active, Row, table, history
    <2>2. CASE outcome[leader[c]] # Failed
      BY <1>15, <2>2, ConnectionsAssumption
         DEF WakeJoiner, Settle, Return, Throw, End, Failed, Goto, TypeOK, Stages, Staged,
             Asked, Held, Active, Row, table, history
    <2>3. QED
      BY <1>15, <2>1, <2>2 DEF WakeJoiner
  <1>16. CASE UNCHANGED vars
    BY <1>16 DEF vars, TypeOK, Staged, Held, Active, table, history
  <1>17. QED
    BY <1>1, <1>2, <1>3, <1>4, <1>5, <1>6, <1>7, <1>8, <1>9, <1>10, <1>11, <1>12, <1>13,
       <1>14, <1>15, <1>16
       DEF Next, Admin, Proceed

\* Every step leaves the promises of unsettled calls alone.
LEMMA UnsettlingKept ==
  ASSUME TypeOK, Unsettling, [Next]_vars
  PROVE  Unsettling'
  <1>1. ASSUME NEW n \in Names, NEW kind \in Kinds, Connect(n, kind) PROVE Unsettling'
    BY <1>1 DEF Connect, SetRow, Upserted, TypeOK, Unsettling, Steps, table, history
  <1>2. ASSUME NEW n \in Names, Disconnect(n) PROVE Unsettling'
    BY <1>2 DEF Disconnect, SetRow, TypeOK, Unsettling, Steps, table, history
  <1>3. ASSUME NEW n \in Names, Expire(n) PROVE Unsettling'
    BY <1>3 DEF Expire, TypeOK, Unsettling, Steps, table, history
  <1>4. ASSUME NEW c \in Callers, NEW step \in {"check", "read"}, Begin(c, step) PROVE Unsettling'
    BY <1>4 DEF Begin, Goto, TypeOK, Unsettling, Steps, table, history
  <1>5. ASSUME NEW c \in Callers, CheckDisabled(c) PROVE Unsettling'
    <2>1. CASE Throw(c)
      BY <1>5, <2>1
         DEF CheckDisabled, Throw, End, Goto, TypeOK, Unsettling, Steps, table, history
    <2>2. CASE Goto(c, "read") /\ UNCHANGED <<snap, leader, fresh, answer, seen>>
      BY <1>5, <2>2
         DEF CheckDisabled, Throw, End, Goto, TypeOK, Unsettling, Steps, table, history
    <2>3. QED
      BY <1>5, <2>1, <2>2 DEF CheckDisabled
  <1>6. ASSUME NEW c \in Callers, Read(c) PROVE Unsettling'
    <2>1. CASE rows[on[c]] = None
      BY <1>6, <2>1 DEF Read, Throw, End, Goto, TypeOK, Unsettling, Steps, table, history
    <2>2. CASE rows[on[c]] # None
      BY <1>6, <2>2 DEF Read, Throw, End, Goto, TypeOK, Unsettling, Steps, table, history
    <2>3. QED
      BY <1>6, <2>1, <2>2 DEF Read
  <1>7. ASSUME NEW c \in Callers, UseStored(c) PROVE Unsettling'
    BY <1>7 DEF UseStored, Return, End, Goto, TypeOK, Unsettling, Steps, table, history
  <1>8. ASSUME NEW c \in Callers, NoRefreshToken(c) PROVE Unsettling'
    BY <1>8
       DEF NoRefreshToken, Throw, End, Goto, TypeOK, Unsettling, Steps, table, history
  <1>9. ASSUME NEW c \in Callers, Join(c) PROVE Unsettling'
    BY <1>9 DEF Join, SameRefresh, Goto, TypeOK, Unsettling, Steps, table, history
  <1>10. ASSUME NEW c \in Callers, StartRefresh(c) PROVE Unsettling'
    BY <1>10
       DEF StartRefresh, SameRefresh, Goto, TypeOK, Unsettling, Steps, table, history
  <1>11. ASSUME NEW c \in Callers, ProviderIssues(c) PROVE Unsettling'
    BY <1>11 DEF ProviderIssues, Goto, TypeOK, Unsettling, Steps, table, history
  <1>12. ASSUME NEW c \in Callers, ProviderRefuses(c) PROVE Unsettling'
    BY <1>12
       DEF ProviderRefuses, Rejected, Failed, Goto, TypeOK, Unsettling, Steps, table,
           history
  <1>13. ASSUME NEW c \in Callers, Store(c) PROVE Unsettling'
    <2>1. CASE SameRow(c)
      BY <1>13, <2>1
         DEF Store, SameRow, Settlement, SetRow, Failed, Goto, TypeOK, Unsettling, Steps,
             table, history
    <2>2. CASE ~SameRow(c)
      BY <1>13, <2>2
         DEF Store, SameRow, Settlement, SetRow, Failed, Goto, TypeOK, Unsettling, Steps,
             table, history
    <2>3. QED
      BY <1>13, <2>1, <2>2 DEF Store
  <1>14. ASSUME NEW c \in Callers, WakeLeader(c) PROVE Unsettling'
    <2>1. CASE outcome[c] = Failed
      BY <1>14, <2>1
         DEF WakeLeader, Settle, Return, Throw, End, Released, Failed, Goto, TypeOK,
             Unsettling, Steps, table, history
    <2>2. CASE outcome[c] # Failed
      BY <1>14, <2>2
         DEF WakeLeader, Settle, Return, Throw, End, Released, Failed, Goto, TypeOK,
             Unsettling, Steps, table, history
    <2>3. QED
      BY <1>14, <2>1, <2>2 DEF WakeLeader
  <1>15. ASSUME NEW c \in Callers, WakeJoiner(c) PROVE Unsettling'
    <2>1. CASE outcome[leader[c]] = Failed
      BY <1>15, <2>1
         DEF WakeJoiner, Settle, Return, Throw, End, Failed, Goto, TypeOK, Unsettling,
             Steps, table, history
    <2>2. CASE outcome[leader[c]] # Failed
      BY <1>15, <2>2
         DEF WakeJoiner, Settle, Return, Throw, End, Failed, Goto, TypeOK, Unsettling,
             Steps, table, history
    <2>3. QED
      BY <1>15, <2>1, <2>2 DEF WakeJoiner
  <1>16. CASE UNCHANGED vars
    BY <1>16 DEF vars, TypeOK, Unsettling, Steps, table, history
  <1>17. QED
    BY <1>1, <1>2, <1>3, <1>4, <1>5, <1>6, <1>7, <1>8, <1>9, <1>10, <1>11, <1>12, <1>13,
       <1>14, <1>15, <1>16
       DEF Next, Admin, Proceed

\* No step brings a superseded revision back.
LEMMA SupersededKept ==
  ASSUME TypeOK, Stages, Issued, OneNamePerId, Unstored, Superseded, TypeOK', [Next]_vars
  PROVE  Superseded'
  <1>1. ASSUME NEW n \in Names, NEW kind \in Kinds, Connect(n, kind) PROVE Superseded'
    BY <1>1, ConnectionsAssumption
       DEF Connect, SetRow, Upserted, TypeOK, Stages, Asked, Issued, OneNamePerId, Unstored,
           Superseded, Stored, Row, Serials, table, history
  <1>2. ASSUME NEW n \in Names, Disconnect(n) PROVE Superseded'
    BY <1>2 DEF Disconnect, SetRow, TypeOK, Superseded, Stored, table, history
  <1>3. ASSUME NEW n \in Names, Expire(n) PROVE Superseded'
    BY <1>3 DEF Expire, TypeOK, Superseded, Stored, table, history
  <1>4. ASSUME NEW c \in Callers, NEW step \in {"check", "read"}, Begin(c, step) PROVE Superseded'
    BY <1>4 DEF Begin, Goto, TypeOK, Superseded, Stored, table, history
  <1>5. ASSUME NEW c \in Callers, CheckDisabled(c) PROVE Superseded'
    <2>1. CASE Throw(c)
      BY <1>5, <2>1
         DEF CheckDisabled, Throw, End, Goto, TypeOK, Superseded, Stored, table, history
    <2>2. CASE Goto(c, "read") /\ UNCHANGED <<snap, leader, fresh, answer, seen>>
      BY <1>5, <2>2
         DEF CheckDisabled, Throw, End, Goto, TypeOK, Superseded, Stored, table, history
    <2>3. QED
      BY <1>5, <2>1, <2>2 DEF CheckDisabled
  <1>6. ASSUME NEW c \in Callers, Read(c) PROVE Superseded'
    <2>1. CASE rows[on[c]] = None
      BY <1>6, <2>1 DEF Read, Throw, End, Goto, TypeOK, Superseded, Stored, table, history
    <2>2. CASE rows[on[c]] # None
      BY <1>6, <2>2 DEF Read, Throw, End, Goto, TypeOK, Superseded, Stored, table, history
    <2>3. QED
      BY <1>6, <2>1, <2>2 DEF Read
  <1>7. ASSUME NEW c \in Callers, UseStored(c) PROVE Superseded'
    BY <1>7 DEF UseStored, Return, End, Goto, TypeOK, Superseded, Stored, table, history
  <1>8. ASSUME NEW c \in Callers, NoRefreshToken(c) PROVE Superseded'
    BY <1>8
       DEF NoRefreshToken, Throw, End, Goto, TypeOK, Superseded, Stored, table, history
  <1>9. ASSUME NEW c \in Callers, Join(c) PROVE Superseded'
    BY <1>9 DEF Join, SameRefresh, Goto, TypeOK, Superseded, Stored, table, history
  <1>10. ASSUME NEW c \in Callers, StartRefresh(c) PROVE Superseded'
    BY <1>10
       DEF StartRefresh, SameRefresh, Goto, TypeOK, Superseded, Stored, table, history
  <1>11. ASSUME NEW c \in Callers, ProviderIssues(c) PROVE Superseded'
    BY <1>11 DEF ProviderIssues, Goto, TypeOK, Superseded, Stored, table, history
  <1>12. ASSUME NEW c \in Callers, ProviderRefuses(c) PROVE Superseded'
    BY <1>12
       DEF ProviderRefuses, Rejected, Failed, Goto, TypeOK, Superseded, Stored, table,
           history
  <1>13. ASSUME NEW c \in Callers, Store(c) PROVE Superseded'
    <2>1. CASE SameRow(c)
      BY <1>13, <2>1, StoreWrites
         DEF Superseded, Stored, OneNamePerId, Unstored, Stages, Asked
    <2>2. CASE ~SameRow(c)
      BY <1>13, <2>2
         DEF Store, Settlement, Failed, Goto, table, TypeOK, Superseded, Stored
    <2>3. QED
      BY <2>1, <2>2
  <1>14. ASSUME NEW c \in Callers, WakeLeader(c) PROVE Superseded'
    <2>1. CASE outcome[c] = Failed
      BY <1>14, <2>1
         DEF WakeLeader, Settle, Return, Throw, End, Released, Failed, Goto, TypeOK,
             Superseded, Stored, table, history
    <2>2. CASE outcome[c] # Failed
      BY <1>14, <2>2
         DEF WakeLeader, Settle, Return, Throw, End, Released, Failed, Goto, TypeOK,
             Superseded, Stored, table, history
    <2>3. QED
      BY <1>14, <2>1, <2>2 DEF WakeLeader
  <1>15. ASSUME NEW c \in Callers, WakeJoiner(c) PROVE Superseded'
    <2>1. CASE outcome[leader[c]] = Failed
      BY <1>15, <2>1
         DEF WakeJoiner, Settle, Return, Throw, End, Failed, Goto, TypeOK, Superseded,
             Stored, table, history
    <2>2. CASE outcome[leader[c]] # Failed
      BY <1>15, <2>2
         DEF WakeJoiner, Settle, Return, Throw, End, Failed, Goto, TypeOK, Superseded,
             Stored, table, history
    <2>3. QED
      BY <1>15, <2>1, <2>2 DEF WakeJoiner
  <1>16. CASE UNCHANGED vars
    BY <1>16 DEF vars, TypeOK, Superseded, Stored, table, history
  <1>17. QED
    BY <1>1, <1>2, <1>3, <1>4, <1>5, <1>6, <1>7, <1>8, <1>9, <1>10, <1>11, <1>12, <1>13,
       <1>14, <1>15, <1>16
       DEF Next, Admin, Proceed

\* Every step keeps a stored credential in the histories of those who may join.
LEMMA SharedKept ==
  ASSUME TypeOK, Stages, OneNamePerId, Superseded, SharedHeld, TypeOK', [Next]_vars
  PROVE  SharedHeld'
  <1>1. ASSUME NEW n \in Names, NEW kind \in Kinds, Connect(n, kind) PROVE SharedHeld'
    BY <1>1
       DEF Connect, SetRow, Upserted, TypeOK, Staged, Stored, SharedHeld, Active, table,
           history
  <1>2. ASSUME NEW n \in Names, Disconnect(n) PROVE SharedHeld'
    BY <1>2
       DEF Disconnect, SetRow, TypeOK, Staged, Stored, SharedHeld, Active, table, history
  <1>3. ASSUME NEW n \in Names, Expire(n) PROVE SharedHeld'
    BY <1>3 DEF Expire, TypeOK, Staged, Stored, SharedHeld, Active, table, history
  <1>4. ASSUME NEW c \in Callers, NEW step \in {"check", "read"}, Begin(c, step) PROVE SharedHeld'
    BY <1>4, ConnectionsAssumption
       DEF Begin, Goto, TypeOK, Stages, Staged, Asked, OneNamePerId, Superseded, Stored,
           SharedHeld, Active, Row, table, history
  <1>5. ASSUME NEW c \in Callers, CheckDisabled(c) PROVE SharedHeld'
    <2>1. CASE Throw(c)
      BY <1>5, <2>1, ConnectionsAssumption
         DEF CheckDisabled, Throw, End, Goto, TypeOK, Stages, Staged, Asked, OneNamePerId,
             Superseded, Stored, SharedHeld, Active, Row, table, history
    <2>2. CASE Goto(c, "read") /\ UNCHANGED <<snap, leader, fresh, answer, seen>>
      BY <1>5, <2>2, ConnectionsAssumption
         DEF CheckDisabled, Throw, End, Goto, TypeOK, Stages, Staged, Asked, OneNamePerId,
             Superseded, Stored, SharedHeld, Active, Row, table, history
    <2>3. QED
      BY <1>5, <2>1, <2>2 DEF CheckDisabled
  <1>6. ASSUME NEW c \in Callers, Read(c) PROVE SharedHeld'
    <2>1. CASE rows[on[c]] = None
      BY <1>6, <2>1
         DEF Read, Throw, End, Goto, TypeOK, Staged, Asked, Stored, SharedHeld, table, history
    <2>2. CASE rows[on[c]] # None
      BY <1>6, <2>2, ConnectionsAssumption
         DEF Read, Throw, End, Goto, TypeOK, Stages, Staged, Asked, OneNamePerId,
             Superseded, Stored, SharedHeld, Active, Row, table, history
    <2>3. QED
      BY <1>6, <2>1, <2>2 DEF Read
  <1>7. ASSUME NEW c \in Callers, UseStored(c) PROVE SharedHeld'
    BY <1>7, ConnectionsAssumption
       DEF UseStored, Return, End, Goto, TypeOK, Stages, Staged, Asked, OneNamePerId,
           Superseded, Stored, SharedHeld, Active, Row, table, history
  <1>8. ASSUME NEW c \in Callers, NoRefreshToken(c) PROVE SharedHeld'
    BY <1>8, ConnectionsAssumption
       DEF NoRefreshToken, Throw, End, Goto, TypeOK, Stages, Staged, Asked, OneNamePerId,
           Superseded, Stored, SharedHeld, Active, Row, table, history
  <1>9. ASSUME NEW c \in Callers, Join(c) PROVE SharedHeld'
    BY <1>9
       DEF Join, SameRefresh, Goto, TypeOK, Staged, Stored, SharedHeld, Active, table,
           history
  <1>10. ASSUME NEW c \in Callers, StartRefresh(c) PROVE SharedHeld'
    BY <1>10
       DEF StartRefresh, SameRefresh, Goto, TypeOK, Staged, Stored, SharedHeld, Active,
           table, history
  <1>11. ASSUME NEW c \in Callers, ProviderIssues(c) PROVE SharedHeld'
    BY <1>11, ConnectionsAssumption
       DEF ProviderIssues, Goto, TypeOK, Stages, Staged, Asked, OneNamePerId, Superseded,
           Stored, SharedHeld, Active, Row, table, history
  <1>12. ASSUME NEW c \in Callers, ProviderRefuses(c) PROVE SharedHeld'
    BY <1>12, ConnectionsAssumption
       DEF ProviderRefuses, Rejected, Failed, Goto, TypeOK, Stages, Staged, Asked,
           OneNamePerId, Superseded, Stored, SharedHeld, Active, Row, table, history
  <1>13. ASSUME NEW c \in Callers, Store(c) PROVE SharedHeld'
    <2>1. CASE SameRow(c)
      BY <1>13, <2>1, StoreWrites
         DEF SharedHeld, Stored, OneNamePerId, Stages, Staged, Asked, Active
    <2>2. CASE ~SameRow(c)
      BY <1>13, <2>2, ConnectionsAssumption
         DEF Store, Settlement, Failed, Goto, table, TypeOK, SharedHeld, Stored, Staged,
             Asked
    <2>3. QED
      BY <2>1, <2>2
  <1>14. ASSUME NEW c \in Callers, WakeLeader(c) PROVE SharedHeld'
    BY <1>14, CallEnds DEF SharedHeld, Stored, Staged, Asked
  <1>15. ASSUME NEW c \in Callers, WakeJoiner(c) PROVE SharedHeld'
    BY <1>15, CallEnds DEF SharedHeld, Stored, Staged, Asked
  <1>16. CASE UNCHANGED vars
    BY <1>16 DEF vars, TypeOK, Staged, Stored, SharedHeld, Active, table, history
  <1>17. QED
    BY <1>1, <1>2, <1>3, <1>4, <1>5, <1>6, <1>7, <1>8, <1>9, <1>10, <1>11, <1>12, <1>13,
       <1>14, <1>15, <1>16
       DEF Next, Admin, Proceed

\* Every step keeps what a joined call can be given in its history.
LEMMA JoinedKept ==
  ASSUME TypeOK, Stages, OneNamePerId, MapOfAsked, Unsettling, SharedHeld, JoinedHeld, TypeOK', [Next]_vars
  PROVE  JoinedHeld'
  <1>1. ASSUME NEW n \in Names, NEW kind \in Kinds, Connect(n, kind) PROVE JoinedHeld'
    BY <1>1 DEF Connect, SetRow, Upserted, TypeOK, JoinedHeld, table, history
  <1>2. ASSUME NEW n \in Names, Disconnect(n) PROVE JoinedHeld'
    BY <1>2 DEF Disconnect, SetRow, TypeOK, JoinedHeld, table, history
  <1>3. ASSUME NEW n \in Names, Expire(n) PROVE JoinedHeld'
    BY <1>3 DEF Expire, TypeOK, JoinedHeld, table, history
  <1>4. ASSUME NEW c \in Callers, NEW step \in {"check", "read"}, Begin(c, step) PROVE JoinedHeld'
    BY <1>4 DEF Begin, Goto, TypeOK, JoinedHeld, table, history
  <1>5. ASSUME NEW c \in Callers, CheckDisabled(c) PROVE JoinedHeld'
    <2>1. CASE Throw(c)
      BY <1>5, <2>1
         DEF CheckDisabled, Throw, End, Goto, TypeOK, JoinedHeld, table, history
    <2>2. CASE Goto(c, "read") /\ UNCHANGED <<snap, leader, fresh, answer, seen>>
      BY <1>5, <2>2
         DEF CheckDisabled, Throw, End, Goto, TypeOK, JoinedHeld, table, history
    <2>3. QED
      BY <1>5, <2>1, <2>2 DEF CheckDisabled
  <1>6. ASSUME NEW c \in Callers, Read(c) PROVE JoinedHeld'
    <2>1. CASE rows[on[c]] = None
      BY <1>6, <2>1 DEF Read, Throw, End, Goto, TypeOK, JoinedHeld, table, history
    <2>2. CASE rows[on[c]] # None
      BY <1>6, <2>2 DEF Read, Throw, End, Goto, TypeOK, JoinedHeld, table, history
    <2>3. QED
      BY <1>6, <2>1, <2>2 DEF Read
  <1>7. ASSUME NEW c \in Callers, UseStored(c) PROVE JoinedHeld'
    BY <1>7 DEF UseStored, Return, End, Goto, TypeOK, JoinedHeld, table, history
  <1>8. ASSUME NEW c \in Callers, NoRefreshToken(c) PROVE JoinedHeld'
    BY <1>8 DEF NoRefreshToken, Throw, End, Goto, TypeOK, JoinedHeld, table, history
  <1>9. ASSUME NEW c \in Callers, Join(c) PROVE JoinedHeld'
    <2>1. PICK e \in inflight :
             leader' = [leader EXCEPT ![c] = e.by] /\ e.id = snap[c].id /\ e.rev = snap[c].rev
      BY <1>9 DEF Join, SameRefresh
    <2>2. /\ e.by \in Callers /\ pc[e.by] \in Asked /\ snap[e.by] # None
          /\ snap[e.by].id = snap[c].id /\ snap[e.by].rev = snap[c].rev
      BY <2>1 DEF MapOfAsked, TypeOK, Refresh, Stages
    <2>3. pc[c] = "decode" /\ pc[c] \in Staged /\ snap[c] # None
      BY <1>9 DEF Join, Stages, Staged
    <2>4. on[e.by] = on[c]
      BY <2>2, <2>3 DEF OneNamePerId
    <2>5. outcome[e.by] \in {None, Failed} \cup seen[c]
      <3>1. CASE pc[e.by] = "settled"
        BY <2>2, <2>3, <3>1 DEF SharedHeld, Stored
      <3>2. CASE pc[e.by] # "settled"
        BY <2>2, <3>2 DEF Unsettling, Asked
      <3>3. QED
        BY <3>1, <3>2
    <2>6. leader'[c] = e.by /\ \A d \in Callers \ {c} : leader'[d] = leader[d] /\ pc'[d] = pc[d]
      BY <1>9, <2>1 DEF Join, Goto, TypeOK
    <2>7. UNCHANGED <<on, outcome, seen>>
      BY <1>9 DEF Join, history
    <2>8. QED
      BY <2>4, <2>5, <2>6, <2>7 DEF JoinedHeld
  <1>10. ASSUME NEW c \in Callers, StartRefresh(c) PROVE JoinedHeld'
    BY <1>10 DEF StartRefresh, SameRefresh, Goto, TypeOK, JoinedHeld, table, history
  <1>11. ASSUME NEW c \in Callers, ProviderIssues(c) PROVE JoinedHeld'
    BY <1>11 DEF ProviderIssues, Goto, TypeOK, JoinedHeld, table, history
  <1>12. ASSUME NEW c \in Callers, ProviderRefuses(c) PROVE JoinedHeld'
    BY <1>12
       DEF ProviderRefuses, Rejected, Failed, Goto, TypeOK, JoinedHeld, table, history
  <1>13. ASSUME NEW c \in Callers, Store(c) PROVE JoinedHeld'
    <2>1. CASE SameRow(c)
      BY <1>13, <2>1, StoreWrites DEF JoinedHeld, Stages, Active
    <2>2. CASE ~SameRow(c)
      BY <1>13, <2>2 DEF Store, Settlement, Failed, Goto, table, TypeOK, JoinedHeld
    <2>3. QED
      BY <2>1, <2>2
  <1>14. ASSUME NEW c \in Callers, WakeLeader(c) PROVE JoinedHeld'
    <2>1. CASE outcome[c] = Failed
      BY <1>14, <2>1
         DEF WakeLeader, Settle, Return, Throw, End, Released, Failed, Goto, TypeOK,
             JoinedHeld, table, history
    <2>2. CASE outcome[c] # Failed
      BY <1>14, <2>2
         DEF WakeLeader, Settle, Return, Throw, End, Released, Failed, Goto, TypeOK,
             JoinedHeld, table, history
    <2>3. QED
      BY <1>14, <2>1, <2>2 DEF WakeLeader
  <1>15. ASSUME NEW c \in Callers, WakeJoiner(c) PROVE JoinedHeld'
    <2>1. CASE outcome[leader[c]] = Failed
      BY <1>15, <2>1
         DEF WakeJoiner, Settle, Return, Throw, End, Failed, Goto, TypeOK, JoinedHeld,
             table, history
    <2>2. CASE outcome[leader[c]] # Failed
      BY <1>15, <2>2
         DEF WakeJoiner, Settle, Return, Throw, End, Failed, Goto, TypeOK, JoinedHeld,
             table, history
    <2>3. QED
      BY <1>15, <2>1, <2>2 DEF WakeJoiner
  <1>16. CASE UNCHANGED vars
    BY <1>16 DEF vars, TypeOK, JoinedHeld, table, history
  <1>17. QED
    BY <1>1, <1>2, <1>3, <1>4, <1>5, <1>6, <1>7, <1>8, <1>9, <1>10, <1>11, <1>12, <1>13,
       <1>14, <1>15, <1>16
       DEF Next, Admin, Proceed

\* Only three actions return a credential.
LEMMA OnlyTheseAnswer ==
  ASSUME [Next]_vars
  PROVE  \/ \E d \in Callers : UseStored(d) \/ WakeLeader(d) \/ WakeJoiner(d)
         \/ UNCHANGED answer
  <1>1. CASE UNCHANGED vars
    BY <1>1 DEF vars
  <1>2. ASSUME NEW n \in Names, NEW kind \in Kinds, Connect(n, kind) PROVE UNCHANGED answer
    BY <1>2 DEF Connect
  <1>3. ASSUME NEW n \in Names, Disconnect(n) PROVE UNCHANGED answer
    BY <1>3 DEF Disconnect
  <1>4. ASSUME NEW n \in Names, Expire(n) PROVE UNCHANGED answer
    BY <1>4 DEF Expire
  <1>5. ASSUME NEW d \in Callers, NEW step \in {"check", "read"}, Begin(d, step) PROVE UNCHANGED answer
    BY <1>5 DEF Begin
  <1>6. ASSUME NEW d \in Callers, CheckDisabled(d) PROVE UNCHANGED answer
    BY <1>6 DEF CheckDisabled, Throw
  <1>7. ASSUME NEW d \in Callers, Read(d) PROVE UNCHANGED answer
    BY <1>7 DEF Read, Throw
  <1>8. ASSUME NEW d \in Callers, NoRefreshToken(d) PROVE UNCHANGED answer
    BY <1>8 DEF NoRefreshToken, Throw
  <1>9. ASSUME NEW d \in Callers, Join(d) PROVE UNCHANGED answer
    BY <1>9 DEF Join
  <1>10. ASSUME NEW d \in Callers, StartRefresh(d) PROVE UNCHANGED answer
    BY <1>10 DEF StartRefresh
  <1>11. ASSUME NEW d \in Callers, ProviderIssues(d) PROVE UNCHANGED answer
    BY <1>11 DEF ProviderIssues
  <1>12. ASSUME NEW d \in Callers, ProviderRefuses(d) PROVE UNCHANGED answer
    BY <1>12 DEF ProviderRefuses
  <1>13. ASSUME NEW d \in Callers, Store(d) PROVE UNCHANGED answer
    BY <1>13 DEF Store
  <1>14. QED
    BY <1>1, <1>2, <1>3, <1>4, <1>5, <1>6, <1>7, <1>8, <1>9, <1>10, <1>11, <1>12, <1>13
       DEF Next, Admin, Proceed

\* A step that returns a credential returns one from the call's history.
LEMMA AnswersAreHeld ==
  ASSUME TypeOK, Stages, Held, SharedHeld, JoinedHeld, [Next]_vars,
         NEW c \in Callers, answer'[c] # answer[c]
  PROVE  answer'[c] \in seen[c]
  <1>1. ASSUME NEW d \in Callers, NEW s, Return(d, s) PROVE c = d /\ answer'[c] = s
    BY <1>1 DEF Return, TypeOK
  <1>2. ASSUME NEW d \in Callers, UseStored(d) PROVE answer'[c] \in seen[c]
    BY <1>1, <1>2 DEF UseStored, Held, Staged
  <1>3. ASSUME NEW d \in Callers, WakeLeader(d) PROVE answer'[c] \in seen[c]
    <2>1. Return(d, outcome[d]) /\ Stored(d)
      BY <1>3 DEF WakeLeader, Settle, Throw, Stored
    <2>2. pc[d] \in Staged
      BY <1>3 DEF WakeLeader, Staged, Asked
    <2>3. outcome[d] \in seen[d]
      BY <2>1, <2>2 DEF SharedHeld
    <2>4. QED
      BY <1>1, <2>1, <2>3
  <1>4. ASSUME NEW d \in Callers, WakeJoiner(d) PROVE answer'[c] \in seen[c]
    <2>1. /\ Return(d, outcome[leader[d]])
          /\ outcome[leader[d]] \notin {None, Failed}
      BY <1>4 DEF WakeJoiner, Settle, Throw
    <2>2. outcome[leader[d]] \in seen[d]
      BY <1>4, <2>1 DEF WakeJoiner, JoinedHeld
    <2>3. QED
      BY <1>1, <2>1, <2>2
  <1>5. QED
    BY <1>2, <1>3, <1>4, OnlyTheseAnswer

-------------------------------------------------------------------------------
\* The inductive invariant, on top of the one of ConnectionsProofs.
AInv ==
    /\ IInv
    /\ OneNamePerId /\ Unstored /\ Held /\ Unsettling
    /\ Superseded /\ SharedHeld /\ JoinedHeld

\* The initial states satisfy it.
LEMMA InitEstablishesAnswers == Init => AInv
  <1> SUFFICES ASSUME Init PROVE AInv
    OBVIOUS
  <1>1. IInv
    BY InitEstablishes
  <1>2. OneNamePerId /\ Unstored /\ Unsettling
    BY DEF Init, OneNamePerId, Unstored, Unsettling
  <1>3. Held /\ Superseded /\ SharedHeld /\ JoinedHeld
    BY DEF Init, Held, Active, Staged, Asked, Stored, Superseded, SharedHeld, JoinedHeld
  <1>4. QED
    BY <1>1, <1>2, <1>3 DEF AInv

\* Every step keeps it.
LEMMA StepKeepsAnswers == AInv /\ [Next]_vars => AInv'
  <1> SUFFICES ASSUME AInv, [Next]_vars PROVE AInv'
    OBVIOUS
  <1>1. IInv' /\ TypeOK'
    BY StepKeeps DEF AInv, IInv
  <1>2. OneNamePerId'
    BY <1>1, NamesKept DEF AInv, IInv
  <1>3. Unstored'
    BY <1>1, UnstoredKept DEF AInv, IInv
  <1>4. Held'
    BY <1>1, HeldKept DEF AInv, IInv
  <1>5. Unsettling'
    BY <1>1, UnsettlingKept DEF AInv, IInv
  <1>6. Superseded'
    BY <1>1, SupersededKept DEF AInv, IInv
  <1>7. SharedHeld'
    BY <1>1, SharedKept DEF AInv, IInv
  <1>8. JoinedHeld'
    BY <1>1, JoinedKept DEF AInv, IInv
  <1>9. QED
    BY <1>1, <1>2, <1>3, <1>4, <1>5, <1>6, <1>7, <1>8 DEF AInv

\* A call returns a credential that its connection held at some moment of the
\* call, whether it read it, refreshed it or waited for another call's refresh.
THEOREM AnswersHeld == Spec => AnswerWasHeld
  <1>1. Init => AInv
    BY InitEstablishesAnswers
  <1>2. AInv /\ [Next]_vars => AInv'
    BY StepKeepsAnswers
  <1>3. AInv /\ [Next]_vars
          => [\A c \in Callers : answer'[c] # answer[c] => answer'[c] \in seen[c]]_vars
    BY AnswersAreHeld DEF AInv, IInv
  <1>4. QED
    BY <1>1, <1>2, <1>3, PTL DEF Spec, AnswerWasHeld
===============================================================================
