--------------------------- MODULE MemberAuthProofs ---------------------------
(***************************************************************************)
(* Proofs about MemberAuth for any number of requests, members and         *)
(* sessions.  A snapshot of the store is sound if its roles, statuses and  *)
(* sessions agree.  Every operation takes a sound snapshot to a sound one  *)
(* and leaves an active admin; so does one that wipes another's change,    *)
(* since it writes what it made of a snapshot that was sound, and so does  *)
(* a load that comes back late, since the file was sound when it was read. *)
(* Whom a deactivation switched off stays off only while each clone that   *)
(* is written was made from the present cache and each load brings what    *)
(* the cache has, and that part of the invariant says so.                  *)
(***************************************************************************)
EXTENDS MemberAuth, Integers, SequenceTheorems, TLAPS

\* The store's operations.
Ops == {"saveOtp", "consumeOtp", "createSession", "createMember", "promote", "demote",
        "deactivate", "reactivate", "remove", "revokeAll", "revokeSession"}

\* Somebody can still administer the organisation of snapshot d.
ActiveAdmin(d) == \E a \in d.admins : d.status[a] = "active"

\* The roles and the active accounts of a snapshot are of present and activated
\* members, and so are its sessions.
Sound(d) ==
    /\ d \in Snapshot
    /\ d.admins \subseteq Present(d)
    /\ \A m \in Members : d.status[m] = "active" => m \in d.activated
    /\ \A s \in d.sessions : s[2] \in d.activated /\ d.status[s[2]] \in {"active", "deactivated"}

\* What an operation writes is sound if what it was made from is.
LEMMA EffectSound ==
  ASSUME NEW d, Sound(d), NEW j \in Jobs, NEW op \in Ops, Admitted(op, j, d),
         NEW token, op = "createSession" => token \in Sessions,
         op # "revokeSession" => j.on \in Members
  PROVE  Sound(Effect(op, j, d, token))
  <1>1. CASE op \in {"saveOtp", "consumeOtp"}
    BY <1>1 DEF Effect
  <1>2. CASE op = "createSession"
    <2> DEFINE e == Effect(op, j, d, token)
    <2>1. e = SessionAdded(d, j.on, token) /\ CanLogin(d, j.on)
      BY <1>2 DEF Effect, Admitted
    <2>2. /\ e.activated = d.activated \cup {j.on} /\ e.admins = d.admins
          /\ e.sessions = d.sessions \cup {<<token, j.on>>}
          /\ e.status = [d.status EXCEPT ![j.on] = "active"]
          /\ e = [status |-> e.status, activated |-> e.activated, admins |-> e.admins,
                  sessions |-> e.sessions]
      BY <1>2, <2>1 DEF SessionAdded, CanLogin, Sound, Snapshot
    <2> HIDE DEF e
    <2>3. e \in Snapshot
      BY <1>2, <2>2 DEF Sound, Snapshot, Statuses
    <2>4. \A s \in d.sessions : s[2] \in Members
      BY DEF Sound, Snapshot
    <2>5. Sound(e)
      BY <1>2, <2>2, <2>3, <2>4 DEF Sound, Snapshot, Present
    <2>6. QED
      BY <2>5 DEF e
  <1>3. CASE op = "createMember"
    <2> DEFINE e == Effect(op, j, d, token)
    <2>1. e = Created(d, j.on, j.kind = "inviteAdmin") /\ d.status[j.on] = "absent"
      BY <1>3 DEF Effect, Admitted
    <2>2. /\ e.status = [d.status EXCEPT ![j.on] = "pending"]
          /\ e.activated = d.activated /\ e.sessions = d.sessions
          /\ e.admins \in {d.admins \cup {j.on}, d.admins \ {j.on}}
          /\ e = [status |-> e.status, activated |-> e.activated, admins |-> e.admins,
                  sessions |-> e.sessions]
      BY <1>3, <2>1 DEF Created, Sound, Snapshot
    <2> HIDE DEF e
    <2>3. e \in Snapshot
      BY <1>3, <2>2 DEF Sound, Snapshot, Statuses
    <2>4. Sound(e)
      BY <1>3, <2>1, <2>2, <2>3 DEF Sound, Snapshot, Present
    <2>5. QED
      BY <2>4 DEF e
  <1>4. CASE op = "promote"
    BY <1>4 DEF Effect, Admitted, Promoted, Sound, Snapshot, Present, Statuses
  <1>5. CASE op = "demote"
    BY <1>5 DEF Effect, Demoted, Sound, Snapshot, Present, Statuses
  <1>6. CASE op = "deactivate"
    BY <1>6 DEF Effect, Deactivated, Sound, Snapshot, Present, Statuses
  <1>7. CASE op = "reactivate"
    BY <1>7 DEF Effect, Reactivated, Sound, Snapshot, Present, Statuses
  <1>8. CASE op = "remove"
    <2> DEFINE e == Removed(d, j.on)
    <2>1. Effect(op, j, d, token) = e
      BY <1>8 DEF Effect
    <2>2. e.status = [d.status EXCEPT ![j.on] = "absent"]
      BY DEF Removed, Sound, Snapshot
    <2>3. /\ e.activated = d.activated \ {j.on} /\ e.admins = d.admins \ {j.on}
          /\ e.sessions = d.sessions \ SessionsOf(d, j.on)
      BY DEF Removed, Sound, Snapshot
    <2>4. e \in Snapshot
      BY <2>2, <2>3 DEF Removed, Sound, Snapshot, Statuses
    <2> HIDE DEF e
    <2>5. Sound(e)
      <3>1. \A s \in e.sessions : s \in d.sessions /\ s[2] # j.on /\ s[2] \in Members
        BY <2>3 DEF SessionsOf, Sound, Snapshot
      <3>2. \A s \in e.sessions : s[2] \in e.activated /\ e.status[s[2]] \in {"active", "deactivated"}
        BY <2>2, <2>3, <3>1 DEF Sound, Snapshot
      <3>3. \A m \in Members : e.status[m] = "active" => m \in e.activated
        BY <2>2, <2>3 DEF Sound, Snapshot
      <3>4. e.admins \subseteq Present(e)
        BY <2>2, <2>3 DEF Sound, Snapshot, Present
      <3>5. QED
        BY <2>4, <3>2, <3>3, <3>4 DEF Sound
    <2>6. QED
      BY <2>1, <2>5
  <1>9. CASE op = "revokeAll"
    BY <1>9 DEF Effect, RevokedAll, SessionsOf, Sound, Snapshot, Present, Statuses
  <1>10. CASE op = "revokeSession"
    BY <1>10 DEF Effect, Revoked, Sound, Snapshot, Present, Statuses
  <1>11. QED
    BY <1>1, <1>2, <1>3, <1>4, <1>5, <1>6, <1>7, <1>8, <1>9, <1>10 DEF Ops

\* No operation that is admitted takes the last active admin away.
LEMMA EffectKeepsAdmin ==
  ASSUME NEW d, Sound(d), ActiveAdmin(d), NEW j \in Jobs, NEW op \in Ops, Admitted(op, j, d),
         NEW token
  PROVE  ActiveAdmin(Effect(op, j, d, token))
  <1>1. CASE op \in {"saveOtp", "consumeOtp"}
    BY <1>1 DEF Effect
  <1>2. CASE op = "createSession"
    BY <1>2 DEF Effect, SessionAdded, ActiveAdmin, Sound, Snapshot, Present
  <1>3. CASE op = "createMember"
    BY <1>3 DEF Effect, Admitted, Created, ActiveAdmin, Sound, Snapshot, Present
  <1>4. CASE op = "promote"
    BY <1>4 DEF Effect, Promoted, ActiveAdmin, Sound, Snapshot
  <1>5. CASE op = "demote"
    BY <1>5 DEF Effect, Admitted, OtherAdmins, Demoted, ActiveAdmin, Sound, Snapshot
  <1>6. CASE op = "deactivate"
    BY <1>6
       DEF Effect, Admitted, OtherAdmins, Deactivated, ActiveAdmin, Sound, Snapshot, Present
  <1>7. CASE op = "reactivate"
    BY <1>7 DEF Effect, Reactivated, ActiveAdmin, Sound, Snapshot, Present
  <1>8. CASE op = "remove"
    <2> DEFINE e == Removed(d, j.on)
    <2>1. Effect(op, j, d, token) = e
      BY <1>8 DEF Effect
    <2>2. e.status = [d.status EXCEPT ![j.on] = "absent"] /\ e.admins = d.admins \ {j.on}
      BY DEF Removed, Sound, Snapshot
    <2>3. \E a \in d.admins : d.status[a] = "active" /\ a # j.on
      BY <1>8 DEF Admitted, OtherAdmins, ActiveAdmin
    <2>4. PICK a \in d.admins \ {j.on} : d.status[a] = "active"
      BY <2>3
    <2>5. e.status[a] = "active"
      BY <2>2, <2>4 DEF Sound, Snapshot, Present
    <2>6. ActiveAdmin(e)
      BY <2>2, <2>4, <2>5 DEF ActiveAdmin
    <2>7. QED
      BY <2>1, <2>6
  <1>9. CASE op = "revokeAll"
    BY <1>9 DEF Effect, RevokedAll, ActiveAdmin, Sound, Snapshot
  <1>10. CASE op = "revokeSession"
    BY <1>10 DEF Effect, Revoked, ActiveAdmin, Sound, Snapshot
  <1>11. QED
    BY <1>1, <1>2, <1>3, <1>4, <1>5, <1>6, <1>7, <1>8, <1>9, <1>10 DEF Ops

\* Facts about sequences of one and two elements, as the scripts are.
LEMMA TailOfTwo ==
  ASSUME NEW S, NEW s \in Seq(S), Len(s) = 2
  PROVE  Tail(s) \in Seq(S) /\ Len(Tail(s)) = 1 /\ Tail(s)[1] = s[2]
  <1>1. s # <<>>
    OBVIOUS
  <1>2. Tail(s) \in Seq(S) /\ Len(Tail(s)) = 1
    BY <1>1, HeadTailProperties
  <1>3. \A i \in 1 .. Len(Tail(s)) : Tail(s)[i] = s[i + 1]
    BY <1>1, HeadTailProperties
  <1>4. QED
    BY <1>2, <1>3

\* Two sequences of one element.
LEMMA SingleEqual ==
  ASSUME NEW S, NEW s \in Seq(S), NEW t \in Seq(S), Len(s) = 1, Len(t) = 1, s[1] = t[1]
  PROVE  s = t
  <1>1. \A i \in 1 .. Len(s) : s[i] = t[i]
    OBVIOUS
  <1>2. QED
    BY <1>1, SeqEqual

\* The tail of a pair.
LEMMA PairTail ==
  ASSUME NEW S, NEW a \in S, NEW b \in S
  PROVE  Tail(<<a, b>>) = <<b>>
  <1>1. <<a, b>> \in Seq(S) /\ Len(<<a, b>>) = 2 /\ <<a, b>>[2] = b
    OBVIOUS
  <1>2. <<b>> \in Seq(S) /\ Len(<<b>>) = 1 /\ <<b>>[1] = b
    OBVIOUS
  <1>3. /\ Tail(<<a, b>>) \in Seq(S) /\ Len(Tail(<<a, b>>)) = 1
        /\ Tail(<<a, b>>)[1] = <<a, b>>[2]
    BY <1>1, TailOfTwo
  <1>4. Tail(<<a, b>>)[1] = <<b>>[1]
    BY <1>1, <1>2, <1>3, Zenon
  <1>5. QED
    BY <1>2, <1>3, <1>4, SingleEqual, Zenon

\* Head and tail of a sequence of one.
LEMMA SingleParts ==
  ASSUME NEW S, NEW a \in S
  PROVE  Head(<<a>>) = a /\ Tail(<<a>>) = <<>> /\ <<a>> # <<>>
  OBVIOUS

\* Head and tail of a pair.
LEMMA PairParts ==
  ASSUME NEW S, NEW a \in S, NEW b \in S
  PROVE  Head(<<a, b>>) = a /\ Tail(<<a, b>>) = <<b>>
  BY PairTail

\* What may be left of a route's script, before its last operation returns.
Rest(kind) == {Script(kind), Tail(Script(kind))}

\* What the next operation of a route can be, and what is left after it.
LEMMA RestOfScript ==
  ASSUME NEW kind \in Kinds, NEW t \in Rest(kind), t # <<>>
  PROVE  /\ Head(t) \in Ops
         /\ Tail(t) = <<>> \/ Tail(t) \in Rest(kind)
         /\ kind = "deactivate" <=> Head(t) = "deactivate" \/ (Head(t) = "revokeAll" /\ kind # "remove")
         /\ Head(t) = "deactivate" => Tail(t) = <<"revokeAll">>
         /\ kind = "deactivate" /\ Head(t) = "revokeAll" => t = <<"revokeAll">>
         /\ Head(t) \in {"reactivate", "remove"} => kind = Head(t)
  <1> DEFINE Two == {"verify", "deactivate", "remove"}
  <1>1. CASE kind = "verify"
    <2>1. Rest(kind) = {<<"consumeOtp", "createSession">>, <<"createSession">>}
      BY <1>1, PairParts DEF Rest, Script
    <2>2. CASE t = <<"consumeOtp", "createSession">>
      <3>1. Head(t) = "consumeOtp" /\ Tail(t) = <<"createSession">>
        BY <2>2, PairParts
      <3>2. QED
        BY <1>1, <2>1, <3>1 DEF Ops
    <2>3. CASE t = <<"createSession">>
      <3>1. Head(t) = "createSession" /\ Tail(t) = <<>>
        BY <2>3, SingleParts
      <3>2. QED
        BY <1>1, <2>3, <3>1 DEF Ops
    <2>4. QED
      BY <2>1, <2>2, <2>3
  <1>2. CASE kind = "deactivate"
    <2>1. Rest(kind) = {<<"deactivate", "revokeAll">>, <<"revokeAll">>}
      BY <1>2, PairParts DEF Rest, Script
    <2>2. CASE t = <<"deactivate", "revokeAll">>
      <3>1. Head(t) = "deactivate" /\ Tail(t) = <<"revokeAll">>
        BY <2>2, PairParts
      <3>2. QED
        BY <1>2, <2>1, <3>1 DEF Ops
    <2>3. CASE t = <<"revokeAll">>
      <3>1. Head(t) = "revokeAll" /\ Tail(t) = <<>>
        BY <2>3, SingleParts
      <3>2. QED
        BY <1>2, <2>3, <3>1 DEF Ops
    <2>4. QED
      BY <2>1, <2>2, <2>3
  <1>3. CASE kind = "remove"
    <2>1. Rest(kind) = {<<"revokeAll", "remove">>, <<"remove">>}
      BY <1>3, PairParts DEF Rest, Script
    <2>2. CASE t = <<"revokeAll", "remove">>
      <3>1. Head(t) = "revokeAll" /\ Tail(t) = <<"remove">>
        BY <2>2, PairParts
      <3>2. QED
        BY <1>3, <2>1, <3>1 DEF Ops
    <2>3. CASE t = <<"remove">>
      <3>1. Head(t) = "remove" /\ Tail(t) = <<>>
        BY <2>3, SingleParts
      <3>2. QED
        BY <1>3, <2>3, <3>1 DEF Ops
    <2>4. QED
      BY <2>1, <2>2, <2>3
  <1>4. ASSUME NEW op \in Ops \ {"deactivate", "revokeAll", "remove"}, Script(kind) = <<op>>,
               kind \notin Two, op = "reactivate" => kind = op
        PROVE  /\ Head(t) = op /\ Tail(t) = <<>>
    <2>1. Head(<<op>>) = op /\ Tail(<<op>>) = <<>>
      BY SingleParts
    <2>2. Rest(kind) = {<<op>>, <<>>}
      BY <1>4, <2>1 DEF Rest
    <2>3. QED
      BY <2>1, <2>2
  <1>5. CASE kind \notin Two
    <2>1. \E op \in Ops \ {"deactivate", "revokeAll", "remove"} :
             Script(kind) = <<op>> /\ (op = "reactivate" => kind = op)
      BY <1>5 DEF Script, Kinds, Ops
    <2>2. QED
      BY <1>4, <1>5, <2>1
  <1>6. QED
    BY <1>1, <1>2, <1>3, <1>5

\* All that may be left of a script.
Plans == {<<>>} \cup UNION {Rest(kind) : kind \in Kinds}

\* A handler with operations left serves a request, and what is left is of that
\* request's script; who writes has an operation left.
Tasks ==
    /\ todo \in [Handlers -> Plans]
    /\ \A h \in Handlers :
       /\ todo[h] # <<>> => job[h] \in Jobs /\ todo[h] \in Rest(job[h].kind)
       /\ todo[h] = <<>> => job[h] = None
       /\ buf[h] # None => todo[h] # <<>>

\* Whoever loads serves no request yet, and while the cache is cold nobody has
\* written since the start, so that whatever was loaded is the file, or is empty.
Loads ==
    /\ \A h \in Handlers : load[h] # None => job[h] = None
    /\ cache = Cold => \A h \in Handlers : load[h] \in {None, Reading, Empty, file}

\* A sound snapshot with an active admin; an emptied store has none.
Good(d) == Sound(d) /\ (emptied \/ ActiveAdmin(d))

\* So are the cache, the file, every clone being written and whatever was loaded,
\* if it was not read as empty.
AllGood ==
    /\ cache # Cold => Good(cache)
    /\ file # Garbage => Good(file)
    /\ \A h \in Handlers : /\ buf[h] # None => Good(buf[h])
                           /\ load[h] \notin {None, Reading} => load[h] = Empty \/ Good(load[h])

\* While nothing was wiped, a clone that is not stale is the effect of its operation
\* on the present cache.
FromCache ==
    wiped \/ \A h \in Handlers : buf[h] # None /\ h \notin stale =>
       /\ Admitted(Op(h), job[h], cache)
       /\ \E token \in Sessions \cup {None} : buf[h] = Effect(Op(h), job[h], cache, token)

\* And the file holds what the cache does, if it can be parsed.
WarmIsSaved == wiped \/ emptied \/ cache = Cold \/ file \in {cache, Garbage}

\* Somebody who deactivated m has still to revoke its sessions.
Revoking(m) ==
    \E h \in Handlers : /\ job[h] \in Jobs /\ job[h].kind = "deactivate" /\ job[h].on = m
                        /\ todo[h] = <<"revokeAll">>

\* The store as the next request finds it.
Latest == IF cache = Cold THEN file ELSE cache

\* While no change was wiped, who was deactivated is so, and has no session that
\* is not about to be revoked.
SwitchedOff ==
    wiped \/ emptied \/ Latest = Garbage \/ \A m \in off :
       Latest.status[m] = "deactivated" /\ (SessionsOf(Latest, m) = {} \/ Revoking(m))

\* The inductive invariant.
IInv == TypeOK /\ Tasks /\ Loads /\ AllGood /\ FromCache /\ WarmIsSaved /\ SwitchedOff

-------------------------------------------------------------------------------
\* Only a reactivation or a removal of m itself changes that m is deactivated, and
\* no operation gives a deactivated m a session.
LEMMA EffectOnDeactivated ==
  ASSUME NEW d, Sound(d), NEW j \in Jobs, NEW op \in Ops, Admitted(op, j, d), NEW token,
         NEW m \in Members, d.status[m] = "deactivated"
  PROVE  /\ m # j.on \/ op \notin {"reactivate", "remove"}
                => Effect(op, j, d, token).status[m] = "deactivated"
         /\ SessionsOf(Effect(op, j, d, token), m) \subseteq SessionsOf(d, m)
  <1>1. CASE op \in {"saveOtp", "consumeOtp"}
    BY <1>1 DEF Effect
  <1>2. CASE op = "createSession"
    <2>1. m # j.on
      BY <1>2 DEF Admitted, CanLogin
    <2>2. Effect(op, j, d, token) = SessionAdded(d, j.on, token)
      BY <1>2 DEF Effect
    <2>3. SessionAdded(d, j.on, token).status[m] = d.status[m]
      BY <2>1 DEF SessionAdded, Sound, Snapshot
    <2>4. SessionAdded(d, j.on, token).sessions = d.sessions \cup {<<token, j.on>>}
      BY DEF SessionAdded, Sound, Snapshot
    <2>5. QED
      BY <2>1, <2>2, <2>3, <2>4 DEF SessionsOf
  <1>3. CASE op = "createMember"
    BY <1>3 DEF Effect, Admitted, Created, SessionsOf, Sound, Snapshot
  <1>4. CASE op = "promote"
    BY <1>4 DEF Effect, Promoted, SessionsOf, Sound, Snapshot
  <1>5. CASE op = "demote"
    BY <1>5 DEF Effect, Demoted, SessionsOf, Sound, Snapshot
  <1>6. CASE op = "deactivate"
    BY <1>6 DEF Effect, Deactivated, SessionsOf, Sound, Snapshot
  <1>7. CASE op = "reactivate"
    BY <1>7 DEF Effect, Reactivated, SessionsOf, Sound, Snapshot
  <1>8. CASE op = "remove"
    BY <1>8 DEF Effect, Removed, SessionsOf, Sound, Snapshot
  <1>9. CASE op = "revokeAll"
    BY <1>9 DEF Effect, RevokedAll, SessionsOf, Sound, Snapshot
  <1>10. CASE op = "revokeSession"
    BY <1>10 DEF Effect, Revoked, SessionsOf, Sound, Snapshot
  <1>11. QED
    BY <1>1, <1>2, <1>3, <1>4, <1>5, <1>6, <1>7, <1>8, <1>9, <1>10 DEF Ops

\* What the two operations of a deactivation do.
LEMMA EffectOfSwitchingOff ==
  ASSUME NEW d, Sound(d), NEW j \in Jobs, j.on \in Members, NEW token
  PROVE  /\ Effect("deactivate", j, d, token).status[j.on] = "deactivated"
         /\ SessionsOf(Effect("revokeAll", j, d, token), j.on) = {}
  BY DEF Effect, Deactivated, RevokedAll, SessionsOf, Sound, Snapshot

\* What a request consists of.
LEMMA JobTypes ==
  ASSUME NEW j \in Jobs
  PROVE  j.kind \in Kinds /\ j.on \in Members /\ j # None
  BY MemberAuthAssumption, NoneAssumption DEF Jobs, Kinds, OpenRoutes

\* What a handler with operations left has.
LEMMA TaskFacts ==
  ASSUME Tasks, NEW h \in Handlers, todo[h] # <<>>
  PROVE  /\ job[h] \in Jobs /\ job[h].kind \in Kinds /\ job[h].on \in Members /\ job[h] # None
         /\ todo[h] \in Rest(job[h].kind) /\ Op(h) \in Ops
  BY JobTypes, RestOfScript DEF Tasks, Op

\* What Edit starts to write.
LEMMA EditWrites ==
  ASSUME TypeOK, Tasks, NEW h \in Handlers, Edit(h)
  PROVE  /\ buf[h] = None /\ todo[h] # <<>> /\ issued' \subseteq Sessions
         /\ Admitted(Op(h), job[h], cache)
         /\ \E token \in Sessions \cup {None} :
               /\ Op(h) = "createSession" => token \in Sessions
               /\ buf' = [buf EXCEPT ![h] = Effect(Op(h), job[h], cache, token)]
  BY DEF Edit, Calling, TypeOK

\* It is good.
LEMMA EditGood ==
  ASSUME TypeOK, Tasks, AllGood, NEW h \in Handlers, Edit(h)
  PROVE  Good(buf'[h]) /\ buf'[h] \in Snapshot /\ buf'[h] # None
  <1>1. PICK token \in Sessions \cup {None} :
           /\ Op(h) = "createSession" => token \in Sessions
           /\ buf' = [buf EXCEPT ![h] = Effect(Op(h), job[h], cache, token)]
    BY EditWrites
  <1>2. buf'[h] = Effect(Op(h), job[h], cache, token)
    BY <1>1 DEF TypeOK
  <1>3. /\ todo[h] # <<>> /\ Admitted(Op(h), job[h], cache)
        /\ Sound(cache) /\ (emptied \/ ActiveAdmin(cache))
    BY EditWrites DEF TypeOK, AllGood, Good
  <1>4. Sound(buf'[h])
    BY <1>1, <1>2, <1>3, TaskFacts, EffectSound
  <1>5. emptied \/ ActiveAdmin(buf'[h])
    BY <1>2, <1>3, TaskFacts, EffectKeepsAdmin
  <1>6. QED
    BY <1>4, <1>5, NoneAssumption DEF Good, Sound

\* Going on to the next operation keeps the tasks in order.
LEMMA ReturnKeepsTasks ==
  ASSUME TypeOK, Tasks, NEW h \in Handlers, todo[h] # <<>>, Return(h),
         \A g \in Handlers \ {h} : buf'[g] = buf[g], buf'[h] = None
  PROVE  Tasks' /\ job' \in [Handlers -> Jobs \cup {None}]
  <1>1. todo[h] \in Rest(job[h].kind) /\ job[h] \in Jobs /\ job[h].kind \in Kinds
    BY TaskFacts
  <1>2. Tail(todo[h]) = <<>> \/ Tail(todo[h]) \in Rest(job[h].kind)
    BY <1>1, RestOfScript
  <1>3. \A g \in Handlers \ {h} : todo'[g] = todo[g] /\ job'[g] = job[g]
    BY DEF Return, Tasks, TypeOK
  <1>4. todo'[h] = Tail(todo[h])
    BY DEF Return, Tasks
  <1>5. QED
    BY <1>1, <1>2, <1>3, <1>4 DEF Tasks, Plans, Return, TypeOK

-------------------------------------------------------------------------------
\* A step that only moves a request, over a warm cache, keeps the invariant if nobody
\* who was deactivated is left with sessions by it.
LEMMA QuietKeeps ==
  ASSUME IInv, cache # Cold, Tasks', job' \in [Handlers -> Jobs \cup {None}],
         UNCHANGED <<file, cache, load, buf, issued, off, stale, wiped, emptied>>,
         \A g \in Handlers : buf[g] # None => job'[g] = job[g] /\ todo'[g] = todo[g],
         \A g \in Handlers : load[g] # None => job'[g] = None,
         \A m \in off : Revoking(m) => Revoking(m)' \/ SessionsOf(cache, m) = {}
  PROVE  IInv'
  <1>1. TypeOK'
    <2>1. \A g \in Handlers : todo'[g] # <<>> => job'[g] # None /\ cache' # Cold
      BY JobTypes DEF Tasks
    <2>2. QED
      BY <2>1 DEF IInv, TypeOK, Present, Writing
  <1>2. Loads' /\ WarmIsSaved'
    BY DEF IInv, Loads, WarmIsSaved
  <1>3. AllGood'
    BY DEF IInv, AllGood, Good, Sound, ActiveAdmin, Present
  <1>4. FromCache'
    BY DEF IInv, FromCache, Op
  <1>5. SwitchedOff'
    BY DEF IInv, SwitchedOff, Latest, SessionsOf
  <1>6. QED
    BY <1>1, <1>2, <1>3, <1>4, <1>5 DEF IInv

\* A request that is served starts on its script.
LEMMA ServeStarts ==
  ASSUME TypeOK, Tasks, NEW h \in Handlers, NEW d, Serve(h, d), job[h] = None, buf' = buf
  PROVE  /\ Tasks' /\ job' \in [Handlers -> Jobs \cup {None}]
         /\ todo[h] = <<>> /\ buf[h] = None
         /\ \A g \in Handlers \ {h} : job'[g] = job[g] /\ todo'[g] = todo[g]
         /\ \A m : Revoking(m) => Revoking(m)'
  <1>1. PICK j \in Jobs : job' = [job EXCEPT ![h] = j] /\ todo' = [todo EXCEPT ![h] = Script(j.kind)]
    BY DEF Serve
  <1>2. todo[h] = <<>> /\ buf[h] = None
    BY JobTypes DEF Tasks
  <1>3. j.kind \in Kinds /\ Script(j.kind) \in Plans /\ Script(j.kind) \in Rest(j.kind) /\ j # None
    BY JobTypes DEF Plans, Rest
  <1>4. /\ job'[h] = j /\ todo'[h] = Script(j.kind)
        /\ \A g \in Handlers \ {h} : job'[g] = job[g] /\ todo'[g] = todo[g]
    BY <1>1 DEF TypeOK, Tasks
  <1>5. Script(j.kind) # <<>>
    BY <1>3, SingleParts DEF Script, Kinds
  <1>6. Tasks'
    BY <1>1, <1>2, <1>3, <1>4, <1>5 DEF Tasks
  <1>7. ASSUME NEW m, Revoking(m) PROVE Revoking(m)'
    <2>1. <<"revokeAll">> # <<>>
      BY SingleParts
    <2>2. QED
      BY <1>2, <1>4, <1>7, <2>1 DEF Revoking
  <1>8. QED
    BY <1>1, <1>2, <1>4, <1>6, <1>7 DEF TypeOK

\* The invariant is kept when a load starts.
LEMMA StartLoadKeeps ==
  ASSUME IInv, NEW h \in Handlers, StartLoad(h)
  PROVE  IInv'
  <1>1. /\ job[h] = None /\ cache = Cold /\ load' = [load EXCEPT ![h] = Reading]
        /\ UNCHANGED <<file, cache, job, todo, buf, issued, off, stale, wiped, emptied>>
    BY DEF StartLoad, Idle, storeVars
  <1>2. load'[h] = Reading /\ \A g \in Handlers \ {h} : load'[g] = load[g]
    BY <1>1 DEF IInv, TypeOK
  <1>3. TypeOK' /\ Tasks'
    BY <1>1 DEF IInv, TypeOK, Tasks, Present, Writing
  <1>4. Loads'
    BY <1>1, <1>2 DEF IInv, Loads
  <1>5. AllGood'
    BY <1>1, <1>2 DEF IInv, AllGood, Good, Sound, ActiveAdmin, Present
  <1>6. FromCache' /\ WarmIsSaved'
    BY <1>1 DEF IInv, FromCache, WarmIsSaved, Op
  <1>7. SwitchedOff'
    BY <1>1 DEF IInv, SwitchedOff, Latest, Revoking, SessionsOf
  <1>8. QED
    BY <1>3, <1>4, <1>5, <1>6, <1>7 DEF IInv

\* An emptied store is a snapshot, and sound.
LEMMA EmptySound == Sound(Empty)
  BY DEF Sound, Empty, Snapshot, Statuses, Present

\* It is kept when a load reads the file, or fails to.
LEMMA ReadFileKeeps ==
  ASSUME IInv, NEW h \in Handlers, ReadFile(h)
  PROVE  IInv'
  <1>1. PICK d \in {Empty} \cup ({file} \ {Garbage}) : load' = [load EXCEPT ![h] = d]
    BY DEF ReadFile, Texts
  <1>2. /\ load[h] = Reading
        /\ UNCHANGED <<file, cache, job, todo, buf, issued, off, stale, wiped, emptied>>
    BY DEF ReadFile, storeVars
  <1>3. load'[h] = d /\ \A g \in Handlers \ {h} : load'[g] = load[g]
    BY <1>1 DEF IInv, TypeOK
  <1>4. d \in Snapshot /\ (d = Empty \/ Good(d))
    BY <1>1, EmptySound DEF IInv, AllGood, TypeOK, Sound
  <1>5. TypeOK' /\ Tasks'
    BY <1>1, <1>2, <1>4 DEF IInv, TypeOK, Tasks, Present, Writing
  <1>6. Loads'
    BY <1>1, <1>2, <1>3, NoneAssumption DEF IInv, Loads
  <1>7. AllGood'
    BY <1>2, <1>3, <1>4 DEF IInv, AllGood, Good, Sound, ActiveAdmin, Present
  <1>8. FromCache' /\ WarmIsSaved'
    BY <1>2 DEF IInv, FromCache, WarmIsSaved, Op
  <1>9. SwitchedOff'
    BY <1>2 DEF IInv, SwitchedOff, Latest, Revoking, SessionsOf
  <1>10. QED
    BY <1>5, <1>6, <1>7, <1>8, <1>9 DEF IInv

\* It is kept when what was loaded becomes the cache, whoever goes on from there:
\* unless that empties the store or wipes a change, it is what requests find anyway.
LEMMA FillKeeps ==
  ASSUME IInv, NEW h \in Handlers, FillCache(h), UNCHANGED storeVars,
         Tasks', job' \in [Handlers -> Jobs \cup {None}],
         \A g \in Handlers \ {h} : job'[g] = job[g] /\ todo'[g] = todo[g],
         \A m : Revoking(m) => Revoking(m)'
  PROVE  IInv'
  <1>1. /\ load[h] \notin {None, Reading} /\ cache' = load[h] /\ load' = [load EXCEPT ![h] = None]
        /\ wiped' = (wiped \/ cache \notin {Cold, load[h]})
        /\ emptied' = (emptied \/ load[h] = Empty)
        /\ UNCHANGED <<file, buf, issued, off, stale>>
    BY DEF FillCache, storeVars
  <1>2. load'[h] = None /\ \A g \in Handlers \ {h} : load'[g] = load[g]
    BY <1>1 DEF IInv, TypeOK
  <1>3. /\ load[h] \in Snapshot /\ load[h] # Cold /\ job[h] = None /\ todo[h] = <<>>
        /\ buf[h] = None
    BY <1>1, NoneAssumption, JobTypes DEF IInv, TypeOK, Loads, Tasks
  <1>4. emptied => emptied'
    BY <1>1
  <1>5. Sound(load[h]) /\ (emptied' \/ ActiveAdmin(load[h]))
    BY <1>1, EmptySound DEF IInv, AllGood, Good
  <1>6. AllGood'
    <2>1. Good(cache)'
      BY <1>1, <1>5 DEF Good, Sound, ActiveAdmin, Present
    <2>2. file' # Garbage => Good(file)'
      BY <1>1, <1>4 DEF IInv, AllGood, Good, Sound, ActiveAdmin, Present
    <2>3. \A g \in Handlers : buf'[g] # None => Good(buf[g])'
      BY <1>1, <1>4 DEF IInv, AllGood, Good, Sound, ActiveAdmin, Present
    <2>4. \A g \in Handlers : load'[g] \notin {None, Reading} => load'[g] = Empty \/ Good(load[g])'
      BY <1>2, <1>4 DEF IInv, AllGood, Good, Sound, ActiveAdmin, Present
    <2>5. QED
      BY <2>1, <2>2, <2>3, <2>4 DEF AllGood
  <1>7. TypeOK'
    <2>1. cache' \in Snapshot /\ cache'.admins \subseteq Present(cache)'
      BY <1>1, <1>3, <1>5 DEF Sound, Present
    <2>2. \A g \in Handlers : todo'[g] # <<>> => job'[g] # None /\ cache' # Cold
      BY <2>1, NoneAssumption, JobTypes DEF Tasks
    <2>3. load' \in [Handlers -> Snapshot \cup {None, Reading}]
      BY <1>1 DEF IInv, TypeOK
    <2>4. wiped' \in BOOLEAN /\ emptied' \in BOOLEAN
      BY <1>1 DEF IInv, TypeOK
    <2>5. QED
      BY <1>1, <2>1, <2>2, <2>3, <2>4 DEF IInv, TypeOK, Writing
  <1>8. Loads'
    BY <1>1, <1>2, <1>3 DEF IInv, Loads
  <1>9. ASSUME ~wiped' PROVE ~wiped /\ cache \in {Cold, load[h]}
    BY <1>1, <1>9
  <1>10. cache = Cold => \A g \in Handlers : buf[g] = None
    BY DEF IInv, TypeOK, Tasks
  <1>11. FromCache'
    BY <1>1, <1>3, <1>9, <1>10 DEF IInv, FromCache, Op
  <1>12. ASSUME ~wiped', ~emptied' PROVE Latest' = Latest /\ (cache = Cold => load[h] = file)
    BY <1>1, <1>3, <1>9, <1>12 DEF IInv, Loads, Latest
  <1>13. WarmIsSaved'
    BY <1>1, <1>9, <1>12 DEF IInv, WarmIsSaved
  <1>14. SwitchedOff'
    <2>1. SUFFICES ASSUME ~wiped', ~emptied', Latest' # Garbage, NEW m \in off'
                   PROVE  /\ Latest'.status[m] = "deactivated"
                          /\ SessionsOf(Latest', m) = {} \/ Revoking(m)'
      BY DEF SwitchedOff, SessionsOf
    <2>2. Latest' = Latest /\ ~wiped /\ ~emptied /\ m \in off
      BY <1>1, <1>4, <1>9, <1>12, <2>1
    <2>3. Latest.status[m] = "deactivated" /\ (SessionsOf(Latest, m) = {} \/ Revoking(m))
      BY <2>1, <2>2 DEF IInv, SwitchedOff
    <2>4. QED
      BY <2>2, <2>3
  <1>15. QED
    BY <1>6, <1>7, <1>8, <1>11, <1>13, <1>14 DEF IInv

\* It is kept when a request comes in and finds the cache warm.
LEMMA ArriveKeeps ==
  ASSUME IInv, NEW h \in Handlers, Arrive(h)
  PROVE  IInv'
  <1>1. /\ job[h] = None /\ load[h] = None /\ cache # Cold /\ Serve(h, cache)
        /\ UNCHANGED <<file, cache, load, buf, issued, off, stale, wiped, emptied>>
    BY DEF Arrive, Idle, storeVars
  <1>2. /\ Tasks' /\ job' \in [Handlers -> Jobs \cup {None}]
        /\ todo[h] = <<>> /\ buf[h] = None
        /\ \A g \in Handlers \ {h} : job'[g] = job[g] /\ todo'[g] = todo[g]
        /\ \A m : Revoking(m) => Revoking(m)'
    BY <1>1, ServeStarts DEF IInv
  <1>3. \A g \in Handlers : load[g] # None => job'[g] = None
    BY <1>1, <1>2 DEF IInv, Loads
  <1>4. QED
    BY <1>1, <1>2, <1>3, QuietKeeps

\* It is kept when a request comes in with the load it has made.
LEMMA ArriveByLoadKeeps ==
  ASSUME IInv, NEW h \in Handlers, ArriveByLoad(h)
  PROVE  IInv'
  <1>1. FillCache(h) /\ Serve(h, load[h]) /\ UNCHANGED storeVars /\ buf' = buf
    BY DEF ArriveByLoad, storeVars
  <1>2. job[h] = None
    BY <1>1 DEF FillCache, IInv, Loads
  <1>3. /\ Tasks' /\ job' \in [Handlers -> Jobs \cup {None}]
        /\ \A g \in Handlers \ {h} : job'[g] = job[g] /\ todo'[g] = todo[g]
        /\ \A m : Revoking(m) => Revoking(m)'
    BY <1>1, <1>2, ServeStarts DEF IInv
  <1>4. QED
    BY <1>1, <1>3, FillKeeps

\* It is kept when one that has loaded the store only reads.
LEMMA LookKeeps ==
  ASSUME IInv, NEW h \in Handlers, Look(h)
  PROVE  IInv'
  <1>1. FillCache(h) /\ UNCHANGED storeVars /\ UNCHANGED <<job, todo, buf>>
    BY DEF Look, storeVars
  <1>2. Tasks' /\ job' \in [Handlers -> Jobs \cup {None}]
    BY <1>1 DEF IInv, Tasks, TypeOK
  <1>3. \A m : Revoking(m) => Revoking(m)'
    BY <1>1 DEF Revoking
  <1>4. QED
    BY <1>1, <1>2, <1>3, FillKeeps

\* It is kept when an operation is refused: revokeAll never is, so nobody who was
\* deactivated is left with sessions.
LEMMA RefuseKeeps ==
  ASSUME IInv, NEW h \in Handlers, Refuse(h)
  PROVE  IInv'
  <1>1. /\ job' = [job EXCEPT ![h] = None] /\ todo' = [todo EXCEPT ![h] = <<>>]
        /\ UNCHANGED <<file, cache, load, buf, issued, off, stale, wiped, emptied>>
    BY DEF Refuse, storeVars
  <1>2. /\ todo[h] # <<>> /\ buf[h] = None /\ ~Admitted(Op(h), job[h], cache)
        /\ cache # Cold
    BY DEF Refuse, Calling, IInv, TypeOK
  <1>3. /\ job'[h] = None /\ todo'[h] = <<>>
        /\ \A g \in Handlers \ {h} : job'[g] = job[g] /\ todo'[g] = todo[g]
    BY <1>1 DEF IInv, TypeOK, Tasks
  <1>4. Tasks' /\ job' \in [Handlers -> Jobs \cup {None}]
    BY <1>1, <1>2, <1>3 DEF IInv, Tasks, Plans, TypeOK
  <1>5. todo[h] # <<"revokeAll">>
    <2>1. ASSUME todo[h] = <<"revokeAll">> PROVE Op(h) = "revokeAll"
      BY <2>1, SingleParts DEF Op
    <2>2. Admitted("revokeAll", job[h], cache)
      BY DEF Admitted
    <2>3. QED
      BY <1>2, <2>1, <2>2
  <1>6. \A m : Revoking(m) => Revoking(m)'
    BY <1>3, <1>5 DEF Revoking
  <1>7. \A g \in Handlers : load[g] # None => job'[g] = None
    BY <1>3 DEF IInv, Loads
  <1>8. QED
    BY <1>1, <1>2, <1>3, <1>4, <1>6, <1>7, QuietKeeps

\* It is kept when there is no session to revoke.
LEMMA OnlyReadKeeps ==
  ASSUME IInv, NEW h \in Handlers, OnlyRead(h)
  PROVE  IInv'
  <1>1. /\ Return(h)
        /\ UNCHANGED <<file, cache, load, buf, issued, off, stale, wiped, emptied>>
    BY DEF OnlyRead, storeVars
  <1>2. /\ todo[h] # <<>> /\ buf[h] = None /\ ~Writes(Op(h), job[h], cache)
        /\ cache # Cold
    BY DEF OnlyRead, Calling, IInv, TypeOK
  <1>3. Tasks' /\ job' \in [Handlers -> Jobs \cup {None}]
    BY <1>1, <1>2, ReturnKeepsTasks DEF IInv
  <1>4. \A g \in Handlers \ {h} : job'[g] = job[g] /\ todo'[g] = todo[g]
    BY <1>1 DEF Return, IInv, TypeOK, Tasks
  <1>5. SessionsOf(cache, job[h].on) = {}
    BY <1>2 DEF Writes
  <1>6. \A m : Revoking(m) => Revoking(m)' \/ SessionsOf(cache, m) = {}
    BY <1>4, <1>5 DEF Revoking
  <1>7. \A g \in Handlers : load[g] # None => job'[g] = None
    <2>1. load[h] = None
      BY <1>2, TaskFacts DEF IInv, Loads
    <2>2. QED
      BY <1>4, <2>1 DEF IInv, Loads
  <1>8. QED
    BY <1>1, <1>2, <1>3, <1>4, <1>6, <1>7, QuietKeeps

\* It is kept when an operation starts to write.
LEMMA EditKeeps ==
  ASSUME IInv, NEW h \in Handlers, Edit(h)
  PROVE  IInv'
  <1>1. UNCHANGED <<file, cache, load, job, todo, off, stale, wiped, emptied>>
    BY DEF Edit
  <1>2. PICK token \in Sessions \cup {None} :
           buf' = [buf EXCEPT ![h] = Effect(Op(h), job[h], cache, token)]
    BY EditWrites DEF IInv
  <1>3. /\ buf[h] = None /\ todo[h] # <<>> /\ issued' \subseteq Sessions
        /\ Admitted(Op(h), job[h], cache)
    BY EditWrites DEF IInv
  <1>4. Good(buf'[h]) /\ buf'[h] \in Snapshot /\ buf'[h] # None
    BY EditGood DEF IInv
  <1>5. /\ \A g \in Handlers \ {h} : buf'[g] = buf[g]
        /\ buf'[h] = Effect(Op(h), job[h], cache, token)
    BY <1>2 DEF IInv, TypeOK
  <1>6. Tasks'
    BY <1>1, <1>3, <1>5 DEF IInv, Tasks
  <1>7. TypeOK'
    <2>1. buf' \in [Handlers -> Snapshot \cup {None}]
      BY <1>2, <1>4, <1>5 DEF IInv, TypeOK
    <2>2. stale' \subseteq Writing'
      BY <1>1, <1>4, <1>5 DEF IInv, TypeOK, Writing
    <2>3. QED
      BY <1>1, <1>3, <2>1, <2>2 DEF IInv, TypeOK, Present
  <1>8. AllGood'
    BY <1>1, <1>4, <1>5 DEF IInv, AllGood, Good, Sound, ActiveAdmin, Present
  <1>9. Loads' /\ WarmIsSaved'
    BY <1>1 DEF IInv, Loads, WarmIsSaved
  <1>10. FromCache'
    BY <1>1, <1>3, <1>5 DEF IInv, FromCache, Op
  <1>11. SwitchedOff'
    BY <1>1 DEF IInv, SwitchedOff, Latest, SessionsOf, Revoking
  <1>12. QED
    BY <1>6, <1>7, <1>8, <1>9, <1>10, <1>11 DEF IInv

\* It is kept when a write fails.
LEMMA WriteFailsKeeps ==
  ASSUME IInv, NEW h \in Handlers, WriteFails(h)
  PROVE  IInv'
  <1>1. /\ buf[h] # None /\ buf' = [buf EXCEPT ![h] = None] /\ stale' = stale \ {h}
        /\ job' = [job EXCEPT ![h] = None] /\ todo' = [todo EXCEPT ![h] = <<>>]
        /\ off' = IF job[h].kind = "deactivate" THEN off \ {job[h].on} ELSE off
        /\ file' \in {file, Garbage} /\ UNCHANGED <<cache, load, issued, wiped, emptied>>
    BY DEF WriteFails
  <1>2. /\ job'[h] = None /\ todo'[h] = <<>> /\ buf'[h] = None
        /\ \A g \in Handlers \ {h} : job'[g] = job[g] /\ todo'[g] = todo[g] /\ buf'[g] = buf[g]
    BY <1>1 DEF IInv, TypeOK, Tasks
  <1>3. cache # Cold
    BY <1>1 DEF IInv, Tasks, TypeOK
  <1>4. Tasks'
    BY <1>1, <1>2 DEF IInv, Tasks, Plans
  <1>5. TypeOK'
    <2>1. off' \subseteq Members
      BY <1>1 DEF IInv, TypeOK
    <2>2. stale' \subseteq Writing'
      BY <1>1, <1>2 DEF IInv, TypeOK, Writing
    <2>3. QED
      BY <1>1, <1>2, <2>1, <2>2 DEF IInv, TypeOK, Present
  <1>6. AllGood'
    BY <1>1, <1>2 DEF IInv, AllGood, Good, Sound, ActiveAdmin, Present
  <1>7. Loads' /\ WarmIsSaved'
    BY <1>1, <1>2, <1>3 DEF IInv, Loads, WarmIsSaved
  <1>8. FromCache'
    BY <1>1, <1>2 DEF IInv, FromCache, Op
  <1>9. SwitchedOff'
    <2>1. ASSUME NEW m \in off', Revoking(m) PROVE Revoking(m)'
      BY <1>1, <1>2, <2>1 DEF Revoking
    <2>2. off' \subseteq off /\ Latest' = Latest
      BY <1>1, <1>3 DEF Latest
    <2>3. QED
      BY <1>1, <2>1, <2>2 DEF IInv, SwitchedOff, SessionsOf
  <1>10. QED
    BY <1>4, <1>5, <1>6, <1>7, <1>8, <1>9 DEF IInv

\* What a commit of a clone of the present cache leaves of those deactivated.
LEMMA CommitSwitchesOff ==
  ASSUME IInv, NEW h \in Handlers, Commit(h), NEW d, d = buf[h], h \notin stale,
         ~wiped, ~emptied, NEW m \in off'
  PROVE  /\ m \in Members /\ d.status[m] = "deactivated"
         /\ SessionsOf(d, m) = {} \/ Revoking(m)'
  <1> DEFINE op == Op(h)  j == job[h]
  <1>1. todo[h] # <<>> /\ d # None /\ cache # Cold
    BY DEF Commit, IInv, Tasks, TypeOK
  <1>2. /\ j \in Jobs /\ j.kind \in Kinds /\ j.on \in Members /\ op \in Ops
        /\ todo[h] \in Rest(j.kind)
    BY <1>1, TaskFacts DEF IInv
  <1>3. PICK token \in Sessions \cup {None} : d = Effect(op, j, cache, token)
    BY <1>1 DEF IInv, FromCache
  <1>4. Admitted(op, j, cache) /\ Sound(cache)
    BY <1>1 DEF IInv, FromCache, AllGood, Good
  <1>5. \A n \in off : /\ n \in Members /\ cache.status[n] = "deactivated"
                       /\ SessionsOf(cache, n) = {} \/ Revoking(n)
    BY <1>1, NoneAssumption DEF IInv, SwitchedOff, Latest, TypeOK
  <1>6. \A g \in Handlers \ {h} : job'[g] = job[g] /\ todo'[g] = todo[g]
    BY DEF Commit, Return, IInv, TypeOK, Tasks
  <1>7. todo'[h] = Tail(todo[h]) /\ (todo'[h] # <<>> => job'[h] = j)
    BY <1>2 DEF Commit, Return, IInv, TypeOK, Tasks
  <1> HIDE DEF op, j
  <1>8. CASE op = "deactivate" /\ m = j.on
    <2>1. Tail(todo[h]) = <<"revokeAll">> /\ j.kind = "deactivate"
      BY <1>1, <1>2, <1>8, RestOfScript DEF op, Op
    <2>2. <<"revokeAll">> # <<>>
      BY SingleParts
    <2>3. Revoking(m)'
      BY <1>2, <1>7, <1>8, <2>1, <2>2 DEF Revoking
    <2>4. d.status[m] = "deactivated"
      BY <1>2, <1>3, <1>4, <1>8, EffectOfSwitchingOff
    <2>5. QED
      BY <1>2, <1>8, <2>3, <2>4
  <1>9. CASE ~(op = "deactivate" /\ m = j.on)
    <2>1. m \in off /\ (op \in {"reactivate", "remove"} => m # j.on)
      BY <1>9 DEF Commit, op, j
    <2>2. d.status[m] = "deactivated" /\ SessionsOf(d, m) \subseteq SessionsOf(cache, m)
      BY <1>2, <1>3, <1>4, <1>5, <2>1, EffectOnDeactivated
    <2>3. CASE op = "revokeAll" /\ m = j.on
      BY <1>2, <1>3, <1>4, <1>5, <2>1, <2>2, <2>3, EffectOfSwitchingOff
    <2>4. CASE ~(op = "revokeAll" /\ m = j.on)
      <3>1. ASSUME j.on = m, todo[h] = <<"revokeAll">> PROVE FALSE
        BY <2>4, <3>1, SingleParts DEF Op, op
      <3>2. Revoking(m) => Revoking(m)'
        BY <1>6, <3>1 DEF Revoking, j
      <3>3. QED
        BY <1>5, <2>1, <2>2, <3>2
    <2>5. QED
      BY <2>3, <2>4
  <1>10. QED
    BY <1>8, <1>9

\* The invariant is kept when a clone becomes the cache.
LEMMA CommitKeeps ==
  ASSUME IInv, NEW h \in Handlers, Commit(h)
  PROVE  IInv'
  <1>1. /\ buf[h] # None /\ cache' = buf[h] /\ buf' = [buf EXCEPT ![h] = None] /\ Return(h)
        /\ wiped' = (wiped \/ h \in stale) /\ stale' = {g \in Handlers \ {h} : buf[g] # None}
        /\ file' \in {buf[h]} \cup (IF h \in stale THEN {Garbage} ELSE {})
        /\ UNCHANGED <<load, issued, emptied>>
    BY DEF Commit
  <1>2. todo[h] # <<>> /\ job[h].on \in Members /\ load[h] = None
    BY <1>1, TaskFacts DEF IInv, Tasks, Loads
  <1>3. buf'[h] = None /\ \A g \in Handlers \ {h} : buf'[g] = buf[g]
    BY <1>1 DEF IInv, TypeOK
  <1>4. Tasks' /\ job' \in [Handlers -> Jobs \cup {None}]
    BY <1>1, <1>2, <1>3, ReturnKeepsTasks DEF IInv
  <1>5. Good(buf[h]) /\ buf[h] \in Snapshot /\ cache' # Cold
    BY <1>1, NoneAssumption DEF IInv, AllGood, Good, Sound
  <1>6. TypeOK'
    <2>1. off' \subseteq Members
      BY <1>2 DEF Commit, IInv, TypeOK
    <2>2. file' \in Snapshot \cup {Garbage}
      BY <1>1, <1>5
    <2>3. stale' \subseteq Writing'
      BY <1>1, <1>3 DEF Writing
    <2>4. cache' \in Snapshot /\ cache'.admins \subseteq Present(cache)'
      BY <1>1, <1>5 DEF Good, Sound, Present
    <2>5. \A g \in Handlers : todo'[g] # <<>> => job'[g] # None
      BY <1>4, JobTypes DEF Tasks
    <2>6. buf' \in [Handlers -> Snapshot \cup {None}]
      BY <1>1 DEF IInv, TypeOK
    <2>7. wiped' \in BOOLEAN
      BY <1>1 DEF IInv, TypeOK
    <2>8. QED
      BY <1>1, <1>4, <1>5, <2>1, <2>2, <2>3, <2>4, <2>5, <2>6, <2>7 DEF IInv, TypeOK
  <1>7. AllGood'
    <2>1. Good(cache)' /\ (file' # Garbage => Good(file)')
      BY <1>1, <1>5 DEF Good, Sound, ActiveAdmin, Present
    <2>2. QED
      BY <1>1, <1>3, <2>1 DEF IInv, AllGood, Good, Sound, ActiveAdmin, Present
  <1>8. Loads'
    <2>1. \A g \in Handlers \ {h} : job'[g] = job[g]
      BY <1>1 DEF Return, IInv, TypeOK
    <2>2. QED
      BY <1>1, <1>2, <1>5, <2>1 DEF IInv, Loads
  <1>9. FromCache'
    BY <1>1, <1>3 DEF FromCache
  <1>10. WarmIsSaved'
    BY <1>1 DEF WarmIsSaved
  <1>11. SwitchedOff'
    <2>1. SUFFICES ASSUME ~wiped', ~emptied', Latest' # Garbage, NEW m \in off'
                   PROVE  /\ Latest'.status[m] = "deactivated"
                          /\ SessionsOf(Latest', m) = {} \/ Revoking(m)'
      BY DEF SwitchedOff, SessionsOf
    <2>2. Latest' = buf[h] /\ h \notin stale /\ ~wiped /\ ~emptied
      BY <1>1, <1>5, <2>1 DEF Latest
    <2>3. QED
      BY <2>1, <2>2, CommitSwitchesOff
  <1>12. QED
    BY <1>4, <1>6, <1>7, <1>8, <1>9, <1>10, <1>11 DEF IInv

\* The invariant is kept by a restart: the file holds what the cache did, and whoever
\* is still counted as deactivated has no sessions that a request had to revoke.
LEMMA RestartKeeps ==
  ASSUME IInv, Restart
  PROVE  IInv'
  <1>1. /\ cache' = Cold /\ load' = [h \in Handlers |-> None]
        /\ job' = [h \in Handlers |-> None] /\ todo' = [h \in Handlers |-> <<>>]
        /\ buf' = [h \in Handlers |-> None] /\ stale' = {}
        /\ UNCHANGED <<issued, wiped, emptied>> /\ file' \in {file, Garbage}
    BY DEF Restart, Texts
  <1>2. \A m \in off' : m \in off /\ ~Revoking(m)
    BY JobTypes DEF Restart, Revoking
  <1>3. Tasks' /\ Loads' /\ FromCache' /\ WarmIsSaved'
    BY <1>1 DEF Tasks, Plans, Loads, FromCache, WarmIsSaved
  <1>4. AllGood'
    BY <1>1 DEF IInv, AllGood, Good, Sound, ActiveAdmin, Present
  <1>5. TypeOK'
    BY <1>1, <1>2 DEF IInv, TypeOK
  <1>6. SwitchedOff'
    <2>1. SUFFICES ASSUME ~wiped, ~emptied, file' # Garbage, NEW m \in off'
                   PROVE  file'.status[m] = "deactivated" /\ SessionsOf(file', m) = {}
      BY <1>1 DEF SwitchedOff, Latest, SessionsOf
    <2>2. file' = file /\ file = Latest
      BY <1>1, <2>1 DEF IInv, WarmIsSaved, Latest
    <2>3. QED
      BY <1>2, <2>1, <2>2 DEF IInv, SwitchedOff
  <1>7. QED
    BY <1>3, <1>4, <1>5, <1>6 DEF IInv

-------------------------------------------------------------------------------
\* The initial states satisfy it.
LEMMA InitEstablishes == Init => IInv
  <1> SUFFICES ASSUME Init PROVE IInv
    OBVIOUS
  <1>1. Bootstrapped \in Snapshot /\ Bootstrapped.admins \subseteq Present(Bootstrapped)
    <2>1. /\ Bootstrapped.status \in [Members -> Statuses]
          /\ Bootstrapped.status[First] = "active"
      BY MemberAuthAssumption DEF Bootstrapped, Statuses
    <2>2. Bootstrapped.admins = {First} /\ <<FirstSession, First>> \in Sessions \X Members
      BY MemberAuthAssumption DEF Bootstrapped
    <2>3. Bootstrapped \in Snapshot
      BY <2>1, <2>2, MemberAuthAssumption DEF Bootstrapped, Snapshot
    <2>4. QED
      BY <2>1, <2>2, <2>3, MemberAuthAssumption DEF Present
  <1>2. Sound(Bootstrapped) /\ ActiveAdmin(Bootstrapped)
    BY <1>1, MemberAuthAssumption DEF Bootstrapped, Sound, ActiveAdmin
  <1>3. TypeOK
    BY <1>1, MemberAuthAssumption DEF Init, TypeOK
  <1>4. Tasks /\ Loads /\ FromCache /\ WarmIsSaved /\ SwitchedOff
    BY DEF Init, Tasks, Plans, Loads, FromCache, WarmIsSaved, SwitchedOff
  <1>5. AllGood
    BY <1>2 DEF Init, AllGood, Good
  <1>6. QED
    BY <1>3, <1>4, <1>5 DEF IInv

\* Every step keeps it.
LEMMA StepKeeps == IInv /\ [Next]_vars => IInv'
  <1> SUFFICES ASSUME IInv, [Next]_vars PROVE IInv'
    OBVIOUS
  <1>1. CASE UNCHANGED vars
    <2>1. TypeOK' /\ Tasks' /\ Loads' /\ WarmIsSaved'
      BY <1>1 DEF vars, IInv, TypeOK, Tasks, Loads, WarmIsSaved, Present, Writing
    <2>2. AllGood'
      BY <1>1 DEF vars, IInv, AllGood, Good, Sound, ActiveAdmin, Present
    <2>3. FromCache'
      BY <1>1 DEF vars, IInv, FromCache, Op
    <2>4. SwitchedOff'
      BY <1>1 DEF vars, IInv, SwitchedOff, Latest, SessionsOf, Revoking
    <2>5. QED
      BY <2>1, <2>2, <2>3, <2>4 DEF IInv
  <1>2. QED
    BY <1>1, StartLoadKeeps, ReadFileKeeps, ArriveByLoadKeeps, LookKeeps, ArriveKeeps,
       RefuseKeeps, OnlyReadKeeps, EditKeeps, CommitKeeps, WriteFailsKeeps, RestartKeeps
       DEF Next

\* It holds in every reachable state.
LEMMA AlwaysIInv == Spec => []IInv
  <1>1. Init => IInv
    BY InitEstablishes
  <1>2. IInv /\ [Next]_vars => IInv'
    BY StepKeeps
  <1>3. QED
    BY <1>1, <1>2, PTL DEF Spec

\* The store, the clones being written and the requests keep their types.
THEOREM TypeCorrect == Spec => []TypeOK
  <1>1. IInv => TypeOK
    BY DEF IInv
  <1>2. QED
    BY <1>1, AlwaysIInv, PTL

\* However requests and loads overlap, wipe each other's changes and are cut off,
\* there is an active admin in memory and in the file, unless a load has found no
\* auth.json it could read and parse.
THEOREM AdminRemains == Spec => []HasActiveAdmin
  <1>1. IInv => HasActiveAdmin
    BY DEF IInv, AllGood, Good, ActiveAdmin, HasActiveAdmin, Held
  <1>2. QED
    BY <1>1, AlwaysIInv, PTL

\* Every session is of an account that was activated and is still there.
THEOREM SessionsCorrect == Spec => []SessionsAreActivated
  <1>1. IInv => SessionsAreActivated
    BY DEF IInv, AllGood, Good, Sound, SessionsAreActivated, Held
  <1>2. QED
    BY <1>1, AlwaysIInv, PTL

\* While no mutation and no late load has wiped a change and no load has emptied the
\* store, a deactivated account stays deactivated and, once its request is answered,
\* has no session.
THEOREM DeactivationCorrect == Spec => []DeactivationSticksUnlessWiped
  <1>1. ASSUME IInv PROVE DeactivationSticksUnlessWiped
    <2>1. SUFFICES ASSUME ~wiped, ~emptied, NEW d \in Held, NEW m \in off
                   PROVE  /\ d.status[m] = "deactivated"
                          /\ \/ SessionsOf(d, m) = {}
                             \/ \E h \in Handlers : /\ job[h] # None
                                                    /\ job[h].kind = "deactivate"
                                                    /\ job[h].on = m
      BY DEF DeactivationSticksUnlessWiped, DeactivationSticks
    <2>2. d = Latest /\ Latest # Garbage
      BY <1>1, <2>1, NoneAssumption DEF IInv, TypeOK, WarmIsSaved, Latest, Held
    <2>3. d.status[m] = "deactivated" /\ (SessionsOf(d, m) = {} \/ Revoking(m))
      BY <1>1, <2>1, <2>2 DEF IInv, SwitchedOff
    <2>4. QED
      BY <2>3, JobTypes DEF Revoking
  <1>2. QED
    BY <1>1, AlwaysIInv, PTL
===============================================================================
