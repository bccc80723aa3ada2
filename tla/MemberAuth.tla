------------------------------ MODULE MemberAuth ------------------------------
(***************************************************************************)
(* CompanyAuthStore and the member-account routes over it.  The store      *)
(* keeps members, sessions and one-time codes in one JSON file with an     *)
(* in-memory cache.  The first reads after a start each load the file, in  *)
(* their own time, and put what they have loaded into the cache.  Each     *)
(* mutation clones the cache, edits the clone, rewrites the file in place  *)
(* and only then replaces the cache with the clone.  Nothing orders loads  *)
(* and mutations: a mutation that starts while another is being written    *)
(* edits an old snapshot and wipes the other's change, and so does a load  *)
(* that comes back after it.  A load that fails, or meets a text that does *)
(* not parse, empties the store.  A route reads first (requireMember) and  *)
(* then runs up to two mutations in a row.                                 *)
(* Sessions do not reach their 7 days, and a removed email is the same     *)
(* member when it is added again.  The one-time codes and display names    *)
(* are not modelled: who verifies has the right code, and saving a code,   *)
(* consuming one or changing a name only matters as a write of the whole   *)
(* file.  Nor is the bootstrap that an empty store opens again.            *)
(***************************************************************************)
EXTENDS Sequences

CONSTANTS
    Handlers,  \* concurrent requests to the member routes
    Members,   \* people, by email
    First,     \* the admin who bootstrapped the organisation
    Sessions,  \* session tokens, each issued once
    FirstSession,  \* the bootstrap admin's
    Cold,      \* the cache is undefined
    Garbage,   \* a text that does not parse, the empty one too
    Reading,   \* a load has begun and not read the file yet
    None

ASSUME MemberAuthAssumption ==
    /\ First \in Members
    /\ FirstSession \in Sessions
    /\ None \notin Members \cup Sessions

VARIABLES
    file,     \* auth.json, while nobody is writing it: a snapshot, or Garbage
    cache,    \* the store's cache, or Cold
    load,     \* the load each handler has under way, and what it has read
    job,      \* the request each handler serves
    todo,     \* the store operations it has still to call
    buf,      \* the clone that the operation under way is writing, if it writes
    issued,   \* session tokens handed out
    off,      \* history: members deactivated, no error answered, and not reactivated
              \* or removed since
    stale,    \* history: handlers writing a clone of a cache since replaced
    wiped,    \* history: such a clone has become the cache, or a load has replaced a
              \* cache that was no longer what it had loaded
    emptied   \* history: a load has put an empty store into the cache

vars == <<file, cache, load, job, todo, buf, issued, off, stale, wiped, emptied>>

Statuses == {"absent", "pending", "active", "deactivated"}

\* The JSON file: members with status and roles (activated: activatedAt is set),
\* and sessions.
Snapshot == [status : [Members -> Statuses], activated : SUBSET Members,
             admins : SUBSET Members, sessions : SUBSET (Sessions \X Members)]

\* What read() makes of a file it cannot read or parse.
Empty == [status |-> [m \in Members |-> "absent"], activated |-> {}, admins |-> {},
          sessions |-> {}]

Bootstrapped ==
    [status |-> [m \in Members |-> IF m = First THEN "active" ELSE "absent"],
     activated |-> {First}, admins |-> {First}, sessions |-> {<<FirstSession, First>>}]

Init ==
    /\ file = Bootstrapped
    /\ cache = Bootstrapped
    /\ load = [h \in Handlers |-> None]
    /\ job = [h \in Handlers |-> None]
    /\ todo = [h \in Handlers |-> <<>>]
    /\ buf = [h \in Handlers |-> None]
    /\ issued = {FirstSession}
    /\ off = {}
    /\ stale = {}
    /\ wiped = FALSE
    /\ emptied = FALSE

-------------------------------------------------------------------------------
(* The store's operations, as functions of a snapshot                      *)

Present(d) == {m \in Members : d.status[m] # "absent"}
SessionsOf(d, m) == {s \in d.sessions : s[2] = m}

\* Seeded fault: any other admin will do, also one who is not active.
OtherAnyAdmins(d, m) == d.admins \ {m}
OtherAdmins(d, m) == {a \in d.admins \ {m} : d.status[a] = "active"}

Created(d, m, admin) ==
    [d EXCEPT !.status[m] = "pending", !.admins = IF admin THEN @ \cup {m} ELSE @ \ {m}]

Demoted(d, m) == [d EXCEPT !.admins = @ \ {m}]
Promoted(d, m) == [d EXCEPT !.admins = @ \cup {m}]
Deactivated(d, m) == [d EXCEPT !.status[m] = "deactivated"]
Reactivated(d, m) ==
    [d EXCEPT !.status[m] = IF m \in d.activated THEN "active" ELSE "pending"]

\* Seeded faults: the sessions of a removed member stay; its roles stay.
RemovedNotSessions(d, m) ==
    [d EXCEPT !.status[m] = "absent", !.activated = @ \ {m}, !.admins = @ \ {m}]
RemovedNotRoles(d, m) ==
    [d EXCEPT !.status[m] = "absent", !.activated = @ \ {m}, !.sessions = @ \ SessionsOf(d, m)]

Removed(d, m) ==
    [d EXCEPT !.status[m] = "absent", !.activated = @ \ {m}, !.admins = @ \ {m},
              !.sessions = @ \ SessionsOf(d, m)]

RevokedAll(d, m) == [d EXCEPT !.sessions = @ \ SessionsOf(d, m)]
Revoked(d, token) == [d EXCEPT !.sessions = {s \in @ : s[1] # token}]

\* A first login activates a pending account.
SessionAdded(d, m, token) ==
    [d EXCEPT !.status[m] = IF @ = "pending" \/ m \notin d.activated THEN "active" ELSE @,
              !.activated = @ \cup {m},
              !.sessions = @ \cup {<<token, m>>}]

\* Seeded fault: a deactivated account may log in.
KnownToLogin(d, m) == d.status[m] # "absent"
CanLogin(d, m) == d.status[m] \in {"pending", "active"}

\* resolveSession
SignedIn(d, token, m) == <<token, m>> \in d.sessions /\ d.status[m] = "active"

\* requireMember, memberIsOrgAdmin, and not oneself when switching an account off.
Authorised(d, j) ==
    /\ \E m \in d.admins :
          SignedIn(d, j.by, m) /\ (j.kind \in {"deactivate", "remove"} => m # j.on)
    /\ j.kind \in {"deactivate", "remove", "reactivate", "promote", "demote"} =>
          j.on \in Present(d)

\* Whether operation op of request j goes through on snapshot d.
Admitted(op, j, d) ==
    CASE op = "createSession" -> CanLogin(d, j.on)
      [] op = "createMember"  -> d.status[j.on] = "absent"
      [] op \in {"promote", "reactivate"} -> j.on \in Present(d)
      [] op \in {"demote", "deactivate"} ->
            j.on \in Present(d) /\ (j.on \in d.admins => OtherAdmins(d, j.on) # {})
      [] op = "remove" ->
            j.on \in Present(d)
              /\ (j.on \in d.admins /\ d.status[j.on] = "active" => OtherAdmins(d, j.on) # {})
      [] op \in {"saveOtp", "consumeOtp", "revokeAll", "revokeSession"} -> TRUE

\* What it writes.
Effect(op, j, d, token) ==
    CASE op \in {"saveOtp", "consumeOtp"} -> d
      [] op = "createSession" -> SessionAdded(d, j.on, token)
      [] op = "createMember"  -> Created(d, j.on, j.kind = "inviteAdmin")
      [] op = "promote"       -> Promoted(d, j.on)
      [] op = "demote"        -> Demoted(d, j.on)
      [] op = "deactivate"    -> Deactivated(d, j.on)
      [] op = "reactivate"    -> Reactivated(d, j.on)
      [] op = "remove"        -> Removed(d, j.on)
      [] op = "revokeAll"     -> RevokedAll(d, j.on)
      [] op = "revokeSession" -> Revoked(d, j.by)

\* revokeAllSessionsForMember writes only if it found a session.
Writes(op, j, d) == op = "revokeAll" => SessionsOf(d, j.on) # {}

-------------------------------------------------------------------------------
(* The routes, each a sequence of mutations                                *)

Script(kind) ==
    CASE kind = "startLogin" -> <<"saveOtp">>
      [] kind = "verify"     -> <<"consumeOtp", "createSession">>
      [] kind = "logout"     -> <<"revokeSession">>
      [] kind \in {"invite", "inviteAdmin"} -> <<"createMember">>
      [] kind = "promote"    -> <<"promote">>
      [] kind = "demote"     -> <<"demote">>
      [] kind = "reactivate" -> <<"reactivate">>
      [] kind = "deactivate" -> <<"deactivate", "revokeAll">>
      [] kind = "remove"     -> <<"revokeAll", "remove">>

\* Whoever starts a login or logs out is not told apart: the account does not matter.
Kinds == {"startLogin", "verify", "logout", "invite", "inviteAdmin", "promote", "demote",
          "reactivate", "deactivate", "remove"}
OpenRoutes == {"startLogin", "verify", "logout"}
Jobs == [kind : {"startLogin"}, by : {None}, on : {First}]
          \cup [kind : {"verify"}, by : {None}, on : Members]
          \cup [kind : {"logout"}, by : Sessions, on : {First}]
          \cup [kind : Kinds \ OpenRoutes, by : Sessions, on : Members]

ASSUME NoneAssumption ==
    /\ None \notin Jobs \cup Snapshot
    /\ {Cold, Garbage, Reading} \cap Snapshot = {}
    /\ Reading # None

-------------------------------------------------------------------------------
(* read(): from the cache, or by loading the file                          *)

storeVars == <<file, buf, issued, off, stale>>

Idle(h) == job[h] = None /\ load[h] = None

StartLoad(h) ==
    /\ Idle(h)
    /\ cache = Cold
    /\ load' = [load EXCEPT ![h] = Reading]
    /\ UNCHANGED <<cache, job, todo, wiped, emptied, storeVars>>

\* What the file may hold: writeFile empties it before it writes.  The new text
\* counts as there when writeFile returns: who reads it, or starts again from it, a
\* moment before finds what it would have found a moment after.
Writing == {h \in Handlers : buf[h] # None}
Texts == {file} \cup (IF Writing = {} THEN {} ELSE {Garbage})

\* A text that does not parse, or a file that cannot be read, is an empty store.
ReadFile(h) ==
    /\ load[h] = Reading
    /\ \E d \in {Empty} \cup (Texts \ {Garbage}) : load' = [load EXCEPT ![h] = d]
    /\ UNCHANGED <<cache, job, todo, wiped, emptied, storeVars>>

\* The load ends: the cache becomes what was loaded, whatever it is by now.
FillCache(h) ==
    /\ load[h] \notin {None, Reading}
    /\ cache' = load[h]
    /\ load' = [load EXCEPT ![h] = None]
    /\ wiped' = (wiped \/ cache \notin {Cold, load[h]})
    /\ emptied' = (emptied \/ load[h] = Empty)

-------------------------------------------------------------------------------
(* Requests                                                                *)

\* A request has made its first read and found d: whoever needs an admin is refused
\* without one, and the others go on.
Serve(h, d) ==
    /\ ~emptied'
    /\ \E j \in Jobs :
          /\ j.by \in issued \cup {None}
          /\ j.kind \notin OpenRoutes => Authorised(d, j)
          /\ job' = [job EXCEPT ![h] = j]
          /\ todo' = [todo EXCEPT ![h] = Script(j.kind)]

Arrive(h) ==
    /\ Idle(h)
    /\ cache # Cold
    /\ UNCHANGED <<cache, load, wiped, emptied, storeVars>>
    /\ Serve(h, cache)

ArriveByLoad(h) ==
    /\ FillCache(h)
    /\ Serve(h, load[h])
    /\ UNCHANGED storeVars

\* A request that only reads, or is refused.
Look(h) ==
    /\ FillCache(h)
    /\ UNCHANGED <<job, todo, storeVars>>

Calling(h) == todo[h] # <<>> /\ buf[h] = None
Op(h) == Head(todo[h])

Refuse(h) ==
    /\ Calling(h)
    /\ ~Admitted(Op(h), job[h], cache)
    /\ job' = [job EXCEPT ![h] = None]
    /\ todo' = [todo EXCEPT ![h] = <<>>]
    /\ UNCHANGED <<cache, load, wiped, emptied, storeVars>>

\* An operation has returned: the route calls the next one, or answers.
Return(h) ==
    /\ todo' = [todo EXCEPT ![h] = Tail(@)]
    /\ job' = [job EXCEPT ![h] = IF Tail(todo[h]) = <<>> THEN None ELSE @]

OnlyRead(h) ==
    /\ Calling(h)
    /\ Admitted(Op(h), job[h], cache)
    /\ ~Writes(Op(h), job[h], cache)
    /\ Return(h)
    /\ UNCHANGED <<cache, load, wiped, emptied, storeVars>>

\* Clone the cache, edit the clone, start writing it to the file.
Edit(h) ==
    /\ Calling(h)
    /\ Admitted(Op(h), job[h], cache)
    /\ Writes(Op(h), job[h], cache)
    /\ IF Op(h) = "createSession"
         THEN \E token \in Sessions \ issued :
                 /\ issued' = issued \cup {token}
                 /\ buf' = [buf EXCEPT ![h] = Effect(Op(h), job[h], cache, token)]
         ELSE /\ buf' = [buf EXCEPT ![h] = Effect(Op(h), job[h], cache, None)]
              /\ UNCHANGED issued
    /\ UNCHANGED <<file, cache, load, job, todo, off, stale, wiped, emptied>>

\* The file is written: the clone becomes the cache, whatever that is by now.  Writes
\* return in the order in which their texts got into the file; a text written over
\* that of another mutation leaves the end of it if that is longer.
Commit(h) ==
    /\ buf[h] # None
    /\ file' \in {buf[h]} \cup (IF h \in stale THEN {Garbage} ELSE {})
    /\ cache' = buf[h]
    /\ buf' = [buf EXCEPT ![h] = None]
    /\ wiped' = (wiped \/ h \in stale)
    /\ stale' = {g \in Handlers \ {h} : buf[g] # None}
    /\ off' = CASE Op(h) = "deactivate" -> off \cup {job[h].on}
                [] Op(h) \in {"reactivate", "remove"} -> off \ {job[h].on}
                [] OTHER -> off
    /\ Return(h)
    /\ UNCHANGED <<load, issued, emptied>>

\* The file could not be opened, or not be written to its end: the cache stays, the
\* request ends in an error, and what its earlier operations did stays done.
WriteFails(h) ==
    /\ buf[h] # None
    /\ file' \in {file, Garbage}
    /\ buf' = [buf EXCEPT ![h] = None]
    /\ stale' = stale \ {h}
    /\ off' = IF job[h].kind = "deactivate" THEN off \ {job[h].on} ELSE off
    /\ job' = [job EXCEPT ![h] = None]
    /\ todo' = [todo EXCEPT ![h] = <<>>]
    /\ UNCHANGED <<cache, load, issued, wiped, emptied>>

\* The file stays as it was left.  A request that is cut off promises nothing.
Restart ==
    /\ file' \in Texts
    /\ cache' = Cold
    /\ load' = [h \in Handlers |-> None]
    /\ job' = [h \in Handlers |-> None]
    /\ todo' = [h \in Handlers |-> <<>>]
    /\ buf' = [h \in Handlers |-> None]
    /\ stale' = {}
    /\ off' = off \ {job[h].on : h \in {g \in Handlers :
                         job[g] # None /\ job[g].kind \in {"deactivate", "reactivate", "remove"}}}
    /\ UNCHANGED <<issued, wiped, emptied>>

Next ==
    \/ \E h \in Handlers :
          \/ StartLoad(h) \/ ReadFile(h) \/ ArriveByLoad(h) \/ Look(h)
          \/ Arrive(h) \/ Refuse(h) \/ OnlyRead(h)
          \/ Edit(h) \/ Commit(h) \/ WriteFails(h)
    \/ Restart

Spec == Init /\ [][Next]_vars

-------------------------------------------------------------------------------
TypeOK ==
    /\ file \in Snapshot \cup {Garbage}
    /\ cache \in Snapshot \cup {Cold}
    /\ cache # Cold => cache.admins \subseteq Present(cache)
    /\ load \in [Handlers -> Snapshot \cup {None, Reading}]
    /\ job \in [Handlers -> Jobs \cup {None}]
    /\ \A h \in Handlers : todo[h] # <<>> => job[h] # None /\ cache # Cold
    /\ buf \in [Handlers -> Snapshot \cup {None}]
    /\ issued \subseteq Sessions
    /\ off \subseteq Members
    /\ stale \subseteq Writing
    /\ wiped \in BOOLEAN
    /\ emptied \in BOOLEAN

\* What answers requests, and what the next start will find.
Held == {cache, file} \ {Cold, Garbage}

\* docs/onmycompany/RBAC.md: the last admin cannot be deactivated or removed.
\* However requests overlap, fail and are cut off, and although they and late loads
\* wipe each other's changes, there is always an active admin, in memory and in the
\* file; unless a load has found no file it could read and parse.
HasActiveAdmin ==
    emptied \/ \A d \in Held : \E a \in d.admins : d.status[a] = "active"

\* A session belongs to an account that has been activated: "pending never has
\* sessions", and a removed account leaves none.
SessionsAreActivated ==
    \A d \in Held : \A s \in d.sessions : d.status[s[2]] \in {"active", "deactivated"}

\* docs/onmycompany/API-NOTES.md: deactivating a member revokes its sessions.
\* A deactivated account cannot log in, and once the request is answered with
\* success has no session, until it is reactivated or removed; as long as the store
\* is not emptied altogether.
DeactivationSticks ==
    emptied \/ \A d \in Held, m \in off :
       /\ d.status[m] = "deactivated"
       /\ \/ SessionsOf(d, m) = {}
          \/ \E h \in Handlers : job[h] # None /\ job[h].kind = "deactivate" /\ job[h].on = m

\* It is so as long as no mutation has wiped another's change and no load has come
\* back behind one, whatever else the routes do between each other's mutations.
DeactivationSticksUnlessWiped == wiped \/ DeactivationSticks
===============================================================================
