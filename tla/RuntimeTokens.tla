---------------------------- MODULE RuntimeTokens ----------------------------
(***************************************************************************)
(* Runtime tokens of members: the runtime_tokens table, the file that      *)
(* binds a token to its member, and the routes that mint, bind, use and    *)
(* revoke.  The table is SQLite's, called without a pause.  Every          *)
(* operation on the bindings reads the file again and rewrites it in       *)
(* place: the file is truncated, then written, with no queue and no        *)
(* rename.  A file that does not parse, or cannot be read, counts as one   *)
(* without bindings.  Any write may fail, of the table, of the file or of  *)
(* the accounts, and the request then ends in an error halfway.  The admin *)
(* who deactivates and removes, reactivation, and what a gateway without   *)
(* any stored token lets through are left out.                             *)
(***************************************************************************)
EXTENDS Naturals, FiniteSets

CONSTANTS
    Requests,  \* requests, numbered in the order they come in
    Members,
    Tokens,    \* runtime tokens, each issued once
    Garbage,   \* a text that does not parse, the empty one too
    None

VARIABLES
    tokens,     \* runtime_tokens
    issued,     \* tokens handed out so far
    signedIn,   \* members with a session that resolves
    off,        \* members deactivated
    gone,       \* members removed
    file,       \* token-member-bindings.json
    req,        \* the request each handler serves
    pc,         \* where it is
    data,       \* the bindings it is about to write, or the member it found
    bound,      \* history: the bindings that the writes so far come to
    due,        \* history: what a revocation has to revoke: its member's tokens
                \* when it came in, unless bound again since
    minter,     \* history: the member each token was last bound to, if any
    spared,     \* history: tokens that a revocation of their member has missed: bound
                \* behind it, or it could not read the bindings, or it was a
                \* deactivation that ended halfway
    disturbed   \* history: operations on the file have overlapped, one has been cut
                \* off in the middle of a write, or a token has been bound by a
                \* request that could not read the bindings

vars == <<tokens, issued, signedIn, off, gone, file, req, pc, data, bound, due, minter, spared,
          disturbed>>

Bindings == SUBSET (Tokens \X Members)
Files == [text : Bindings \cup {Garbage}, size : 0 .. Cardinality(Tokens)]
EmptyFile == [text |-> Garbage, size |-> 0]

Revoking == {"logout", "deactivate", "remove"}
Kinds == Revoking \cup {"mint", "bind", "use"}
Jobs == [kind : {"mint"} \cup Revoking, member : Members, token : {None}]
          \cup [kind : {"mint", "bind"}, member : Members, token : Tokens]
          \cup [kind : {"use"}, member : {None}, token : Tokens]

ConstantsOK ==
    /\ Requests \subseteq Nat
    /\ IsFiniteSet(Tokens)
    /\ None \notin Members \cup Tokens \cup Jobs
    /\ \A b \in Bindings : b # Garbage

Steps == {"new", "arrived", "switched", "closed", "binding", "granted", "unbinding", "edited",
          "truncated", "finishing", "done"}

Init ==
    /\ tokens = {}
    /\ issued = {}
    /\ signedIn = Members
    /\ off = {}
    /\ gone = {}
    /\ file = EmptyFile
    /\ req = [r \in Requests |-> None]
    /\ pc = [r \in Requests |-> "new"]
    /\ data = [r \in Requests |-> None]
    /\ bound = {}
    /\ due = [r \in Requests |-> {}]
    /\ minter = [t \in Tokens |-> None]
    /\ spared = {}
    /\ disturbed = FALSE

-------------------------------------------------------------------------------
(* The bindings, and the file that holds them                              *)

\* Seeded fault: a token keeps its earlier binding.
RebindsTwice(b, t, m) == b \cup {<<t, m>>}
Rebound(b, t, m) == {x \in b : x[1] # t} \cup {<<t, m>>}

\* Seeded fault: the bindings of everybody else go.
UnboundOthers(b, m) == {x \in b : x[2] = m}
Unbound(b, m) == {x \in b : x[2] # m}

TokensOf(b, m) == {t \in Tokens : <<t, m>> \in b}

Parse(f) == IF f.text = Garbage THEN {} ELSE f.text

\* What a read gives: the bindings, or none if the file cannot be read.
Readings == {Parse(file), {}}

\* Every binding takes the same space, so the size of a file is their number.
\* A text written over a longer one leaves that one's end behind it.
Overwrite(f, b) ==
    IF f.size > Cardinality(b) THEN [text |-> Garbage, size |-> f.size]
                               ELSE [text |-> b, size |-> Cardinality(b)]

\* Somebody else has emptied the file and not written it yet.
HalfWritten(r) == \E q \in Requests \ {r} : pc[q] = "truncated"

\* Somebody else has read the file and will write it.
BeingEdited(r) == \E q \in Requests \ {r} : pc[q] \in {"edited", "truncated"}

-------------------------------------------------------------------------------
(* Requests                                                                *)

Serves(r, kind) == req[r] # None /\ req[r].kind = kind

Goto(r, step) == pc' = [pc EXCEPT ![r] = step]

Answer(r) ==
    /\ pc' = [pc EXCEPT ![r] = "done"]
    /\ req' = [req EXCEPT ![r] = None]
    /\ data' = [data EXCEPT ![r] = None]

MayArrive(j) ==
    CASE j.kind = "mint" -> j.member \in signedIn /\ j.token = None /\ Tokens \ issued # {}
      [] j.kind = "bind" -> j.member \in signedIn /\ j.token \in issued
      [] j.kind = "use"  -> j.token \in issued
      [] j.kind = "logout" -> j.member \in signedIn
      [] j.kind \in {"deactivate", "remove"} -> j.member \notin gone

\* requireMember or resolveSession has let the request in; its body is on the way.
Arrive(r) ==
    /\ pc[r] = "new"
    /\ \A q \in Requests : q < r => pc[q] # "new"
    /\ \E j \in Jobs :
          /\ MayArrive(j)
          /\ req' = [req EXCEPT ![r] = j]
          /\ due' = [due EXCEPT ![r] = IF j.kind \in Revoking THEN TokensOf(bound, j.member) ELSE {}]
    /\ Goto(r, "arrived")
    /\ UNCHANGED <<tokens, issued, signedIn, off, gone, file, data, bound, minter, spared, disturbed>>

\* createToken: a new row, before its binding.
Create(r) ==
    /\ pc[r] = "arrived"
    /\ req[r].kind = "mint"
    /\ \E t \in Tokens \ issued :
          /\ tokens' = tokens \cup {t}
          /\ issued' = issued \cup {t}
          /\ req' = [req EXCEPT ![r].token = t]
    /\ Goto(r, "binding")
    /\ UNCHANGED <<signedIn, off, gone, file, data, bound, due, minter, spared, disturbed>>

StartBind(r) ==
    /\ pc[r] = "arrived"
    /\ req[r].kind = "bind"
    /\ Goto(r, "binding")
    /\ UNCHANGED <<tokens, issued, signedIn, off, gone, file, req, data, bound, due, minter, spared, disturbed>>

\* deactivateMember: the account is off, and none of its sessions resolves.
SwitchOff(r) ==
    /\ pc[r] = "arrived"
    /\ req[r].kind = "deactivate"
    /\ signedIn' = signedIn \ {req[r].member}
    /\ off' = off \cup {req[r].member}
    /\ Goto(r, "switched")
    /\ UNCHANGED <<tokens, issued, gone, file, req, data, bound, due, minter, spared, disturbed>>

\* revokeAllSessionsForMember, before tokens are revoked.
CloseSessions(r) ==
    /\ \/ pc[r] = "switched"
       \/ pc[r] = "arrived" /\ req[r].kind = "remove"
    /\ signedIn' = signedIn \ {req[r].member}
    /\ Goto(r, "closed")
    /\ UNCHANGED <<tokens, issued, off, gone, file, req, data, bound, due, minter, spared, disturbed>>

\* The tokens that a deactivation leaves if it ends now: the account is off, and
\* they are not revoked.
LeftBehind(r) ==
    IF Serves(r, "deactivate") /\ pc[r] \in {"switched", "closed"}
      THEN TokensOf(bound, req[r].member)
      ELSE {}

\* The account store or the table of tokens fails, or the account is the last
\* active admin's: the request ends in an error where it is.
Fails(r) ==
    /\ \/ pc[r] = "arrived" /\ req[r].kind # "logout"
       \/ pc[r] = "switched"
    /\ Answer(r)
    /\ due' = [due EXCEPT ![r] = {}]
    /\ spared' = spared \cup LeftBehind(r)
    /\ UNCHANGED <<tokens, issued, signedIn, off, gone, file, bound, minter, disturbed>>

MayRevoke(r) ==
    \/ pc[r] = "arrived" /\ req[r].kind = "logout"
    \/ pc[r] = "closed"

\* Seeded fault: only the first of a member's tokens is revoked.
RevokesFirst(r, seen) ==
    LET ids == TokensOf(seen, req[r].member)
    IN  tokens' = IF ids = {} THEN tokens ELSE tokens \ {CHOOSE t \in ids : TRUE}
RevokesListed(r, seen) == tokens' = tokens \ TokensOf(seen, req[r].member)

\* listTokenIdsForMember has read the file; the tokens it names are revoked.
Revoke(r, seen) ==
    /\ MayRevoke(r)
    /\ RevokesListed(r, seen)
    /\ spared' = IF seen = Parse(file) THEN spared
                                       ELSE spared \cup TokensOf(bound, req[r].member)
    /\ disturbed' = (disturbed \/ HalfWritten(r))
    /\ Goto(r, "unbinding")
    /\ UNCHANGED <<issued, signedIn, off, gone, file, req, data, bound, due, minter>>

\* One of them cannot be revoked, and those behind it are not tried.
RevokeFails(r, revoked) ==
    /\ MayRevoke(r)
    /\ LET ids == TokensOf(Parse(file), req[r].member)
       IN  revoked \subseteq ids /\ revoked # ids
    /\ tokens' = tokens \ revoked
    /\ Answer(r)
    /\ due' = [due EXCEPT ![r] = {}]
    /\ spared' = spared \cup LeftBehind(r)
    /\ UNCHANGED <<issued, signedIn, off, gone, file, bound, minter, disturbed>>

\* resolveToken: a token without a row is not let in.
Find(r) ==
    /\ pc[r] = "arrived"
    /\ req[r].kind = "use"
    /\ IF req[r].token \in tokens
         THEN Goto(r, "granted") /\ UNCHANGED <<req, data>>
         ELSE Answer(r)
    /\ UNCHANGED <<tokens, issued, signedIn, off, gone, file, bound, due, minter, spared, disturbed>>

\* Seeded fault: a token without a binding goes to some member.
OwnersByTable(b, t) == {m \in Members : \E x \in b : x[2] = m}
Owners(b, t) == {m \in Members : <<t, m>> \in b}

\* resolveMemberId: the member the request runs as, and counts for, if any.
Attribute(r, seen) ==
    /\ pc[r] = "granted"
    /\ LET found == Owners(seen, req[r].token)
       IN  data' = [data EXCEPT ![r] = IF found = {} THEN None ELSE CHOOSE m \in found : TRUE]
    /\ disturbed' = (disturbed \/ HalfWritten(r))
    /\ req' = [req EXCEPT ![r] = None]
    /\ Goto(r, "done")
    /\ UNCHANGED <<tokens, issued, signedIn, off, gone, file, bound, due, minter, spared>>

-------------------------------------------------------------------------------
(* Changing the bindings: read, edit, truncate, write                      *)

\* What a binding or an unbinding makes of the bindings it has read.
Edited(r, b) ==
    IF req[r].kind \in Revoking THEN Unbound(b, req[r].member)
                                ELSE Rebound(b, req[r].token, req[r].member)

ReadAndEdit(r, seen) ==
    /\ pc[r] \in {"binding", "unbinding"}
    /\ Edited(r, seen) # seen \/ req[r].kind \notin Revoking
    /\ data' = [data EXCEPT ![r] = Edited(r, seen)]
    /\ disturbed' = (disturbed \/ BeingEdited(r) \/ seen # Parse(file))
    /\ Goto(r, "edited")
    /\ UNCHANGED <<tokens, issued, signedIn, off, gone, file, req, bound, due, minter, spared>>

\* unbindAllForMember writes only what has changed.
NothingToUnbind(r, seen) ==
    /\ pc[r] = "unbinding"
    /\ Edited(r, seen) = seen
    /\ disturbed' = (disturbed \/ HalfWritten(r))
    /\ Goto(r, "finishing")
    /\ UNCHANGED <<tokens, issued, signedIn, off, gone, file, req, data, bound, due, minter, spared>>

\* Seeded fault: the file is written over without being emptied first.
KeepsContent(f) == f
Truncated(f) == EmptyFile

Truncate(r) ==
    /\ pc[r] = "edited"
    /\ file' = Truncated(file)
    /\ Goto(r, "truncated")
    /\ UNCHANGED <<tokens, issued, signedIn, off, gone, req, data, bound, due, minter, spared, disturbed>>

\* The member has no session left, or a revocation has listed its tokens and not
\* unbound them yet.
BehindRevocation(m) ==
    \/ m \notin signedIn
    \/ \E q \in Requests : /\ pc[q] \in {"unbinding", "edited", "truncated"}
                           /\ req[q].kind \in Revoking /\ req[q].member = m

Write(r) ==
    /\ pc[r] = "truncated"
    /\ file' = Overwrite(file, data[r])
    /\ bound' = Edited(r, bound)
    /\ IF req[r].kind \in Revoking
         THEN /\ Goto(r, "finishing")
              /\ data' = [data EXCEPT ![r] = None]
              /\ UNCHANGED <<req, due, minter, spared>>
         ELSE /\ Answer(r)
              /\ due' = [q \in Requests |-> due[q] \ {req[r].token}]
              /\ minter' = [minter EXCEPT ![req[r].token] = req[r].member]
              /\ spared' = IF BehindRevocation(req[r].member) THEN spared \cup {req[r].token}
                                                           ELSE spared \ {req[r].token}
    /\ UNCHANGED <<tokens, issued, signedIn, off, gone, disturbed>>

\* The file could not be opened, or the write failed after it had been emptied.
\* The request ends in an error; what it has revoked stays revoked.
WriteFails(r) ==
    /\ pc[r] \in {"edited", "truncated"}
    /\ disturbed' = (disturbed \/ pc[r] = "truncated")
    /\ Answer(r)
    /\ due' = [due EXCEPT ![r] = {}]
    /\ UNCHANGED <<tokens, issued, signedIn, off, gone, file, bound, minter, spared>>

\* The session goes last, and only one: the member may have another.  An account
\* that is to be removed may turn out to be the last active admin's.
Finish(r) ==
    /\ pc[r] = "finishing"
    /\ CASE req[r].kind = "logout" ->
                 /\ signedIn' \in {signedIn, signedIn \ {req[r].member}}
                 /\ UNCHANGED <<off, gone>>
         [] req[r].kind = "remove" ->
                 \/ /\ gone' = gone \cup {req[r].member}
                    /\ signedIn' = signedIn \ {req[r].member}
                    /\ UNCHANGED off
                 \/ UNCHANGED <<off, gone, signedIn>>
         [] req[r].kind = "deactivate" -> UNCHANGED <<off, gone, signedIn>>
    /\ Answer(r)
    /\ due' = [due EXCEPT ![r] = {}]
    /\ UNCHANGED <<tokens, issued, file, bound, minter, spared, disturbed>>

-------------------------------------------------------------------------------
\* Seeded fault: a deactivated account may log in again.
NotRemoved(m) == m \notin gone
MayLogin(m) == m \notin off \cup gone

Login(m) ==
    /\ m \notin signedIn
    /\ MayLogin(m)
    /\ signedIn' = signedIn \cup {m}
    /\ UNCHANGED <<tokens, issued, off, gone, file, req, pc, data, bound, due, minter, spared, disturbed>>

\* The table and the files stay; who had emptied the file has not written it.
Restart ==
    /\ disturbed' = (disturbed \/ \E r \in Requests : pc[r] = "truncated")
    /\ req' = [r \in Requests |-> None]
    /\ pc' = [r \in Requests |-> IF pc[r] = "new" THEN "new" ELSE "done"]
    /\ data' = [r \in Requests |-> None]
    /\ due' = [r \in Requests |-> {}]
    /\ spared' = spared \cup UNION {LeftBehind(r) : r \in Requests}
    /\ UNCHANGED <<tokens, issued, signedIn, off, gone, file, bound, minter>>

Proceed(r) ==
    \/ Create(r) \/ StartBind(r) \/ SwitchOff(r) \/ CloseSessions(r) \/ Fails(r)
    \/ Find(r) \/ Truncate(r) \/ Write(r) \/ WriteFails(r) \/ Finish(r)
    \/ \E seen \in Readings :
          Revoke(r, seen) \/ Attribute(r, seen) \/ ReadAndEdit(r, seen) \/ NothingToUnbind(r, seen)
    \/ \E revoked \in SUBSET tokens : RevokeFails(r, revoked)

Next ==
    \/ \E r \in Requests : Arrive(r) \/ Proceed(r)
    \/ \E m \in Members : Login(m)
    \/ Restart

Spec == Init /\ [][Next]_vars

-------------------------------------------------------------------------------
TypeOK ==
    /\ tokens \subseteq issued
    /\ issued \subseteq Tokens
    /\ signedIn \subseteq Members \ (off \cup gone)
    /\ file \in Files
    /\ req \in [Requests -> Jobs \cup {None}]
    /\ pc \in [Requests -> Steps]
    /\ \A r \in Requests : pc[r] \in {"new", "done"} <=> req[r] = None
    /\ data \in [Requests -> Bindings \cup Members \cup {None}]
    /\ bound \in Bindings
    /\ due \in [Requests -> SUBSET Tokens]
    /\ minter \in [Tokens -> Members \cup {None}]
    /\ spared \subseteq Tokens
    /\ disturbed \in BOOLEAN

\* docs/onmycompany/API-NOTES.md: logging out revokes the runtime tokens bound to
\* the member.  From then on no token is left that was the member's when the
\* request came in, unless it was bound again since, or is one that this
\* revocation or an earlier one has missed; the same for deactivating and removing.
RevocationReachesAll ==
    \A r \in Requests :
       pc[r] \in {"unbinding", "edited", "truncated", "finishing"}
          => disturbed \/ due[r] \cap tokens \subseteq spared

\* A member is deactivated first and loses its tokens then, in steps that may fail.
\* Unless a deactivation is still on its way there, the tokens bound to the member
\* that resolve are those of requests let in before, whose binding was written
\* behind the revocation, and those that a failure or a restart kept it from.
DeactivatedKeepOnlySpared ==
    \A m \in off :
       \/ disturbed
       \/ \E r \in Requests : /\ Serves(r, "deactivate") /\ req[r].member = m
                             /\ pc[r] \in {"switched", "closed"}
       \/ TokensOf(bound, m) \cap tokens \subseteq spared

\* A request runs as the member its token was last bound to, and counts against
\* that member's quota.  It runs as nobody only if the bindings cannot be read, if
\* a revocation has missed the token, as that may unbind it, or if the token is
\* revoked meanwhile.
RunsAsOwner ==
    [][\A r \in Requests, seen \in Readings :
          Attribute(r, seen) =>
             LET t == req[r].token
             IN  \/ data'[r] = minter[t]
                 \/ /\ data'[r] = None
                    /\ seen # Parse(file) \/ t \in spared \/ t \notin tokens
                 \/ disturbed']_vars
===============================================================================
