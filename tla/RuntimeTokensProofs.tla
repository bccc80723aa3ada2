------------------------- MODULE RuntimeTokensProofs -------------------------
(***************************************************************************)
(* Proofs about RuntimeTokens, as MCCompanyStores instantiates it, for any *)
(* number of requests, members and tokens: who logs out, is deactivated or *)
(* removed loses the tokens bound to it, and a request runs as the last    *)
(* binder of its token, but for tokens that a revocation has spared, as    *)
(* long as nothing disturbs the file of bindings. The invariant has to say *)
(* what the file holds between any two steps of the one request that       *)
(* rewrites it, and that what a revocation must reach is, until it has     *)
(* revoked, still bound to its member.                                     *)
(***************************************************************************)
EXTENDS MCCompanyStores, FiniteSetTheorems, TLAPS

\* A token is bound to one member at most.
Functional(b) == \A x, y \in b : x[1] = y[1] => x[2] = y[2]

\* The request has read the bindings and will write them.
Writing(r) == pc[r] \in {"edited", "truncated"}
\* The request logs a member out, deactivates or removes it.
Revokes(r) == req[r] # None /\ req[r].kind \in Bindings!Revoking

\* A request that reads the file, whatever it reads.
AnyRevoke(r) == \E seen \in Bindings!Readings : Bindings!Revoke(r, seen)
AnyAttribute(r) == \E seen \in Bindings!Readings : Bindings!Attribute(r, seen)
AnyEdit(r) == \E seen \in Bindings!Readings : Bindings!ReadAndEdit(r, seen)
AnySkip(r) == \E seen \in Bindings!Readings : Bindings!NothingToUnbind(r, seen)
\* A request that ends in an error before it has revoked.
AnyFailure(r) == Bindings!Fails(r) \/ \E revoked \in SUBSET tokens : Bindings!RevokeFails(r, revoked)

\* What is known of a request by the step it is at.
JobKept(r) ==
    /\ pc[r] = "switched" => req[r].kind = "deactivate"
    /\ pc[r] = "closed" => req[r].kind \in {"deactivate", "remove"}
    /\ pc[r] = "binding" => req[r].kind \in {"mint", "bind"} /\ req[r].token \in issued
    /\ pc[r] = "granted" => req[r].kind = "use"
    /\ pc[r] \in {"unbinding", "finishing"} => req[r].kind \in Bindings!Revoking
    /\ Writing(r) => \/ req[r].kind \in Bindings!Revoking
                     \/ req[r].kind \in {"mint", "bind"} /\ req[r].token \in issued
    /\ req[r] # None /\ req[r].kind \in {"bind", "use"} => req[r].token \in issued
    /\ Bindings!Serves(r, "deactivate") /\ pc[r] # "arrived" => req[r].member \in off
    /\ Writing(r) => data[r] \in Bindings!Bindings /\ Functional(data[r])

\* Only tokens handed out are bound, by their last binder.
HistoryKept ==
    /\ Functional(Bindings!Parse(file))
    /\ \A x \in bound : x[1] \in issued /\ minter[x[1]] = x[2]
    /\ \A r \in Requests : due[r] \subseteq issued
    /\ \A t \in Tokens : minter[t] # None => t \in issued

\* Only a revocation has tokens that it must revoke.
OnlyRevokersAreDue == \A r \in Requests : Revokes(r) \/ due[r] = {}

\* While operations do not overlap, the file holds the bindings, but while it is
\* being written, by one request, which knows them.
FileKept ==
    /\ \A r, q \in Requests : Writing(r) /\ Writing(q) => r = q
    /\ (\A r \in Requests : pc[r] # "truncated") => Bindings!Parse(file) = bound
    /\ \A r \in Requests :
          /\ Writing(r) => data[r] = Bindings!Edited(r, bound)
          /\ pc[r] = "truncated" => file = Bindings!EmptyFile

\* The tokens bound to a member that resolve were what revocations have missed.
OnlySpared(m) == Bindings!TokensOf(bound, m) \cap tokens \subseteq spared

\* A request that has revoked its member's tokens and is not answered yet.
HasRevoked(r) ==
    /\ Revokes(r)
    /\ pc[r] \in {"unbinding", "edited", "truncated"}
          \/ (pc[r] = "finishing" /\ req[r].kind = "deactivate")

\* A deactivation has switched the member off and not revoked its tokens yet.
Pending(r, m) ==
    /\ Bindings!Serves(r, "deactivate") /\ req[r].member = m
    /\ pc[r] \in {"switched", "closed"}

\* What a request that has revoked leaves its member, it has missed.
RevokedKept == \A r \in Requests : HasRevoked(r) => OnlySpared(req[r].member)
\* What a revocation has to revoke is still bound to its member, or has been missed.
DueKept == \A r \in Requests :
              Revokes(r) => due[r] \cap tokens \subseteq spared
                 \cup Bindings!TokensOf(bound, req[r].member)
\* RevocationReachesAll, while operations do not overlap.
ReachedKept == \A r \in Requests :
                  pc[r] \in {"unbinding", "edited", "truncated", "finishing"}
                     => due[r] \cap tokens \subseteq spared
\* DeactivatedKeepOnlySpared, while operations do not overlap.
OffKept == \A m \in off : (\E r \in Requests : Pending(r, m)) \/ OnlySpared(m)
\* A token that resolves is bound to its last binder, or a revocation has missed it.
MinterKept == \A t \in tokens \ spared : minter[t] # None => <<t, minter[t]>> \in bound

TokensKept == RevokedKept /\ DueKept /\ ReachedKept /\ OffKept /\ MinterKept

\* The inductive invariant.
TokenInv ==
    /\ Bindings!TypeOK
    /\ \A r \in Requests : JobKept(r)
    /\ HistoryKept
    /\ OnlyRevokersAreDue
    /\ ~disturbed => FileKept /\ TokensKept
-------------------------------------------------------------------------------
\* What the parts of a job may be.
LEMMA JobShape ==
  ASSUME Bindings!ConstantsOK, NEW j \in Bindings!Jobs
  PROVE  /\ j # None /\ j.kind \in Bindings!Kinds
         /\ j.kind # "use" => j.member \in Members
         /\ j.kind \in {"bind", "use"} => j.token \in Tokens
         /\ j.token \in Tokens \cup {None}
  BY DEF Bindings!ConstantsOK, Bindings!Jobs, Bindings!Kinds, Bindings!Revoking

\* A job that mints stays one when its token is known.
LEMMA Minted ==
  ASSUME NEW j \in Bindings!Jobs, j.kind = "mint", NEW t \in Tokens
  PROVE  LET k == [j EXCEPT !.token = t]
         IN  k \in Bindings!Jobs /\ k.kind = "mint" /\ k.member = j.member /\ k.token = t
  BY DEF Bindings!Jobs, Bindings!Revoking

\* What an instance says of finite sets is what FiniteSets says.
LEMMA FiniteIs == \A S : (Bindings!IsFiniteSet(S) <=> IsFiniteSet(S))
  BY DEF Bindings!IsFiniteSet, IsFiniteSet

\* So is what it says of their sizes.
LEMMA CardinalityIs == \A S : Bindings!Cardinality(S) = Cardinality(S)
  BY DEF Bindings!Cardinality, Cardinality

\* A token has room for one binding.
LEMMA BindingsFit ==
  ASSUME Bindings!ConstantsOK, NEW b \in Bindings!Bindings, Functional(b)
  PROVE  /\ IsFiniteSet(b) /\ Cardinality(b) \in 0..Cardinality(Tokens)
         /\ Cardinality(Tokens) \in Nat
  <1> DEFINE f == [x \in b |-> x[1]]
  <1>1. b \subseteq Tokens \X Members
    BY DEF Bindings!Bindings
  <1>2. \A x, y \in b : x[1] = y[1] => x = y
    BY <1>1 DEF Functional
  <1>3. f \in Injection(b, Tokens)
    BY <1>1, <1>2 DEF Injection, IsInjective
  <1>4. IsFiniteSet(Tokens)
    BY FiniteIs DEF Bindings!ConstantsOK
  <1>5. IsFiniteSet(b) /\ Cardinality(b) <= Cardinality(Tokens)
    BY <1>3, <1>4, FS_Injection
  <1>6. Cardinality(b) \in Nat /\ Cardinality(Tokens) \in Nat
    BY <1>4, <1>5, FS_CardinalityType
  <1>7. QED
    BY <1>5, <1>6

\* An edit leaves bindings, each token with one member at most.
LEMMA EditedAre ==
  ASSUME Bindings!ConstantsOK, NEW r \in Requests, req[r] \in Bindings!Jobs,
         NEW b \in Bindings!Bindings, Functional(b),
         req[r].kind \in Bindings!Revoking
            \/ (req[r].kind \in {"mint", "bind"} /\ req[r].token \in Tokens)
  PROVE  Bindings!Edited(r, b) \in Bindings!Bindings /\ Functional(Bindings!Edited(r, b))
  <1>1. CASE req[r].kind \in Bindings!Revoking
    <2>1. Bindings!Edited(r, b) = Bindings!Unbound(b, req[r].member)
      BY <1>1 DEF Bindings!Edited
    <2>2. QED
      BY <2>1 DEF Bindings!Unbound, Bindings!Bindings, Functional
  <1>2. CASE req[r].kind \notin Bindings!Revoking
    <2>1. Bindings!Edited(r, b) = Bindings!Rebound(b, req[r].token, req[r].member)
      BY <1>2 DEF Bindings!Edited
    <2>2. req[r].token \in Tokens /\ req[r].member \in Members
      BY <1>2, JobShape
    <2>3. QED
      BY <2>1, <2>2 DEF Bindings!Rebound, Bindings!Bindings, Functional
  <1>3. QED
    BY <1>1, <1>2

\* What is read of the file are bindings.
LEMMA ParseType ==
  ASSUME Bindings!TypeOK
  PROVE  Bindings!Parse(file) \in Bindings!Bindings
  BY DEF Bindings!TypeOK, Bindings!Files, Bindings!Parse, Bindings!Bindings

\* Either bindings or none, of each token at most one.
LEMMA ReadingIs ==
  ASSUME Bindings!TypeOK, HistoryKept, NEW seen \in Bindings!Readings
  PROVE  seen \in Bindings!Bindings /\ Functional(seen)
  BY ParseType DEF Bindings!Readings, Bindings!Bindings, HistoryKept, Functional

\* A step is one of a request, or of a member, or a restart.
LEMMA NextIs ==
  ASSUME [Bindings!Next]_(Bindings!vars)
  PROVE  \/ \E r \in Requests :
               \/ Bindings!Arrive(r) \/ Bindings!Create(r) \/ Bindings!StartBind(r)
               \/ Bindings!SwitchOff(r) \/ Bindings!CloseSessions(r) \/ AnyFailure(r)
               \/ AnyRevoke(r) \/ Bindings!Find(r) \/ AnyAttribute(r) \/ AnyEdit(r)
               \/ AnySkip(r) \/ Bindings!Truncate(r) \/ Bindings!Write(r)
               \/ Bindings!WriteFails(r) \/ Bindings!Finish(r)
         \/ \E m \in Members : Bindings!Login(m)
         \/ Bindings!Restart \/ UNCHANGED Bindings!vars
  BY DEF Bindings!Next, Bindings!Proceed, AnyRevoke, AnyAttribute, AnyEdit, AnySkip, AnyFailure

\* What is written is a file: the bindings of a text never outnumber the
\* tokens.
LEMMA OverwriteType ==
  ASSUME Bindings!ConstantsOK, NEW f \in Bindings!Files, NEW b \in Bindings!Bindings,
         Functional(b)
  PROVE  Bindings!Overwrite(f, b) \in Bindings!Files
  BY BindingsFit, CardinalityIs DEF Bindings!Overwrite, Bindings!Files

\* The handlers keep their types when a request is answered.
LEMMA AnswerTypes ==
  ASSUME Bindings!TypeOK, NEW r \in Requests, Bindings!Answer(r)
  PROVE  /\ req' \in [Requests -> Bindings!Jobs \cup {None}]
         /\ pc' \in [Requests -> Bindings!Steps]
         /\ \A q \in Requests : pc'[q] \in {"new", "done"} <=> req'[q] = None
         /\ data' \in [Requests -> Bindings!Bindings \cup Members \cup {None}]
  <1>1. pc' \in [Requests -> Bindings!Steps]
    BY DEF Bindings!Answer, Bindings!TypeOK, Bindings!Steps
  <1>2. data' \in [Requests -> Bindings!Bindings \cup Members \cup {None}]
    BY DEF Bindings!Answer, Bindings!TypeOK
  <1>3. QED
    BY <1>1, <1>2 DEF Bindings!Answer, Bindings!TypeOK

\* They keep them when a request moves on to another step.
LEMMA GotoTypes ==
  ASSUME Bindings!TypeOK, NEW r \in Requests, NEW step \in Bindings!Steps, Bindings!Goto(r, step),
         pc[r] \notin {"new", "done"}, step \notin {"new", "done"}, req' = req
  PROVE  /\ req' \in [Requests -> Bindings!Jobs \cup {None}]
         /\ pc' \in [Requests -> Bindings!Steps]
         /\ \A q \in Requests : pc'[q] \in {"new", "done"} <=> req'[q] = None
  BY DEF Bindings!Goto, Bindings!TypeOK

\* Every step keeps the types.
LEMMA TokenTypesKept ==
  ASSUME Bindings!ConstantsOK, Bindings!TypeOK, \A r \in Requests : JobKept(r), HistoryKept,
         [Bindings!Next]_(Bindings!vars)
  PROVE  Bindings!TypeOK'
  <1>1. ASSUME NEW r \in Requests, Bindings!Arrive(r) PROVE Bindings!TypeOK'
    <2>1. PICK j \in Bindings!Jobs :
            /\ req' = [req EXCEPT ![r] = j]
            /\ due' = [due EXCEPT ![r] =
                  IF j.kind \in Bindings!Revoking THEN Bindings!TokensOf(bound, j.member) ELSE {}]
      BY <1>1 DEF Bindings!Arrive
    <2>2. j # None
      BY JobShape
    <2>3. pc' = [pc EXCEPT ![r] = "arrived"]
      BY <1>1 DEF Bindings!Arrive, Bindings!Goto
    <2>4. req' \in [Requests -> Bindings!Jobs \cup {None}] /\ pc' \in [Requests -> Bindings!Steps]
      BY <2>1, <2>3 DEF Bindings!TypeOK, Bindings!Steps
    <2>5. \A q \in Requests : pc'[q] \in {"new", "done"} <=> req'[q] = None
      BY <2>1, <2>2, <2>3 DEF Bindings!TypeOK
    <2>6. due' \in [Requests -> SUBSET Tokens]
      BY <2>1 DEF Bindings!TypeOK, Bindings!TokensOf
    <2>7. QED
      BY <1>1, <2>4, <2>5, <2>6 DEF Bindings!Arrive, Bindings!TypeOK
  <1>2. ASSUME NEW r \in Requests, Bindings!Create(r) PROVE Bindings!TypeOK'
    <2>1. PICK t \in Tokens \ issued :
            /\ tokens' = tokens \cup {t} /\ issued' = issued \cup {t}
            /\ req' = [req EXCEPT ![r].token = t]
      BY <1>2 DEF Bindings!Create
    <2>2. pc[r] = "arrived" /\ req[r] \in Bindings!Jobs /\ req[r].kind = "mint"
      BY <1>2 DEF Bindings!Create, Bindings!TypeOK
    <2>3. req' = [req EXCEPT ![r] = [req[r] EXCEPT !.token = t]]
      BY <2>1
    <2>4. [req[r] EXCEPT !.token = t] \in Bindings!Jobs /\ [req[r] EXCEPT !.token = t] # None
      BY <2>2, Minted, JobShape
    <2>5. pc' = [pc EXCEPT ![r] = "binding"]
      BY <1>2 DEF Bindings!Create, Bindings!Goto
    <2>6. req' \in [Requests -> Bindings!Jobs \cup {None}] /\ pc' \in [Requests -> Bindings!Steps]
      BY <2>3, <2>4, <2>5 DEF Bindings!TypeOK, Bindings!Steps
    <2>7. \A q \in Requests : pc'[q] \in {"new", "done"} <=> req'[q] = None
      BY <2>2, <2>3, <2>4, <2>5 DEF Bindings!TypeOK
    <2>8. QED
      BY <1>2, <2>1, <2>6, <2>7 DEF Bindings!Create, Bindings!TypeOK
  <1>3. ASSUME NEW r \in Requests, Bindings!StartBind(r) PROVE Bindings!TypeOK'
    <2>1. /\ req' \in [Requests -> Bindings!Jobs \cup {None}]
          /\ pc' \in [Requests -> Bindings!Steps]
          /\ \A q \in Requests : pc'[q] \in {"new", "done"} <=> req'[q] = None
      BY <1>3, GotoTypes DEF Bindings!StartBind, Bindings!Steps
    <2>2. QED
      BY <1>3, <2>1 DEF Bindings!StartBind, Bindings!TypeOK
  <1>4. ASSUME NEW r \in Requests, Bindings!CloseSessions(r) PROVE Bindings!TypeOK'
    <2>1. /\ req' \in [Requests -> Bindings!Jobs \cup {None}]
          /\ pc' \in [Requests -> Bindings!Steps]
          /\ \A q \in Requests : pc'[q] \in {"new", "done"} <=> req'[q] = None
      BY <1>4, GotoTypes DEF Bindings!CloseSessions, Bindings!Steps
    <2>2. QED
      BY <1>4, <2>1 DEF Bindings!CloseSessions, Bindings!TypeOK
  <1>5. ASSUME NEW r \in Requests, NEW seen \in Bindings!Readings, Bindings!Revoke(r, seen)
        PROVE  Bindings!TypeOK'
    <2>1. /\ req' \in [Requests -> Bindings!Jobs \cup {None}]
          /\ pc' \in [Requests -> Bindings!Steps]
          /\ \A q \in Requests : pc'[q] \in {"new", "done"} <=> req'[q] = None
      BY <1>5, GotoTypes DEF Bindings!Revoke, Bindings!MayRevoke, Bindings!Steps
    <2>2. tokens' \subseteq tokens /\ disturbed' \in BOOLEAN /\ spared' \subseteq Tokens
      BY <1>5
         DEF Bindings!Revoke, Bindings!RevokesListed, Bindings!HalfWritten, Bindings!TokensOf,
             Bindings!TypeOK
    <2>3. QED
      BY <1>5, <2>1, <2>2 DEF Bindings!Revoke, Bindings!TypeOK
  <1>6. ASSUME NEW r \in Requests, Bindings!Find(r) PROVE Bindings!TypeOK'
    <2>1. CASE Bindings!Goto(r, "granted") /\ UNCHANGED <<req, data>>
      <3>1. /\ req' \in [Requests -> Bindings!Jobs \cup {None}]
            /\ pc' \in [Requests -> Bindings!Steps]
            /\ \A q \in Requests : pc'[q] \in {"new", "done"} <=> req'[q] = None
        BY <1>6, <2>1, GotoTypes DEF Bindings!Find, Bindings!Steps
      <3>2. QED
        BY <1>6, <2>1, <3>1 DEF Bindings!Find, Bindings!TypeOK
    <2>2. CASE Bindings!Answer(r)
      BY <1>6, <2>2, AnswerTypes DEF Bindings!Find, Bindings!TypeOK
    <2>3. QED
      BY <1>6, <2>1, <2>2 DEF Bindings!Find
  <1>7. ASSUME NEW r \in Requests, NEW seen \in Bindings!Readings, Bindings!Attribute(r, seen)
        PROVE  Bindings!TypeOK'
    <2> DEFINE found == Bindings!Owners(seen, req[r].token)
               m == IF found = {} THEN None ELSE CHOOSE x \in found : TRUE
    <2>1. /\ data' = [data EXCEPT ![r] = m] /\ req' = [req EXCEPT ![r] = None]
          /\ pc' = [pc EXCEPT ![r] = "done"]
      BY <1>7 DEF Bindings!Attribute, Bindings!Goto
    <2>2. m \in Members \cup {None}
      BY DEF Bindings!Owners
    <2> HIDE DEF m
    <2>3. data' \in [Requests -> Bindings!Bindings \cup Members \cup {None}]
      BY <2>1, <2>2 DEF Bindings!TypeOK
    <2>4. disturbed' \in BOOLEAN
      BY <1>7 DEF Bindings!Attribute, Bindings!HalfWritten, Bindings!TypeOK
    <2>5. /\ req' \in [Requests -> Bindings!Jobs \cup {None}]
          /\ pc' \in [Requests -> Bindings!Steps]
          /\ \A q \in Requests : pc'[q] \in {"new", "done"} <=> req'[q] = None
      BY <2>1 DEF Bindings!TypeOK, Bindings!Steps
    <2>6. QED
      BY <1>7, <2>3, <2>4, <2>5 DEF Bindings!Attribute, Bindings!TypeOK
  <1>8. ASSUME NEW r \in Requests, NEW seen \in Bindings!Readings, Bindings!ReadAndEdit(r, seen)
        PROVE  Bindings!TypeOK'
    <2>1. /\ req' \in [Requests -> Bindings!Jobs \cup {None}]
          /\ pc' \in [Requests -> Bindings!Steps]
          /\ \A q \in Requests : pc'[q] \in {"new", "done"} <=> req'[q] = None
      BY <1>8, GotoTypes DEF Bindings!ReadAndEdit, Bindings!Steps
    <2>2. Bindings!Edited(r, seen) \in Bindings!Bindings
      <3>1. req[r] \in Bindings!Jobs
        BY <1>8 DEF Bindings!ReadAndEdit, Bindings!TypeOK
      <3>2. req[r].kind \in Bindings!Revoking
               \/ (req[r].kind \in {"mint", "bind"} /\ req[r].token \in Tokens)
        BY <1>8 DEF Bindings!ReadAndEdit, JobKept, Bindings!TypeOK
      <3>3. QED
        BY <3>1, <3>2, ReadingIs, EditedAre
    <2>3. data' \in [Requests -> Bindings!Bindings \cup Members \cup {None}]
      BY <1>8, <2>2 DEF Bindings!ReadAndEdit, Bindings!TypeOK
    <2>4. disturbed' \in BOOLEAN
      BY <1>8 DEF Bindings!ReadAndEdit, Bindings!BeingEdited, Bindings!TypeOK
    <2>5. QED
      BY <1>8, <2>1, <2>3, <2>4 DEF Bindings!ReadAndEdit, Bindings!TypeOK
  <1>9. ASSUME NEW r \in Requests, NEW seen \in Bindings!Readings, Bindings!NothingToUnbind(r, seen)
        PROVE  Bindings!TypeOK'
    <2>1. /\ req' \in [Requests -> Bindings!Jobs \cup {None}]
          /\ pc' \in [Requests -> Bindings!Steps]
          /\ \A q \in Requests : pc'[q] \in {"new", "done"} <=> req'[q] = None
      BY <1>9, GotoTypes DEF Bindings!NothingToUnbind, Bindings!Steps
    <2>2. disturbed' \in BOOLEAN
      BY <1>9 DEF Bindings!NothingToUnbind, Bindings!HalfWritten, Bindings!TypeOK
    <2>3. QED
      BY <1>9, <2>1, <2>2 DEF Bindings!NothingToUnbind, Bindings!TypeOK
  <1>10. ASSUME NEW r \in Requests, Bindings!Truncate(r) PROVE Bindings!TypeOK'
    <2>1. /\ req' \in [Requests -> Bindings!Jobs \cup {None}]
          /\ pc' \in [Requests -> Bindings!Steps]
          /\ \A q \in Requests : pc'[q] \in {"new", "done"} <=> req'[q] = None
      BY <1>10, GotoTypes DEF Bindings!Truncate, Bindings!Steps
    <2>2. Bindings!EmptyFile \in Bindings!Files
      <3>1. Cardinality(Tokens) \in Nat
        BY FS_CardinalityType, FiniteIs DEF Bindings!ConstantsOK
      <3>2. QED
        BY <3>1, CardinalityIs DEF Bindings!EmptyFile, Bindings!Files
    <2>3. QED
      BY <1>10, <2>1, <2>2 DEF Bindings!Truncate, Bindings!Truncated, Bindings!TypeOK
  <1>11. ASSUME NEW r \in Requests, Bindings!Write(r) PROVE Bindings!TypeOK'
    <2>1. /\ pc[r] = "truncated" /\ data[r] \in Bindings!Bindings /\ Functional(data[r])
          /\ req[r] \in Bindings!Jobs
          /\ req[r].kind \in Bindings!Revoking
                \/ (req[r].kind \in {"mint", "bind"} /\ req[r].token \in Tokens)
      BY <1>11 DEF Bindings!Write, JobKept, Writing, Bindings!TypeOK
    <2>2. file' \in Bindings!Files
      BY <1>11, <2>1, OverwriteType DEF Bindings!Write, Bindings!TypeOK
    <2>3. bound' \in Bindings!Bindings
      <3>1. Functional(bound)
        BY DEF HistoryKept, Functional
      <3>2. QED
        BY <1>11, <2>1, <3>1, EditedAre DEF Bindings!Write, Bindings!TypeOK
    <2>4. CASE req[r].kind \in Bindings!Revoking
      <3>1. Bindings!Goto(r, "finishing") /\ data' = [data EXCEPT ![r] = None]
               /\ UNCHANGED <<req, due, minter, spared>>
        BY <1>11, <2>4 DEF Bindings!Write
      <3>2. /\ req' \in [Requests -> Bindings!Jobs \cup {None}]
            /\ pc' \in [Requests -> Bindings!Steps]
            /\ \A q \in Requests : pc'[q] \in {"new", "done"} <=> req'[q] = None
        BY <2>1, <3>1, GotoTypes DEF Bindings!Steps
      <3>3. data' \in [Requests -> Bindings!Bindings \cup Members \cup {None}]
        BY <3>1 DEF Bindings!TypeOK
      <3>4. QED
        BY <1>11, <2>2, <2>3, <3>1, <3>2, <3>3 DEF Bindings!Write, Bindings!TypeOK
    <2>5. CASE req[r].kind \notin Bindings!Revoking
      <3>1. /\ Bindings!Answer(r)
            /\ due' = [q \in Requests |-> due[q] \ {req[r].token}]
            /\ minter' = [minter EXCEPT ![req[r].token] = req[r].member]
            /\ spared' \subseteq spared \cup {req[r].token}
        BY <1>11, <2>5 DEF Bindings!Write
      <3>2. req[r].token \in Tokens /\ req[r].member \in Members
        BY <2>1, <2>5, JobShape
      <3>3. due' \in [Requests -> SUBSET Tokens] /\ minter' \in [Tokens -> Members \cup {None}]
            /\ spared' \subseteq Tokens
        BY <3>1, <3>2 DEF Bindings!TypeOK
      <3>4. QED
        BY <1>11, <2>2, <2>3, <3>1, <3>3, AnswerTypes DEF Bindings!Write, Bindings!TypeOK
    <2>6. QED
      BY <2>4, <2>5
  <1>12. ASSUME NEW r \in Requests, Bindings!WriteFails(r) PROVE Bindings!TypeOK'
    <2>1. due' \in [Requests -> SUBSET Tokens] /\ disturbed' \in BOOLEAN
      BY <1>12 DEF Bindings!WriteFails, Bindings!TypeOK
    <2>2. QED
      BY <1>12, <2>1, AnswerTypes DEF Bindings!WriteFails, Bindings!TypeOK
  <1>13. ASSUME NEW r \in Requests, Bindings!Finish(r) PROVE Bindings!TypeOK'
    <2>1. due' \in [Requests -> SUBSET Tokens]
      BY <1>13 DEF Bindings!Finish, Bindings!TypeOK
    <2>2. req[r].kind \in Bindings!Revoking
      BY <1>13 DEF Bindings!Finish, JobKept
    <2>3. signedIn' \subseteq Members \ (off' \cup gone')
      <3>1. CASE req[r].kind = "logout"
        BY <1>13, <3>1 DEF Bindings!Finish, Bindings!TypeOK
      <3>2. CASE req[r].kind = "remove"
        BY <1>13, <3>2 DEF Bindings!Finish, Bindings!TypeOK
      <3>3. CASE req[r].kind = "deactivate"
        BY <1>13, <3>3 DEF Bindings!Finish, Bindings!TypeOK
      <3>4. QED
        BY <2>2, <3>1, <3>2, <3>3 DEF Bindings!Revoking
    <2>4. QED
      BY <1>13, <2>1, <2>3, AnswerTypes DEF Bindings!Finish, Bindings!TypeOK
  <1>14. ASSUME NEW m \in Members, Bindings!Login(m) PROVE Bindings!TypeOK'
    BY <1>14 DEF Bindings!Login, Bindings!MayLogin, Bindings!TypeOK
  <1>15. CASE Bindings!Restart
    <2>1. /\ req' \in [Requests -> Bindings!Jobs \cup {None}]
          /\ \A q \in Requests : pc'[q] \in {"new", "done"} <=> req'[q] = None
          /\ data' \in [Requests -> Bindings!Bindings \cup Members \cup {None}]
          /\ due' \in [Requests -> SUBSET Tokens]
      BY <1>15 DEF Bindings!Restart
    <2>2. pc' \in [Requests -> Bindings!Steps]
      BY <1>15 DEF Bindings!Restart, Bindings!TypeOK, Bindings!Steps
    <2>3. spared' \subseteq Tokens
      <3>1. spared \subseteq Tokens /\ \A q \in Requests : Bindings!LeftBehind(q) \subseteq Tokens
        BY DEF Bindings!TypeOK, Bindings!LeftBehind, Bindings!TokensOf
      <3>2. QED
        BY <1>15, <3>1 DEF Bindings!Restart
    <2>4. disturbed' \in BOOLEAN
      BY <1>15 DEF Bindings!Restart, Bindings!TypeOK
    <2>5. QED
      BY <1>15, <2>1, <2>2, <2>3, <2>4 DEF Bindings!Restart, Bindings!TypeOK
  <1>16. CASE UNCHANGED Bindings!vars
    BY <1>16 DEF Bindings!vars, Bindings!TypeOK
  <1>17. ASSUME NEW r \in Requests, Bindings!SwitchOff(r) PROVE Bindings!TypeOK'
    <2>1. /\ req' \in [Requests -> Bindings!Jobs \cup {None}]
          /\ pc' \in [Requests -> Bindings!Steps]
          /\ \A q \in Requests : pc'[q] \in {"new", "done"} <=> req'[q] = None
      BY <1>17, GotoTypes DEF Bindings!SwitchOff, Bindings!Steps
    <2>2. signedIn' \subseteq Members \ (off' \cup gone')
      BY <1>17 DEF Bindings!SwitchOff, Bindings!TypeOK
    <2>3. QED
      BY <1>17, <2>1, <2>2 DEF Bindings!SwitchOff, Bindings!TypeOK
  <1>18. ASSUME NEW r \in Requests, AnyFailure(r) PROVE Bindings!TypeOK'
    <2>1. /\ Bindings!Answer(r) /\ due' \in [Requests -> SUBSET Tokens]
          /\ tokens' \subseteq tokens /\ spared' \subseteq Tokens
          /\ UNCHANGED <<issued, signedIn, off, gone, file, bound, minter, disturbed>>
      <3>1. spared \subseteq Tokens /\ Bindings!LeftBehind(r) \subseteq Tokens
        BY DEF Bindings!TypeOK, Bindings!LeftBehind, Bindings!TokensOf
      <3>2. due' = [due EXCEPT ![r] = {}] => due' \in [Requests -> SUBSET Tokens]
        BY DEF Bindings!TypeOK
      <3>3. QED
        BY <1>18, <3>1, <3>2 DEF AnyFailure, Bindings!Fails, Bindings!RevokeFails
    <2>2. QED
      BY <2>1, AnswerTypes DEF Bindings!TypeOK
  <1>19. QED
    BY <1>1, <1>2, <1>3, <1>4, <1>5, <1>6, <1>7, <1>8, <1>9, <1>10, <1>11, <1>12, <1>13, <1>14,
       <1>15, <1>16, <1>17, <1>18, NextIs DEF AnyRevoke, AnyAttribute, AnyEdit, AnySkip

\* A request of which nothing changes is where it was.
SameJob(q) == req'[q] = req[q] /\ pc'[q] = pc[q] /\ data'[q] = data[q]

\* A step of one request leaves the others where they are.
LEMMA OthersWait ==
  ASSUME Bindings!TypeOK, NEW r \in Requests,
         \/ Bindings!Arrive(r) \/ Bindings!Create(r) \/ Bindings!StartBind(r)
         \/ Bindings!SwitchOff(r) \/ Bindings!CloseSessions(r) \/ AnyFailure(r)
         \/ AnyRevoke(r) \/ Bindings!Find(r) \/ AnyAttribute(r) \/ AnyEdit(r)
         \/ AnySkip(r) \/ Bindings!Truncate(r) \/ Bindings!Write(r)
         \/ Bindings!WriteFails(r) \/ Bindings!Finish(r),
         NEW q \in Requests, q # r
  PROVE  SameJob(q)
  <1>1. CASE \/ Bindings!Arrive(r) \/ Bindings!Create(r) \/ Bindings!StartBind(r)
             \/ Bindings!SwitchOff(r) \/ Bindings!CloseSessions(r) \/ AnyRevoke(r)
    BY <1>1
       DEF Bindings!Arrive, Bindings!Create, Bindings!StartBind, Bindings!SwitchOff,
           Bindings!CloseSessions, AnyRevoke, Bindings!Revoke, Bindings!Goto, SameJob,
           Bindings!TypeOK
  <1>2. CASE \/ Bindings!Find(r) \/ AnyAttribute(r) \/ AnyEdit(r)
             \/ AnySkip(r) \/ Bindings!Truncate(r)
    BY <1>2
       DEF Bindings!Find, AnyAttribute, Bindings!Attribute, AnyEdit, Bindings!ReadAndEdit,
           AnySkip, Bindings!NothingToUnbind, Bindings!Truncate, Bindings!Goto,
           Bindings!Answer, SameJob, Bindings!TypeOK
  <1>3. CASE AnyFailure(r) \/ Bindings!Write(r) \/ Bindings!WriteFails(r) \/ Bindings!Finish(r)
    <2>1. \/ Bindings!Answer(r)
          \/ Bindings!Goto(r, "finishing") /\ data' = [data EXCEPT ![r] = None] /\ req' = req
      BY <1>3
         DEF Bindings!Write, Bindings!WriteFails, Bindings!Finish, AnyFailure, Bindings!Fails,
             Bindings!RevokeFails
    <2>2. QED
      BY <2>1 DEF Bindings!Goto, Bindings!Answer, SameJob, Bindings!TypeOK
  <1>4. QED
    BY <1>1, <1>2, <1>3

\* Tokens handed out stay handed out, members deactivated stay so.
LEMMA Growing ==
  ASSUME \A r \in Requests : JobKept(r), [Bindings!Next]_(Bindings!vars)
  PROVE  issued \subseteq issued' /\ off \subseteq off'
  <1>1. ASSUME NEW r \in Requests, Bindings!Finish(r)
        PROVE  issued \subseteq issued' /\ off \subseteq off'
    <2>1. req[r].kind \in Bindings!Revoking
      BY <1>1 DEF Bindings!Finish, JobKept
    <2>2. QED
      BY <1>1, <2>1 DEF Bindings!Finish, Bindings!Revoking
  <1>2. ASSUME NEW r \in Requests,
               \/ Bindings!Arrive(r) \/ Bindings!Create(r) \/ Bindings!StartBind(r)
               \/ Bindings!SwitchOff(r) \/ Bindings!CloseSessions(r) \/ AnyFailure(r)
               \/ AnyRevoke(r) \/ Bindings!Find(r) \/ AnyAttribute(r) \/ AnyEdit(r)
               \/ AnySkip(r) \/ Bindings!Truncate(r) \/ Bindings!Write(r)
               \/ Bindings!WriteFails(r)
        PROVE  issued \subseteq issued' /\ off \subseteq off'
    BY <1>2
       DEF Bindings!Arrive, Bindings!Create, Bindings!StartBind, Bindings!SwitchOff,
           Bindings!CloseSessions, AnyFailure, Bindings!Fails, Bindings!RevokeFails,
           AnyRevoke, Bindings!Revoke, Bindings!Find, AnyAttribute, Bindings!Attribute,
           AnyEdit, Bindings!ReadAndEdit, AnySkip, Bindings!NothingToUnbind,
           Bindings!Truncate, Bindings!Write, Bindings!WriteFails
  <1>3. QED
    BY <1>1, <1>2, NextIs DEF Bindings!Login, Bindings!Restart, Bindings!vars

\* Every step keeps what is known of a request by its step.
LEMMA JobsKept ==
  ASSUME Bindings!ConstantsOK, Bindings!TypeOK, \A r \in Requests : JobKept(r), HistoryKept,
         [Bindings!Next]_(Bindings!vars),
         NEW q \in Requests
  PROVE  JobKept(q)'
  <1>1. JobKept(q) /\ issued \subseteq issued' /\ off \subseteq off'
    BY Growing
  <1>2. CASE SameJob(q)
    BY <1>1, <1>2 DEF SameJob, JobKept, Writing, Bindings!Serves
  <1>3. CASE pc'[q] \in {"new", "done"} /\ req'[q] = None
    BY <1>3 DEF JobKept, Writing, Bindings!Serves
  <1>4. CASE Bindings!Restart
    BY <1>3, <1>4 DEF Bindings!Restart
  <1>5. CASE (\E m \in Members : Bindings!Login(m)) \/ UNCHANGED Bindings!vars
    BY <1>2, <1>5 DEF Bindings!Login, Bindings!vars, SameJob
  <1>6. CASE Bindings!Answer(q)
    BY <1>3, <1>6 DEF Bindings!Answer, Bindings!TypeOK
  <1>7. CASE Bindings!Arrive(q)
    <2>1. PICK j \in Bindings!Jobs : Bindings!MayArrive(j) /\ req' = [req EXCEPT ![q] = j]
      BY <1>7 DEF Bindings!Arrive
    <2>2. req'[q] = j /\ pc'[q] = "arrived" /\ issued' = issued
      BY <1>7, <2>1 DEF Bindings!Arrive, Bindings!Goto, Bindings!TypeOK
    <2>3. j.kind \in {"bind", "use"} => j.token \in issued
      BY <2>1 DEF Bindings!MayArrive
    <2>4. QED
      BY <2>2, <2>3 DEF JobKept, Writing, Bindings!Serves
  <1>8. CASE Bindings!Create(q)
    <2>1. PICK t \in Tokens \ issued : issued' = issued \cup {t}
                  /\ req' = [req EXCEPT ![q].token = t]
      BY <1>8 DEF Bindings!Create
    <2>2. req[q] \in Bindings!Jobs /\ req[q].kind = "mint"
      BY <1>8 DEF Bindings!Create, Bindings!TypeOK
    <2>3. req'[q] = [req[q] EXCEPT !.token = t] /\ pc'[q] = "binding"
      BY <1>8, <2>1 DEF Bindings!Create, Bindings!Goto, Bindings!TypeOK
    <2>4. req'[q].kind = "mint" /\ req'[q].token = t
      BY <2>2, <2>3, Minted
    <2>5. QED
      BY <2>1, <2>3, <2>4 DEF JobKept, Writing, Bindings!Serves
  <1>9. CASE Bindings!StartBind(q)
    <2>1. /\ req' = req /\ pc'[q] = "binding" /\ req[q].kind = "bind" /\ issued' = issued
          /\ pc[q] = "arrived"
      BY <1>9 DEF Bindings!StartBind, Bindings!Goto, Bindings!TypeOK
    <2>2. req[q].token \in issued
      BY <1>1, <2>1 DEF JobKept, Bindings!TypeOK
    <2>3. QED
      BY <2>1, <2>2 DEF JobKept, Writing, Bindings!Serves
  <1>10. CASE Bindings!SwitchOff(q) \/ Bindings!CloseSessions(q)
    <2>1. CASE Bindings!SwitchOff(q)
      <3>1. /\ req' = req /\ pc'[q] = "switched" /\ req[q].kind = "deactivate"
            /\ req[q].member \in off'
        BY <2>1 DEF Bindings!SwitchOff, Bindings!Goto, Bindings!TypeOK
      <3>2. QED
        BY <3>1 DEF JobKept, Writing, Bindings!Serves
    <2>2. CASE Bindings!CloseSessions(q)
      <3>1. /\ req' = req /\ pc'[q] = "closed" /\ off' = off
            /\ pc[q] = "switched" \/ (pc[q] = "arrived" /\ req[q].kind = "remove")
        BY <2>2 DEF Bindings!CloseSessions, Bindings!Goto, Bindings!TypeOK
      <3>2. req[q].kind \in {"deactivate", "remove"}
        BY <1>1, <3>1 DEF JobKept
      <3>3. QED
        BY <1>1, <3>1, <3>2 DEF JobKept, Writing, Bindings!Serves
    <2>3. QED
      BY <1>10, <2>1, <2>2
  <1>11. CASE AnyRevoke(q)
    <2>1. /\ req' = req /\ pc'[q] = "unbinding"
          /\ (pc[q] = "arrived" /\ req[q].kind = "logout") \/ pc[q] = "closed"
      BY <1>11
         DEF AnyRevoke, Bindings!Revoke, Bindings!MayRevoke, Bindings!Goto, Bindings!TypeOK
    <2>2. QED
      BY <1>1, <2>1 DEF JobKept, Writing, Bindings!Serves, Bindings!Revoking
  <1>12. CASE Bindings!Find(q)
    <2>1. CASE Bindings!Goto(q, "granted") /\ UNCHANGED req
      <3>1. req' = req /\ pc'[q] = "granted" /\ req[q].kind = "use" /\ pc[q] = "arrived"
        BY <1>12, <2>1 DEF Bindings!Find, Bindings!Goto, Bindings!TypeOK
      <3>2. QED
        BY <1>1, <3>1 DEF JobKept, Writing, Bindings!Serves
    <2>2. QED
      BY <1>6, <1>12, <2>1 DEF Bindings!Find
  <1>13. CASE AnyAttribute(q)
    BY <1>3, <1>13 DEF AnyAttribute, Bindings!Attribute, Bindings!Goto, Bindings!TypeOK
  <1>14. CASE AnyEdit(q)
    <2>1. PICK seen \in Bindings!Readings : Bindings!ReadAndEdit(q, seen)
      BY <1>14 DEF AnyEdit
    <2>2. /\ req' = req /\ pc'[q] = "edited" /\ pc[q] \in {"binding", "unbinding"}
          /\ data'[q] = Bindings!Edited(q, seen)
      BY <2>1 DEF Bindings!ReadAndEdit, Bindings!Goto, Bindings!TypeOK
    <2>3. req[q] \in Bindings!Jobs
      BY <2>2 DEF Bindings!TypeOK
    <2>4. req[q].kind \in Bindings!Revoking
             \/ (req[q].kind \in {"mint", "bind"} /\ req[q].token \in issued)
      BY <1>1, <2>2 DEF JobKept
    <2>5. data'[q] \in Bindings!Bindings /\ Functional(data'[q])
      BY <2>2, <2>3, <2>4, ReadingIs, EditedAre DEF Bindings!TypeOK
    <2>6. QED
      BY <1>1, <2>2, <2>4, <2>5 DEF JobKept, Writing, Bindings!Serves
  <1>15. CASE AnySkip(q)
    <2>1. req' = req /\ pc'[q] = "finishing" /\ pc[q] = "unbinding"
      BY <1>15 DEF AnySkip, Bindings!NothingToUnbind, Bindings!Goto, Bindings!TypeOK
    <2>2. QED
      BY <1>1, <2>1 DEF JobKept, Writing, Bindings!Serves
  <1>16. CASE Bindings!Truncate(q)
    <2>1. req' = req /\ data' = data /\ pc'[q] = "truncated" /\ pc[q] = "edited"
             /\ issued' = issued /\ off' = off
      BY <1>16 DEF Bindings!Truncate, Bindings!Goto, Bindings!TypeOK
    <2>2. QED
      BY <1>1, <2>1 DEF JobKept, Writing, Bindings!Serves
  <1>17. CASE Bindings!Write(q)
    <2>1. CASE req[q].kind \in Bindings!Revoking
      <3>1. req' = req /\ pc'[q] = "finishing" /\ pc[q] = "truncated"
        BY <1>17, <2>1 DEF Bindings!Write, Bindings!Goto, Bindings!TypeOK
      <3>2. QED
        BY <1>1, <2>1, <3>1 DEF JobKept, Writing, Bindings!Serves
    <2>2. QED
      BY <1>6, <1>17, <2>1 DEF Bindings!Write
  <1>18. CASE AnyFailure(q) \/ Bindings!WriteFails(q) \/ Bindings!Finish(q)
    BY <1>6, <1>18
       DEF AnyFailure, Bindings!Fails, Bindings!RevokeFails, Bindings!WriteFails,
           Bindings!Finish
  <1>19. QED
    BY <1>2, <1>4, <1>5, <1>7, <1>8, <1>9, <1>10, <1>11, <1>12, <1>13, <1>14, <1>15, <1>16,
       <1>17, <1>18, OthersWait, NextIs

\* Every step keeps the bindings functional, and their history theirs.
LEMMA HistoryStays ==
  ASSUME Bindings!ConstantsOK, Bindings!TypeOK, \A r \in Requests : JobKept(r), HistoryKept,
         [Bindings!Next]_(Bindings!vars)
  PROVE  HistoryKept'
  <1>1. issued \subseteq issued'
    BY Growing
  <1>2. CASE UNCHANGED <<file, bound, minter>> /\ \A r \in Requests : due'[r] \subseteq issued
    BY <1>1, <1>2 DEF HistoryKept
  <1>3. CASE UNCHANGED <<file, bound, minter, due>>
    BY <1>1, <1>3 DEF HistoryKept
  <1>4. ASSUME NEW r \in Requests, Bindings!Arrive(r) PROVE HistoryKept'
    <2>1. PICK j \in Bindings!Jobs :
            due' = [due EXCEPT ![r] =
               IF j.kind \in Bindings!Revoking THEN Bindings!TokensOf(bound, j.member) ELSE {}]
      BY <1>4 DEF Bindings!Arrive
    <2>2. \A m : Bindings!TokensOf(bound, m) \subseteq issued
      BY DEF HistoryKept, Bindings!TokensOf
    <2>3. \A q \in Requests : due'[q] \subseteq issued
      BY <2>1, <2>2 DEF HistoryKept, Bindings!TypeOK
    <2>4. QED
      BY <1>2, <1>4, <2>3 DEF Bindings!Arrive
  <1>5. ASSUME NEW r \in Requests,
               AnyFailure(r) \/ Bindings!WriteFails(r) \/ Bindings!Finish(r)
        PROVE  HistoryKept'
    <2>1. due' = [due EXCEPT ![r] = {}] /\ UNCHANGED <<file, bound, minter>>
      BY <1>5
         DEF AnyFailure, Bindings!Fails, Bindings!RevokeFails, Bindings!WriteFails,
             Bindings!Finish
    <2>2. \A q \in Requests : due'[q] \subseteq issued
      BY <2>1 DEF HistoryKept, Bindings!TypeOK
    <2>3. QED
      BY <1>2, <2>1, <2>2
  <1>6. CASE Bindings!Restart
    BY <1>2, <1>6 DEF Bindings!Restart
  <1>7. ASSUME NEW r \in Requests, Bindings!Truncate(r) PROVE HistoryKept'
    <2>1. Bindings!Parse(file') = {} /\ UNCHANGED <<bound, minter, due, issued>>
      BY <1>7 DEF Bindings!Truncate, Bindings!Truncated, Bindings!EmptyFile, Bindings!Parse
    <2>2. QED
      BY <2>1 DEF HistoryKept, Functional, Bindings!Parse
  <1>8. ASSUME NEW r \in Requests, Bindings!Write(r) PROVE HistoryKept'
    <2>1. /\ Functional(data[r]) /\ req[r] \in Bindings!Jobs /\ issued' = issued
          /\ req[r].kind \in Bindings!Revoking
                \/ (req[r].kind \in {"mint", "bind"} /\ req[r].token \in issued)
          /\ bound' = Bindings!Edited(r, bound)
      BY <1>8 DEF Bindings!Write, JobKept, Writing, Bindings!TypeOK
    <2>2. Functional(Bindings!Parse(file'))
      <3>1. file'.text = Garbage \/ file'.text = data[r]
        BY <1>8 DEF Bindings!Write, Bindings!Overwrite
      <3>2. QED
        BY <2>1, <3>1 DEF Bindings!Parse, Functional
    <2>3. CASE req[r].kind \in Bindings!Revoking
      <3>1. bound' = Bindings!Unbound(bound, req[r].member) /\ UNCHANGED <<due, minter>>
        BY <1>8, <2>1, <2>3 DEF Bindings!Write, Bindings!Edited
      <3>2. QED
        BY <2>1, <2>2, <3>1 DEF HistoryKept, Bindings!Unbound, Bindings!Parse
    <2>4. CASE req[r].kind \notin Bindings!Revoking
      <3>1. /\ bound' = Bindings!Rebound(bound, req[r].token, req[r].member)
            /\ due' = [q \in Requests |-> due[q] \ {req[r].token}]
            /\ minter' = [minter EXCEPT ![req[r].token] = req[r].member]
            /\ req[r].token \in issued
        BY <1>8, <2>1, <2>4 DEF Bindings!Write, Bindings!Edited
      <3>2. \A x \in bound' : x[1] \in issued /\ minter'[x[1]] = x[2]
        <4>1. ASSUME NEW x \in bound' PROVE x[1] \in issued /\ minter'[x[1]] = x[2]
          <5>1. CASE x \in bound /\ x[1] # req[r].token
            BY <3>1, <5>1 DEF HistoryKept, Bindings!TypeOK, Bindings!Bindings
          <5>2. CASE x = <<req[r].token, req[r].member>>
            BY <3>1, <5>2 DEF Bindings!TypeOK
          <5>3. QED
            BY <3>1, <5>1, <5>2 DEF Bindings!Rebound
        <4>2. QED
          BY <4>1
      <3>3. \A q \in Requests : due'[q] \subseteq issued
        BY <3>1 DEF HistoryKept
      <3>4. \A t \in Tokens : minter'[t] # None => t \in issued
        BY <3>1 DEF HistoryKept, Bindings!TypeOK
      <3>5. QED
        BY <2>1, <2>2, <3>2, <3>3, <3>4 DEF HistoryKept, Bindings!Parse
    <2>5. QED
      BY <2>3, <2>4
  <1>9. ASSUME NEW r \in Requests,
               \/ Bindings!Create(r) \/ Bindings!StartBind(r) \/ Bindings!SwitchOff(r)
               \/ Bindings!CloseSessions(r) \/ AnyRevoke(r)
               \/ Bindings!Find(r) \/ AnyAttribute(r) \/ AnyEdit(r) \/ AnySkip(r)
        PROVE  HistoryKept'
    BY <1>3, <1>9
       DEF Bindings!Create, Bindings!StartBind, Bindings!SwitchOff, Bindings!CloseSessions,
           AnyRevoke, Bindings!Revoke, Bindings!Find, AnyAttribute, Bindings!Attribute,
           AnyEdit, Bindings!ReadAndEdit, AnySkip, Bindings!NothingToUnbind
  <1>10. QED
    BY <1>3, <1>4, <1>5, <1>6, <1>7, <1>8, <1>9, NextIs DEF Bindings!Login, Bindings!vars

\* Unless operations overlap, a step keeps the file with the bindings: the
\* one request that writes knows what they are.
LEMMA FileFollows ==
  ASSUME Bindings!ConstantsOK, Bindings!TypeOK, \A r \in Requests : JobKept(r), HistoryKept,
         ~disturbed => FileKept,
         [Bindings!Next]_(Bindings!vars), ~disturbed'
  PROVE  ~disturbed /\ FileKept /\ FileKept'
  <1>1. ~disturbed /\ FileKept
    <2>1. ~disturbed
      BY NextIs
         DEF Bindings!TypeOK, Bindings!Arrive, Bindings!Create, Bindings!StartBind,
             Bindings!SwitchOff, Bindings!CloseSessions, AnyFailure, Bindings!Fails,
             Bindings!RevokeFails, AnyRevoke, Bindings!Revoke, Bindings!Find, AnyAttribute,
             Bindings!Attribute, AnyEdit, Bindings!ReadAndEdit, AnySkip,
             Bindings!NothingToUnbind, Bindings!Truncate, Bindings!Write,
             Bindings!WriteFails, Bindings!Finish, Bindings!Login, Bindings!Restart,
             Bindings!vars
    <2>2. QED
      BY <2>1
  <1>2. ASSUME UNCHANGED <<file, bound>>, NEW r \in Requests,
               \A q \in Requests \ {r} : SameJob(q),
               ~Writing(r)', pc[r] # "truncated"
        PROVE  FileKept'
    <2>1. \A q \in Requests : Writing(q)' => q # r /\ SameJob(q) /\ Writing(q)
      BY <1>2 DEF SameJob, Writing
    <2>2. \A q, p \in Requests : Writing(q)' /\ Writing(p)' => q = p
      BY <1>1, <2>1 DEF FileKept
    <2>3. \A q \in Requests : Writing(q)' => data'[q] = Bindings!Edited(q, bound)'
      BY <1>1, <1>2, <2>1 DEF FileKept, SameJob, Bindings!Edited
    <2>4. \A q \in Requests : pc'[q] = "truncated" => file' = Bindings!EmptyFile
      BY <1>1, <1>2, <2>1 DEF FileKept, SameJob, Writing
    <2>5. (\A q \in Requests : pc'[q] # "truncated") => Bindings!Parse(file)' = bound'
      BY <1>1, <1>2 DEF FileKept, SameJob, Bindings!Parse
    <2>6. QED
      BY <2>2, <2>3, <2>4, <2>5 DEF FileKept
  <1>3. ASSUME UNCHANGED <<file, bound, req, pc, data>> PROVE FileKept'
    BY <1>1, <1>3 DEF FileKept, Writing, Bindings!Edited, Bindings!Parse
  <1>4. ASSUME NEW r \in Requests,
               \/ Bindings!Arrive(r) \/ Bindings!Create(r) \/ Bindings!StartBind(r)
               \/ Bindings!SwitchOff(r) \/ Bindings!CloseSessions(r) \/ AnyFailure(r)
               \/ AnyRevoke(r) \/ Bindings!Find(r) \/ AnyAttribute(r) \/ AnySkip(r)
               \/ Bindings!Finish(r)
        PROVE  FileKept'
    <2>1. UNCHANGED <<file, bound>> /\ pc[r] # "truncated"
      BY <1>4
         DEF Bindings!Arrive, Bindings!Create, Bindings!StartBind, Bindings!SwitchOff,
             Bindings!CloseSessions, AnyFailure, Bindings!Fails, Bindings!RevokeFails,
             Bindings!MayRevoke, AnyRevoke, Bindings!Revoke, Bindings!Find, AnyAttribute,
             Bindings!Attribute, AnySkip, Bindings!NothingToUnbind, Bindings!Finish
    <2>2. ~Writing(r)'
      BY <1>4
         DEF Bindings!Arrive, Bindings!Create, Bindings!StartBind, Bindings!SwitchOff,
             Bindings!CloseSessions, AnyFailure, Bindings!Fails, Bindings!RevokeFails,
             Bindings!MayRevoke, AnyRevoke, Bindings!Revoke, Bindings!Find, AnyAttribute,
             Bindings!Attribute, AnySkip, Bindings!NothingToUnbind, Bindings!Finish,
             Bindings!Goto, Bindings!Answer, Writing, Bindings!TypeOK
    <2>3. \A q \in Requests \ {r} : SameJob(q)
      BY <1>4, OthersWait
    <2>4. QED
      BY <1>2, <2>1, <2>2, <2>3
  <1>5. ASSUME NEW r \in Requests, AnyEdit(r) PROVE FileKept'
    <2>1. /\ UNCHANGED <<file, bound, req>> /\ ~Bindings!BeingEdited(r) /\ pc'[r] = "edited"
          /\ data'[r] = Bindings!Edited(r, Bindings!Parse(file)) /\ pc[r] # "truncated"
      <3>1. PICK seen \in Bindings!Readings : Bindings!ReadAndEdit(r, seen)
        BY <1>5 DEF AnyEdit
      <3>2. seen = Bindings!Parse(file)
        BY <3>1 DEF Bindings!ReadAndEdit
      <3>3. QED
        BY <3>1, <3>2 DEF Bindings!ReadAndEdit, Bindings!Goto, Bindings!TypeOK
    <2>2. \A q \in Requests \ {r} : SameJob(q) /\ ~Writing(q) /\ ~Writing(q)'
      <3>1. \A q \in Requests \ {r} : SameJob(q) /\ ~Writing(q)
        BY <1>5, <2>1, OthersWait DEF Bindings!BeingEdited, Writing
      <3>2. QED
        BY <3>1 DEF SameJob, Writing
    <2>3. \A q \in Requests : pc[q] # "truncated" /\ pc'[q] # "truncated"
      BY <2>1, <2>2 DEF Writing
    <2>4. Bindings!Parse(file) = bound
      BY <1>1, <2>3 DEF FileKept
    <2>5. data'[r] = Bindings!Edited(r, bound)'
      BY <2>1, <2>4 DEF Bindings!Edited
    <2>6. QED
      BY <2>1, <2>2, <2>3, <2>4, <2>5 DEF FileKept, Bindings!Parse
  <1>6. ASSUME NEW r \in Requests, Bindings!Truncate(r) PROVE FileKept'
    <2>1. /\ pc[r] = "edited" /\ pc'[r] = "truncated" /\ file' = Bindings!EmptyFile
          /\ UNCHANGED <<req, data, bound>>
      BY <1>6 DEF Bindings!Truncate, Bindings!Truncated, Bindings!Goto, Bindings!TypeOK
    <2>2. \A q \in Requests \ {r} : ~Writing(q) /\ ~Writing(q)'
      <3>1. \A q \in Requests \ {r} : SameJob(q) /\ ~Writing(q)
        BY <1>1, <1>6, <2>1, OthersWait DEF FileKept, Writing
      <3>2. QED
        BY <3>1 DEF SameJob, Writing
    <2>3. data'[r] = Bindings!Edited(r, bound)'
      BY <1>1, <2>1 DEF FileKept, Writing, Bindings!Edited
    <2>4. QED
      BY <2>1, <2>2, <2>3 DEF FileKept
  <1>7. ASSUME NEW r \in Requests, Bindings!Write(r) PROVE FileKept'
    <2>1. /\ pc[r] = "truncated" /\ file = Bindings!EmptyFile /\ data[r] = Bindings!Edited(r, bound)
          /\ data[r] \in Bindings!Bindings /\ Functional(data[r])
      BY <1>1, <1>7 DEF Bindings!Write, FileKept, JobKept, Writing
    <2>2. Bindings!Parse(file)' = bound'
      <3>1. Cardinality(data[r]) \in Nat
        BY <2>1, BindingsFit
      <3>2. file'.text = data[r]
        BY <1>7, <2>1, <3>1, CardinalityIs
           DEF Bindings!Write, Bindings!Overwrite, Bindings!EmptyFile
      <3>3. data[r] # Garbage
        BY <2>1 DEF Bindings!ConstantsOK
      <3>4. QED
        BY <1>7, <2>1, <3>2, <3>3 DEF Bindings!Write, Bindings!Parse
    <2>3. ~Writing(r)'
      BY <1>7 DEF Bindings!Write, Bindings!Goto, Bindings!Answer, Writing, Bindings!TypeOK
    <2>4. \A q \in Requests \ {r} : SameJob(q) /\ ~Writing(q)
      BY <1>1, <1>7, <2>1, OthersWait DEF FileKept, Writing
    <2>5. \A q \in Requests : ~Writing(q)'
      BY <2>3, <2>4 DEF SameJob, Writing
    <2>6. QED
      BY <2>2, <2>5 DEF FileKept, Writing
  <1>8. ASSUME NEW r \in Requests, Bindings!WriteFails(r) PROVE FileKept'
    <2>1. UNCHANGED <<file, bound>> /\ pc[r] # "truncated"
      BY <1>8 DEF Bindings!WriteFails
    <2>2. ~Writing(r)'
      BY <1>8 DEF Bindings!WriteFails, Bindings!Answer, Writing, Bindings!TypeOK
    <2>3. \A q \in Requests \ {r} : SameJob(q)
      BY <1>8, OthersWait
    <2>4. QED
      BY <1>2, <2>1, <2>2, <2>3
  <1>9. ASSUME Bindings!Restart PROVE FileKept'
    <2>1. /\ \A q \in Requests : pc[q] # "truncated" /\ ~Writing(q)'
          /\ UNCHANGED <<file, bound>>
      BY <1>9 DEF Bindings!Restart, Writing
    <2>2. Bindings!Parse(file) = bound
      BY <1>1, <2>1 DEF FileKept
    <2>3. Bindings!Parse(file)' = bound'
      BY <2>1, <2>2 DEF Bindings!Parse
    <2>4. \A q \in Requests : ~Writing(q)' /\ pc'[q] # "truncated"
      BY <2>1 DEF Writing
    <2>5. QED
      BY <2>3, <2>4 DEF FileKept, Writing
  <1>10. ASSUME (\E m \in Members : Bindings!Login(m)) \/ UNCHANGED Bindings!vars PROVE FileKept'
    BY <1>3, <1>10 DEF Bindings!Login, Bindings!vars
  <1>11. FileKept'
    BY <1>4, <1>5, <1>6, <1>7, <1>8, <1>9, <1>10, NextIs
  <1>12. QED
    BY <1>1, <1>11

\* Nobody but a revocation gets tokens that it must revoke.
LEMMA OnlyRevokersStay ==
  ASSUME Bindings!ConstantsOK, Bindings!TypeOK, \A r \in Requests : JobKept(r),
         OnlyRevokersAreDue, [Bindings!Next]_(Bindings!vars)
  PROVE  OnlyRevokersAreDue'
  <1>1. ASSUME NEW r \in Requests,
               \/ Bindings!Arrive(r) \/ Bindings!Create(r) \/ Bindings!StartBind(r)
               \/ Bindings!SwitchOff(r) \/ Bindings!CloseSessions(r) \/ AnyFailure(r)
               \/ AnyRevoke(r)
               \/ Bindings!Find(r) \/ AnyAttribute(r) \/ AnyEdit(r)
               \/ AnySkip(r)
               \/ Bindings!Truncate(r) \/ Bindings!Write(r) \/ Bindings!WriteFails(r)
               \/ Bindings!Finish(r),
               (Revokes(r) \/ due[r] = {})'
        PROVE  OnlyRevokersAreDue'
    <2>1. \A q \in Requests \ {r} : SameJob(q)
      BY <1>1, OthersWait
    <2>2. \A q \in Requests \ {r} : due'[q] \subseteq due[q]
      <3>1. CASE Bindings!Write(r)
        <4>1. due' = due \/ due' = [q \in Requests |-> due[q] \ {req[r].token}]
          BY <3>1 DEF Bindings!Write
        <4>2. QED
          BY <4>1
      <3>2. CASE \/ Bindings!Arrive(r) \/ AnyFailure(r) \/ Bindings!WriteFails(r)
                 \/ Bindings!Finish(r)
        BY <3>2
           DEF Bindings!Arrive, AnyFailure, Bindings!Fails, Bindings!RevokeFails,
               Bindings!WriteFails, Bindings!Finish, Bindings!TypeOK
      <3>3. QED
        BY <1>1, <3>1, <3>2
           DEF Bindings!Create, Bindings!StartBind, Bindings!SwitchOff,
               Bindings!CloseSessions, AnyRevoke, Bindings!Revoke, Bindings!Find,
               AnyAttribute, Bindings!Attribute, AnyEdit, Bindings!ReadAndEdit, AnySkip,
               Bindings!NothingToUnbind, Bindings!Truncate
    <2>3. \A q \in Requests \ {r} : (Revokes(q) \/ due[q] = {})'
      BY <2>1, <2>2 DEF OnlyRevokersAreDue, Revokes, SameJob
    <2>4. QED
      BY <1>1, <2>3 DEF OnlyRevokersAreDue
  <1>2. ASSUME NEW r \in Requests, Bindings!Arrive(r) PROVE (Revokes(r) \/ due[r] = {})'
    <2>1. PICK j \in Bindings!Jobs :
            /\ req' = [req EXCEPT ![r] = j]
            /\ due' = [due EXCEPT ![r] =
                  IF j.kind \in Bindings!Revoking THEN Bindings!TokensOf(bound, j.member) ELSE {}]
      BY <1>2 DEF Bindings!Arrive
    <2>2. j # None
      BY JobShape
    <2>3. QED
      BY <2>1, <2>2 DEF Revokes, Bindings!TypeOK
  <1>3. ASSUME NEW r \in Requests,
               AnyFailure(r) \/ Bindings!WriteFails(r) \/ Bindings!Finish(r)
        PROVE  (Revokes(r) \/ due[r] = {})'
    BY <1>3
       DEF AnyFailure, Bindings!Fails, Bindings!RevokeFails, Bindings!WriteFails,
           Bindings!Finish, Bindings!TypeOK
  <1>4. ASSUME NEW r \in Requests, Bindings!Create(r) PROVE (Revokes(r) \/ due[r] = {})'
    BY <1>4 DEF Bindings!Create, OnlyRevokersAreDue, Revokes, Bindings!Revoking
  <1>5. ASSUME NEW r \in Requests, Bindings!Find(r) \/ AnyAttribute(r)
        PROVE  (Revokes(r) \/ due[r] = {})'
    <2>1. due' = due /\ req[r].kind = "use"
      BY <1>5 DEF Bindings!Find, AnyAttribute, Bindings!Attribute, JobKept
    <2>2. due[r] = {}
      BY <2>1 DEF OnlyRevokersAreDue, Revokes, Bindings!Revoking
    <2>3. QED
      BY <2>1, <2>2
  <1>6. ASSUME NEW r \in Requests, Bindings!Write(r) PROVE (Revokes(r) \/ due[r] = {})'
    <2>1. CASE req[r].kind \in Bindings!Revoking
      BY <1>6, <2>1 DEF Bindings!Write, OnlyRevokersAreDue, Revokes
    <2>2. CASE req[r].kind \notin Bindings!Revoking
      BY <1>6, <2>2 DEF Bindings!Write, OnlyRevokersAreDue, Revokes
    <2>3. QED
      BY <2>1, <2>2
  <1>7. ASSUME NEW r \in Requests,
               \/ Bindings!StartBind(r) \/ Bindings!SwitchOff(r) \/ Bindings!CloseSessions(r)
               \/ AnyRevoke(r) \/ AnyEdit(r) \/ AnySkip(r) \/ Bindings!Truncate(r)
        PROVE  (Revokes(r) \/ due[r] = {})'
    BY <1>7
       DEF Bindings!StartBind, Bindings!SwitchOff, Bindings!CloseSessions, AnyRevoke,
           Bindings!Revoke, AnyEdit, Bindings!ReadAndEdit, AnySkip,
           Bindings!NothingToUnbind, Bindings!Truncate, OnlyRevokersAreDue, Revokes
  <1>8. CASE Bindings!Restart \/ UNCHANGED Bindings!vars \/ \E m \in Members : Bindings!Login(m)
    BY <1>8 DEF Bindings!Restart, Bindings!Login, Bindings!vars, OnlyRevokersAreDue, Revokes
  <1>9. QED
    BY <1>1, <1>2, <1>3, <1>4, <1>5, <1>6, <1>7, <1>8, NextIs

\* A step that leaves the bindings alone, hands out no token, and moves a request
\* on or ends it.
LEMMA QuietStep ==
  ASSUME Bindings!TypeOK, TokensKept, UNCHANGED <<bound, minter>>,
         tokens' \subseteq tokens, spared \subseteq spared',
         NEW r \in Requests,
         \A q \in Requests \ {r} : SameJob(q) /\ due'[q] = due[q],
         HasRevoked(r)' => HasRevoked(r) /\ req'[r] = req[r],
         Revokes(r)' => due'[r] \cap tokens \subseteq spared
            \cup Bindings!TokensOf(bound, req'[r].member),
         pc'[r] \in {"unbinding", "edited", "truncated", "finishing"}
            => due'[r] \cap tokens \subseteq spared,
         \A m \in off' : \/ Pending(r, m)' \/ OnlySpared(m)'
                         \/ m \in off /\ ~Pending(r, m)
  PROVE  TokensKept'
  <1>1. \A m : OnlySpared(m) => OnlySpared(m)'
    BY DEF OnlySpared, Bindings!TokensOf
  <1>2. \A q \in Requests \ {r} : (HasRevoked(q)' <=> HasRevoked(q)) /\ (Revokes(q)' <=> Revokes(q))
    BY DEF SameJob, HasRevoked, Revokes
  <1>3. RevokedKept'
    BY <1>1, <1>2 DEF TokensKept, RevokedKept, SameJob
  <1>4. DueKept'
    <2>1. \A m : Bindings!TokensOf(bound', m) = Bindings!TokensOf(bound, m)
      OBVIOUS
    <2>2. ASSUME NEW q \in Requests, Revokes(q)'
          PROVE  due'[q] \cap tokens \subseteq spared
                    \cup Bindings!TokensOf(bound, req'[q].member)
      BY <1>2, <2>2 DEF TokensKept, DueKept, SameJob
    <2>3. QED
      BY <2>1, <2>2 DEF DueKept
  <1>5. ReachedKept'
    BY DEF TokensKept, ReachedKept, SameJob
  <1>6. OffKept'
    <2> SUFFICES ASSUME NEW m \in off', ~Pending(r, m)', ~OnlySpared(m)'
                 PROVE  \E q \in Requests : Pending(q, m)'
      BY DEF OffKept
    <2>1. m \in off /\ ~Pending(r, m) /\ ~OnlySpared(m)
      BY <1>1
    <2>2. PICK q \in Requests : Pending(q, m)
      BY <2>1 DEF TokensKept, OffKept
    <2>3. SameJob(q)
      BY <2>1, <2>2
    <2>4. QED
      BY <2>2, <2>3 DEF SameJob, Pending, Bindings!Serves
  <1>7. MinterKept'
    BY DEF TokensKept, MinterKept
  <1>8. QED
    BY <1>3, <1>4, <1>5, <1>6, <1>7 DEF TokensKept

\* The listed tokens are the member's, since the file holds the bindings, or those
\* the member keeps are missed, since it could not be read.
LEMMA RevokeStep ==
  ASSUME Bindings!ConstantsOK, Bindings!TypeOK, HistoryKept, FileKept, TokensKept,
         NEW r \in Requests,
         \A q \in Requests : JobKept(q), AnyRevoke(r), ~disturbed'
  PROVE  TokensKept'
  <1> DEFINE m == req[r].member
  <1>1. PICK seen \in Bindings!Readings : Bindings!Revoke(r, seen)
    BY DEF AnyRevoke
  <1>2. Bindings!Parse(file) = bound
    <2>1. ~Bindings!HalfWritten(r) /\ pc[r] # "truncated"
      BY <1>1 DEF Bindings!Revoke, Bindings!MayRevoke
    <2>2. QED
      BY <2>1 DEF Bindings!HalfWritten, FileKept
  <1>3. /\ UNCHANGED <<bound, due, minter, req, off>>
        /\ pc' = [pc EXCEPT ![r] = "unbinding"]
        /\ tokens' \subseteq tokens /\ spared \subseteq spared'
        /\ Bindings!TokensOf(bound, m) \cap tokens' \subseteq spared'
    <2>1. CASE seen = bound
      BY <1>1, <2>1 DEF Bindings!Revoke, Bindings!RevokesListed, Bindings!Goto
    <2>2. CASE seen # bound
      BY <1>1, <1>2, <2>2 DEF Bindings!Revoke, Bindings!RevokesListed, Bindings!Goto
    <2>3. QED
      BY <2>1, <2>2
  <1>4. Revokes(r)
    <2>1. req[r] # None
      BY <1>1 DEF Bindings!Revoke, Bindings!MayRevoke, Bindings!TypeOK
    <2>2. req[r].kind \in Bindings!Revoking
      BY <1>1 DEF Bindings!Revoke, Bindings!MayRevoke, JobKept, Bindings!Revoking
    <2>3. QED
      BY <2>1, <2>2 DEF Revokes
  <1>5. \A n : Bindings!TokensOf(bound', n) = Bindings!TokensOf(bound, n)
    BY <1>3
  <1>6. OnlySpared(m)' /\ \A n : OnlySpared(n) => OnlySpared(n)'
    BY <1>3, <1>5 DEF OnlySpared
  <1>7. RevokedKept'
    <2>1. ASSUME NEW q \in Requests, HasRevoked(q)', q # r PROVE HasRevoked(q)
      BY <1>3, <2>1 DEF HasRevoked, Revokes, Bindings!TypeOK
    <2>2. QED
      BY <1>3, <1>6, <2>1 DEF TokensKept, RevokedKept
  <1>8. DueKept'
    BY <1>3, <1>5 DEF TokensKept, DueKept, Revokes
  <1>9. ReachedKept'
    <2>1. due[r] \cap tokens' \subseteq spared'
      BY <1>3, <1>4 DEF TokensKept, DueKept
    <2>2. QED
      BY <1>3, <2>1 DEF TokensKept, ReachedKept, Bindings!TypeOK
  <1>10. OffKept'
    <2>1. ASSUME NEW q \in Requests, NEW n, Pending(q, n), n # m PROVE Pending(q, n)'
      BY <1>3, <2>1 DEF Pending, Bindings!Serves, Bindings!TypeOK
    <2>2. QED
      BY <1>3, <1>6, <2>1 DEF TokensKept, OffKept
  <1>11. MinterKept'
    BY <1>3 DEF TokensKept, MinterKept
  <1>12. QED
    BY <1>7, <1>8, <1>9, <1>10, <1>11 DEF TokensKept

\* A new token is nobody's yet.
LEMMA CreateStep ==
  ASSUME Bindings!ConstantsOK, Bindings!TypeOK, HistoryKept, TokensKept, NEW r \in Requests,
         Bindings!Create(r)
  PROVE  TokensKept'
  <1>1. PICK t \in Tokens \ issued :
          /\ tokens' = tokens \cup {t}
          /\ req' = [req EXCEPT ![r].token = t]
    BY DEF Bindings!Create
  <1>2. /\ UNCHANGED <<bound, due, spared, minter, off>>
        /\ pc' = [pc EXCEPT ![r] = "binding"]
        /\ req[r] \in Bindings!Jobs /\ req[r].kind = "mint"
    BY DEF Bindings!Create, Bindings!Goto, Bindings!TypeOK
  <1>3. req'[r].kind = "mint" /\ \A q \in Requests : q # r => req'[q] = req[q]
    <2>1. req'[r] = [req[r] EXCEPT !.token = t]
      BY <1>1, <1>2 DEF Bindings!TypeOK
    <2>2. QED
      BY <1>1, <1>2, <2>1, Minted DEF Bindings!TypeOK
  <1>4. /\ \A n : t \notin Bindings!TokensOf(bound, n)
        /\ \A q \in Requests : t \notin due[q]
        /\ minter[t] = None
    BY DEF HistoryKept, Bindings!TokensOf
  <1>5. \A n : OnlySpared(n) => OnlySpared(n)'
    <2>1. \A n : Bindings!TokensOf(bound', n) = Bindings!TokensOf(bound, n)
      BY <1>2
    <2>2. QED
      BY <1>1, <1>2, <1>4, <2>1 DEF OnlySpared
  <1>6. ~Revokes(r)'
    BY <1>3 DEF Revokes, Bindings!Revoking
  <1>7. \A q \in Requests : Revokes(q)' => Revokes(q) /\ req'[q] = req[q] /\ pc'[q] = pc[q]
    BY <1>2, <1>3, <1>6 DEF Revokes, Bindings!TypeOK
  <1>8. RevokedKept'
    BY <1>5, <1>7 DEF TokensKept, RevokedKept, HasRevoked
  <1>9. DueKept'
    BY <1>1, <1>2, <1>4, <1>7 DEF TokensKept, DueKept, Bindings!TokensOf
  <1>10. ReachedKept'
    BY <1>1, <1>2, <1>4 DEF TokensKept, ReachedKept, Bindings!TypeOK
  <1>11. OffKept'
    <2>1. ASSUME NEW q \in Requests, NEW n, Pending(q, n) PROVE Pending(q, n)'
      <3>1. q # r
        BY <1>2, <2>1 DEF Pending, Bindings!Serves
      <3>2. QED
        BY <1>2, <1>3, <2>1, <3>1 DEF Pending, Bindings!Serves, Bindings!TypeOK
    <2>2. QED
      BY <1>2, <1>5, <2>1 DEF TokensKept, OffKept
  <1>12. MinterKept'
    BY <1>1, <1>2, <1>4 DEF TokensKept, MinterKept
  <1>13. QED
    BY <1>8, <1>9, <1>10, <1>11, <1>12 DEF TokensKept

\* The write of a revocation unbinds only tokens that do not resolve or are missed.
LEMMA UnbindStep ==
  ASSUME Bindings!ConstantsOK, Bindings!TypeOK, TokensKept, NEW r \in Requests, Bindings!Write(r),
         req[r].kind \in Bindings!Revoking
  PROVE  TokensKept'
  <1> DEFINE m == req[r].member
  <1>1. /\ bound' = Bindings!Unbound(bound, m)
        /\ UNCHANGED <<tokens, req, due, minter, spared, off>>
        /\ pc[r] = "truncated" /\ pc' = [pc EXCEPT ![r] = "finishing"]
    BY DEF Bindings!Write, Bindings!Edited, Bindings!Goto
  <1>2. Revokes(r) /\ OnlySpared(m)
    <2>1. Revokes(r)
      BY <1>1 DEF Revokes, Bindings!TypeOK
    <2>2. QED
      BY <1>1, <2>1 DEF TokensKept, RevokedKept, HasRevoked
  <1>3. /\ \A n : Bindings!TokensOf(bound', n) \subseteq Bindings!TokensOf(bound, n)
        /\ \A n : n # m => Bindings!TokensOf(bound', n) = Bindings!TokensOf(bound, n)
    BY <1>1 DEF Bindings!TokensOf, Bindings!Unbound
  <1>4. \A n : OnlySpared(n) => OnlySpared(n)'
    BY <1>1, <1>3 DEF OnlySpared
  <1>5. RevokedKept'
    BY <1>1, <1>2, <1>4 DEF TokensKept, RevokedKept, HasRevoked, Revokes, Bindings!TypeOK
  <1>6. DueKept'
    <2>1. ASSUME NEW q \in Requests, Revokes(q)
          PROVE  due[q] \cap tokens \subseteq spared \cup Bindings!TokensOf(bound', req[q].member)
      <3>1. due[q] \cap tokens \subseteq spared \cup Bindings!TokensOf(bound, req[q].member)
        BY <2>1 DEF TokensKept, DueKept
      <3>2. QED
        BY <1>2, <1>3, <3>1 DEF OnlySpared
    <2>2. QED
      BY <1>1, <2>1 DEF DueKept, Revokes
  <1>7. ReachedKept'
    BY <1>1 DEF TokensKept, ReachedKept, Bindings!TypeOK
  <1>8. OffKept'
    BY <1>1, <1>4 DEF TokensKept, OffKept, Pending, Bindings!Serves, Bindings!TypeOK
  <1>9. MinterKept'
    <2>1. ASSUME NEW t \in tokens \ spared, minter[t] # None PROVE <<t, minter[t]>> \in bound'
      <3>1. <<t, minter[t]>> \in bound /\ t \in Tokens
        BY <2>1 DEF TokensKept, MinterKept, Bindings!TypeOK
      <3>2. minter[t] # m
        BY <1>2, <2>1, <3>1 DEF OnlySpared, Bindings!TokensOf
      <3>3. QED
        BY <1>1, <3>1, <3>2 DEF Bindings!Unbound
    <2>2. QED
      BY <1>1, <2>1 DEF MinterKept
  <1>10. QED
    BY <1>5, <1>6, <1>7, <1>8, <1>9 DEF TokensKept

\* A member whose tokens a revocation has listed is behind it.
LEMMA BehindIt ==
  ASSUME Bindings!TypeOK, \A q \in Requests : JobKept(q)
  PROVE  /\ \A q \in Requests : HasRevoked(q) => Bindings!BehindRevocation(req[q].member)
         /\ \A m \in off : Bindings!BehindRevocation(m)
  <1>1. \A m \in off : Bindings!BehindRevocation(m)
    BY DEF Bindings!TypeOK, Bindings!BehindRevocation
  <1>2. ASSUME NEW q \in Requests, HasRevoked(q) PROVE Bindings!BehindRevocation(req[q].member)
    <2>1. CASE pc[q] \in {"unbinding", "edited", "truncated"}
      BY <1>2, <2>1 DEF HasRevoked, Revokes, Bindings!BehindRevocation
    <2>2. CASE pc[q] = "finishing" /\ req[q].kind = "deactivate"
      BY <1>1, <1>2, <2>2 DEF HasRevoked, Revokes, JobKept, Bindings!Serves
    <2>3. QED
      BY <1>2, <2>1, <2>2 DEF HasRevoked
  <1>3. QED
    BY <1>1, <1>2

\* A token bound behind a revocation is one it misses; one bound ahead of it is not, and
\* nobody whose tokens are revoked already has it.
LEMMA BindStep ==
  ASSUME Bindings!ConstantsOK, Bindings!TypeOK, HistoryKept, TokensKept,
         \A q \in Requests : JobKept(q),
         NEW r \in Requests, Bindings!Write(r), req[r].kind \notin Bindings!Revoking
  PROVE  TokensKept'
  <1> DEFINE t == req[r].token
             m == req[r].member
  <1>1. /\ bound' = Bindings!Rebound(bound, t, m)
        /\ UNCHANGED <<tokens, off>>
        /\ due' = [q \in Requests |-> due[q] \ {t}]
        /\ minter' = [minter EXCEPT ![t] = m]
        /\ spared' = IF Bindings!BehindRevocation(m) THEN spared \cup {t} ELSE spared \ {t}
        /\ pc' = [pc EXCEPT ![r] = "done"] /\ req' = [req EXCEPT ![r] = None]
    BY DEF Bindings!Write, Bindings!Edited, Bindings!Answer
  <1>2. t \in Tokens
    BY DEF Bindings!Write, JobKept, Writing, Bindings!TypeOK
  <1>3. \A n : Bindings!TokensOf(bound', n) = (Bindings!TokensOf(bound, n) \ {t})
           \cup (IF n = m THEN {t} ELSE {})
    BY <1>1, <1>2 DEF Bindings!TokensOf, Bindings!Rebound
  <1>4. \A x : x # t => (x \in spared' <=> x \in spared)
    BY <1>1
  <1>5. \A n : OnlySpared(n) /\ (Bindings!BehindRevocation(m) \/ n # m) => OnlySpared(n)'
    BY <1>1, <1>3, <1>4 DEF OnlySpared
  <1>6. \A q \in Requests : Revokes(q)' => q # r /\ Revokes(q) /\ req'[q] = req[q] /\ pc'[q] = pc[q]
    BY <1>1 DEF Revokes, Bindings!TypeOK
  <1>7. RevokedKept'
    <2>1. ASSUME NEW q \in Requests, HasRevoked(q)'
          PROVE  Bindings!TokensOf(bound', req'[q].member) \cap tokens' \subseteq spared'
      <3>1. HasRevoked(q) /\ req'[q] = req[q]
        BY <1>6, <2>1 DEF HasRevoked
      <3>2. OnlySpared(req[q].member) /\ Bindings!BehindRevocation(req[q].member)
        BY <3>1, BehindIt DEF TokensKept, RevokedKept
      <3>3. QED
        BY <1>5, <3>1, <3>2 DEF OnlySpared
    <2>2. QED
      BY <2>1 DEF RevokedKept, OnlySpared
  <1>8. DueKept'
    <2>1. ASSUME NEW q \in Requests, Revokes(q)'
          PROVE  due'[q] \cap tokens' \subseteq spared' \cup Bindings!TokensOf(bound', req'[q].member)
      <3>1. /\ due[q] \cap tokens \subseteq spared \cup Bindings!TokensOf(bound, req[q].member)
            /\ req'[q] = req[q]
        BY <1>6, <2>1 DEF TokensKept, DueKept
      <3>2. QED
        BY <1>1, <1>3, <1>4, <3>1
    <2>2. QED
      BY <2>1 DEF DueKept
  <1>9. ReachedKept'
    BY <1>1, <1>4 DEF TokensKept, ReachedKept, Bindings!TypeOK
  <1>10. OffKept'
    <2>1. ASSUME NEW n \in off, OnlySpared(n) PROVE OnlySpared(n)'
      BY <1>5, <2>1, BehindIt
    <2>2. ASSUME NEW q \in Requests, NEW n, Pending(q, n) PROVE Pending(q, n)'
      <3>1. q # r
        BY <2>2 DEF Pending, Bindings!Write
      <3>2. QED
        BY <1>1, <2>2, <3>1 DEF Pending, Bindings!Serves, Bindings!TypeOK
    <2>3. QED
      BY <1>1, <2>1, <2>2 DEF TokensKept, OffKept
  <1>11. MinterKept'
    <2>1. ASSUME NEW x \in tokens' \ spared', minter'[x] # None PROVE <<x, minter'[x]>> \in bound'
      <3>1. CASE x = t
        BY <1>1, <1>2, <3>1 DEF Bindings!Rebound, Bindings!TypeOK
      <3>2. CASE x # t
        BY <1>1, <1>4, <2>1, <3>2 DEF TokensKept, MinterKept, Bindings!Rebound, Bindings!TypeOK
      <3>3. QED
        BY <3>1, <3>2
    <2>2. QED
      BY <2>1 DEF MinterKept
  <1>12. QED
    BY <1>7, <1>8, <1>9, <1>10, <1>11 DEF TokensKept

\* A restart forgets the requests, and what a deactivation had not revoked it has
\* missed.
LEMMA RestartKeepsTokens ==
  ASSUME Bindings!TypeOK, TokensKept, Bindings!Restart
  PROVE  TokensKept'
  <1>1. /\ UNCHANGED <<tokens, bound, minter, off>> /\ spared \subseteq spared'
        /\ \A r \in Requests : req'[r] = None /\ pc'[r] \in {"new", "done"} /\ due'[r] = {}
        /\ \A r \in Requests : Bindings!LeftBehind(r) \subseteq spared'
    BY DEF Bindings!Restart
  <1>2. RevokedKept' /\ DueKept' /\ ReachedKept'
    BY <1>1 DEF RevokedKept, DueKept, ReachedKept, HasRevoked, Revokes
  <1>3. OffKept'
    <2>1. ASSUME NEW m \in off PROVE OnlySpared(m)'
      <3>1. CASE OnlySpared(m)
        BY <1>1, <3>1 DEF OnlySpared, Bindings!TokensOf
      <3>2. CASE ~OnlySpared(m)
        <4>1. PICK r \in Requests : Pending(r, m)
          BY <3>2 DEF TokensKept, OffKept
        <4>2. Bindings!TokensOf(bound, m) \subseteq spared'
          BY <1>1, <4>1 DEF Pending, Bindings!LeftBehind
        <4>3. QED
          BY <1>1, <4>2 DEF OnlySpared, Bindings!TokensOf
      <3>3. QED
        BY <3>1, <3>2
    <2>2. QED
      BY <1>1, <2>1 DEF OffKept
  <1>4. MinterKept'
    BY <1>1 DEF TokensKept, MinterKept
  <1>5. QED
    BY <1>2, <1>3, <1>4 DEF TokensKept

\* A request that moves on without touching the bindings keeps what is known of
\* them and of the tokens: one that ends has revoked, or what it has left behind is
\* missed.
LEMMA QuietRequest ==
  ASSUME Bindings!ConstantsOK, Bindings!TypeOK, TokensKept, OnlyRevokersAreDue,
         \A q \in Requests : JobKept(q),
         NEW r \in Requests,
         \/ Bindings!StartBind(r) \/ Bindings!SwitchOff(r) \/ Bindings!CloseSessions(r)
         \/ AnyFailure(r) \/ Bindings!Find(r) \/ AnyAttribute(r) \/ AnyEdit(r) \/ AnySkip(r)
         \/ Bindings!Truncate(r) \/ Bindings!WriteFails(r) \/ Bindings!Finish(r)
  PROVE  TokensKept'
  <1>1. UNCHANGED <<bound, minter>> /\ tokens' \subseteq tokens /\ spared \subseteq spared'
    BY DEF Bindings!StartBind, Bindings!SwitchOff, Bindings!CloseSessions, AnyFailure,
           Bindings!Fails, Bindings!RevokeFails, Bindings!Find, AnyAttribute,
           Bindings!Attribute, AnyEdit, Bindings!ReadAndEdit, AnySkip,
           Bindings!NothingToUnbind, Bindings!Truncate, Bindings!WriteFails,
           Bindings!Finish
  <1>2. \A q \in Requests \ {r} : SameJob(q) /\ due'[q] = due[q]
    <2>1. \A q \in Requests \ {r} : SameJob(q)
      BY OthersWait
    <2>2. due' = due \/ due' = [due EXCEPT ![r] = {}]
      BY DEF Bindings!StartBind, Bindings!SwitchOff, Bindings!CloseSessions, AnyFailure,
             Bindings!Fails, Bindings!RevokeFails, Bindings!Find, AnyAttribute,
             Bindings!Attribute, AnyEdit, Bindings!ReadAndEdit, AnySkip,
             Bindings!NothingToUnbind, Bindings!Truncate, Bindings!WriteFails,
             Bindings!Finish
    <2>3. QED
      BY <2>1, <2>2 DEF Bindings!TypeOK
  <1>3. \/ req'[r] = None /\ pc'[r] = "done"
        \/ /\ req'[r] = req[r] /\ due'[r] = due[r]
           /\ \/ pc'[r] \in {"binding", "switched", "closed", "granted"}
              \/ pc[r] \in {"unbinding", "edited"}
                    /\ pc'[r] \in {"edited", "truncated", "finishing"}
              \/ pc[r] = "binding" /\ pc'[r] = "edited"
    BY DEF Bindings!StartBind, Bindings!SwitchOff, Bindings!CloseSessions, AnyFailure,
           Bindings!Fails, Bindings!RevokeFails, Bindings!Find, AnyAttribute,
           Bindings!Attribute, AnyEdit, Bindings!ReadAndEdit, AnySkip,
           Bindings!NothingToUnbind, Bindings!Truncate, Bindings!WriteFails,
           Bindings!Finish,
           Bindings!Goto, Bindings!Answer, Bindings!TypeOK
  <1>4. pc[r] = "binding" => ~Revokes(r) /\ due[r] = {}
    <2>1. pc[r] = "binding" => ~Revokes(r)
      BY DEF JobKept, Revokes, Bindings!Revoking
    <2>2. QED
      BY <2>1 DEF OnlyRevokersAreDue
  <1>5. HasRevoked(r)' => HasRevoked(r) /\ req'[r] = req[r]
    BY <1>3, <1>4 DEF HasRevoked, Revokes
  <1>6. Revokes(r)' => due'[r] \cap tokens \subseteq spared
           \cup Bindings!TokensOf(bound, req'[r].member)
    BY <1>3 DEF TokensKept, DueKept, Revokes
  <1>7. pc'[r] \in {"unbinding", "edited", "truncated", "finishing"} =>
           due'[r] \cap tokens \subseteq spared
    BY <1>3, <1>4 DEF TokensKept, ReachedKept
  <1>8. ASSUME NEW m \in off'
        PROVE  Pending(r, m)' \/ OnlySpared(m)' \/ (m \in off /\ ~Pending(r, m))
    <2>1. CASE Bindings!SwitchOff(r)
      <3>1. /\ req' = req /\ req[r] # None /\ req[r].kind = "deactivate"
            /\ off' = off \cup {req[r].member} /\ pc[r] = "arrived" /\ pc'[r] = "switched"
        BY <2>1 DEF Bindings!SwitchOff, Bindings!Goto, Bindings!TypeOK
      <3>2. QED
        BY <1>8, <3>1 DEF Pending, Bindings!Serves
    <2>2. CASE Bindings!CloseSessions(r)
      <3>1. req' = req /\ off' = off /\ pc'[r] = "closed"
        BY <2>2 DEF Bindings!CloseSessions, Bindings!Goto, Bindings!TypeOK
      <3>2. QED
        BY <1>8, <3>1 DEF Pending, Bindings!Serves
    <2>3. CASE AnyFailure(r)
      <3>1. /\ off' = off /\ bound' = bound
            /\ Bindings!LeftBehind(r) \subseteq spared'
        BY <2>3 DEF AnyFailure, Bindings!Fails, Bindings!RevokeFails
      <3>2. Pending(r, m) => Bindings!TokensOf(bound, m) \subseteq spared'
        BY <3>1 DEF Pending, Bindings!LeftBehind
      <3>3. QED
        BY <1>8, <3>1, <3>2 DEF OnlySpared
    <2>4. CASE ~(Bindings!SwitchOff(r) \/ Bindings!CloseSessions(r) \/ AnyFailure(r))
      <3>1. off' = off
        <4>1. CASE Bindings!Finish(r)
          BY <4>1 DEF Bindings!Finish, JobKept, Bindings!Revoking
        <4>2. QED
          BY <2>4, <4>1
             DEF Bindings!StartBind, Bindings!Find, AnyAttribute, Bindings!Attribute, AnyEdit,
                 Bindings!ReadAndEdit, AnySkip, Bindings!NothingToUnbind,
                 Bindings!Truncate, Bindings!WriteFails
      <3>2. pc[r] \notin {"switched", "closed"}
        BY <2>4
           DEF Bindings!StartBind, Bindings!Find, AnyAttribute, Bindings!Attribute, AnyEdit,
               Bindings!ReadAndEdit, AnySkip, Bindings!NothingToUnbind, Bindings!Truncate,
               Bindings!WriteFails, Bindings!Finish
      <3>3. QED
        BY <1>8, <3>1, <3>2 DEF Pending
    <2>5. QED
      BY <2>1, <2>2, <2>3, <2>4
  <1>9. QED
    BY <1>1, <1>2, <1>5, <1>6, <1>7, <1>8, QuietStep

\* A revocation comes in with the tokens that are bound to its member.
LEMMA ArriveStep ==
  ASSUME Bindings!ConstantsOK, Bindings!TypeOK, TokensKept, NEW r \in Requests, Bindings!Arrive(r)
  PROVE  TokensKept'
  <1>1. PICK j \in Bindings!Jobs :
          /\ req' = [req EXCEPT ![r] = j]
          /\ due' = [due EXCEPT ![r] =
                IF j.kind \in Bindings!Revoking THEN Bindings!TokensOf(bound, j.member) ELSE {}]
    BY DEF Bindings!Arrive
  <1>2. /\ pc' = [pc EXCEPT ![r] = "arrived"] /\ req[r] = None
        /\ UNCHANGED <<tokens, bound, minter, spared, off>>
    BY DEF Bindings!Arrive, Bindings!Goto, Bindings!TypeOK
  <1>3. \A q \in Requests \ {r} : SameJob(q) /\ due'[q] = due[q]
    BY <1>1, OthersWait DEF Bindings!TypeOK
  <1>4. pc'[r] = "arrived" /\ req'[r] = j
        /\ due'[r] = IF j.kind \in Bindings!Revoking THEN Bindings!TokensOf(bound, j.member) ELSE {}
    BY <1>1, <1>2 DEF Bindings!TypeOK
  <1>5. ~HasRevoked(r)'
    BY <1>4 DEF HasRevoked
  <1>6. Revokes(r)' => due'[r] \cap tokens \subseteq spared
           \cup Bindings!TokensOf(bound, req'[r].member)
    BY <1>4 DEF Revokes
  <1>7. \A m \in off' : m \in off /\ ~Pending(r, m)
    BY <1>2 DEF Pending, Bindings!Serves
  <1>8. QED
    BY <1>2, <1>3, <1>4, <1>5, <1>6, <1>7, QuietStep

\* Unless operations overlap, every step keeps what is known of the tokens.
LEMMA TokensFollow ==
  ASSUME Bindings!ConstantsOK, Bindings!TypeOK, \A r \in Requests : JobKept(r), HistoryKept,
         OnlyRevokersAreDue,
         ~disturbed => FileKept /\ TokensKept, [Bindings!Next]_(Bindings!vars), ~disturbed'
  PROVE  TokensKept'
  <1>1. ~disturbed /\ FileKept /\ TokensKept
    BY FileFollows
  <1>2. ASSUME NEW r \in Requests,
               \/ Bindings!StartBind(r) \/ Bindings!SwitchOff(r) \/ Bindings!CloseSessions(r)
               \/ AnyFailure(r) \/ Bindings!Find(r) \/ AnyAttribute(r) \/ AnyEdit(r)
               \/ AnySkip(r) \/ Bindings!Truncate(r) \/ Bindings!WriteFails(r)
               \/ Bindings!Finish(r)
        PROVE  TokensKept'
    BY <1>1, <1>2, QuietRequest
  <1>3. ASSUME NEW r \in Requests, Bindings!Arrive(r) PROVE TokensKept'
    BY <1>1, <1>3, ArriveStep
  <1>4. ASSUME NEW r \in Requests, Bindings!Create(r) PROVE TokensKept'
    BY <1>1, <1>4, CreateStep
  <1>5. ASSUME NEW r \in Requests, AnyRevoke(r) PROVE TokensKept'
    BY <1>1, <1>5, RevokeStep
  <1>6. ASSUME NEW r \in Requests, Bindings!Write(r) PROVE TokensKept'
    BY <1>1, <1>6, UnbindStep, BindStep
  <1>7. CASE Bindings!Restart
    BY <1>1, <1>7, RestartKeepsTokens
  <1>8. CASE UNCHANGED Bindings!vars \/ \E m \in Members : Bindings!Login(m)
    <2>1. UNCHANGED <<tokens, bound, minter, spared, req, pc, due, off>>
      BY <1>8 DEF Bindings!Login, Bindings!vars
    <2>2. QED
      BY <1>1, <2>1
         DEF TokensKept, RevokedKept, DueKept, ReachedKept, OffKept, MinterKept, OnlySpared,
             HasRevoked, Revokes, Pending, Bindings!Serves, Bindings!TokensOf
  <1>9. QED
    BY <1>2, <1>3, <1>4, <1>5, <1>6, <1>7, <1>8, NextIs
-------------------------------------------------------------------------------
\* The initial states satisfy the invariant.
LEMMA TokensInit ==
  ASSUME Bindings!ConstantsOK, Bindings!Init
  PROVE  TokenInv
  <1>1. Bindings!TypeOK
    <2>1. Bindings!EmptyFile \in Bindings!Files
      <3>1. Cardinality(Tokens) \in Nat
        BY FS_CardinalityType, FiniteIs DEF Bindings!ConstantsOK
      <3>2. QED
        BY <3>1, CardinalityIs DEF Bindings!EmptyFile, Bindings!Files
    <2>2. QED
      BY <2>1 DEF Bindings!Init, Bindings!TypeOK, Bindings!Steps, Bindings!Bindings
  <1>2. \A r \in Requests : JobKept(r)
    BY DEF Bindings!Init, JobKept, Writing, Bindings!Serves
  <1>3. HistoryKept /\ OnlyRevokersAreDue
    BY DEF Bindings!Init, HistoryKept, OnlyRevokersAreDue, Functional, Bindings!Parse,
           Bindings!EmptyFile
  <1>4. FileKept
    BY DEF Bindings!Init, FileKept, Writing, Bindings!Parse, Bindings!EmptyFile
  <1>5. TokensKept
    BY DEF Bindings!Init, TokensKept, RevokedKept, DueKept, ReachedKept, OffKept, MinterKept,
           HasRevoked, Revokes
  <1>6. QED
    BY <1>1, <1>2, <1>3, <1>4, <1>5 DEF TokenInv

\* Every step keeps it.
LEMMA TokenInvKept ==
  ASSUME Bindings!ConstantsOK, TokenInv, [Bindings!Next]_(Bindings!vars)
  PROVE  TokenInv'
  <1>1. Bindings!TypeOK' /\ HistoryKept' /\ OnlyRevokersAreDue'
    BY TokenTypesKept, HistoryStays, OnlyRevokersStay DEF TokenInv
  <1>2. \A r \in Requests : JobKept(r)'
    BY JobsKept DEF TokenInv
  <1>3. ~disturbed' => FileKept' /\ TokensKept'
    BY FileFollows, TokensFollow DEF TokenInv
  <1>4. QED
    BY <1>1, <1>2, <1>3 DEF TokenInv

\* It holds in every reachable state.
LEMMA TokensAlways == Bindings!Spec => []TokenInv
  <1>1. Bindings!ConstantsOK
    BY CompanyStoresAssumption
  <1>2. Bindings!Init => TokenInv
    BY <1>1, TokensInit
  <1>3. TokenInv /\ [Bindings!Next]_(Bindings!vars) => TokenInv'
    BY <1>1, TokenInvKept
  <1>4. QED
    BY <1>2, <1>3, PTL DEF Bindings!Spec

\* The tables, the file and the handlers keep their types.
THEOREM TokensTypeCorrect == Bindings!Spec => []Bindings!TypeOK
  <1>1. TokenInv => Bindings!TypeOK
    BY DEF TokenInv
  <1>2. QED
    BY <1>1, TokensAlways, PTL

\* Logging out, deactivating and removing revoke every token that was the member's
\* when the request came in, unless it was bound again since, or this revocation
\* or an earlier one has missed it, as long as nothing disturbs the file.
THEOREM RevocationReaches == Bindings!Spec => []RevocationReachesAll
  <1>1. TokenInv => RevocationReachesAll
    BY DEF TokenInv, TokensKept, ReachedKept, RevocationReachesAll,
           Bindings!RevocationReachesAll
  <1>2. QED
    BY <1>1, TokensAlways, PTL

\* The tokens of a deactivated member that still resolve are those a revocation has
\* missed, unless a deactivation is about to revoke them, as long as nothing
\* disturbs the file.
THEOREM DeactivatedAreCut == Bindings!Spec => []DeactivatedKeepOnlySpared
  <1>1. TokenInv => DeactivatedKeepOnlySpared
    BY DEF TokenInv, TokensKept, OffKept, Pending, OnlySpared, DeactivatedKeepOnlySpared,
           Bindings!DeactivatedKeepOnlySpared
  <1>2. QED
    BY <1>1, TokensAlways, PTL

\* Undisturbed, the file names the last binder of a token, or nobody if it cannot
\* be read or a revocation has missed the token.
LEMMA OwnerFound ==
  ASSUME Bindings!ConstantsOK, TokenInv, NEW r \in Requests, NEW seen \in Bindings!Readings,
         Bindings!Attribute(r, seen), ~disturbed'
  PROVE  LET t == req[r].token
         IN  \/ data'[r] = minter[t]
             \/ /\ data'[r] = None
                /\ seen # Bindings!Parse(file) \/ t \in spared \/ t \notin tokens
  <1> DEFINE t == req[r].token
             found == Bindings!Owners(seen, t)
  <1>1. /\ data'[r] = IF found = {} THEN None ELSE CHOOSE m \in found : TRUE
        /\ pc[r] = "granted" /\ ~disturbed /\ ~Bindings!HalfWritten(r)
    BY DEF Bindings!Attribute, TokenInv, Bindings!TypeOK
  <1>2. FileKept /\ TokensKept
    BY <1>1 DEF TokenInv
  <1>3. Bindings!Parse(file) = bound
    BY <1>1, <1>2 DEF FileKept, Bindings!HalfWritten
  <1>4. t \in Tokens /\ minter[t] \in Members \cup {None}
    <2>1. req[r] \in Bindings!Jobs /\ req[r].kind = "use"
      BY <1>1 DEF TokenInv, JobKept, Bindings!TypeOK
    <2>2. t \in Tokens
      BY <2>1, JobShape
    <2>3. QED
      BY <2>2 DEF TokenInv, Bindings!TypeOK
  <1>5. \A m \in found : m = minter[t]
    <2>1. seen \subseteq bound
      BY <1>3 DEF Bindings!Readings
    <2>2. QED
      BY <2>1 DEF Bindings!Owners, TokenInv, HistoryKept
  <1>6. CASE found # {}
    BY <1>1, <1>5, <1>6
  <1>7. CASE found = {}
    <2>1. data'[r] = None
      BY <1>1, <1>7
    <2>2. ASSUME seen = bound, t \in tokens \ spared PROVE minter[t] = None
      <3>1. minter[t] # None => minter[t] \in found
        BY <1>2, <1>4, <2>2 DEF TokensKept, MinterKept, Bindings!Owners
      <3>2. QED
        BY <1>7, <3>1
    <2>3. QED
      BY <1>3, <2>1, <2>2
  <1>8. QED
    BY <1>6, <1>7

\* A request runs as the member its token was last bound to; it runs as nobody only
\* if the bindings cannot be read, a revocation has missed its token, or the
\* token is revoked meanwhile, as long as nothing disturbs the file.
THEOREM OwnersAreFound == Bindings!Spec => RunsAsOwner
  <1>1. ASSUME TokenInv, [Bindings!Next]_(Bindings!vars)
        PROVE  [\A r \in Requests, seen \in Bindings!Readings :
                  Bindings!Attribute(r, seen) =>
                     LET t == req[r].token
                     IN  \/ data'[r] = minter[t]
                         \/ /\ data'[r] = None
                            /\ seen # Bindings!Parse(file) \/ t \in spared \/ t \notin tokens
                         \/ disturbed']_(Bindings!vars)
    <2>1. Bindings!ConstantsOK
      BY CompanyStoresAssumption
    <2>2. QED
      BY <1>1, <2>1, OwnerFound
  <1>2. QED
    BY <1>1, TokensAlways, PTL DEF Bindings!Spec, RunsAsOwner, Bindings!RunsAsOwner
===============================================================================
