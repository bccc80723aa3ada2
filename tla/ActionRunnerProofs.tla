------------------------- MODULE ActionRunnerProofs -------------------------
(***************************************************************************)
(* Proofs about ActionRunner for any runs, members, connections and        *)
(* limits: when a run falls back, which connections it turns to last, that *)
(* the page of runs is the newest whatever was trimmed, and that the quota *)
(* holds up to the cap of runs in flight. The first sections are about     *)
(* ranks in a finite order: candidates are ranked by their scores and rows *)
(* by their age, so that both the order of attempts and the page come down *)
(* to counting who is in front.                                            *)
(***************************************************************************)
EXTENDS ActionRunner, FiniteSetTheorems, SequenceTheorems, TLAPS

-------------------------------------------------------------------------------
(* Ranks in a finite set under a strict total order, a set R of pairs      *)

\* The elements of S in front of c.
Below(S, R, c) == {d \in S : <<d, c>> \in R}
Rank(S, R, c) == Cardinality(Below(S, R, c))

\* R is a strict total order on S.
IsOrder(S, R) ==
    /\ \A a \in S : <<a, a>> \notin R
    /\ \A a, b, c \in S : <<a, b>> \in R /\ <<b, c>> \in R => <<a, c>> \in R
    /\ \A a, b \in S : a = b \/ <<a, b>> \in R \/ <<b, a>> \in R

\* A rank is a number below the size of the set, and who is in front has less.
LEMMA RankBounds ==
  ASSUME NEW S, IsFiniteSet(S), NEW R, IsOrder(S, R)
  PROVE  /\ Cardinality(S) \in Nat
         /\ \A c \in S : Rank(S, R, c) \in 0..(Cardinality(S) - 1)
         /\ \A c, d \in S : <<c, d>> \in R => Rank(S, R, c) < Rank(S, R, d)
  <1>1. Cardinality(S) \in Nat
    BY FS_CardinalityType
  <1>2. \A c \in S : /\ IsFiniteSet(Below(S, R, c)) /\ Rank(S, R, c) \in Nat
                     /\ c \notin Below(S, R, c) /\ Below(S, R, c) \subseteq S
    BY FS_Subset, FS_CardinalityType DEF Below, Rank, IsOrder
  <1>3. ASSUME NEW c \in S PROVE Rank(S, R, c) \in 0..(Cardinality(S) - 1)
    <2>1. /\ Cardinality(Below(S, R, c) \cup {c}) = Rank(S, R, c) + 1
          /\ Below(S, R, c) \cup {c} \subseteq S
      BY <1>2, FS_AddElement DEF Rank
    <2>2. Cardinality(Below(S, R, c) \cup {c}) <= Cardinality(S)
      BY <2>1, FS_Subset
    <2>3. QED
      BY <1>1, <1>2, <2>1, <2>2
  <1>4. ASSUME NEW c \in S, NEW d \in S, <<c, d>> \in R PROVE Rank(S, R, c) < Rank(S, R, d)
    <2>1. Below(S, R, c) \cup {c} \subseteq Below(S, R, d)
      BY <1>4 DEF Below, IsOrder
    <2>2. Cardinality(Below(S, R, c) \cup {c}) = Rank(S, R, c) + 1
      BY <1>2, FS_AddElement DEF Rank
    <2>3. Cardinality(Below(S, R, c) \cup {c}) <= Cardinality(Below(S, R, d))
      BY <1>2, <2>1, FS_Subset
    <2>4. QED
      BY <1>2, <2>2, <2>3 DEF Rank
  <1>5. QED
    BY <1>1, <1>3, <1>4

\* Every rank is somebody's, and of one only.
LEMMA RankTaken ==
  ASSUME NEW S, IsFiniteSet(S), NEW R, IsOrder(S, R), NEW n \in 0..(Cardinality(S) - 1)
  PROVE  /\ \E c \in S : Rank(S, R, c) = n
         /\ \A c, d \in S : Rank(S, R, c) = n /\ Rank(S, R, d) = n => c = d
  <1>1. /\ Cardinality(S) \in Nat
        /\ \A c \in S : Rank(S, R, c) \in 0..(Cardinality(S) - 1)
        /\ \A c, d \in S : <<c, d>> \in R => Rank(S, R, c) < Rank(S, R, d)
    BY RankBounds
  <1>2. ASSUME NEW c \in S, NEW d \in S, Rank(S, R, c) = Rank(S, R, d) PROVE c = d
    <2>1. <<c, d>> \notin R /\ <<d, c>> \notin R
      BY <1>1, <1>2
    <2>2. QED
      BY <2>1 DEF IsOrder
  <1>3. ASSUME \A c \in S : Rank(S, R, c) # n PROVE FALSE
    <2> DEFINE T == (0..(Cardinality(S) - 1)) \ {n}
               f == [c \in S |-> Rank(S, R, c)]
    <2>1. /\ IsFiniteSet(0..(Cardinality(S) - 1))
          /\ Cardinality(0..(Cardinality(S) - 1)) = Cardinality(S)
      BY <1>1, FS_Interval
    <2>2. IsFiniteSet(T) /\ Cardinality(T) = Cardinality(S) - 1
      BY <2>1, FS_RemoveElement
    <2>3. f \in [S -> T]
      BY <1>1, <1>3
    <2>4. \A c \in S : f[c] = Rank(S, R, c)
      OBVIOUS
    <2> HIDE DEF T, f
    <2>5. Cardinality(T) < Cardinality(S)
      BY <1>1, <2>2
    <2>6. \E c, d \in S : c # d /\ f[c] = f[d]
      BY <2>2, <2>3, <2>5, FS_PigeonHole
    <2>7. QED
      BY <1>2, <2>4, <2>6
  <1>4. QED
    BY <1>2, <1>3

\* At least as many as there are ranks below n have one of them.
LEMMA ManyInFront ==
  ASSUME NEW S, IsFiniteSet(S), NEW R, IsOrder(S, R), NEW n \in Nat, n <= Cardinality(S)
  PROVE  n <= Cardinality({c \in S : Rank(S, R, c) < n})
  <1> DEFINE F == {c \in S : Rank(S, R, c) < n}
             f == [c \in F |-> Rank(S, R, c)]
  <1>1. /\ Cardinality(S) \in Nat
        /\ \A c \in S : Rank(S, R, c) \in 0..(Cardinality(S) - 1)
    BY RankBounds
  <1>2. IsFiniteSet(F)
    BY FS_Subset
  <1>3. f \in Surjection(F, 0..(n - 1))
    <2>1. f \in [F -> 0..(n - 1)]
      BY <1>1
    <2>2. ASSUME NEW i \in 0..(n - 1) PROVE \E c \in F : f[c] = i
      <3>1. PICK c \in S : Rank(S, R, c) = i
        BY <1>1, RankTaken
      <3>2. QED
        BY <3>1
    <2>3. QED
      BY <2>1, <2>2 DEF Surjection
  <1>4. Cardinality(0..(n - 1)) <= Cardinality(F)
    BY <1>2, <1>3, FS_Surjection
  <1>5. Cardinality(0..(n - 1)) = n
    BY FS_Interval
  <1>6. QED
    BY <1>4, <1>5
-------------------------------------------------------------------------------
(* The order of candidates                                                 *)

\* Scores are numbers, no two connections have the same, and one that cools down
\* has more than one that does not.
LEMMA Scores ==
  ASSUME cooldownUntil \in [Names -> Nat], clock \in Nat
  PROVE  /\ \A c \in Names : Score(c) \in Nat
         /\ \A c, d \in Names : Score(c) = Score(d) => c = d
         /\ \A c, d \in Names : ~IsCoolingDown(c) /\ IsCoolingDown(d) => Score(c) < Score(d)
  <1>1. Len(Conns) \in Nat /\ DOMAIN Conns = 1..Len(Conns)
    BY ActionRunnerAssumption, LenProperties
  <1>2. \A c \in Names : Position(c) \in DOMAIN Conns /\ Conns[Position(c)] = c
    BY DEF Names, ToSet, Position
  <1>3. \A c \in Names : Position(c) \in 1..Len(Conns)
    BY <1>1, <1>2
  <1>4. ASSUME NEW c \in Names, NEW d \in Names, Score(c) = Score(d) PROVE c = d
    <2>1. Position(c) = Position(d)
      BY <1>1, <1>3, <1>4 DEF Score
    <2>2. QED
      BY <1>2, <2>1
  <1>5. QED
    BY <1>1, <1>3, <1>4 DEF Score

\* The candidates are distinct names, in the order of their scores.
LEMMA OrderedSorts ==
  ASSUME cooldownUntil \in [Names -> Nat], clock \in Nat, NEW names \in SUBSET Names, names # {}
  PROVE  /\ Ordered(names) \in Seq(Names) /\ Len(Ordered(names)) > 0
         /\ \A i, j \in DOMAIN Ordered(names) :
               i < j => Score(Ordered(names)[i]) < Score(Ordered(names)[j])
  <1> DEFINE R == {p \in names \X names : Score(p[1]) < Score(p[2])}
             n == Cardinality(names)
             s == Ordered(names)
  <1>1. IsFiniteSet(names)
    <2>1. Conns \in [1..Len(Conns) -> ToSet(Conns)] /\ Len(Conns) \in Nat
      BY ActionRunnerAssumption, LenProperties
    <2>2. Conns \in Surjection(1..Len(Conns), Names)
      BY <2>1 DEF Surjection, Names, ToSet
    <2>3. IsFiniteSet(1..Len(Conns))
      BY <2>1, FS_Interval
    <2>4. QED
      BY <2>2, <2>3, FS_Surjection, FS_Subset
  <1>2. /\ \A c \in names : Score(c) \in Nat
        /\ \A c, d \in names : Score(c) = Score(d) => c = d
    BY Scores
  <1>3. \A c, d \in names : <<c, d>> \in R <=> Score(c) < Score(d)
    OBVIOUS
  <1>4. IsOrder(names, R)
    BY <1>2, <1>3 DEF IsOrder
  <1>5. \A c \in names : Cardinality({d \in names : Score(d) < Score(c)}) = Rank(names, R, c)
    <2>1. ASSUME NEW c \in names PROVE {d \in names : Score(d) < Score(c)} = Below(names, R, c)
      BY <1>3 DEF Below
    <2>2. QED
      BY <2>1 DEF Rank
  <1> HIDE DEF R
  <1>6. n \in Nat /\ n > 0
    BY <1>1, FS_EmptySet, FS_CardinalityType
  <1>7. ASSUME NEW i \in 1..n
        PROVE  s[i] \in names /\ Rank(names, R, s[i]) = i - 1
    <2>1. s[i] = CHOOSE c \in names : Cardinality({d \in names : Score(d) < Score(c)}) = i - 1
      BY Zenon DEF Ordered
    <2>2. i - 1 \in 0..(n - 1)
      BY <1>6
    <2>3. \E c \in names : Rank(names, R, c) = i - 1
      BY <1>1, <1>4, <2>2, RankTaken
    <2>4. \E c \in names : Cardinality({d \in names : Score(d) < Score(c)}) = i - 1
      BY <1>5, <2>3
    <2>5. s[i] \in names /\ Cardinality({d \in names : Score(d) < Score(s[i])}) = i - 1
      BY <2>1, <2>4
    <2>6. QED
      BY <1>5, <2>5
  <1>8. s \in [1..n -> Names]
    <2> DEFINE e(i) ==
             CHOOSE c \in names : Cardinality({d \in names : Score(d) < Score(c)}) = i - 1
    <2>1. s = [i \in 1..n |-> e(i)]
      BY DEF Ordered
    <2>2. \A i \in 1..n : e(i) = s[i]
      BY <2>1
    <2>3. \A i \in 1..n : e(i) \in Names
      BY <1>7, <2>2
    <2> HIDE DEF s, e
    <2>4. QED
      BY <2>1, <2>3
  <1>9. s \in Seq(Names) /\ Len(s) = n /\ DOMAIN s = 1..n
    <2> HIDE DEF s
    <2>1. s \in Seq(Names) /\ DOMAIN s = 1..n
      BY <1>6, <1>8, SeqDef
    <2>2. Len(s) \in Nat /\ DOMAIN s = 1..Len(s)
      BY <2>1, LenProperties
    <2>3. QED
      BY <1>6, <2>1, <2>2
  <1>10. ASSUME NEW i \in 1..n, NEW j \in 1..n, i < j PROVE Score(s[i]) < Score(s[j])
    <2>1. s[i] \in names /\ s[j] \in names
      BY <1>7
    <2>2. ~(Score(s[i]) >= Score(s[j]))
      <3>1. SUFFICES ASSUME Score(s[i]) >= Score(s[j]) PROVE FALSE
        OBVIOUS
      <3>2. s[i] = s[j] \/ Score(s[j]) < Score(s[i])
        BY <1>2, <2>1, <3>1
      <3>3. s[i] = s[j] \/ Rank(names, R, s[j]) < Rank(names, R, s[i])
        BY <1>1, <1>3, <1>4, <2>1, <3>2, RankBounds
      <3>4. QED
        BY <1>7, <1>10, <3>3
    <2>3. QED
      BY <1>2, <2>1, <2>2
  <1>11. QED
    BY <1>6, <1>9, <1>10

\* The attempts a run remembers.
Tries == [conn : Names, outcome : Outcomes]

\* Every variable has its type.
Types ==
    /\ clock \in Times
    /\ cooldownUntil \in [Names -> 0..MaxTime + Cooldown]
    /\ rows \subseteq inserted /\ inserted \subseteq Runs /\ unread \subseteq Runs
    /\ pc \in [Runs -> Steps]
    /\ member \in [Runs -> Members \cup {NoMember}]
    /\ pin \in [Runs -> Names \cup {None}]
    /\ startedAt \in [Runs -> Times]
    /\ checkedAt \in [Runs -> Times \cup {None}]
    /\ plan \in [Runs -> Seq(Names)]
    /\ tried \in [Runs -> Seq(Tries)]
    /\ triedAt \in [Runs -> Times]
    /\ avoid \in [Runs -> SUBSET Names]
    /\ failedAt \in [Names -> Times \cup {None}]

\* What a run has done by the step it is at.
Progress(r) ==
    /\ pc[r] = "idle" => r \notin inserted /\ plan[r] = <<>>
    /\ pc[r] \in {"idle", "guard"} => checkedAt[r] = None
    /\ pc[r] \notin {"attempt", "log"} => tried[r] = <<>>
    /\ pc[r] = "log" /\ Executes(r) => tried[r] # <<>>

\* The candidates of a run are distinct, and only the one it asked for if it did.
Planned(r) ==
    /\ pin[r] # None => \A i \in DOMAIN plan[r] : plan[r][i] = pin[r]
    /\ \A i, j \in DOMAIN plan[r] : plan[r][i] = plan[r][j] => i = j

\* The attempts of a run are its candidates, in order, and all but the one that
\* ended it could be followed by another.
Follows(r) ==
    /\ Len(tried[r]) <= Len(plan[r]) /\ Len(tried[r]) <= MaxAttempts
    /\ \A i \in DOMAIN tried[r] :
          /\ tried[r][i].conn = plan[r][i]
          /\ i < Len(tried[r]) \/ pc[r] = "attempt" => tried[r][i].outcome = "retriable"

\* Another attempt is under way only where it may be.
MayTry(r) ==
    pc[r] = "attempt" =>
       /\ Len(tried[r]) < Len(plan[r]) /\ Len(tried[r]) < MaxAttempts
       /\ tried[r] # <<>> => pin[r] = None /\ triedAt[r] <= startedAt[r] + Budget

\* The cooldown map holds the failures of the history, and no others.
CooldownsMatch ==
    \A c \in Names :
       /\ failedAt[c] = None => cooldownUntil[c] <= clock
       /\ failedAt[c] # None => cooldownUntil[c] = failedAt[c] + Cooldown /\ Cooldown > 0

\* The candidates that had lately failed are behind those that had not.
Steered(r) ==
    pin[r] = None =>
        \A i, j \in DOMAIN plan[r] :
            plan[r][i] \in avoid[r] /\ plan[r][j] \notin avoid[r] => j < i

RunsInOrder ==
    /\ \A r \in Runs : Progress(r) /\ Planned(r) /\ Follows(r) /\ MayTry(r) /\ Steered(r)
    /\ CooldownsMatch

\* No row of the page is lost.
PageKept == Newest(inserted, RunLimit) \subseteq rows

\* The runs under way of a member, which the concurrency guard keeps below
\* the cap.
InFlight(m) == {q \in Runs : Active(q) /\ member[q] = m}
CapHolds == \A m \in Members : Cardinality(InFlight(m)) <= Cap

\* The inductive invariant.
RunnerInv == Types /\ RunsInOrder /\ PageKept /\ CapHolds /\ QuotaHoldsWhileRowsFit
-------------------------------------------------------------------------------
(* Types                                                                   *)

\* What the settings of a deployment may be.
LEMMA Settings ==
    /\ MaxAttempts \in Nat \ {0} /\ RunLimit \in Nat \ {0} /\ Quota \in Nat \ {0}
    /\ RowsCounted \in Nat /\ RowsCounted <= RunLimit
    /\ Cap \in Nat \ {0} /\ Day \in Nat \ {0}
    /\ Budget \in Nat /\ Cooldown \in Nat /\ MaxTime \in Nat
    /\ Times \subseteq Nat /\ None \notin Times /\ None \notin Names
    /\ Head(Conns) \in Names
  <1>1. Head(Conns) \in ToSet(Conns)
    <2>1. Conns \in Seq(ToSet(Conns)) /\ Conns # <<>>
      BY ActionRunnerAssumption
    <2>2. QED
      BY <2>1, HeadTailProperties
  <1>2. QED
    BY <1>1, ActionRunnerAssumption DEF Times, Names, RowsCounted

\* The candidates a run may get.
LEMMA CandidatesAre ==
  ASSUME Types, NEW r \in Runs, NEW names \in SUBSET Names, NEW s, s = Candidates(r, names)
  PROVE  /\ s \in Seq(Names) /\ Len(s) > 0
         /\ pin[r] # None => \A i \in DOMAIN s : s[i] = pin[r]
         /\ \A i, j \in DOMAIN s : s[i] = s[j] => i = j
         /\ pin[r] = None =>
              \A i, j \in DOMAIN s : i < j => Score(s[i]) < Score(s[j])
  <1>1. /\ cooldownUntil \in [Names -> Nat] /\ clock \in Nat
        /\ pin[r] \in Names \cup {None}
    BY Settings DEF Types
  <1>2. ASSUME NEW c \in Names, s = <<c>>
        PROVE  /\ s \in Seq(Names) /\ Len(s) > 0 /\ DOMAIN s = {1} /\ s[1] = c
    BY <1>2
  <1>3. CASE pin[r] # None
    <2>1. s = <<pin[r]>> /\ pin[r] \in Names
      BY <1>1, <1>3 DEF Candidates
    <2>2. s \in Seq(Names) /\ Len(s) > 0 /\ DOMAIN s = {1} /\ s[1] = pin[r]
      BY <1>2, <2>1
    <2>3. QED
      BY <1>3, <2>2
  <1>4. CASE pin[r] = None /\ names = {}
    <2>1. s = <<Head(Conns)>> /\ Head(Conns) \in Names
      BY <1>4, Settings DEF Candidates
    <2>2. s \in Seq(Names) /\ Len(s) > 0 /\ DOMAIN s = {1}
      BY <1>2, <2>1
    <2>3. QED
      BY <1>4, <2>2
  <1>5. CASE pin[r] = None /\ names # {}
    <2>1. s = Ordered(names)
      BY <1>5 DEF Candidates
    <2>2. /\ s \in Seq(Names) /\ Len(s) > 0
          /\ \A i, j \in DOMAIN s : i < j => Score(s[i]) < Score(s[j])
      BY <1>1, <1>5, <2>1, OrderedSorts
    <2>3. DOMAIN s \subseteq Nat /\ \A i \in DOMAIN s : s[i] \in Names
      BY <2>2
    <2>4. \A i \in DOMAIN s : Score(s[i]) \in Nat
      BY <1>1, <2>3, Scores
    <2>5. \A i, j \in DOMAIN s : s[i] = s[j] => i = j
      BY <2>2, <2>3, <2>4
    <2>6. QED
      BY <1>5, <2>2, <2>5
  <1>6. QED
    BY <1>3, <1>4, <1>5

\* What is left of a run that is over has its type.
LEMMA ForgetTypes ==
  ASSUME Types, NEW gone, Forget(gone)
  PROVE  /\ pin' \in [Runs -> Names \cup {None}]
         /\ plan' \in [Runs -> Seq(Names)]
         /\ tried' \in [Runs -> Seq(Tries)]
         /\ triedAt' \in [Runs -> Times]
         /\ avoid' \in [Runs -> SUBSET Names]
  <1>1. 0 \in Times
    BY Settings DEF Times
  <1>2. <<>> \in Seq(Names) /\ <<>> \in Seq(Tries)
    BY EmptySeq
  <1>3. QED
    BY <1>1, <1>2 DEF Types, Forget

\* What an attempt under way works on.
LEMMA UnderWay ==
  ASSUME Types, NEW r \in Runs, MayTry(r), pc[r] = "attempt"
  PROVE  /\ Len(tried[r]) \in Nat /\ Attempt(r) \in Nat /\ Len(plan[r]) \in Nat
         /\ Attempt(r) \in DOMAIN plan[r] /\ Candidate(r) \in Names
  <1>1. tried[r] \in Seq(Tries) /\ plan[r] \in Seq(Names)
    BY DEF Types
  <1>2. /\ Len(tried[r]) \in Nat
        /\ Len(plan[r]) \in Nat /\ DOMAIN plan[r] = 1..Len(plan[r])
        /\ \A i \in 1..Len(plan[r]) : plan[r][i] \in Names
    BY <1>1, LenProperties, ElementOfSeq
  <1>3. QED
    BY <1>2 DEF MayTry, Attempt, Candidate

\* Every step keeps the types, since an attempt under way has a candidate.
LEMMA TypesKept ==
  ASSUME Types, \A r \in Runs : MayTry(r), [Next]_vars
  PROVE  Types'
  <1> USE Settings
  <1>1. ASSUME NEW r \in Runs, NEW step \in Steps, Goto(r, step)
        PROVE  pc' \in [Runs -> Steps]
    BY <1>1 DEF Types, Goto
  <1>2. CASE Tick
    BY <1>2 DEF Tick, Types, Times, request, history
  <1>3. CASE Restart
    <2>1. 0 \in 0..MaxTime + Cooldown
      OBVIOUS
    <2>2. QED
      BY <1>3, <2>1, ForgetTypes DEF Restart, Types, Steps
  <1>4. ASSUME NEW r \in Runs, Start(r) PROVE Types'
    <2>1. pc' \in [Runs -> Steps]
      BY <1>4, <1>1 DEF Start, Steps
    <2>2. member' \in [Runs -> Members \cup {NoMember}]
      BY <1>4 DEF Start, Types
    <2>3. pin' \in [Runs -> Names \cup {None}]
      BY <1>4 DEF Start, Types
    <2>4. QED
      BY <1>4, <2>1, <2>2, <2>3 DEF Start, Types, history
  <1>5. ASSUME NEW r \in Runs, Deny(r) PROVE Types'
    BY <1>5, <1>1 DEF Deny, Types, Steps, request, history
  <1>6. ASSUME NEW r \in Runs, Admit(r) PROVE Types'
    <2>1. pc' \in [Runs -> Steps]
      BY <1>6, <1>1 DEF Admit, Steps
    <2>2. unread' \subseteq Runs
      BY <1>6 DEF Admit, Types
    <2>3. QED
      BY <1>6, <2>1, <2>2 DEF Admit, Types, request
  <1>7. ASSUME NEW r \in Runs, ResolveCandidates(r) PROVE Types'
    <2>1. PICK names \in SUBSET Names : plan' = [plan EXCEPT ![r] = Candidates(r, names)]
      BY <1>7 DEF ResolveCandidates
    <2>2. Candidates(r, names) \in Seq(Names)
      BY CandidatesAre
    <2>3. plan' \in [Runs -> Seq(Names)]
      BY <2>1, <2>2 DEF Types
    <2>4. pc' \in [Runs -> Steps]
      BY <1>7, <1>1 DEF ResolveCandidates, Steps
    <2>5. QED
      BY <1>7, <2>3, <2>4 DEF ResolveCandidates, Types, request
  <1>8. ASSUME NEW r \in Runs, NEW outcome \in Outcomes, EndAttempt(r, outcome) PROVE Types'
    <2>1. pc[r] = "attempt"
      BY <1>8 DEF EndAttempt
    <2>2. Candidate(r) \in Names
      BY <2>1, UnderWay
    <2>3. tried' \in [Runs -> Seq(Tries)]
      <3>1. [conn |-> Candidate(r), outcome |-> outcome] \in Tries
        BY <2>2 DEF Tries
      <3>2. Append(tried[r], [conn |-> Candidate(r), outcome |-> outcome]) \in Seq(Tries)
        BY <3>1, AppendProperties DEF Types
      <3>3. QED
        BY <1>8, <3>2 DEF EndAttempt, Types
    <2>4. clock + Cooldown \in 0..MaxTime + Cooldown
      BY DEF Types, Times
    <2>5. cooldownUntil' \in [Names -> 0..MaxTime + Cooldown]
      BY <1>8, <2>2, <2>4 DEF EndAttempt, Types
    <2>6. failedAt' \in [Names -> Times \cup {None}]
      BY <1>8, <2>2 DEF EndAttempt, Types
    <2>7. pc' \in [Runs -> Steps] /\ triedAt' \in [Runs -> Times]
      <3>1. \/ triedAt' = [triedAt EXCEPT ![r] = clock] /\ UNCHANGED pc
            \/ Goto(r, "log") /\ UNCHANGED triedAt
        BY <1>8 DEF EndAttempt
      <3>2. clock \in Times /\ triedAt \in [Runs -> Times] /\ pc \in [Runs -> Steps]
        BY DEF Types
      <3>3. Goto(r, "log") => pc' \in [Runs -> Steps]
        BY <1>1 DEF Steps
      <3>4. QED
        BY <3>1, <3>2, <3>3
    <2>8. QED
      BY <1>8, <2>3, <2>5, <2>6, <2>7 DEF EndAttempt, Types, request
  <1>9. ASSUME NEW r \in Runs, InsertRow(r) PROVE Types'
    <2>1. pc' \in [Runs -> Steps]
      BY <1>9, <1>1 DEF InsertRow, Steps
    <2>2. QED
      BY <1>9, <2>1, ForgetTypes DEF InsertRow, Types
  <1>10. ASSUME NEW r \in Runs, InsertFails(r) PROVE Types'
    <2>1. pc' \in [Runs -> Steps]
      BY <1>10, <1>1 DEF InsertFails, Steps
    <2>2. QED
      BY <1>10, <2>1, ForgetTypes DEF InsertFails, Types
  <1>11. ASSUME NEW r \in Runs, NEW failed \in BOOLEAN, Trim(r, failed) PROVE Types'
    <2>1. pc' \in [Runs -> Steps]
      BY <1>11, <1>1 DEF Trim, Steps
    <2>2. Trimmed \subseteq rows
      BY DEF Trimmed, Newest
    <2>3. QED
      BY <1>11, <2>1, <2>2 DEF Trim, Types, request, history
  <1>12. CASE UNCHANGED vars
    BY <1>12 DEF vars, request, history, Types
  <1>13. QED
    BY <1>2, <1>3, <1>4, <1>5, <1>6, <1>7, <1>8, <1>9, <1>10, <1>11, <1>12
       DEF Next, Proceed
-------------------------------------------------------------------------------
(* One run                                                                 *)

\* What RunsInOrder says of one run.
InOrder(r) == Progress(r) /\ Planned(r) /\ Follows(r) /\ MayTry(r) /\ Steered(r)

\* The rest of the state says nothing about a run whose own part stays.
SameRun(r) ==
    /\ pc'[r] = pc[r] /\ pin'[r] = pin[r] /\ startedAt'[r] = startedAt[r]
    /\ checkedAt'[r] = checkedAt[r] /\ plan'[r] = plan[r] /\ tried'[r] = tried[r]
    /\ triedAt'[r] = triedAt[r] /\ avoid'[r] = avoid[r]
    /\ r \in inserted' => r \in inserted

\* A run that does not move stays in order.
LEMMA SameRunInOrder ==
  ASSUME NEW r \in Runs, InOrder(r), SameRun(r)
  PROVE  InOrder(r)'
  BY DEF InOrder, SameRun, Progress, Executes, Planned, Follows, MayTry, Steered

\* A run that is over, or only has to trim, has no locals.
OverRun(r) ==
    /\ pc'[r] \in {"trim", "done", "lost"}
    /\ plan'[r] = <<>> /\ tried'[r] = <<>>

\* So is a run that is over.
LEMMA OverRunInOrder ==
  ASSUME NEW r \in Runs, OverRun(r)
  PROVE  InOrder(r)'
  <1>1. /\ Progress(r)' /\ Planned(r)' /\ MayTry(r)' /\ Steered(r)'
    BY DEF OverRun, Progress, Planned, MayTry, Steered
  <1>2. Follows(r)'
    BY Settings DEF OverRun, Follows
  <1>3. QED
    BY <1>1, <1>2 DEF InOrder

\* A step of one run leaves the locals of the others alone.
LEMMA OthersInOrder ==
  ASSUME Types, NEW r \in Runs, Start(r) \/ Proceed(r), NEW q \in Runs, q # r
  PROVE  SameRun(q)
  <1>1. CASE Start(r)
    BY <1>1 DEF Start, Types, SameRun, Goto, history
  <1>2. CASE Deny(r) \/ Admit(r) \/ ResolveCandidates(r)
    BY <1>2 DEF Deny, Admit, ResolveCandidates, Types, SameRun, Goto, history, request
  <1>3. ASSUME NEW outcome \in Outcomes, EndAttempt(r, outcome) PROVE SameRun(q)
    BY <1>3 DEF EndAttempt, Types, SameRun, Goto, history, request
  <1>4. CASE InsertRow(r) \/ InsertFails(r)
    BY <1>4 DEF InsertRow, InsertFails, Forget, Types, SameRun, Goto
  <1>5. ASSUME NEW failed \in BOOLEAN, Trim(r, failed) PROVE SameRun(q)
    BY <1>5 DEF Trim, Types, SameRun, Goto, history, request
  <1>6. QED
    BY <1>1, <1>2, <1>3, <1>4, <1>5 DEF Proceed

\* A run that starts has no candidates and no attempts.
LEMMA StartInOrder ==
  ASSUME Types, NEW r \in Runs, InOrder(r), Start(r)
  PROVE  InOrder(r)'
  <1>1. /\ pc[r] = "idle" /\ pc'[r] \in {"guard", "log"}
        /\ checkedAt'[r] = checkedAt[r] /\ plan'[r] = plan[r] /\ tried'[r] = tried[r]
        /\ inserted' = inserted /\ checkedAt[r] = None
        /\ plan[r] = <<>> /\ tried[r] = <<>>
    BY DEF Start, Goto, history, Types, InOrder, Progress
  <1>2. Progress(r)' /\ MayTry(r)'
    BY <1>1 DEF Progress, MayTry, Executes
  <1>3. Planned(r)' /\ Steered(r)'
    BY <1>1 DEF Planned, Steered
  <1>4. Follows(r)'
    BY <1>1, Settings DEF Follows
  <1>5. QED
    BY <1>2, <1>3, <1>4 DEF InOrder

\* Neither has one that is let pass or denied.
LEMMA GuardInOrder ==
  ASSUME Types, NEW r \in Runs, InOrder(r), Deny(r) \/ Admit(r)
  PROVE  InOrder(r)'
  <1>1. /\ pc[r] = "guard" /\ pc'[r] \in {"log", "list"}
        /\ pin'[r] = pin[r] /\ plan'[r] = plan[r] /\ tried'[r] = tried[r]
        /\ avoid'[r] = avoid[r] /\ tried[r] = <<>>
        /\ pc'[r] = "log" => checkedAt'[r] = None
    BY DEF Deny, Admit, Goto, history, request, Types, InOrder, Progress
  <1>2. Progress(r)' /\ MayTry(r)'
    BY <1>1 DEF Progress, MayTry, Executes
  <1>3. Planned(r)' /\ Steered(r)'
    BY <1>1 DEF InOrder, Planned, Steered
  <1>4. Follows(r)'
    BY <1>1 DEF InOrder, Follows
  <1>5. QED
    BY <1>2, <1>3, <1>4 DEF InOrder

\* The candidates just listed are in order: those that cool down, and by
\* CooldownsMatch these are the ones that had lately failed, are last.
LEMMA ListInOrder ==
  ASSUME Types, NEW r \in Runs, InOrder(r), CooldownsMatch, ResolveCandidates(r)
  PROVE  InOrder(r)'
  <1>1. PICK names \in SUBSET Names : plan' = [plan EXCEPT ![r] = Candidates(r, names)]
    BY DEF ResolveCandidates
  <1> DEFINE s == Candidates(r, names)
  <1>2. /\ s \in Seq(Names) /\ Len(s) > 0
        /\ pin[r] # None => \A i \in DOMAIN s : s[i] = pin[r]
        /\ \A i, j \in DOMAIN s : s[i] = s[j] => i = j
        /\ pin[r] = None =>
             \A i, j \in DOMAIN s : i < j => Score(s[i]) < Score(s[j])
    BY CandidatesAre
  <1>3. /\ plan'[r] = s /\ pc'[r] = "attempt" /\ tried'[r] = <<>>
        /\ pin'[r] = pin[r] /\ pc[r] = "list"
    BY <1>1 DEF ResolveCandidates, Goto, request, Types, InOrder, Progress
  <1> HIDE DEF s
  <1>4. Progress(r)'
    BY <1>3 DEF Progress
  <1>5. Planned(r)'
    BY <1>2, <1>3 DEF Planned
  <1>6. Len(s) \in Nat /\ DOMAIN s = 1..Len(s) /\ \A i \in DOMAIN s : s[i] \in Names
    BY <1>2, LenProperties, ElementOfSeq
  <1>7. Follows(r)' /\ MayTry(r)'
    BY <1>2, <1>3, <1>6, Settings DEF Follows, MayTry
  <1>8. Steered(r)'
    <2>1. avoid'[r] = {c \in Names : failedAt[c] # None /\ clock < failedAt[c] + Cooldown}
      BY DEF ResolveCandidates, Types
    <2>2. \A c \in Names : c \in avoid'[r] <=> IsCoolingDown(c)
      <3>1. ASSUME NEW c \in Names
            PROVE  c \in avoid'[r] <=> IsCoolingDown(c)
        <4>1. clock \in Nat /\ cooldownUntil[c] \in Nat
          BY Settings DEF Types
        <4>2. QED
          BY <2>1, <4>1 DEF CooldownsMatch, IsCoolingDown
      <3>2. QED
        BY <3>1
    <2>3. /\ cooldownUntil \in [Names -> Nat] /\ clock \in Nat
      BY Settings DEF Types
    <2>4. SUFFICES ASSUME pin[r] = None, NEW i \in DOMAIN s, NEW j \in DOMAIN s,
                          s[i] \in avoid'[r], s[j] \notin avoid'[r]
                   PROVE  j < i
      BY <1>3 DEF Steered
    <2>5. /\ s[i] \in Names /\ s[j] \in Names /\ i \in Nat /\ j \in Nat
          /\ IsCoolingDown(s[i]) /\ ~IsCoolingDown(s[j])
      BY <1>6, <2>2, <2>4
    <2>6. /\ Score(s[j]) < Score(s[i]) /\ Score(s[i]) \in Nat /\ Score(s[j]) \in Nat
      BY <2>3, <2>5, Scores
    <2>7. ~(i < j) /\ i # j
      BY <1>2, <2>4, <2>6
    <2>8. QED
      BY <2>5, <2>7
  <1>9. QED
    BY <1>4, <1>5, <1>7, <1>8 DEF InOrder

\* An attempt that ends was on the next candidate, and another one follows
\* only on a retriable failure, within the limits.
LEMMA AttemptInOrder ==
  ASSUME Types, NEW r \in Runs, InOrder(r), NEW outcome \in Outcomes, EndAttempt(r, outcome)
  PROVE  InOrder(r)'
  <1> DEFINE e == [conn |-> Candidate(r), outcome |-> outcome]
             n == Len(tried[r])
  <1>1. /\ pc[r] = "attempt" /\ tried'[r] = Append(tried[r], e)
        /\ pin'[r] = pin[r] /\ plan'[r] = plan[r] /\ startedAt'[r] = startedAt[r]
        /\ avoid'[r] = avoid[r] /\ inserted' = inserted
    BY DEF EndAttempt, Types, request
  <1>2. tried[r] \in Seq(Tries) /\ plan[r] \in Seq(Names)
    BY DEF Types
  <1>3. /\ n \in Nat /\ DOMAIN tried[r] = 1..n
        /\ Len(plan[r]) \in Nat /\ DOMAIN plan[r] = 1..Len(plan[r])
    BY <1>2, LenProperties
  <1>4. n < Len(plan[r]) /\ n < MaxAttempts
    BY <1>1 DEF InOrder, MayTry
  <1>5. e \in Tries /\ e.conn = plan[r][n + 1] /\ e.outcome = outcome
    BY <1>1, UnderWay DEF Tries, InOrder, Candidate, Attempt
  <1> HIDE DEF e, n
  <1>6. /\ tried'[r] \in Seq(Tries) /\ Len(tried'[r]) = n + 1 /\ DOMAIN tried'[r] = 1..(n + 1)
        /\ \A i \in 1..n : tried'[r][i] = tried[r][i]
        /\ tried'[r][n + 1] = e
    <2>1. /\ Append(tried[r], e) \in Seq(Tries) /\ Len(Append(tried[r], e)) = n + 1
          /\ \A i \in 1..n : Append(tried[r], e)[i] = tried[r][i]
          /\ Append(tried[r], e)[n + 1] = e
      BY <1>2, <1>5, AppendProperties DEF n
    <2>2. DOMAIN Append(tried[r], e) = 1..(n + 1)
      BY <2>1, LenProperties
    <2>3. QED
      BY <1>1, <2>1, <2>2
  <1>7. \/ /\ pc'[r] = "attempt" /\ outcome = "retriable" /\ HasNext(r)
           /\ clock <= startedAt[r] + Budget /\ triedAt'[r] = clock
        \/ pc'[r] = "log"
    BY <1>1 DEF EndAttempt, IsRetriable, Goto, Types
  <1>8. tried'[r] # <<>>
    BY <1>3, <1>6
  <1>9. Progress(r)'
    BY <1>7, <1>8 DEF Progress
  <1>10. Planned(r)' /\ Steered(r)'
    BY <1>1 DEF InOrder, Planned, Steered
  <1>11. MayTry(r)'
    BY <1>1, <1>3, <1>6, <1>7 DEF MayTry, HasNext, Attempt, n
  <1>12. Follows(r)'
    <2>1. Len(tried'[r]) <= Len(plan'[r]) /\ Len(tried'[r]) <= MaxAttempts
      BY <1>1, <1>3, <1>4, <1>6, Settings
    <2>2. ASSUME NEW i \in 1..n
          PROVE  tried'[r][i].conn = plan[r][i] /\ tried'[r][i].outcome = "retriable"
      BY <1>1, <1>3, <1>6 DEF InOrder, Follows, n
    <2>3. ASSUME NEW i \in DOMAIN tried'[r]
          PROVE  /\ tried'[r][i].conn = plan'[r][i]
                 /\ i < Len(tried'[r]) \/ pc'[r] = "attempt" => tried'[r][i].outcome = "retriable"
      <3>1. i \in 1..n \/ i = n + 1
        BY <1>3, <1>6
      <3>2. i = n + 1 => (i < Len(tried'[r]) \/ pc'[r] = "attempt" => outcome = "retriable")
        BY <1>3, <1>6, <1>7
      <3>3. QED
        BY <1>1, <1>5, <1>6, <2>2, <3>1, <3>2
    <2>4. QED
      BY <2>1, <2>3 DEF Follows
  <1>13. QED
    BY <1>9, <1>10, <1>11, <1>12 DEF InOrder

\* A run that is logged forgets its attempts; trimming does not touch them.
LEMMA EndsInOrder ==
  ASSUME Types, NEW r \in Runs, InOrder(r),
         InsertRow(r) \/ InsertFails(r) \/ Trim(r, TRUE) \/ Trim(r, FALSE)
  PROVE  InOrder(r)'
  <1>1. CASE InsertRow(r) \/ InsertFails(r)
    <2>1. OverRun(r)
      BY <1>1 DEF InsertRow, InsertFails, Forget, Goto, OverRun, Types
    <2>2. QED
      BY <2>1, OverRunInOrder
  <1>2. CASE Trim(r, TRUE) \/ Trim(r, FALSE)
    <2>1. /\ pc[r] = "trim" /\ pc'[r] = "done" /\ UNCHANGED <<request, plan, tried, history>>
      BY <1>2 DEF Trim, Goto, Types
    <2>2. Progress(r)' /\ MayTry(r)'
      BY <2>1 DEF InOrder, Progress, MayTry
    <2>3. Planned(r)' /\ Steered(r)' /\ Follows(r)'
      BY <2>1 DEF InOrder, Planned, Steered, Follows, request, history
    <2>4. QED
      BY <2>2, <2>3 DEF InOrder
  <1>3. QED
    BY <1>1, <1>2

\* The map and the history of failures stay together, the clock and a
\* restart included.
LEMMA CooldownsKept ==
  ASSUME Types, \A r \in Runs : MayTry(r), CooldownsMatch, [Next]_vars
  PROVE  CooldownsMatch'
  <1>1. /\ clock \in Nat /\ Cooldown \in Nat
        /\ cooldownUntil \in [Names -> Nat] /\ failedAt \in [Names -> Times \cup {None}]
    BY Settings DEF Types
  <1>2. CASE Tick
    BY <1>1, <1>2 DEF Tick, CooldownsMatch, history
  <1>3. CASE Restart
    BY <1>1, <1>3 DEF Restart, CooldownsMatch
  <1>4. ASSUME NEW r \in Runs, NEW outcome \in Outcomes, EndAttempt(r, outcome)
        PROVE  CooldownsMatch'
    <2>1. Candidate(r) \in Names
      BY <1>4, UnderWay DEF EndAttempt
    <2>2. UNCHANGED clock
      BY <1>4 DEF EndAttempt
    <2>3. CASE outcome = "retriable" /\ pin[r] = None
      <3>1. cooldownUntil' = [cooldownUntil EXCEPT ![Candidate(r)] = clock + Cooldown]
        BY <1>4, <2>3 DEF EndAttempt, Marks
      <3>2. failedAt' = IF Cooldown > 0 THEN [failedAt EXCEPT ![Candidate(r)] = clock]
                                        ELSE failedAt
        BY <1>4, <2>3 DEF EndAttempt
      <3>3. clock # None
        BY Settings DEF Types
      <3>4. QED
        BY <1>1, <2>1, <2>2, <3>1, <3>2, <3>3 DEF CooldownsMatch
    <2>4. CASE ~(outcome = "retriable" /\ pin[r] = None)
      <3>1. UNCHANGED <<cooldownUntil, failedAt>>
        BY <1>4, <2>4 DEF EndAttempt, Marks
      <3>2. QED
        BY <2>2, <3>1 DEF CooldownsMatch
    <2>5. QED
      BY <2>3, <2>4
  <1>5. ASSUME NEW r \in Runs, Start(r) \/ Deny(r) \/ Admit(r) \/ ResolveCandidates(r)
        PROVE  CooldownsMatch'
    BY <1>5 DEF Start, Deny, Admit, ResolveCandidates, CooldownsMatch, history
  <1>6. ASSUME NEW r \in Runs, InsertRow(r) \/ InsertFails(r)
        PROVE  CooldownsMatch'
    BY <1>6 DEF InsertRow, InsertFails, CooldownsMatch
  <1>7. ASSUME NEW r \in Runs, NEW failed \in BOOLEAN, Trim(r, failed)
        PROVE  CooldownsMatch'
    BY <1>7 DEF Trim, CooldownsMatch, history
  <1>8. CASE UNCHANGED vars
    BY <1>8 DEF vars, history, CooldownsMatch
  <1>9. QED
    BY <1>2, <1>3, <1>4, <1>5, <1>6, <1>7, <1>8 DEF Next, Proceed

\* Every step keeps every run in order.
LEMMA InOrderKept ==
  ASSUME Types, \A r \in Runs : InOrder(r), CooldownsMatch, [Next]_vars
  PROVE  \A r \in Runs : InOrder(r)'
  <1> TAKE q \in Runs
  <1>1. InOrder(q)
    OBVIOUS
  <1>2. CASE Tick
    <2>1. SameRun(q)
      BY <1>2 DEF Tick, SameRun, request, history
    <2>2. QED
      BY <1>1, <2>1, SameRunInOrder
  <1>3. CASE Restart
    <2>1. OverRun(q) \/ SameRun(q)
      BY <1>3 DEF Restart, Forget, OverRun, SameRun, Types
    <2>2. QED
      BY <1>1, <2>1, SameRunInOrder, OverRunInOrder
  <1>4. ASSUME NEW r \in Runs, Start(r) \/ Proceed(r) PROVE InOrder(q)'
    <2>1. CASE q # r
      BY <1>1, <1>4, <2>1, OthersInOrder, SameRunInOrder
    <2>2. CASE q = r
      <3>1. Start(q) => InOrder(q)'
        BY <1>1, StartInOrder
      <3>2. Deny(q) \/ Admit(q) => InOrder(q)'
        BY <1>1, GuardInOrder
      <3>3. ResolveCandidates(q) => InOrder(q)'
        BY <1>1, ListInOrder
      <3>4. \A outcome \in Outcomes : EndAttempt(q, outcome) => InOrder(q)'
        BY <1>1, AttemptInOrder
      <3>5. InsertRow(q) \/ InsertFails(q) \/ Trim(q, TRUE) \/ Trim(q, FALSE) => InOrder(q)'
        BY <1>1, EndsInOrder
      <3>6. QED
        BY <1>4, <2>2, <3>1, <3>2, <3>3, <3>4, <3>5 DEF Proceed
    <2>3. QED
      BY <2>1, <2>2
  <1>5. CASE UNCHANGED vars
    <2>1. SameRun(q)
      BY <1>5 DEF vars, SameRun, request, history
    <2>2. QED
      BY <1>1, <2>1, SameRunInOrder
  <1>6. QED
    BY <1>2, <1>3, <1>4, <1>5 DEF Next

-------------------------------------------------------------------------------
(* The page                                                                *)

\* The order of the page, newest first, as a set of pairs.
NewerPairs(T) == {p \in T \X T : Newer(p[1], p[2])}

\* Runs are in a strict total order.
LEMMA NewerIsOrder ==
  ASSUME Types, NEW T \in SUBSET Runs
  PROVE  /\ IsFiniteSet(T) /\ IsOrder(T, NewerPairs(T))
         /\ \A q, r \in T : <<q, r>> \in NewerPairs(T) <=> Newer(q, r)
  <1>1. \A q, r \in T : <<q, r>> \in NewerPairs(T) <=> Newer(q, r)
    BY DEF NewerPairs
  <1>2. \A q \in T : q \in Nat /\ startedAt[q] \in Nat
    BY Settings, ActionRunnerAssumption DEF Types
  <1>3. \A q \in T : ~Newer(q, q)
    BY <1>2 DEF Newer
  <1>4. \A q, r, s \in T : Newer(q, r) /\ Newer(r, s) => Newer(q, s)
    BY <1>2 DEF Newer
  <1>5. \A q, r \in T : q = r \/ Newer(q, r) \/ Newer(r, q)
    BY <1>2 DEF Newer
  <1>6. IsFiniteSet(T)
    BY ActionRunnerAssumption, FS_Subset
  <1>7. QED
    BY <1>1, <1>3, <1>4, <1>5, <1>6 DEF IsOrder

\* The runs of T in front of r.
Before(T, r) == {q \in T : Newer(q, r)}

\* The page, by the runs in front.
LEMMA NewestAre ==
  ASSUME NEW T, NEW r, NEW n
  PROVE  r \in Newest(T, n) <=> r \in T /\ Cardinality(Before(T, r)) < n
  BY DEF Newest, Before

\* The runs in front are finitely many, and no more in a smaller set.
LEMMA BeforeFinite ==
  ASSUME NEW T \in SUBSET Runs, NEW r
  PROVE  /\ IsFiniteSet(Before(T, r)) /\ Cardinality(Before(T, r)) \in Nat
         /\ \A S \in SUBSET T : Cardinality(Before(S, r)) <= Cardinality(Before(T, r))
  <1>1. IsFiniteSet(T) /\ Before(T, r) \subseteq T
    BY ActionRunnerAssumption, FS_Subset DEF Before
  <1>2. IsFiniteSet(Before(T, r)) /\ Cardinality(Before(T, r)) \in Nat
    BY <1>1, FS_Subset, FS_CardinalityType
  <1>3. \A S \in SUBSET T : Before(S, r) \subseteq Before(T, r)
    BY DEF Before
  <1>4. QED
    BY <1>2, <1>3, FS_Subset

\* A run that is not on the page of all has the page's worth of newer ones on it.
LEMMA PageIsFull ==
  ASSUME Types, NEW n \in Nat, NEW T \in SUBSET Runs, NEW r \in T, r \notin Newest(T, n)
  PROVE  n <= Cardinality(Before(T, r) \cap Newest(T, n))
  <1> DEFINE B == Before(T, r)
             R == NewerPairs(B)
             F == {c \in B : Rank(B, R, c) < n}
  <1>1. B \in SUBSET Runs /\ IsFiniteSet(B) /\ Cardinality(B) \in Nat
    BY BeforeFinite DEF Before
  <1>2. n \in Nat /\ n <= Cardinality(B)
    BY <1>1, NewestAre, Settings
  <1>3. IsOrder(B, R) /\ \A q, s \in B : <<q, s>> \in R <=> Newer(q, s)
    BY <1>1, NewerIsOrder
  <1> HIDE DEF R
  <1>4. n <= Cardinality(F)
    BY <1>1, <1>2, <1>3, ManyInFront
  <1>5. ASSUME NEW c \in F PROVE c \in Newest(T, n)
    <2>1. c \in B /\ Rank(B, R, c) < n /\ c \in T
      BY DEF Before
    <2>2. Below(B, R, c) = Before(T, c)
      <3>1. ASSUME NEW q \in Before(T, c) PROVE q \in B
        <4>1. q \in T /\ Newer(q, c) /\ Newer(c, r)
          BY <2>1 DEF Before
        <4>2. Newer(q, r)
          BY <2>1, <4>1, NewerIsOrder DEF IsOrder
        <4>3. QED
          BY <4>1, <4>2 DEF Before
      <3>2. Below(B, R, c) = {q \in B : Newer(q, c)}
        BY <1>3, <2>1 DEF Below
      <3>3. QED
        BY <3>1, <3>2 DEF Before
    <2>3. QED
      BY <2>1, <2>2, NewestAre DEF Rank
  <1>6. F \subseteq B \cap Newest(T, n) /\ IsFiniteSet(B \cap Newest(T, n))
    BY <1>1, <1>5, FS_Subset
  <1>7. Cardinality(F) <= Cardinality(B \cap Newest(T, n))
    BY <1>6, FS_Subset
  <1>8. Cardinality(F) \in Nat /\ Cardinality(B \cap Newest(T, n)) \in Nat
    BY <1>6, FS_Subset, FS_CardinalityType
  <1>9. QED
    BY <1>2, <1>4, <1>7, <1>8

\* A shorter page is part of a longer one.
LEMMA ShorterPage ==
  ASSUME NEW T \in SUBSET Runs, NEW n \in Nat, NEW k \in Nat, n <= k
  PROVE  Newest(T, n) \subseteq Newest(T, k)
  <1>1. ASSUME NEW r \in Newest(T, n) PROVE r \in Newest(T, k)
    <2>1. r \in T /\ Cardinality(Before(T, r)) < n
      BY NewestAre
    <2>2. Cardinality(Before(T, r)) \in Nat
      BY BeforeFinite
    <2>3. QED
      BY <2>1, <2>2, NewestAre
  <1>2. QED
    BY <1>1

\* A table that has the page of all runs has the same page.
LEMMA SamePage ==
  ASSUME Types, NEW n \in Nat, NEW T \in SUBSET Runs, NEW S \in SUBSET T, Newest(T, n) \subseteq S
  PROVE  Newest(S, n) = Newest(T, n)
  <1>1. ASSUME NEW r \in Newest(T, n) PROVE r \in Newest(S, n)
    <2>1. r \in T /\ r \in S /\ Cardinality(Before(T, r)) < n
      BY NewestAre
    <2>2. /\ Cardinality(Before(S, r)) <= Cardinality(Before(T, r))
          /\ Cardinality(Before(S, r)) \in Nat /\ Cardinality(Before(T, r)) \in Nat
      BY BeforeFinite
    <2>3. QED
      BY <2>1, <2>2, NewestAre, Settings
  <1>2. ASSUME NEW r \in Newest(S, n), r \notin Newest(T, n) PROVE FALSE
    <2>1. r \in S /\ r \in T /\ Cardinality(Before(S, r)) < n
      BY <1>2, NewestAre
    <2>2. n <= Cardinality(Before(T, r) \cap Newest(T, n))
      BY <1>2, <2>1, PageIsFull
    <2>3. Before(T, r) \cap Newest(T, n) \subseteq Before(S, r)
      BY DEF Before
    <2>4. /\ Cardinality(Before(T, r) \cap Newest(T, n)) <= Cardinality(Before(S, r))
          /\ Cardinality(Before(S, r)) \in Nat
          /\ Cardinality(Before(T, r) \cap Newest(T, n)) \in Nat
      BY <2>3, BeforeFinite, FS_Subset, FS_CardinalityType
    <2>5. QED
      BY <2>1, <2>2, <2>4, Settings
  <1>3. QED
    BY <1>1, <1>2

\* A run more may leave the page, and none but the new one enters it.
LEMMA PageGrows ==
  ASSUME Types, NEW n \in Nat, NEW T \in SUBSET Runs, NEW r \in Runs
  PROVE  Newest(T \cup {r}, n) \subseteq Newest(T, n) \cup {r}
  <1> SUFFICES ASSUME NEW q \in Newest(T \cup {r}, n), q # r PROVE q \in Newest(T, n)
    OBVIOUS
  <1>1. q \in T /\ Cardinality(Before(T \cup {r}, q)) < n
    BY NewestAre
  <1>2. /\ Cardinality(Before(T, q)) <= Cardinality(Before(T \cup {r}, q))
        /\ Cardinality(Before(T, q)) \in Nat /\ Cardinality(Before(T \cup {r}, q)) \in Nat
    <2>1. T \cup {r} \in SUBSET Runs /\ T \in SUBSET (T \cup {r})
      OBVIOUS
    <2>2. QED
      BY <2>1, BeforeFinite
  <1>3. QED
    BY <1>1, <1>2, NewestAre, Settings

\* A run that has no row yet may start at any time: the page is the same.
LEMMA PageStays ==
  ASSUME NEW n \in Nat, inserted' = inserted, \A q \in inserted : startedAt'[q] = startedAt[q]
  PROVE  Newest(inserted, n)' = Newest(inserted, n)
  <1>1. ASSUME NEW r \in inserted
        PROVE  {q \in inserted : Newer(q, r)'} = {q \in inserted : Newer(q, r)}
    BY DEF Newer
  <1>2. QED
    BY <1>1 DEF Newest

\* No step loses a row of the page: a trim keeps the newest of the rows,
\* which by SamePage are the newest of all.
LEMMA PageKeptByAll ==
  ASSUME Types, \A r \in Runs : InOrder(r), PageKept, [Next]_vars
  PROVE  PageKept'
  <1> USE Settings
  <1>1. CASE UNCHANGED <<rows, inserted, startedAt>>
    BY <1>1, PageStays DEF PageKept
  <1>2. ASSUME NEW r \in Runs, Start(r) PROVE PageKept'
    <2>1. r \notin inserted /\ inserted' = inserted /\ rows' = rows
      BY <1>2 DEF Start, InOrder, Progress, history
    <2>2. \A q \in inserted : startedAt'[q] = startedAt[q]
      BY <1>2, <2>1 DEF Start, Types
    <2>3. QED
      BY <2>1, <2>2, PageStays DEF PageKept
  <1>3. ASSUME NEW r \in Runs, InsertRow(r) PROVE PageKept'
    <2>1. /\ inserted' = inserted \cup {r} /\ rows' = rows \cup {r}
          /\ startedAt' = startedAt
      BY <1>3 DEF InsertRow
    <2>2. Newest(inserted, RunLimit)' = Newest(inserted \cup {r}, RunLimit)
      BY <2>1 DEF Newest, Newer
    <2>3. Newest(inserted \cup {r}, RunLimit) \subseteq Newest(inserted, RunLimit) \cup {r}
      BY PageGrows DEF Types
    <2>4. QED
      BY <2>1, <2>2, <2>3 DEF PageKept
  <1>4. ASSUME NEW r \in Runs, NEW failed \in BOOLEAN, Trim(r, failed) PROVE PageKept'
    <2>1. inserted' = inserted /\ startedAt' = startedAt
      BY <1>4 DEF Trim, request, history
    <2>2. Newest(rows, RunLimit) = Newest(inserted, RunLimit)
      BY SamePage DEF Types, PageKept
    <2>3. Newest(inserted, RunLimit) \subseteq rows'
      BY <1>4, <2>2 DEF Trim, Trimmed, PageKept
    <2>4. QED
      BY <2>1, <2>3, PageStays DEF PageKept
  <1>5. ASSUME NEW r \in Runs, NEW outcome \in Outcomes, EndAttempt(r, outcome)
        PROVE  UNCHANGED <<rows, inserted, startedAt>>
    BY <1>5 DEF EndAttempt, request
  <1>6. ASSUME NEW r \in Runs,
               Deny(r) \/ Admit(r) \/ ResolveCandidates(r) \/ InsertFails(r)
        PROVE  UNCHANGED <<rows, inserted, startedAt>>
    BY <1>6 DEF Deny, Admit, ResolveCandidates, InsertFails, request, history
  <1>7. Tick \/ Restart \/ UNCHANGED vars => UNCHANGED <<rows, inserted, startedAt>>
    BY DEF Tick, Restart, vars, request, history
  <1>8. QED
    BY <1>1, <1>2, <1>3, <1>4, <1>5, <1>6, <1>7 DEF Next, Proceed

-------------------------------------------------------------------------------
(* The quota                                                               *)

\* Sets of runs are finite, and a smaller one has no more elements.
LEMMA RunsFinite ==
  ASSUME NEW S, NEW T \in SUBSET Runs, S \subseteq T
  PROVE  /\ IsFiniteSet(S) /\ Cardinality(S) \in Nat /\ Cardinality(T) \in Nat
         /\ Cardinality(S) <= Cardinality(T)
  BY ActionRunnerAssumption, FS_Subset, FS_CardinalityType

\* Only a start adds to the runs under way of a member.
LEMMA FlightsEnd ==
  ASSUME Types, [Next]_vars, NEW m \in Members, NEW q \in InFlight(m)', q \notin InFlight(m)
  PROVE  Start(q)
  <1>1. q \in Runs /\ Active(q)' /\ member'[q] = m
    BY DEF InFlight
  <1>2. CASE Tick \/ Restart \/ UNCHANGED vars
    BY <1>1, <1>2 DEF Tick, Restart, vars, request, InFlight, Active
  <1>3. ASSUME NEW r \in Runs, Start(r) PROVE Start(q)
    <2>1. q # r => pc'[q] = pc[q] /\ member'[q] = member[q]
      BY <1>1, <1>3 DEF Start, Goto, Types
    <2>2. QED
      BY <1>1, <1>3, <2>1 DEF InFlight, Active
  <1>4. ASSUME NEW r \in Runs, Proceed(r) PROVE FALSE
    <2>1. member' = member /\ Active(r) /\ (\A p \in Runs \ {r} : pc'[p] = pc[p])
      <3>1. ASSUME Deny(r) \/ Admit(r) \/ ResolveCandidates(r) PROVE <2>1
        BY <3>1 DEF Deny, Admit, ResolveCandidates, Goto, Types, request, Active
      <3>2. ASSUME NEW outcome \in Outcomes, EndAttempt(r, outcome) PROVE <2>1
        BY <3>2 DEF EndAttempt, Goto, Types, request, Active
      <3>3. ASSUME InsertRow(r) \/ InsertFails(r) PROVE <2>1
        BY <3>3 DEF InsertRow, InsertFails, Goto, Types, Active
      <3>4. ASSUME NEW failed \in BOOLEAN, Trim(r, failed) PROVE <2>1
        BY <3>4 DEF Trim, Goto, Types, request, Active
      <3>5. QED
        BY <1>4, <3>1, <3>2, <3>3, <3>4 DEF Proceed
    <2>2. QED
      BY <1>1, <2>1 DEF InFlight, Active
  <1>5. QED
    BY <1>2, <1>3, <1>4 DEF Next

\* Every step keeps every member below the cap.
LEMMA CapKept ==
  ASSUME Types, CapHolds, [Next]_vars
  PROVE  CapHolds'
  <1> SUFFICES ASSUME NEW m \in Members PROVE Cardinality(InFlight(m)') <= Cap
    BY DEF CapHolds
  <1>1. /\ InFlight(m) \in SUBSET Runs /\ InFlight(m)' \in SUBSET Runs
        /\ Cardinality(InFlight(m)) <= Cap
    BY DEF InFlight, CapHolds
  <1>2. CASE InFlight(m)' \subseteq InFlight(m)
    BY <1>1, <1>2, RunsFinite, Settings
  <1>3. ASSUME NEW r \in InFlight(m)', r \notin InFlight(m)
        PROVE  Cardinality(InFlight(m)') <= Cap
    <2>1. r \in Runs /\ Start(r)
      BY <1>1, <1>3, FlightsEnd
    <2>2. m # NoMember /\ member'[r] = m
      BY <1>3, ActionRunnerAssumption DEF InFlight
    <2>3. Cardinality(InFlight(m)) < Cap
      <3>1. PICK mm \in Members \cup {NoMember} :
               /\ mm # NoMember => Cardinality({q \in Runs : Active(q) /\ member[q] = mm}) < Cap
               /\ member' = [member EXCEPT ![r] = mm]
        BY <2>1 DEF Start
      <3>2. mm = m
        BY <2>1, <2>2, <3>1 DEF Types
      <3>3. QED
        BY <2>2, <3>1, <3>2 DEF InFlight
    <2>4. InFlight(m)' \subseteq InFlight(m) \cup {r}
      <3>1. \A q \in Runs \ {r} : pc'[q] = pc[q] /\ member'[q] = member[q]
        BY <2>1 DEF Start, Goto, Types
      <3>2. QED
        BY <3>1 DEF InFlight, Active
    <2>5. /\ IsFiniteSet(InFlight(m)) /\ Cardinality(InFlight(m)) \in Nat
          /\ InFlight(m) \cup {r} \in SUBSET Runs
      BY <1>1, <2>1, RunsFinite
    <2>6. Cardinality(InFlight(m) \cup {r}) = Cardinality(InFlight(m)) + 1
      BY <1>3, <2>5, FS_AddElement
    <2>7. /\ Cardinality(InFlight(m)') <= Cardinality(InFlight(m) \cup {r})
          /\ Cardinality(InFlight(m)') \in Nat
      BY <2>4, <2>5, RunsFinite
    <2>8. QED
      BY <2>3, <2>5, <2>6, <2>7, Settings
  <1>4. QED
    BY <1>2, <1>3

\* While a check reads all rows there have been, they are the history.
LEMMA RowsFit ==
  ASSUME Types, PageKept, Cardinality(inserted) <= RowsCounted
  PROVE  Newest(rows, RowsCounted) = inserted
  <1>1. ASSUME NEW r \in inserted PROVE r \in Newest(inserted, RowsCounted)
    <2>1. /\ inserted \in SUBSET Runs /\ r \in Runs
          /\ Before(inserted, r) \subseteq inserted \ {r}
      <3>1. inserted \in SUBSET Runs
        BY DEF Types
      <3>2. ~Newer(r, r)
        BY <3>1, NewerIsOrder DEF IsOrder
      <3>3. QED
        BY <3>1, <3>2 DEF Before
    <2>2. /\ IsFiniteSet(inserted) /\ Cardinality(inserted) \in Nat
      BY <2>1, RunsFinite
    <2>3. Cardinality(inserted \ {r}) = Cardinality(inserted) - 1
      BY <2>2, FS_RemoveElement
    <2>4. /\ Cardinality(Before(inserted, r)) <= Cardinality(inserted \ {r})
          /\ Cardinality(Before(inserted, r)) \in Nat
      BY <2>1, RunsFinite
    <2>5. Cardinality(Before(inserted, r)) < RowsCounted
      BY <2>2, <2>3, <2>4, Settings
    <2>6. QED
      BY <2>5, NewestAre
  <1>2. Newest(inserted, RowsCounted) = inserted
    BY <1>1 DEF Newest
  <1>3. Newest(inserted, RowsCounted) \subseteq rows
    BY ShorterPage, Settings DEF Types, PageKept
  <1>4. QED
    BY <1>2, <1>3, SamePage, Settings DEF Types

\* Only Admit adds to the runs that count against a quota.
LEMMA ChargedByAdmit ==
  ASSUME Types, \A r \in Runs : InOrder(r), [Next]_vars,
         NEW m \in Members, NEW d, NEW q \in Charged(m, d)', q \notin Charged(m, d)
  PROVE  Admit(q) /\ q \in Runs /\ q \notin unread'
  <1>1. /\ q \in Runs \ unread' /\ Executes(q)' /\ member'[q] = m
        /\ DayOf(startedAt'[q]) = d /\ DayOf(checkedAt'[q]) = d
        /\ Active(q)' \/ q \in inserted'
    BY DEF Charged, DayOf
  <1>2. ASSUME checkedAt'[q] = checkedAt[q], member'[q] = member[q],
               startedAt'[q] = startedAt[q], unread \subseteq unread',
               Active(q)' \/ q \in inserted' => Active(q) \/ q \in inserted
        PROVE  FALSE
    BY <1>1, <1>2 DEF Charged, Executes
  <1>3. CASE Tick \/ Restart \/ UNCHANGED vars
    BY <1>1, <1>2, <1>3 DEF Tick, Restart, vars, request, history, Active
  <1>4. ASSUME NEW r \in Runs, Start(r) PROVE FALSE
    <2>1. q # r
      BY <1>1, <1>4 DEF Start, InOrder, Progress, Executes
    <2>2. QED
      BY <1>2, <1>4, <2>1 DEF Start, Goto, Types, history, Active
  <1>5. ASSUME NEW r \in Runs, Deny(r) \/ ResolveCandidates(r) PROVE FALSE
    BY <1>1, <1>2, <1>5 DEF Deny, ResolveCandidates, Goto, Types, request, history, Active
  <1>6. ASSUME NEW r \in Runs, Admit(r), q # r PROVE FALSE
    BY <1>1, <1>2, <1>6 DEF Admit, Goto, Types, request, history, Active
  <1>7. ASSUME NEW r \in Runs, NEW outcome \in Outcomes, EndAttempt(r, outcome) PROVE FALSE
    BY <1>1, <1>2, <1>7 DEF EndAttempt, Goto, Types, request, history, Active
  <1>8. ASSUME NEW r \in Runs, InsertRow(r) \/ InsertFails(r) PROVE FALSE
    BY <1>1, <1>2, <1>8 DEF InsertRow, InsertFails, Goto, Types, Active
  <1>9. ASSUME NEW r \in Runs, NEW failed \in BOOLEAN, Trim(r, failed) PROVE FALSE
    BY <1>1, <1>2, <1>9 DEF Trim, Goto, Types, request, history, Active
  <1>10. QED
    BY <1>1, <1>3, <1>4, <1>5, <1>6, <1>7, <1>8, <1>9 DEF Next, Proceed

\* A step that charges one run more is an admission: the rows counted were
\* below the quota, and what is charged besides them is in flight.
LEMMA QuotaKept ==
  ASSUME Types, \A r \in Runs : InOrder(r), PageKept, CapHolds, QuotaHoldsWhileRowsFit,
         Types', [Next]_vars
  PROVE  QuotaHoldsWhileRowsFit'
  <1> SUFFICES ASSUME Cardinality(inserted') <= RowsCounted, NEW m \in Members,
                      NEW d \in {DayOf(t) : t \in Times}
               PROVE  Cardinality(Charged(m, d)') <= Quota + Cap - 1
    BY DEF QuotaHoldsWhileRowsFit, QuotaHolds
  <1>1. Cardinality(inserted) <= RowsCounted
    <2>1. inserted \subseteq inserted'
      <3>1. ASSUME NEW r \in Runs, Start(r) \/ Proceed(r) PROVE inserted \subseteq inserted'
        BY <3>1 DEF Proceed, Start, Deny, Admit, ResolveCandidates, EndAttempt, InsertRow,
                    InsertFails, Trim, history
      <3>2. Tick \/ Restart \/ UNCHANGED vars => inserted \subseteq inserted'
        BY DEF Tick, Restart, vars, history
      <3>3. QED
        BY <3>1, <3>2 DEF Next
    <2>2. inserted' \in SUBSET Runs
      BY DEF Types
    <2>3. QED
      BY <2>1, <2>2, RunsFinite, Settings
  <1>2. /\ Charged(m, d) \in SUBSET Runs /\ Charged(m, d)' \in SUBSET Runs
        /\ Cardinality(Charged(m, d)) <= Quota + Cap - 1
    BY <1>1 DEF QuotaHoldsWhileRowsFit, QuotaHolds, Charged
  <1>3. CASE Charged(m, d)' \subseteq Charged(m, d)
    BY <1>2, <1>3, RunsFinite, Settings
  <1>4. ASSUME NEW q \in Charged(m, d)', q \notin Charged(m, d)
        PROVE  Cardinality(Charged(m, d)') <= Quota + Cap - 1
    <2> DEFINE L == {p \in inserted : member[p] = m /\ DayOf(startedAt[p]) >= DayOf(clock)}
    <2>1. q \in Runs /\ Admit(q) /\ q \notin unread'
      BY <1>4, ChargedByAdmit
    <2>2. /\ UNCHANGED <<member, startedAt, inserted>> /\ pc[q] = "guard"
          /\ pc' = [pc EXCEPT ![q] = "list"] /\ checkedAt'[q] = clock
          /\ ~OverQuota(member[q])
      BY <2>1 DEF Admit, Goto, request, history, Types
    <2>3. member[q] = m /\ d = DayOf(clock)
      BY <1>4, <2>2 DEF Charged, DayOf
    <2>4. d \in Int
      BY <2>3, Settings DEF DayOf, Types
    <2>5. \A p \in Runs : Active(p)' = Active(p)
      BY <2>1, <2>2 DEF Active, Types
    <2>6. Charged(m, d)' \subseteq InFlight(m) \cup L
      <3>1. ASSUME NEW p \in Charged(m, d)' PROVE p \in InFlight(m) \cup L
        <4>1. /\ p \in Runs /\ member[p] = m /\ DayOf(startedAt[p]) = d
              /\ Active(p) \/ p \in inserted
          BY <2>2, <2>5 DEF Charged, DayOf
        <4>2. DayOf(startedAt[p]) >= DayOf(clock)
          BY <2>3, <2>4, <4>1
        <4>3. QED
          BY <4>1, <4>2 DEF InFlight
      <3>2. QED
        BY <3>1
    <2>7. Cardinality(L) < Quota
      <3>1. Newest(rows, RowsCounted) = inserted
        BY <1>1, RowsFit
      <3>2. Cardinality(L) = CountRuns(m)
        BY <3>1 DEF CountRuns
      <3>3. L \in SUBSET Runs
        BY DEF Types
      <3>4. Cardinality(L) \in Nat
        BY <3>3, RunsFinite
      <3>5. m # NoMember
        BY ActionRunnerAssumption
      <3> HIDE DEF L
      <3>6. QED
        BY <2>2, <2>3, <3>2, <3>4, <3>5, Settings DEF OverQuota
    <2>8. L \in SUBSET Runs /\ InFlight(m) \in SUBSET Runs
      BY DEF Types, InFlight
    <2>9. Cardinality(InFlight(m)) <= Cap
      BY DEF CapHolds
    <2> HIDE DEF L
    <2>10. /\ IsFiniteSet(L) /\ IsFiniteSet(InFlight(m))
           /\ Cardinality(L) \in Nat /\ Cardinality(InFlight(m)) \in Nat
           /\ Cardinality(InFlight(m) \cap L) \in Nat
           /\ InFlight(m) \cup L \in SUBSET Runs
      BY <2>8, RunsFinite
    <2>11. Cardinality(InFlight(m) \cup L) <= Cardinality(InFlight(m)) + Cardinality(L)
      <3>1. /\ Cardinality(InFlight(m) \cup L) =
                 Cardinality(InFlight(m)) + Cardinality(L) - Cardinality(InFlight(m) \cap L)
        BY <2>10, FS_Union
      <3>2. QED
        BY <2>10, <3>1
    <2>12. /\ Cardinality(Charged(m, d)') <= Cardinality(InFlight(m) \cup L)
           /\ Cardinality(Charged(m, d)') \in Nat
           /\ Cardinality(InFlight(m) \cup L) \in Nat
      BY <2>6, <2>10, RunsFinite
    <2>13. QED
      BY <2>7, <2>9, <2>10, <2>11, <2>12, Settings
  <1>5. QED
    BY <1>3, <1>4

-------------------------------------------------------------------------------
(* Every reachable state                                                   *)

\* The initial states satisfy the invariant.
LEMMA RunnerInit == Init => RunnerInv
  <1> SUFFICES ASSUME Init PROVE RunnerInv
    OBVIOUS
  <1> USE Settings DEF Init
  <1>1. Types
    <2>1. <<>> \in Seq(Names) /\ <<>> \in Seq(Tries)
      BY EmptySeq
    <2>2. 0 \in Times /\ 0 \in 0..MaxTime + Cooldown /\ {} \subseteq Names
      BY DEF Times
    <2>3. QED
      BY <2>1, <2>2 DEF Types, Steps
  <1>2. \A r \in Runs : Progress(r) /\ Planned(r) /\ Follows(r) /\ MayTry(r) /\ Steered(r)
    BY DEF Progress, Executes, Planned, Follows, MayTry, Steered
  <1>3. CooldownsMatch
    BY DEF CooldownsMatch
  <1>4. PageKept
    BY DEF PageKept, Newest
  <1>5. CapHolds
    <2>1. \A m \in Members : InFlight(m) = {}
      BY DEF InFlight, Active
    <2>2. Cardinality({}) = 0 /\ 0 <= Cap
      BY FS_EmptySet
    <2>3. \A m \in Members : Cardinality(InFlight(m)) <= Cap
      BY <2>1, <2>2
    <2>4. QED
      BY <2>3 DEF CapHolds
  <1>6. QuotaHoldsWhileRowsFit
    <2>1. \A m, d : Charged(m, d) = {}
      BY DEF Charged, Executes
    <2>2. \A m \in Members, d \in {DayOf(t) : t \in Times} :
             Cardinality(Charged(m, d)) <= Quota + Cap - 1
      <3>1. Cardinality({}) = 0
        BY FS_EmptySet
      <3>2. 0 <= Quota + Cap - 1
        OBVIOUS
      <3>3. QED
        BY <2>1, <3>1, <3>2
    <2>3. QED
      BY <2>2 DEF QuotaHoldsWhileRowsFit, QuotaHolds
  <1>7. QED
    BY <1>1, <1>2, <1>3, <1>4, <1>5, <1>6 DEF RunnerInv, RunsInOrder

\* Every step keeps it.
LEMMA RunnerInvKept == RunnerInv /\ [Next]_vars => RunnerInv'
  <1> SUFFICES ASSUME RunnerInv, [Next]_vars PROVE RunnerInv'
    OBVIOUS
  <1>1. /\ Types /\ (\A r \in Runs : InOrder(r)) /\ (\A r \in Runs : MayTry(r))
        /\ CooldownsMatch /\ PageKept /\ CapHolds /\ QuotaHoldsWhileRowsFit
    BY DEF RunnerInv, RunsInOrder, InOrder
  <1>2. Types'
    BY <1>1, TypesKept
  <1>3. \A r \in Runs : InOrder(r)'
    BY <1>1, InOrderKept
  <1>4. CooldownsMatch'
    BY <1>1, CooldownsKept
  <1>5. PageKept'
    BY <1>1, PageKeptByAll
  <1>6. CapHolds'
    BY <1>1, CapKept
  <1>7. QuotaHoldsWhileRowsFit'
    BY <1>1, <1>2, QuotaKept
  <1>8. QED
    BY <1>2, <1>3, <1>4, <1>5, <1>6, <1>7 DEF RunnerInv, RunsInOrder, InOrder

\* It holds in every reachable state.
LEMMA RunnerAlways == Spec => []RunnerInv
  BY RunnerInit, RunnerInvKept, PTL DEF Spec

\* The table, the cooldown map and the locals of every run keep their types;
\* a run that tries has a candidate to try.
THEOREM RunnerTypeCorrect == Spec => []TypeOK
  <1>1. RunnerInv => TypeOK
    <2> SUFFICES ASSUME RunnerInv PROVE TypeOK
      OBVIOUS
    <2>1. Types /\ \A r \in Runs : MayTry(r) /\ Progress(r)
      BY DEF RunnerInv, RunsInOrder
    <2>2. ASSUME NEW r \in Runs
          PROVE  /\ ToSet(plan[r]) \subseteq Names
                 /\ tried[r] \in Seq([conn : Names, outcome : Outcomes])
                 /\ pc[r] = "attempt" => Attempt(r) \in DOMAIN plan[r]
                 /\ Executes(r) /\ pc[r] = "log" => tried[r] # <<>>
      <3>1. plan[r] \in Seq(Names) /\ tried[r] \in Seq(Tries)
        BY <2>1 DEF Types
      <3>2. \A i \in DOMAIN plan[r] : plan[r][i] \in Names
        BY <3>1
      <3>3. pc[r] = "attempt" => Attempt(r) \in DOMAIN plan[r]
        BY <2>1, UnderWay
      <3>4. QED
        BY <2>1, <3>1, <3>2, <3>3 DEF ToSet, Tries, Progress
    <2>3. QED
      BY <2>1, <2>2 DEF TypeOK, Types
  <1>2. QED
    BY <1>1, RunnerAlways, PTL

\* An action is dispatched again only after a retriable failure, to another
\* connection, never away from one the caller asked for, and within the
\* limits on attempts and time.
THEOREM FallbackIsAllowed == Spec => []FallsBackOnlyWhenAllowed
  <1>1. RunnerInv => FallsBackOnlyWhenAllowed
    <2> SUFFICES ASSUME RunnerInv, NEW r \in Runs
                 PROVE  /\ \A i, j \in 1..Len(tried[r]) :
                             i < j => /\ tried[r][i].outcome = "retriable"
                                      /\ tried[r][i].conn # tried[r][j].conn
                        /\ Len(tried[r]) <= MaxAttempts
                        /\ pin[r] # None =>
                             ToSet(tried[r]) \subseteq [conn : {pin[r]}, outcome : Outcomes]
                        /\ pc[r] = "attempt" /\ tried[r] # <<>>
                             => triedAt[r] <= startedAt[r] + Budget
      BY DEF FallsBackOnlyWhenAllowed
    <2>1. Types /\ Planned(r) /\ Follows(r) /\ MayTry(r)
      BY DEF RunnerInv, RunsInOrder
    <2>2. /\ Len(tried[r]) \in Nat /\ DOMAIN tried[r] = 1..Len(tried[r])
          /\ Len(plan[r]) \in Nat /\ DOMAIN plan[r] = 1..Len(plan[r])
          /\ \A i \in DOMAIN tried[r] : tried[r][i] \in Tries
      BY <2>1, LenProperties, ElementOfSeq DEF Types
    <2>3. \A i \in DOMAIN tried[r] : i \in DOMAIN plan[r] /\ tried[r][i].conn = plan[r][i]
      BY <2>1, <2>2 DEF Follows
    <2>4. ASSUME NEW i \in 1..Len(tried[r]), NEW j \in 1..Len(tried[r]), i < j
          PROVE  tried[r][i].outcome = "retriable" /\ tried[r][i].conn # tried[r][j].conn
      <3>1. i < Len(tried[r])
        BY <2>2, <2>4
      <3>2. tried[r][i].outcome = "retriable"
        BY <2>1, <2>2, <3>1 DEF Follows
      <3>3. tried[r][i].conn # tried[r][j].conn
        BY <2>1, <2>2, <2>3, <2>4 DEF Planned
      <3>4. QED
        BY <3>2, <3>3
    <2>5. ASSUME pin[r] # None, NEW i \in DOMAIN tried[r]
          PROVE  tried[r][i] \in [conn : {pin[r]}, outcome : Outcomes]
      <3>1. tried[r][i] \in Tries /\ tried[r][i].conn = pin[r]
        BY <2>1, <2>2, <2>3, <2>5 DEF Planned
      <3>2. QED
        BY <3>1 DEF Tries
    <2>6. QED
      BY <2>1, <2>4, <2>5 DEF Follows, MayTry, ToSet
  <1>2. QED
    BY <1>1, RunnerAlways, PTL

\* A run does not turn to a connection that had lately failed another run
\* while it knows one that had not.
THEOREM RunsAreSteered == Spec => []LatelyFailedComeLast
  <1>1. RunnerInv => LatelyFailedComeLast
    <2> SUFFICES ASSUME RunnerInv, NEW r \in Runs, pin[r] = None,
                        NEW i \in DOMAIN tried[r], tried[r][i].conn \in avoid[r],
                        NEW c \in ToSet(plan[r]) \ avoid[r]
                 PROVE  c \in {tried[r][j].conn : j \in 1..(i - 1)}
      BY DEF LatelyFailedComeLast
    <2>1. Types /\ Follows(r) /\ Steered(r)
      BY DEF RunnerInv, RunsInOrder
    <2>2. /\ Len(tried[r]) \in Nat /\ DOMAIN tried[r] = 1..Len(tried[r])
          /\ Len(plan[r]) \in Nat /\ DOMAIN plan[r] = 1..Len(plan[r])
      BY <2>1, LenProperties DEF Types
    <2>3. PICK j \in DOMAIN plan[r] : c = plan[r][j]
      BY DEF ToSet
    <2>4. i \in DOMAIN plan[r] /\ tried[r][i].conn = plan[r][i]
      BY <2>1, <2>2 DEF Follows
    <2>5. j < i
      BY <2>1, <2>3, <2>4 DEF Steered
    <2>6. j \in 1..(i - 1) /\ tried[r][j].conn = c
      BY <2>1, <2>2, <2>3, <2>5 DEF Follows
    <2>7. QED
      BY <2>6
  <1>2. QED
    BY <1>1, RunnerAlways, PTL

\* A page of runs, of any length the table keeps, holds the newest of all runs
\* ever logged, whatever trims were late, failed, or never came.
THEOREM PageIsTheNewest == Spec => []PageIsNewest
  <1>1. RunnerInv => PageIsNewest
    <2> SUFFICES ASSUME RunnerInv, NEW n \in 1..RunLimit
                 PROVE  Newest(rows, n) = Newest(inserted, n)
      BY DEF PageIsNewest
    <2>1. Types /\ PageKept /\ n \in Nat /\ n <= RunLimit
      BY Settings DEF RunnerInv
    <2>2. Newest(inserted, n) \subseteq rows
      BY <2>1, ShorterPage, Settings DEF Types, PageKept
    <2>3. QED
      BY <2>1, <2>2, SamePage DEF Types
  <1>2. QED
    BY <1>1, RunnerAlways, PTL

\* As long as the table has room for all rows and a quota check reads them all,
\* a member exceeds the daily quota by less than the cap of runs in flight, but
\* for runs that passed while the quota could not be read.
THEOREM QuotaIsKept == Spec => []QuotaHoldsWhileRowsFit
  <1>1. RunnerInv => QuotaHoldsWhileRowsFit
    BY DEF RunnerInv
  <1>2. QED
    BY <1>1, RunnerAlways, PTL
===============================================================================
