------------------------- MODULE CompanyStoresProofs -------------------------
(***************************************************************************)
(* Proofs about three components of MCCompanyStores, for any number of     *)
(* writers, callers and files: the policy that is mirrored from            *)
(* policy.json (OrgConfig), the slot that holds one booted isolate         *)
(* (IsolateCache) and the transit files with their sweeps (TransitFiles).  *)
(* Each has an inductive invariant that says of every step what its actor  *)
(* has left on disk or in memory so far. At the end: the components        *)
(* keep what is proved of each when they are checked side by side.         *)
(***************************************************************************)
EXTENDS OAuthFlowProofs, RuntimeTokensProofs
-------------------------------------------------------------------------------
(* OrgConfig                                                               *)

\* The writes that may have taken a version.
Numbered == {w \in Writers : wpc[w] \in {"bumping", "emptied", "bumped", "done"}}

\* No version is higher than the number of writes that may have taken one.
VersionsCounted ==
    /\ Org!VersionIn(manifest) <= Cardinality(Numbered)
    /\ \A w \in Writers : next[w] <= Cardinality(Numbered)
    /\ fetched <= Cardinality(Numbered)
    /\ mirror.version <= Cardinality(Numbered)

\* Every variable has its type; how high a version gets is VersionsCounted.
PolicyTypes ==
    /\ policy \in Org!Policies \cup {Garbage}
    /\ manifest \in Nat \cup {Garbage}
    /\ runtime \in Org!Policies
    /\ wpc \in [Writers -> Org!WriteSteps]
    /\ next \in [Writers -> Nat]
    /\ mirror \in [version : Nat, policy : Org!Policies]
    /\ sync \in Org!SyncSteps
    /\ fetched \in Nat
    /\ crossed \in BOOLEAN /\ raced \in BOOLEAN /\ cut \in BOOLEAN
    /\ unread \in BOOLEAN /\ relaid \in BOOLEAN /\ blank \in BOOLEAN

\* While writes have not overlapped, none was cut off and the layout has left the
\* files alone, there is one under way at most, and policy.json is what its step says.
OneAtATime ==
    crossed \/ cut \/ relaid \/
    /\ \A v, w \in Writers : Org!UnderWay(v) /\ Org!UnderWay(w) => v = w
    /\ \A w \in Writers :
          /\ wpc[w] = "opening" => runtime = Org!PolicyIn(policy)
          /\ wpc[w] = "writing" => policy = Garbage
          /\ wpc[w] \in {"written", "bumping", "emptied", "bumped"} => policy = w
    /\ Org!PolicyMirrored

\* A write that may have changed policy.json and not stored its version.
Unnumbered == {"writing", "written", "bumping", "emptied"}

\* While every version was read, and none behind another one's back, one write at a
\* time takes a version; the version it stores is higher than any that the desktop has
\* seen. Who has the version in the manifest has its policy, unless the next one is on
\* its way or the policy was not read.
VersionsTakeTurns ==
    raced \/ cut \/ unread \/ relaid \/
    /\ \A v, w \in Writers :
          wpc[v] \in {"bumping", "emptied"} /\ wpc[w] \in {"bumping", "emptied"} => v = w
    /\ \A w \in Writers :
          /\ wpc[w] = "bumping" => manifest # Garbage /\ next[w] = manifest + 1
          /\ wpc[w] = "emptied" =>
                manifest = Garbage /\ fetched < next[w] /\ mirror.version < next[w]
    /\ manifest = Garbage => \E w \in Writers : wpc[w] = "emptied"
    /\ manifest # Garbage => fetched <= manifest /\ mirror.version <= manifest
    /\ blank \/ (\E w \in Writers : wpc[w] \in Unnumbered)
          \/ (mirror.version = Org!VersionIn(manifest)
                => mirror.policy = Org!PolicyIn(policy))

\* The inductive invariant.
OrgInv == PolicyTypes /\ VersionsCounted /\ OneAtATime /\ VersionsTakeTurns

\* What the instance says of finite sets is what FiniteSets says.
LEMMA OrgFinite ==
    /\ \A S : Org!IsFiniteSet(S) <=> IsFiniteSet(S)
    /\ \A S : Org!Cardinality(S) = Cardinality(S)
  BY DEF Org!IsFiniteSet, IsFiniteSet, Org!Cardinality, Cardinality

\* Every step keeps the types.
LEMMA PolicyTypesKept ==
  ASSUME Org!ConstantsOK, PolicyTypes, [Org!Next]_(Org!vars)
  PROVE  PolicyTypes'
  <1> USE DEF Org!ConstantsOK, PolicyTypes, Org!Policies, Org!WriteSteps, Org!SyncSteps,
              Org!VersionIn, Org!PolicyIn
  <1>1. ASSUME NEW w \in Writers, Org!Arrive(w) PROVE PolicyTypes'
    BY <1>1 DEF Org!Arrive, Org!Goto, Org!desktopVars, Org!historyVars
  <1>2. ASSUME NEW w \in Writers, Org!EmptyPolicy(w) PROVE PolicyTypes'
    BY <1>2 DEF Org!EmptyPolicy, Org!Goto, Org!desktopVars, Org!historyVars
  <1>3. ASSUME NEW w \in Writers, Org!WritePolicy(w) PROVE PolicyTypes'
    BY <1>3 DEF Org!WritePolicy, Org!Goto, Org!desktopVars, Org!historyVars
  <1>4. ASSUME NEW w \in Writers, Org!ReadManifest(w) PROVE PolicyTypes'
    BY <1>4
       DEF Org!ReadManifest, Org!ReadingsOfManifest, Org!Bumped, Org!Goto, Org!desktopVars,
           Org!historyVars
  <1>5. ASSUME NEW w \in Writers, Org!EmptyManifest(w) PROVE PolicyTypes'
    BY <1>5 DEF Org!EmptyManifest, Org!Goto, Org!desktopVars, Org!historyVars
  <1>6. ASSUME NEW w \in Writers, Org!WriteManifest(w) PROVE PolicyTypes'
    BY <1>6 DEF Org!WriteManifest, Org!Goto, Org!desktopVars, Org!historyVars
  <1>7. ASSUME NEW w \in Writers, Org!Mirror(w) PROVE PolicyTypes'
    BY <1>7 DEF Org!Mirror, Org!MirrorsBody, Org!Goto, Org!desktopVars, Org!historyVars
  <1>8. ASSUME NEW w \in Writers, Org!Fails(w) PROVE PolicyTypes'
    BY <1>8 DEF Org!Fails, Org!Goto, Org!desktopVars, Org!historyVars
  <1>9. CASE Org!CheckManifest
    BY <1>9 DEF Org!CheckManifest, Org!serverVars, Org!historyVars
  <1>10. CASE Org!SnapshotVersion
    BY <1>10 DEF Org!SnapshotVersion, Org!ReadingsOfManifest, Org!serverVars, Org!historyVars
  <1>11. CASE Org!SnapshotPolicy
    BY <1>11 DEF Org!SnapshotPolicy, Org!ReadingsOfPolicy, Org!serverVars, Org!historyVars
  <1>12. CASE Org!Restart
    BY <1>12 DEF Org!Restart, Org!desktopVars, Org!historyVars
  <1>13. CASE Org!LayPolicy \/ Org!LayManifest
    <2>1. CASE Org!LayPolicy
      BY <2>1 DEF Org!LayPolicy, Org!desktopVars
    <2>2. CASE Org!LayManifest
      BY <2>2 DEF Org!LayManifest, Org!desktopVars
    <2>3. QED
      BY <1>13, <2>1, <2>2
  <1>14. CASE UNCHANGED Org!vars
    BY <1>14 DEF Org!vars, Org!historyVars
  <1>15. QED
    BY <1>1, <1>2, <1>3, <1>4, <1>5, <1>6, <1>7, <1>8, <1>9, <1>10, <1>11, <1>12, <1>13, <1>14
       DEF Org!Next

\* Every step keeps one write under way, until two overlap or one is cut
\* off.
LEMMA OneStays ==
  ASSUME Org!ConstantsOK, PolicyTypes, OneAtATime, PolicyTypes', [Org!Next]_(Org!vars)
  PROVE  OneAtATime'
  <1> USE DEF Org!ConstantsOK, PolicyTypes, Org!Policies, Org!WriteSteps, Org!UnderWay, Org!Quiet,
              OneAtATime, Org!PolicyMirrored, Org!PolicyIn
  <1>1. ASSUME NEW w \in Writers, Org!Arrive(w) PROVE OneAtATime'
    BY <1>1 DEF Org!Arrive, Org!Goto, Org!desktopVars, Org!historyVars
  <1>2. ASSUME NEW w \in Writers, Org!EmptyPolicy(w) PROVE OneAtATime'
    BY <1>2 DEF Org!EmptyPolicy, Org!Goto, Org!desktopVars, Org!historyVars
  <1>3. ASSUME NEW w \in Writers, Org!WritePolicy(w) PROVE OneAtATime'
    BY <1>3 DEF Org!WritePolicy, Org!Goto, Org!desktopVars, Org!historyVars
  <1>4. ASSUME NEW w \in Writers, Org!ReadManifest(w) PROVE OneAtATime'
    BY <1>4
       DEF Org!ReadManifest, Org!ReadingsOfManifest, Org!Bumped, Org!Goto, Org!desktopVars,
           Org!historyVars
  <1>5. ASSUME NEW w \in Writers, Org!EmptyManifest(w) PROVE OneAtATime'
    BY <1>5 DEF Org!EmptyManifest, Org!Goto, Org!desktopVars, Org!historyVars
  <1>6. ASSUME NEW w \in Writers, Org!WriteManifest(w) PROVE OneAtATime'
    BY <1>6 DEF Org!WriteManifest, Org!Goto, Org!desktopVars, Org!historyVars
  <1>7. ASSUME NEW w \in Writers, Org!Mirror(w) PROVE OneAtATime'
    BY <1>7 DEF Org!Mirror, Org!MirrorsBody, Org!Goto, Org!desktopVars, Org!historyVars
  <1>8. ASSUME NEW w \in Writers, Org!Fails(w) PROVE OneAtATime'
    BY <1>8 DEF Org!Fails, Org!Goto, Org!desktopVars, Org!historyVars
  <1>9. CASE Org!CheckManifest
    BY <1>9 DEF Org!CheckManifest, Org!serverVars, Org!historyVars
  <1>10. CASE Org!SnapshotVersion
    BY <1>10 DEF Org!SnapshotVersion, Org!ReadingsOfManifest, Org!serverVars, Org!historyVars
  <1>11. CASE Org!SnapshotPolicy
    BY <1>11 DEF Org!SnapshotPolicy, Org!ReadingsOfPolicy, Org!serverVars, Org!historyVars
  <1>12. CASE Org!Restart
    BY <1>12 DEF Org!Restart, Org!desktopVars, Org!historyVars
  <1>13. CASE Org!LayPolicy \/ Org!LayManifest
    BY <1>13 DEF Org!LayPolicy, Org!LayManifest, Org!desktopVars
  <1>14. CASE UNCHANGED Org!vars
    BY <1>14 DEF Org!vars, Org!historyVars
  <1>15. QED
    BY <1>1, <1>2, <1>3, <1>4, <1>5, <1>6, <1>7, <1>8, <1>9, <1>10, <1>11, <1>12, <1>13, <1>14
       DEF Org!Next

\* Every step keeps the versions in turn.
LEMMA TurnsStay ==
  ASSUME Org!ConstantsOK, PolicyTypes, VersionsTakeTurns, PolicyTypes', [Org!Next]_(Org!vars)
  PROVE  VersionsTakeTurns'
  <1> USE DEF Org!ConstantsOK, PolicyTypes, Org!Policies, Org!WriteSteps, Unnumbered,
              Org!UnderWay, VersionsTakeTurns, Org!VersionIn, Org!PolicyIn
  <1>1. ASSUME NEW w \in Writers, Org!Arrive(w) PROVE VersionsTakeTurns'
    BY <1>1 DEF Org!Arrive, Org!Goto, Org!desktopVars, Org!historyVars
  <1>2. ASSUME NEW w \in Writers, Org!EmptyPolicy(w) PROVE VersionsTakeTurns'
    BY <1>2 DEF Org!EmptyPolicy, Org!Goto, Org!desktopVars, Org!historyVars
  <1>3. ASSUME NEW w \in Writers, Org!WritePolicy(w) PROVE VersionsTakeTurns'
    BY <1>3 DEF Org!WritePolicy, Org!Goto, Org!desktopVars, Org!historyVars
  <1>4. ASSUME NEW w \in Writers, Org!ReadManifest(w) PROVE VersionsTakeTurns'
    <2>1. PICK seen \in Org!ReadingsOfManifest :
             /\ next' = [next EXCEPT ![w] = Org!Bumped(seen)]
             /\ unread' = (unread \/ seen # Org!VersionIn(manifest))
      BY <1>4 DEF Org!ReadManifest
    <2>2. CASE unread'
      BY <2>2
    <2>3. CASE ~unread'
      <3>1. next'[w] = Org!VersionIn(manifest) + 1 /\ ~unread
        BY <2>1, <2>3 DEF Org!Bumped
      <3>2. QED
        BY <1>4, <2>1, <3>1 DEF Org!ReadManifest, Org!Goto, Org!desktopVars
    <2>4. QED
      BY <2>2, <2>3
  <1>5. ASSUME NEW w \in Writers, Org!EmptyManifest(w) PROVE VersionsTakeTurns'
    BY <1>5 DEF Org!EmptyManifest, Org!Goto, Org!desktopVars, Org!historyVars
  <1>6. ASSUME NEW w \in Writers, Org!WriteManifest(w) PROVE VersionsTakeTurns'
    BY <1>6 DEF Org!WriteManifest, Org!Goto, Org!desktopVars, Org!historyVars
  <1>7. ASSUME NEW w \in Writers, Org!Mirror(w) PROVE VersionsTakeTurns'
    BY <1>7 DEF Org!Mirror, Org!MirrorsBody, Org!Goto, Org!desktopVars, Org!historyVars
  <1>8. ASSUME NEW w \in Writers, Org!Fails(w) PROVE VersionsTakeTurns'
    BY <1>8 DEF Org!Fails, Org!Goto, Org!desktopVars, Org!historyVars
  <1>9. CASE Org!CheckManifest
    BY <1>9 DEF Org!CheckManifest, Org!serverVars, Org!historyVars
  <1>10. CASE Org!SnapshotVersion
    BY <1>10 DEF Org!SnapshotVersion, Org!ReadingsOfManifest, Org!serverVars, Org!historyVars
  <1>11. CASE Org!SnapshotPolicy
    <2>1. PICK seen \in Org!ReadingsOfPolicy :
             /\ mirror' = [version |-> fetched, policy |-> seen]
             /\ blank' = (seen # Org!PolicyIn(policy))
      BY <1>11 DEF Org!SnapshotPolicy
    <2>2. mirror'.version = fetched /\ (blank' \/ mirror'.policy = Org!PolicyIn(policy))
      BY <2>1
    <2>3. UNCHANGED <<policy, manifest, wpc, next, fetched, raced, cut, unread, relaid>>
      BY <1>11 DEF Org!SnapshotPolicy, Org!serverVars, Org!historyVars
    <2>4. QED
      BY <2>2, <2>3
  <1>12. CASE Org!Restart
    BY <1>12 DEF Org!Restart, Org!desktopVars, Org!historyVars
  <1>13. CASE Org!LayPolicy \/ Org!LayManifest
    BY <1>13 DEF Org!LayPolicy, Org!LayManifest, Org!desktopVars
  <1>14. CASE UNCHANGED Org!vars
    BY <1>14 DEF Org!vars, Org!historyVars
  <1>15. QED
    BY <1>1, <1>2, <1>3, <1>4, <1>5, <1>6, <1>7, <1>8, <1>9, <1>10, <1>11, <1>12, <1>13, <1>14
       DEF Org!Next

\* More writes may have taken a version after a step than before it, never fewer.
LEMMA NumberedGrows ==
  ASSUME Org!ConstantsOK, PolicyTypes, PolicyTypes', Numbered \subseteq Numbered'
  PROVE  /\ Cardinality(Numbered) \in Nat /\ Cardinality(Numbered') \in Nat
         /\ Cardinality(Numbered) <= Cardinality(Numbered')
         /\ Cardinality(Numbered') <= Cardinality(Writers)
         /\ \A w \in Writers : w \in Numbered' \ Numbered =>
               Cardinality(Numbered) + 1 <= Cardinality(Numbered')
  <1>1. /\ IsFiniteSet(Writers) /\ Numbered' \subseteq Writers
        /\ IsFiniteSet(Numbered) /\ IsFiniteSet(Numbered')
    BY FS_Subset, OrgFinite DEF Org!ConstantsOK, Numbered
  <1>2. ASSUME NEW w \in Writers, w \in Numbered' \ Numbered
        PROVE  Cardinality(Numbered) + 1 <= Cardinality(Numbered')
    <2>1. IsFiniteSet(Numbered \cup {w})
             /\ Cardinality(Numbered \cup {w}) = Cardinality(Numbered) + 1
      BY <1>1, <1>2, FS_AddElement
    <2>2. Numbered \cup {w} \subseteq Numbered'
      BY <1>2
    <2>3. QED
      BY <1>1, <2>1, <2>2, FS_Subset
  <1>3. QED
    BY <1>1, <1>2, FS_Subset, FS_CardinalityType

\* Every step keeps the versions counted: who takes one is numbered from
\* then on.
LEMMA VersionsStayCounted ==
  ASSUME Org!ConstantsOK, PolicyTypes, PolicyTypes', VersionsCounted, [Org!Next]_(Org!vars)
  PROVE  VersionsCounted'
  <1>1. Numbered \subseteq Numbered'
    <2>1. ASSUME NEW w \in Numbered PROVE w \in Numbered'
      BY <2>1
         DEF PolicyTypes, Numbered, Org!Next, Org!vars, Org!Arrive, Org!EmptyPolicy,
             Org!WritePolicy, Org!ReadManifest, Org!EmptyManifest, Org!WriteManifest,
             Org!Mirror, Org!Fails, Org!Restart, Org!LayPolicy, Org!LayManifest,
             Org!CheckManifest, Org!SnapshotVersion, Org!SnapshotPolicy, Org!serverVars,
             Org!Goto, Org!UnderWay
    <2>2. QED
      BY <2>1
  <1>2. /\ Cardinality(Numbered) \in Nat /\ Cardinality(Numbered') \in Nat
        /\ Cardinality(Numbered) <= Cardinality(Numbered')
    BY <1>1, NumberedGrows
  <1>3. ASSUME NEW w \in Writers, Org!ReadManifest(w) PROVE VersionsCounted'
    <2>1. w \in Numbered' \ Numbered
      BY <1>3 DEF Org!ReadManifest, Org!Goto, Numbered, PolicyTypes
    <2>2. Cardinality(Numbered) + 1 <= Cardinality(Numbered')
      BY <1>1, <2>1, NumberedGrows
    <2>3. QED
      BY <1>2, <1>3, <2>2
         DEF Org!ReadManifest, Org!ReadingsOfManifest, Org!Bumped, Org!desktopVars,
             Org!historyVars, Org!VersionIn, VersionsCounted, PolicyTypes
  <1>4. ASSUME NEW w \in Writers, Org!WriteManifest(w) PROVE VersionsCounted'
    BY <1>2, <1>4
       DEF Org!WriteManifest, Org!desktopVars, Org!historyVars, Org!VersionIn, VersionsCounted,
           PolicyTypes
  <1>5. ASSUME NEW w \in Writers, Org!EmptyManifest(w) PROVE VersionsCounted'
    BY <1>2, <1>5
       DEF Org!EmptyManifest, Org!desktopVars, Org!historyVars, Org!VersionIn, VersionsCounted,
           PolicyTypes
  <1>6. CASE Org!SnapshotVersion
    BY <1>2, <1>6
       DEF Org!SnapshotVersion, Org!ReadingsOfManifest, Org!serverVars, Org!VersionIn,
           VersionsCounted, PolicyTypes
  <1>7. CASE Org!SnapshotPolicy
    BY <1>2, <1>7
       DEF Org!SnapshotPolicy, Org!serverVars, Org!VersionIn, VersionsCounted, PolicyTypes
  <1>8. CASE UNCHANGED <<manifest, next, fetched, mirror>>
    BY <1>2, <1>8 DEF Org!VersionIn, VersionsCounted, PolicyTypes
  <1>9. CASE Org!LayManifest
    BY <1>2, <1>9
       DEF Org!LayManifest, Org!desktopVars, Org!VersionIn, VersionsCounted, PolicyTypes
  <1>10. QED
    BY <1>3, <1>4, <1>5, <1>6, <1>7, <1>8, <1>9
       DEF Org!Next, Org!vars, Org!desktopVars, Org!historyVars, Org!Arrive, Org!EmptyPolicy,
           Org!WritePolicy, Org!Mirror, Org!Fails, Org!Restart, Org!LayPolicy,
           Org!CheckManifest, Org!serverVars

\* The initial states satisfy the invariant.
LEMMA OrgInit == ASSUME Org!ConstantsOK, Org!Init PROVE OrgInv
  <1> USE DEF Org!ConstantsOK, Org!Init, Org!PolicyIn, Org!VersionIn
  <1>1. PolicyTypes
    BY DEF PolicyTypes, Org!Policies, Org!WriteSteps, Org!SyncSteps
  <1>2. VersionsCounted
    <2>1. IsFiniteSet(Numbered)
      BY FS_Subset, OrgFinite DEF Numbered
    <2>2. QED
      BY <2>1, FS_CardinalityType DEF VersionsCounted
  <1>3. OneAtATime
    BY DEF OneAtATime, Org!UnderWay, Org!PolicyMirrored
  <1>4. VersionsTakeTurns
    BY DEF VersionsTakeTurns
  <1>5. QED
    BY <1>1, <1>2, <1>3, <1>4 DEF OrgInv

\* It holds in every reachable state.
LEMMA OrgAlways == Org!Spec => []OrgInv
  <1>1. Org!ConstantsOK
    BY CompanyStoresAssumption
  <1>2. Org!Init => OrgInv
    BY <1>1, OrgInit
  <1>3. OrgInv /\ [Org!Next]_(Org!vars) => OrgInv'
    BY <1>1, PolicyTypesKept, VersionsStayCounted, OneStays, TurnsStay DEF OrgInv
  <1>4. QED
    BY <1>2, <1>3, PTL DEF Org!Spec

\* The files and the desktop keep their types: a version is never more than the
\* number of writes.
THEOREM OrgTypeCorrect == Org!Spec => []Org!TypeOK
  <1>1. OrgInv => Org!TypeOK
    <2>1. ASSUME PolicyTypes, VersionsCounted PROVE Org!TypeOK
      <3>1. /\ Cardinality(Numbered) \in Nat /\ Cardinality(Writers) \in Nat
            /\ Cardinality(Numbered) <= Cardinality(Writers)
        BY CompanyStoresAssumption, FS_Subset, FS_CardinalityType, OrgFinite
           DEF Org!ConstantsOK, Numbered
      <3>2. \A v \in Nat : v <= Cardinality(Numbered) => v \in Org!Versions
        BY <3>1, OrgFinite DEF Org!Versions
      <3>3. QED
        BY <2>1, <3>2 DEF PolicyTypes, VersionsCounted, Org!VersionIn, Org!TypeOK
    <2>2. QED
      BY <2>1 DEF OrgInv
  <1>2. QED
    BY <1>1, OrgAlways, PTL

\* The runtime policy, which actions are checked against, is that of policy.json
\* once no write is under way, unless two have overlapped, one was cut off, or the
\* layout has replaced a file.
THEOREM MirrorFollows == Org!Spec => []PolicyMirroredUnlessCrossed
  <1>1. OrgInv => PolicyMirroredUnlessCrossed
    BY DEF OrgInv, OneAtATime, PolicyMirroredUnlessCrossed, Org!PolicyMirroredUnlessCrossed
  <1>2. QED
    BY <1>1, OrgAlways, PTL

\* A desktop that has the version of manifest.json has its policy, once no write is
\* under way, unless a version was read while another was being stored or was not
\* read, a write was cut off, the layout has replaced a file, or the copy was made
\* without reading the policy.
THEOREM VersionsTell == Org!Spec => []SameVersionSamePolicy
  <1>1. OrgInv => SameVersionSamePolicy
    BY DEF OrgInv, VersionsTakeTurns, Unnumbered, SameVersionSamePolicy,
           Org!SameVersionSamePolicy, Org!Quiet, Org!UnderWay
  <1>2. QED
    BY <1>1, OrgAlways, PTL

-------------------------------------------------------------------------------
(* IsolateCache                                                            *)

\* What is in the slot has not been evicted, and a caller has been told of a
\* failure only by an entry that has.
FailuresEvicted ==
    /\ slot # 0 => state[slot] # "evicted"
    /\ \A c \in Callers : \A e \in failed[c] : state[e] = "evicted"

\* The inductive invariant.
CacheInv == Isolate!TypeOK /\ FailuresEvicted /\ Isolate!RetriesAfresh

\* The initial states satisfy it.
LEMMA CacheInit == ASSUME Isolate!ConstantsOK, Isolate!Init PROVE CacheInv
  BY DEF Isolate!ConstantsOK, Isolate!Init, CacheInv, Isolate!TypeOK, FailuresEvicted,
         Isolate!RetriesAfresh, Isolate!Entries, Isolate!States

\* Every step keeps it.
LEMMA CacheStep ==
  ASSUME Isolate!ConstantsOK, CacheInv, [Isolate!Next]_(Isolate!vars)
  PROVE  CacheInv'
  <1> USE DEF Isolate!ConstantsOK, CacheInv, Isolate!TypeOK, FailuresEvicted,
              Isolate!RetriesAfresh, Isolate!Entries, Isolate!States
  <1>1. ASSUME NEW c \in Callers, NEW k \in Keys, Isolate!Join(c, k) PROVE CacheInv'
    BY <1>1 DEF Isolate!Join, Isolate!Hit
  <1>2. ASSUME NEW c \in Callers, NEW k \in Keys, Isolate!Boot(c, k) PROVE CacheInv'
    <2>1. Isolate!TypeOK'
      BY <1>2 DEF Isolate!Boot
    <2>2. FailuresEvicted'
      BY <1>2 DEF Isolate!Boot
    <2>3. Isolate!RetriesAfresh'
      BY <1>2 DEF Isolate!Boot
    <2>4. QED
      BY <2>1, <2>2, <2>3
  <1>3. ASSUME NEW e \in Isolate!Entries, Isolate!Settle(e) PROVE CacheInv'
    BY <1>3 DEF Isolate!Settle
  <1>4. ASSUME NEW e \in Isolate!Entries, Isolate!Evict(e) PROVE CacheInv'
    BY <1>4 DEF Isolate!Evict, Isolate!OwnsSlot
  <1>5. ASSUME NEW c \in Callers, Isolate!Answer(c) PROVE CacheInv'
    <2>1. Isolate!TypeOK'
      BY <1>5 DEF Isolate!Answer, Isolate!Answered
    <2>2. FailuresEvicted'
      BY <1>5 DEF Isolate!Answer, Isolate!Answered
    <2>3. Isolate!RetriesAfresh'
      BY <1>5 DEF Isolate!Answer, Isolate!Answered
    <2>4. QED
      BY <2>1, <2>2, <2>3
  <1>6. CASE UNCHANGED Isolate!vars
    BY <1>6 DEF Isolate!vars
  <1>7. QED
    BY <1>1, <1>2, <1>3, <1>4, <1>5, <1>6 DEF Isolate!Next

\* It holds in every reachable state.
LEMMA CacheAlways == Isolate!Spec => []CacheInv
  <1>1. Isolate!ConstantsOK
    BY CompanyStoresAssumption
  <1>2. Isolate!Init => CacheInv
    BY <1>1, CacheInit
  <1>3. CacheInv /\ [Isolate!Next]_(Isolate!vars) => CacheInv'
    BY <1>1, CacheStep
  <1>4. QED
    BY <1>2, <1>3, PTL DEF Isolate!Spec

\* The slot, the entries and the callers keep their types.
THEOREM CacheTypeCorrect == Isolate!Spec => []Isolate!TypeOK
  <1>1. CacheInv => Isolate!TypeOK
    BY DEF CacheInv
  <1>2. QED
    BY <1>1, CacheAlways, PTL

\* A caller that was told of a failed boot does not wait for that boot again.
THEOREM FailuresForgotten == Isolate!Spec => []RetriesAfresh
  <1>1. CacheInv => RetriesAfresh
    BY DEF CacheInv, RetriesAfresh
  <1>2. QED
    BY <1>1, CacheAlways, PTL

\* The slot loses its entry only to a boot for another key, or because the entry's
\* own promise was rejected: a late failure leaves a newer entry alone.
THEOREM NewerKept == Isolate!Spec => NewerEntrySurvives
  <1> DEFINE Kept == slot # 0 /\ slot' # slot =>
                       IF slot' = 0 THEN state[slot] = "rejected" ELSE key'[slot'] # key[slot]
  <1>1. ASSUME CacheInv, [Isolate!Next]_(Isolate!vars) PROVE [Kept]_(Isolate!vars)
    <2> USE <1>1 DEF CacheInv, Isolate!TypeOK, Isolate!Entries
    <2>1. ASSUME NEW c \in Callers, NEW k \in Keys, Isolate!Boot(c, k) PROVE Kept
      BY <2>1, CompanyStoresAssumption DEF Isolate!Boot, Isolate!Hit, Isolate!ConstantsOK
    <2>2. ASSUME NEW e \in Isolate!Entries, Isolate!Evict(e) PROVE Kept
      BY <2>2 DEF Isolate!Evict, Isolate!OwnsSlot
    <2>3. CASE UNCHANGED slot
      BY <2>3
    <2>4. QED
      BY <2>1, <2>2, <2>3
         DEF Isolate!Next, Isolate!Join, Isolate!Settle, Isolate!Answer, Isolate!vars
  <1>2. QED
    BY <1>1, CacheAlways, PTL
       DEF Isolate!Spec, NewerEntrySurvives, Isolate!NewerEntrySurvives

-------------------------------------------------------------------------------
(* TransitFiles                                                            *)

\* Somebody has asked for the file to be deleted.
Deleted(u) == \E d \in Deletes : deletion[d] = u

\* A file has the content's age, and it is there, with its name, from the
\* moment the upload is answered until it is old or somebody deletes it.
UploadKept(u) ==
    /\ upload[u] \in {"new", "sweeping", "opening", "writing"} => born[u] = None
    /\ upload[u] \in {"written", "renamed", "answered"} => born[u] # None
    /\ born[u] # None => born[u] <= clock
    /\ disk[<<"tmp", u>>] # None => disk[<<"tmp", u>>] <= clock
    /\ upload[u] = "written" /\ disk[<<"tmp", u>>] # None => disk[<<"tmp", u>>] = born[u]
    /\ disk[<<"file", u>>] # None
         => /\ upload[u] \in {"renamed", "answered", "failed"}
            /\ born[u] # None /\ disk[<<"file", u>>] = born[u]
    /\ disk[<<"meta", u>>] # None
         => /\ born[u] # None /\ born[u] <= disk[<<"meta", u>>] /\ disk[<<"meta", u>>] <= clock
    /\ upload[u] \in {"renamed", "answered"} /\ disk[<<"file", u>>] = None
         => Transit!Aged(u) \/ (upload[u] = "answered" /\ Deleted(u))
    /\ upload[u] = "answered" /\ disk[<<"meta", u>>] = None
         => Transit!Aged(u) \/ disk[<<"file", u>>] = None

\* The upload will not write any more to what it has renamed.
UploadOver(u) == upload[u] \in {"renamed", "answered", "failed"}
OldOnly(u) == born[u] # None /\ Transit!Aged(u)

\* What a sweep has found too old is so.
EntryKept(s, n) ==
    /\ n[1] = "file" /\ todo[s][n] # "unseen" => UploadOver(n[2])
    /\ n[1] \in {"file", "meta"} /\ todo[s][n] \in {"old", "unlinked"} => OldOnly(n[2])
    /\ todo[s][n] = "unlinked" => n[1] = "file" /\ disk[n] = None
    /\ todo[s][n] = "done" /\ disk[n] # None => disk[n] >= cutoff[s]
    /\ todo[s][n] = "unseen" /\ disk[n] # None /\ disk[n] < cutoff[s]
         => n[1] = "file" /\ todo[s][<<"tmp", n[2]>>] # "unseen"

\* What a sweep calls too old was so when it began, and each file is where
\* the sweep's steps leave it.
SweepKept(s) ==
    /\ cutoff[s] = 0 \/ cutoff[s] + TTL <= clock
    /\ \A n \in Transit!Files : EntryKept(s, n)

\* A read that has not found the file, or not its name, has asked too late
\* or met a deletion.
ReadKept(r) ==
    rpc[r] # "new" =>
       /\ read[r] \in Uploads
       /\ rpc[r] # "cut" => upload[read[r]] = "answered"
       /\ rpc[r] = "expired" => Transit!Aged(read[r])
       /\ rpc[r] \in {"missing", "broken"} => Transit!Aged(read[r]) \/ Deleted(read[r])
       /\ rpc[r] = "named" /\ name[r] = "fallback"
            => Transit!Aged(read[r]) \/ disk[<<"file", read[r]>>] = None
       /\ rpc[r] = "nameless" => Transit!Aged(read[r])

\* A deletion is of an upload that was answered, and its first unlink has
\* worked.
DeleteKept(d) ==
    /\ dpc[d] = "new" => deletion[d] = None
    /\ dpc[d] # "new" => deletion[d] \in Uploads /\ upload[deletion[d]] = "answered"
    /\ dpc[d] = "second" => disk[<<"file", deletion[d]>>] = None

\* The inductive invariant.
FilesInv ==
    /\ Transit!TypeOK
    /\ \A u \in Uploads : UploadKept(u)
    /\ \A s \in Transit!Sweeps : SweepKept(s)
    /\ \A r \in Reads : ReadKept(r)
    /\ \A d \in Deletes : DeleteKept(d)
-------------------------------------------------------------------------------
\* What the proofs need of the constants.
FileSettings == TTL \in Nat /\ MaxTime \in Nat /\ None \notin Nat /\ Uploads \subseteq Nat \ {0}

\* The constants give it.
LEMMA FilesGiven == Transit!ConstantsOK => FileSettings
  BY DEF Transit!ConstantsOK, FileSettings

\* Every step keeps the types.
LEMMA FileTypesKept ==
  ASSUME FileSettings, Transit!TypeOK, \A r \in Reads : ReadKept(r), [Transit!Next]_(Transit!vars)
  PROVE  Transit!TypeOK'
  <1> USE DEF FileSettings
  <1>1. /\ Transit!Times \subseteq Nat /\ 0 \in Transit!Times /\ Transit!Boot \in Transit!Sweeps
              /\ Uploads \subseteq Transit!Sweeps
        /\ Transit!Cutoff \in Transit!Times
        /\ Transit!Listing \in [Transit!Files -> {"unseen", "listed", "old", "unlinked", "done"}]
        /\ [n \in Transit!Files |-> "unseen"]
              \in [Transit!Files -> {"unseen", "listed", "old", "unlinked", "done"}]
    BY DEF Transit!Times, Transit!Boot, Transit!Sweeps, Transit!Cutoff, Transit!Listing,
           Transit!TypeOK
  <1>2. CASE Transit!Tick
    BY <1>1, <1>2
       DEF Transit!Tick, Transit!TypeOK, Transit!Times, Transit!uploadVars, Transit!sweepVars,
           Transit!readVars, Transit!deleteVars
  <1>3. CASE Transit!Restart
    <2>1. clock' = clock /\ disk' = disk /\ born' = born /\ read' = read /\ name' = name
             /\ deletion' = deletion
      BY <1>3 DEF Transit!Restart
    <2>2. upload' \in [Uploads -> Transit!UploadSteps]
      BY <1>3 DEF Transit!Restart, Transit!TypeOK, Transit!UploadSteps
    <2>3. rpc' \in [Reads -> {"new", "expired", "found", "named"} \cup Transit!Ended]
      BY <1>3 DEF Transit!Restart, Transit!TypeOK, Transit!Ended
    <2>4. dpc' \in [Deletes -> {"new", "first", "second", "done"}]
      BY <1>3 DEF Transit!Restart, Transit!TypeOK
    <2>5. cutoff' \in [Transit!Sweeps -> Transit!Times]
      BY <1>1, <1>3 DEF Transit!Restart, Transit!TypeOK
    <2>6. todo' \in [Transit!Sweeps ->
                          [Transit!Files -> {"unseen", "listed", "old", "unlinked", "done"}]]
      BY <1>1, <1>3 DEF Transit!Restart, Transit!TypeOK
    <2>7. QED
      BY <2>1, <2>2, <2>3, <2>4, <2>5, <2>6 DEF Transit!TypeOK
  <1>4. ASSUME NEW s \in Transit!Sweeps, NEW n \in Transit!Files,
               Transit!Stat(s, n) \/ Transit!UnlinkOld(s, n) \/ Transit!UnlinkMetaOfOld(s, n)
        PROVE  Transit!TypeOK'
    <2>1. PICK step \in {"unseen", "listed", "old", "unlinked", "done"} : Transit!Treat(s, n, step)
      BY <1>4 DEF Transit!Stat, Transit!UnlinkOld, Transit!UnlinkMetaOfOld
    <2>2. todo' \in [Transit!Sweeps ->
                          [Transit!Files -> {"unseen", "listed", "old", "unlinked", "done"}]]
      BY <2>1 DEF Transit!Treat, Transit!TypeOK
    <2>3. disk' \in [Transit!Files -> Transit!Times \cup {None}]
      BY <1>4
         DEF Transit!Stat, Transit!UnlinkOld, Transit!UnlinkMetaOfOld, Transit!Unlinked,
             Transit!TypeOK
    <2>4. UNCHANGED <<clock, Transit!uploadVars, cutoff, Transit!readVars, Transit!deleteVars>>
      BY <1>4 DEF Transit!Stat, Transit!UnlinkOld, Transit!UnlinkMetaOfOld
    <2>5. QED
      BY <2>2, <2>3, <2>4
         DEF Transit!TypeOK, Transit!uploadVars, Transit!readVars, Transit!deleteVars
  <1>5. CASE Transit!EndBoot
    BY <1>1, <1>5
       DEF Transit!EndBoot, Transit!ForgetSweep, Transit!TypeOK, Transit!uploadVars,
           Transit!readVars, Transit!deleteVars
  <1>6. ASSUME NEW u \in Uploads, Transit!StartUpload(u) \/ Transit!EndSweep(u)
        PROVE  Transit!TypeOK'
    <2>1. upload' \in [Uploads -> Transit!UploadSteps]
      BY <1>6
         DEF Transit!StartUpload, Transit!EndSweep, Transit!Goto, Transit!TypeOK,
             Transit!UploadSteps
    <2>2. cutoff' \in [Transit!Sweeps -> Transit!Times]
      BY <1>1, <1>6
         DEF Transit!StartUpload, Transit!EndSweep, Transit!ForgetSweep, Transit!TypeOK
    <2>3. todo' \in [Transit!Sweeps ->
                          [Transit!Files -> {"unseen", "listed", "old", "unlinked", "done"}]]
      BY <1>1, <1>6
         DEF Transit!StartUpload, Transit!EndSweep, Transit!ForgetSweep, Transit!TypeOK
    <2>4. UNCHANGED <<clock, disk, born, Transit!readVars, Transit!deleteVars>>
      BY <1>6 DEF Transit!StartUpload, Transit!EndSweep
    <2>5. QED
      BY <2>1, <2>2, <2>3, <2>4 DEF Transit!TypeOK, Transit!readVars, Transit!deleteVars
  <1>7. ASSUME NEW u \in Uploads,
               Transit!Open(u) \/ Transit!Write(u) \/ Transit!Abort(u) \/ Transit!Rename(u)
                  \/ Transit!WriteMeta(u)
        PROVE  Transit!TypeOK'
    <2>1. upload' \in [Uploads -> Transit!UploadSteps]
      BY <1>7
         DEF Transit!Open, Transit!Write, Transit!Abort, Transit!Rename, Transit!WriteMeta,
             Transit!Goto, Transit!TypeOK, Transit!UploadSteps
    <2>2. disk' \in [Transit!Files -> Transit!Times \cup {None}]
      <3>1. CASE Transit!Open(u) \/ Transit!Write(u) \/ Transit!Abort(u) \/ Transit!WriteMeta(u)
        BY <3>1
           DEF Transit!Open, Transit!Write, Transit!Abort, Transit!WriteMeta, Transit!Unlinked,
               Transit!TypeOK
      <3>2. CASE Transit!Rename(u)
        <4>1. <<"tmp", u>> \in Transit!Files
          BY DEF Transit!Files
        <4>2. QED
          BY <3>2, <4>1 DEF Transit!Rename, Transit!TypeOK
      <3>3. QED
        BY <1>7, <3>1, <3>2
    <2>3. born' \in [Uploads -> Transit!Times \cup {None}]
      BY <1>7
         DEF Transit!Open, Transit!Write, Transit!Abort, Transit!Rename, Transit!WriteMeta,
             Transit!TypeOK
    <2>4. UNCHANGED <<clock, Transit!sweepVars, Transit!readVars, Transit!deleteVars>>
      BY <1>7 DEF Transit!Open, Transit!Write, Transit!Abort, Transit!Rename, Transit!WriteMeta
    <2>5. QED
      BY <2>1, <2>2, <2>3, <2>4
         DEF Transit!TypeOK, Transit!sweepVars, Transit!readVars, Transit!deleteVars
  <1>8. ASSUME NEW r \in Reads, NEW u \in Uploads, Transit!StatRead(r, u)
        PROVE  Transit!TypeOK'
    BY <1>8
       DEF Transit!StatRead, Transit!Enter, Transit!Ended, Transit!TypeOK, Transit!uploadVars,
           Transit!sweepVars, Transit!deleteVars
  <1>9. ASSUME NEW r \in Reads,
               Transit!UnlinkExpired(r) \/ Transit!ReadMeta(r) \/ Transit!OpenRead(r)
        PROVE  Transit!TypeOK'
    BY <1>9
       DEF Transit!UnlinkExpired, Transit!ReadMeta, Transit!OpenRead, Transit!Enter,
           Transit!Unlinked, Transit!Ended, Transit!TypeOK, Transit!uploadVars,
           Transit!sweepVars, Transit!deleteVars
  <1>10. ASSUME NEW d \in Deletes, NEW u \in Uploads, Transit!StartDelete(d, u)
        PROVE  Transit!TypeOK'
    BY <1>10
       DEF Transit!StartDelete, Transit!TypeOK, Transit!uploadVars, Transit!sweepVars,
           Transit!readVars
  <1>11. ASSUME NEW d \in Deletes, Transit!UnlinkFirst(d) \/ Transit!UnlinkSecond(d)
        PROVE  Transit!TypeOK'
    BY <1>11
       DEF Transit!UnlinkFirst, Transit!UnlinkSecond, Transit!Unlinked, Transit!TypeOK,
           Transit!uploadVars, Transit!sweepVars, Transit!readVars
  <1>12. CASE UNCHANGED Transit!vars
    BY <1>12 DEF Transit!vars, Transit!TypeOK
  <1>13. QED
    BY <1>2, <1>3, <1>4, <1>5, <1>6, <1>7, <1>8, <1>9, <1>10, <1>11, <1>12 DEF Transit!Next

\* A step that leaves the upload and its history alone.
SteadyUpload(u) ==
    /\ upload'[u] = upload[u] /\ born'[u] = born[u] /\ clock' = clock
    /\ deletion' = deletion

\* What the files are.
LEMMA FileNames ==
  /\ \A u \in Uploads : <<"tmp", u>> \in Transit!Files /\ <<"file", u>> \in Transit!Files
        /\ <<"meta", u>> \in Transit!Files
  /\ \A n \in Transit!Files : n = <<n[1], n[2]>> /\ n[1] \in {"tmp", "file", "meta"}
        /\ n[2] \in Uploads
  BY DEF Transit!Files

\* A deletion stays asked for.
LEMMA DeletedStays ==
  ASSUME FileSettings, Transit!TypeOK, \A d \in Deletes : DeleteKept(d),
         [Transit!Next]_(Transit!vars),
         NEW u \in Uploads, Deleted(u)
  PROVE  Deleted(u)'
  <1>1. ASSUME NEW d \in Deletes, deletion[d] = u PROVE deletion'[d] = u
    <2>1. CASE deletion' = deletion
      BY <1>1, <2>1
    <2>2. ASSUME NEW e \in Deletes, NEW v \in Uploads, Transit!StartDelete(e, v)
          PROVE  deletion'[d] = u
      <3>1. dpc[e] = "new" /\ deletion' = [deletion EXCEPT ![e] = v]
        BY <2>2 DEF Transit!StartDelete
      <3>2. d # e
        BY <1>1, <3>1 DEF DeleteKept, FileSettings
      <3>3. QED
        BY <1>1, <3>1, <3>2 DEF Transit!TypeOK
    <2>3. QED
      BY <2>1, <2>2
         DEF Transit!Next, Transit!vars, Transit!Tick, Transit!Restart, Transit!Stat,
             Transit!UnlinkOld, Transit!UnlinkMetaOfOld, Transit!EndBoot, Transit!StartUpload,
             Transit!EndSweep, Transit!Open, Transit!Write, Transit!Abort, Transit!Rename,
             Transit!WriteMeta, Transit!StatRead, Transit!UnlinkExpired, Transit!ReadMeta,
             Transit!OpenRead, Transit!UnlinkFirst, Transit!UnlinkSecond, Transit!deleteVars
  <1>2. QED
    BY <1>1 DEF Deleted

\* Every step keeps what is known of an upload and its files.
LEMMA UploadsKept ==
  ASSUME FileSettings, Transit!TypeOK, Transit!TypeOK', \A u \in Uploads : UploadKept(u),
         \A s \in Transit!Sweeps : SweepKept(s),
         \A r \in Reads : ReadKept(r), \A d \in Deletes :
            DeleteKept(d), [Transit!Next]_(Transit!vars),
         NEW u \in Uploads
  PROVE  UploadKept(u)'
  <1> USE DEF FileSettings
  <1>1. /\ UploadKept(u)
        /\ Deleted(u) => Deleted(u)'
        /\ clock \in Nat /\ clock' \in Nat
        /\ \A n \in Transit!Files : disk[n] \in Nat \cup {None} /\ disk'[n] \in Nat \cup {None}
        /\ born[u] \in Nat \cup {None} /\ born'[u] \in Nat \cup {None}
    BY DeletedStays DEF Transit!TypeOK, Transit!Times
  <1> DEFINE tmp == <<"tmp", u>>
             fil == <<"file", u>>
             met == <<"meta", u>>
  <1>e. tmp \in Transit!Files /\ fil \in Transit!Files /\ met \in Transit!Files /\ tmp # fil
     /\ tmp # met /\ fil # met
    BY DEF Transit!Files
  <1>2. CASE Transit!Tick
    BY <1>1, <1>2, <1>e
       DEF Transit!Tick, UploadKept, Transit!Aged, Transit!uploadVars, Transit!deleteVars,
           Deleted
  <1>3. CASE Transit!Restart
    <2>1. clock' = clock /\ disk' = disk /\ born' = born /\ deletion' = deletion
          /\ upload'[u] = IF upload[u] \in {"new", "answered"} THEN upload[u] ELSE "failed"
      BY <1>3 DEF Transit!Restart
    <2>2. QED
      BY <1>1, <2>1 DEF UploadKept, Transit!Aged, Deleted
  <1>4. ASSUME \/ disk' = disk
               \/ \E n \in Transit!Files : /\ disk' = [disk EXCEPT ![n] = None]
                                           /\ n = fil => Transit!Aged(u)
                                                 \/ (upload[u] = "answered" /\ Deleted(u))
                                           /\ n = met => Transit!Aged(u) \/ disk[fil] = None,
               upload' = upload, born' = born, clock' = clock
        PROVE  UploadKept(u)'
    <2>1. CASE disk' = disk
      BY <1>1, <1>4, <2>1 DEF UploadKept, Transit!Aged
    <2>2. ASSUME NEW n \in Transit!Files, disk' = [disk EXCEPT ![n] = None],
                 n = fil => Transit!Aged(u) \/ (upload[u] = "answered" /\ Deleted(u)),
                 n = met => Transit!Aged(u) \/ disk[fil] = None
          PROVE  UploadKept(u)'
      <3>1. \A m \in Transit!Files : disk'[m] = IF m = n THEN None ELSE disk[m]
        BY <2>2 DEF Transit!TypeOK
      <3>2. Transit!Aged(u)' = Transit!Aged(u)
        BY <1>4 DEF Transit!Aged
      <3>3. QED
        BY <1>1, <1>4, <1>e, <2>2, <3>1, <3>2 DEF UploadKept
    <2>3. QED
      BY <1>4, <2>1, <2>2
  <1>5. ASSUME NEW s \in Transit!Sweeps, NEW n \in Transit!Files,
               Transit!Stat(s, n) \/ Transit!UnlinkOld(s, n) \/ Transit!UnlinkMetaOfOld(s, n)
        PROVE  UploadKept(u)'
    <2>1. upload' = upload /\ born' = born /\ clock' = clock
      BY <1>5 DEF Transit!Stat, Transit!UnlinkOld, Transit!UnlinkMetaOfOld, Transit!uploadVars
    <2>2. CASE Transit!Stat(s, n)
      BY <1>4, <2>1, <2>2 DEF Transit!Stat
    <2>3. CASE Transit!UnlinkOld(s, n)
      <3>1. n[1] \in {"file", "meta"} => Transit!Aged(n[2])
        BY <2>3 DEF Transit!UnlinkOld, SweepKept, EntryKept, OldOnly
      <3>2. n = fil \/ n = met => Transit!Aged(u)
        BY <3>1
      <3>3. QED
        BY <1>4, <2>1, <2>3, <3>2 DEF Transit!UnlinkOld, Transit!Unlinked
    <2>4. CASE Transit!UnlinkMetaOfOld(s, n)
      <3>1. Transit!Aged(n[2])
        BY <2>4 DEF Transit!UnlinkMetaOfOld, SweepKept, EntryKept, OldOnly
      <3>2. <<"meta", n[2]>> \in Transit!Files /\ <<"meta", n[2]>> # fil
               /\ (<<"meta", n[2]>> = met => Transit!Aged(u))
        BY <3>1 DEF Transit!Files
      <3>3. disk' = [disk EXCEPT ![<<"meta", n[2]>>] = None]
        BY <2>4 DEF Transit!UnlinkMetaOfOld, Transit!Unlinked
      <3>4. QED
        BY <1>4, <2>1, <3>2, <3>3
    <2>5. QED
      BY <1>5, <2>2, <2>3, <2>4
  <1>6. ASSUME NEW r \in Reads, Transit!UnlinkExpired(r) PROVE UploadKept(u)'
    <2> DEFINE n == <<"file", read[r]>>
    <2>1. read[r] \in Uploads /\ Transit!Aged(read[r])
      BY <1>6 DEF Transit!UnlinkExpired, ReadKept
    <2>2. n \in Transit!Files /\ n # met /\ (n = fil => Transit!Aged(u))
      BY <2>1 DEF Transit!Files
    <2>3. disk' = [disk EXCEPT ![n] = None] /\ upload' = upload /\ born' = born /\ clock' = clock
      BY <1>6 DEF Transit!UnlinkExpired, Transit!Unlinked, Transit!uploadVars
    <2> HIDE DEF n
    <2>4. QED
      BY <1>4, <2>2, <2>3
  <1>7. ASSUME NEW d \in Deletes, Transit!UnlinkFirst(d) PROVE UploadKept(u)'
    <2> DEFINE n == <<"file", deletion[d]>>
    <2>1. deletion[d] \in Uploads /\ upload[deletion[d]] = "answered"
      BY <1>7 DEF Transit!UnlinkFirst, DeleteKept
    <2>2. n \in Transit!Files /\ n # met /\ (n = fil => upload[u] = "answered" /\ Deleted(u))
      BY <2>1 DEF Transit!Files, Deleted
    <2>3. disk' = [disk EXCEPT ![n] = None] /\ upload' = upload /\ born' = born /\ clock' = clock
      BY <1>7 DEF Transit!UnlinkFirst, Transit!DeleteOrder, Transit!Unlinked, Transit!uploadVars
    <2> HIDE DEF n
    <2>4. QED
      BY <1>4, <2>2, <2>3
  <1>8. ASSUME NEW d \in Deletes, Transit!UnlinkSecond(d) PROVE UploadKept(u)'
    <2> DEFINE n == <<"meta", deletion[d]>>
    <2>1. deletion[d] \in Uploads /\ disk[<<"file", deletion[d]>>] = None
      BY <1>8 DEF Transit!UnlinkSecond, DeleteKept
    <2>2. n \in Transit!Files /\ n # fil /\ (n = met => disk[fil] = None)
      BY <2>1 DEF Transit!Files
    <2>3. disk' = [disk EXCEPT ![n] = None] /\ upload' = upload /\ born' = born /\ clock' = clock
      BY <1>8
         DEF Transit!UnlinkSecond, Transit!DeleteOrder, Transit!Unlinked, Transit!uploadVars
    <2> HIDE DEF n
    <2>4. QED
      BY <1>4, <2>2, <2>3
  <1>9. CASE \/ Transit!EndBoot \/ UNCHANGED Transit!vars
             \/ \E r \in Reads : Transit!ReadMeta(r) \/ Transit!OpenRead(r)
             \/ \E r \in Reads, v \in Uploads : Transit!StatRead(r, v)
             \/ \E d \in Deletes, v \in Uploads : Transit!StartDelete(d, v)
    <2>1. disk' = disk /\ upload' = upload /\ born' = born /\ clock' = clock
      BY <1>9
         DEF Transit!EndBoot, Transit!vars, Transit!ReadMeta, Transit!OpenRead,
             Transit!StatRead, Transit!StartDelete, Transit!uploadVars
    <2>2. QED
      BY <1>4, <2>1
  <1>10. ASSUME NEW v \in Uploads,
                Transit!StartUpload(v) \/ Transit!EndSweep(v) \/ Transit!Open(v)
                   \/ Transit!Write(v) \/ Transit!Abort(v)
                  \/ Transit!Rename(v) \/ Transit!WriteMeta(v)
         PROVE  UploadKept(u)'
    <2>1. clock' = clock /\ deletion' = deletion
      BY <1>10
         DEF Transit!StartUpload, Transit!EndSweep, Transit!Open, Transit!Write, Transit!Abort,
             Transit!Rename, Transit!WriteMeta, Transit!deleteVars
    <2>2. CASE v # u
      <3>1. upload'[u] = upload[u] /\ born'[u] = born[u]
        BY <1>10, <2>2
           DEF Transit!StartUpload, Transit!EndSweep, Transit!Open, Transit!Write,
               Transit!Abort, Transit!Rename, Transit!WriteMeta, Transit!Goto, Transit!TypeOK
      <3>2. /\ <<"tmp", v>> # tmp /\ <<"file", v>> # tmp /\ <<"meta", v>> # tmp
            /\ <<"tmp", v>> # fil /\ <<"file", v>> # fil /\ <<"meta", v>> # fil
            /\ <<"tmp", v>> # met /\ <<"file", v>> # met /\ <<"meta", v>> # met
        BY <2>2
      <3>3. disk'[tmp] = disk[tmp] /\ disk'[fil] = disk[fil] /\ disk'[met] = disk[met]
        BY <1>e, <1>10, <3>2
           DEF Transit!StartUpload, Transit!EndSweep, Transit!Open, Transit!Write,
               Transit!Abort, Transit!Rename, Transit!WriteMeta, Transit!Unlinked,
               Transit!TypeOK
      <3>4. QED
        BY <1>1, <2>1, <3>1, <3>3 DEF UploadKept, Transit!Aged
    <2>3. CASE Transit!StartUpload(u) \/ Transit!EndSweep(u)
      BY <1>1, <2>1, <2>3
         DEF Transit!StartUpload, Transit!EndSweep, Transit!Goto, Transit!TypeOK, UploadKept,
             Transit!Aged
    <2>4. CASE Transit!Open(u)
      <3>1. disk'[tmp] = clock /\ disk'[fil] = disk[fil] /\ disk'[met] = disk[met]
        BY <1>e, <2>4 DEF Transit!Open, Transit!TypeOK
      <3>2. upload[u] = "opening" /\ upload'[u] = "writing" /\ born' = born
        BY <2>4 DEF Transit!Open, Transit!Goto, Transit!TypeOK
      <3>3. QED
        BY <1>1, <2>1, <3>1, <3>2 DEF UploadKept, Transit!Aged
    <2>5. CASE Transit!Write(u)
      <3>1. /\ disk'[tmp] = IF disk[tmp] = None THEN None ELSE clock
            /\ disk'[fil] = disk[fil] /\ disk'[met] = disk[met]
        BY <1>e, <2>5 DEF Transit!Write, Transit!TypeOK
      <3>2. upload[u] = "writing" /\ upload'[u] = "written" /\ born'[u] = clock
        BY <2>5 DEF Transit!Write, Transit!Goto, Transit!TypeOK
      <3>3. disk[fil] = None /\ disk[met] = None
        BY <1>1, <3>2 DEF UploadKept
      <3>4. QED
        BY <1>1, <2>1, <3>1, <3>2, <3>3 DEF UploadKept, Transit!Aged
    <2>6. CASE Transit!Abort(u)
      <3>1. disk'[tmp] = None /\ disk'[fil] = disk[fil] /\ disk'[met] = disk[met]
        BY <1>e, <2>6 DEF Transit!Abort, Transit!Unlinked, Transit!TypeOK
      <3>2. upload[u] = "writing" /\ upload'[u] = "failed" /\ born' = born
        BY <2>6 DEF Transit!Abort, Transit!Goto, Transit!TypeOK
      <3>3. QED
        BY <1>1, <2>1, <3>1, <3>2 DEF UploadKept, Transit!Aged
    <2>7. CASE Transit!Rename(u)
      <3>1. \/ disk[tmp] = None /\ disk' = disk /\ upload'[u] = "failed"
            \/ /\ disk[tmp] # None /\ upload'[u] = "renamed"
               /\ disk'[tmp] = None /\ disk'[fil] = disk[tmp] /\ disk'[met] = disk[met]
        <4>1. CASE disk[tmp] = None
          BY <2>7, <4>1 DEF Transit!Rename, Transit!Goto, Transit!TypeOK
        <4>2. CASE disk[tmp] # None
          <5>1. disk' = [disk EXCEPT ![tmp] = None, ![fil] = disk[tmp]]
            BY <2>7, <4>2 DEF Transit!Rename
          <5>2. \A n \in Transit!Files : disk'[n] = IF n = fil THEN disk[tmp] ELSE IF n = tmp
                   THEN None ELSE disk[n]
            BY <5>1, <1>e DEF Transit!TypeOK
          <5>3. upload'[u] = "renamed"
            BY <2>7, <4>2 DEF Transit!Rename, Transit!Goto, Transit!TypeOK
          <5> HIDE DEF tmp, fil, met
          <5>4. QED
            BY <1>e, <4>2, <5>2, <5>3
        <4>3. QED
          BY <4>1, <4>2
      <3>2. upload[u] = "written" /\ born' = born
        BY <2>7 DEF Transit!Rename
      <3>3. QED
        BY <1>1, <2>1, <3>1, <3>2 DEF UploadKept, Transit!Aged
    <2>8. CASE Transit!WriteMeta(u)
      <3>1. disk'[tmp] = disk[tmp] /\ disk'[fil] = disk[fil] /\ disk'[met] = clock
        BY <1>e, <2>8 DEF Transit!WriteMeta, Transit!TypeOK
      <3>2. upload[u] = "renamed" /\ upload'[u] = "answered" /\ born' = born
        BY <2>8 DEF Transit!WriteMeta, Transit!Goto, Transit!TypeOK
      <3>3. clock # None
        BY <1>1
      <3>4. QED
        BY <1>1, <2>1, <3>1, <3>2, <3>3 DEF UploadKept, Transit!Aged
    <2>9. QED
      BY <1>10, <2>2, <2>3, <2>4, <2>5, <2>6, <2>7, <2>8
  <1>11. QED
    BY <1>2, <1>3, <1>5, <1>6, <1>7, <1>8, <1>9, <1>10 DEF Transit!Next

\* Time goes on, and what an upload has reached stays.
LEMMA AgesGrow ==
  ASSUME FileSettings, Transit!TypeOK, Transit!TypeOK', \A u \in Uploads : UploadKept(u),
         [Transit!Next]_(Transit!vars)
  PROVE  /\ clock' >= clock
         /\ \A u \in Uploads : UploadOver(u) => UploadOver(u)'
         /\ \A u \in Uploads : OldOnly(u) => OldOnly(u)'
  <1> USE DEF FileSettings
  <1>0. clock' = clock \/ clock' = clock + 1
    BY DEF Transit!Next, Transit!vars, Transit!Tick, Transit!Restart, Transit!Stat,
           Transit!UnlinkOld, Transit!UnlinkMetaOfOld, Transit!EndBoot, Transit!StartUpload,
           Transit!EndSweep, Transit!Open, Transit!Write, Transit!Abort, Transit!Rename,
           Transit!WriteMeta, Transit!StatRead, Transit!UnlinkExpired, Transit!ReadMeta,
           Transit!OpenRead, Transit!StartDelete, Transit!UnlinkFirst, Transit!UnlinkSecond
  <1>1. clock \in Nat /\ clock' \in Nat /\ clock' >= clock
    BY <1>0 DEF Transit!TypeOK, Transit!Times
  <1>2. ASSUME NEW u \in Uploads
        PROVE  (UploadOver(u) => UploadOver(u)') /\ (born[u] # None => born'[u] = born[u])
    <2>1. CASE upload' = upload /\ born' = born
      BY <2>1 DEF UploadOver
    <2>2. CASE Transit!Restart
      BY <2>2 DEF Transit!Restart, UploadOver, Transit!TypeOK
    <2>3. ASSUME NEW v \in Uploads,
                 Transit!StartUpload(v) \/ Transit!EndSweep(v) \/ Transit!Open(v)
                    \/ Transit!Abort(v)
                  \/ Transit!Rename(v) \/ Transit!WriteMeta(v)
          PROVE  (UploadOver(u) => UploadOver(u)') /\ (born[u] # None => born'[u] = born[u])
      BY <2>3
         DEF Transit!StartUpload, Transit!EndSweep, Transit!Open, Transit!Abort, Transit!Rename,
             Transit!WriteMeta, Transit!Goto, UploadOver, Transit!TypeOK
    <2>4. ASSUME NEW v \in Uploads, Transit!Write(v)
          PROVE  (UploadOver(u) => UploadOver(u)') /\ (born[u] # None => born'[u] = born[u])
      BY <2>4 DEF Transit!Write, Transit!Goto, UploadOver, Transit!TypeOK, UploadKept
    <2>5. QED
      BY <2>1, <2>2, <2>3, <2>4
         DEF Transit!Next, Transit!vars, Transit!Tick, Transit!Stat, Transit!UnlinkOld,
             Transit!UnlinkMetaOfOld, Transit!EndBoot, Transit!StatRead, Transit!UnlinkExpired,
             Transit!ReadMeta, Transit!OpenRead, Transit!StartDelete, Transit!UnlinkFirst,
             Transit!UnlinkSecond, Transit!uploadVars
  <1>3. ASSUME NEW u \in Uploads, OldOnly(u) PROVE OldOnly(u)'
    <2>1. born[u] \in Nat /\ born'[u] = born[u]
      BY <1>2, <1>3 DEF OldOnly, Transit!TypeOK, Transit!Times
    <2>2. QED
      BY <1>1, <1>3, <2>1 DEF OldOnly, Transit!Aged
  <1>4. QED
    BY <1>1, <1>2, <1>3

\* Every step keeps what is known of a sweep.
LEMMA SweepsKept ==
  ASSUME FileSettings, Transit!TypeOK, Transit!TypeOK', \A u \in Uploads : UploadKept(u),
         \A s \in Transit!Sweeps : SweepKept(s),
         \A r \in Reads : ReadKept(r), [Transit!Next]_(Transit!vars),
         NEW s \in Transit!Sweeps
  PROVE  SweepKept(s)'
  <1> USE DEF FileSettings
  <1>1. /\ SweepKept(s)
        /\ clock \in Nat /\ clock' \in Nat /\ clock' >= clock /\ cutoff[s] \in Nat
        /\ \A n \in Transit!Files : disk[n] \in Nat \cup {None} /\ disk'[n] \in Nat \cup {None}
        /\ \A u \in Uploads : UploadOver(u) => UploadOver(u)'
        /\ \A u \in Uploads : OldOnly(u) => OldOnly(u)'
    BY AgesGrow DEF Transit!TypeOK, Transit!Times
  <1>2. \A n \in Transit!Files : n[2] \in Uploads /\ <<"tmp", n[2]>> \in Transit!Files
    BY DEF Transit!Files
  <1>3. ASSUME cutoff'[s] = cutoff[s], todo'[s] = todo[s],
               \A n \in Transit!Files : \/ disk'[n] = disk[n] \/ disk'[n] = None
                                        \/ disk'[n] = clock /\ n[1] # "file"
        PROVE  SweepKept(s)'
    <2>1. cutoff'[s] = 0 \/ cutoff'[s] + TTL <= clock'
      BY <1>1, <1>3 DEF SweepKept, EntryKept
    <2>2. cutoff[s] <= clock
      BY <1>1 DEF SweepKept, EntryKept
    <2>3. ASSUME NEW n \in Transit!Files
          PROVE  EntryKept(s, n)'
      <3>1. /\ n[1] = "file" /\ todo'[s][n] # "unseen" => UploadOver(n[2])'
            /\ n[1] \in {"file", "meta"} /\ todo'[s][n] \in {"old", "unlinked"} => OldOnly(n[2])'
        BY <1>1, <1>2, <1>3 DEF SweepKept, EntryKept, UploadOver
      <3>2. todo'[s][n] = "unlinked" => n[1] = "file" /\ disk'[n] = None
        <4>1. todo[s][n] = "unlinked" => n[1] = "file" /\ disk[n] = None
          BY <1>1 DEF SweepKept, EntryKept
        <4>2. QED
          BY <1>3, <4>1
      <3>3. todo'[s][n] = "done" /\ disk'[n] # None => disk'[n] >= cutoff'[s]
        <4>1. todo[s][n] = "done" /\ disk[n] # None => disk[n] >= cutoff[s]
          BY <1>1 DEF SweepKept, EntryKept
        <4>2. QED
          BY <1>1, <1>3, <2>2, <4>1
      <3>4. todo'[s][n] = "unseen" /\ disk'[n] # None /\ disk'[n] < cutoff'[s]
              => n[1] = "file" /\ todo'[s][<<"tmp", n[2]>>] # "unseen"
        <4>1. todo[s][n] = "unseen" /\ disk[n] # None /\ disk[n] < cutoff[s]
                => n[1] = "file" /\ todo[s][<<"tmp", n[2]>>] # "unseen"
          BY <1>1 DEF SweepKept, EntryKept
        <4>2. disk'[n] = disk[n] \/ disk'[n] = None \/ ~(disk'[n] < cutoff[s])
          BY <1>1, <1>3, <2>2
        <4>3. QED
          BY <1>3, <4>1, <4>2
      <3>5. QED
        BY <3>1, <3>2, <3>3, <3>4 DEF EntryKept
    <2>4. QED
      BY <2>1, <2>3 DEF SweepKept, EntryKept, UploadOver
  <1>4. ASSUME cutoff'[s] = 0, todo'[s] = [n \in Transit!Files |-> "unseen"]
        PROVE  SweepKept(s)'
    BY <1>1, <1>4 DEF SweepKept, EntryKept
  <1>5. ASSUME cutoff'[s] = Transit!Cutoff, todo'[s] = Transit!Listing, disk' = disk,
               clock' = clock,
               \A u \in Uploads : UploadOver(u) => UploadOver(u)'
        PROVE  SweepKept(s)'
    <2>1. Transit!Cutoff \in Nat /\ (Transit!Cutoff = 0 \/ Transit!Cutoff + TTL <= clock)
      BY <1>1 DEF Transit!Cutoff
    <2>2. ASSUME NEW n \in Transit!Files
          PROVE  /\ todo'[s][n] \in {"unseen", "listed"}
                 /\ todo'[s][n] = "unseen" <=> disk[n] = None
                 /\ n[1] = "file" /\ disk[n] # None => UploadOver(n[2])'
      <3>1. todo'[s][n] = IF disk[n] = None THEN "unseen" ELSE "listed"
        BY <1>5, FileNames DEF Transit!Listing, Transit!Managed
      <3>2. n[1] = "file" /\ disk[n] # None => UploadOver(n[2])'
        <4>1. n = <<n[1], n[2]>> /\ n[2] \in Uploads
          BY FileNames
        <4>2. disk[<<"file", n[2]>>] # None => UploadOver(n[2])
          BY <4>1 DEF UploadKept, UploadOver
        <4>3. QED
          BY <1>1, <4>1, <4>2
      <3>3. QED
        BY <3>1, <3>2
    <2>3. QED
      BY <1>5, <2>1, <2>2 DEF SweepKept, EntryKept, UploadOver
  <1>6. CASE \/ Transit!Tick \/ UNCHANGED Transit!vars
             \/ \E u \in Uploads : Transit!Open(u) \/ Transit!Write(u) \/ Transit!Abort(u)
                   \/ Transit!WriteMeta(u)
             \/ \E r \in Reads : Transit!UnlinkExpired(r) \/ Transit!ReadMeta(r)
                   \/ Transit!OpenRead(r)
             \/ \E r \in Reads, u \in Uploads : Transit!StatRead(r, u)
             \/ \E d \in Deletes : Transit!UnlinkFirst(d) \/ Transit!UnlinkSecond(d)
             \/ \E d \in Deletes, u \in Uploads : Transit!StartDelete(d, u)
    <2>1. cutoff' = cutoff /\ todo' = todo
      BY <1>6
         DEF Transit!Tick, Transit!vars, Transit!Open, Transit!Write, Transit!Abort,
             Transit!WriteMeta, Transit!UnlinkExpired, Transit!ReadMeta, Transit!OpenRead,
             Transit!StatRead, Transit!UnlinkFirst, Transit!UnlinkSecond, Transit!StartDelete,
             Transit!sweepVars
    <2>2. CASE disk' = disk
      BY <1>3, <2>1, <2>2
    <2>3. ASSUME NEW m, disk' = [disk EXCEPT ![m] = None] PROVE SweepKept(s)'
      BY <1>3, <2>1, <2>3 DEF Transit!TypeOK
    <2>4. ASSUME NEW m, m[1] # "file", disk' = [disk EXCEPT ![m] = clock] PROVE SweepKept(s)'
      BY <1>3, <2>1, <2>4 DEF Transit!TypeOK
    <2>5. ASSUME NEW u \in Uploads, Transit!Open(u) PROVE SweepKept(s)'
      BY <2>4, <2>5 DEF Transit!Open
    <2>6. ASSUME NEW u \in Uploads, Transit!WriteMeta(u) PROVE SweepKept(s)'
      BY <2>4, <2>6 DEF Transit!WriteMeta
    <2>7. ASSUME NEW u \in Uploads, Transit!Write(u) PROVE SweepKept(s)'
      <3>1. \/ disk' = [disk EXCEPT ![<<"tmp", u>>] = None]
            \/ disk' = [disk EXCEPT ![<<"tmp", u>>] = clock]
        BY <2>7 DEF Transit!Write
      <3>2. QED
        BY <2>3, <2>4, <3>1
    <2>8. ASSUME NEW u \in Uploads, Transit!Abort(u) PROVE SweepKept(s)'
      BY <2>3, <2>8 DEF Transit!Abort, Transit!Unlinked
    <2>9. ASSUME NEW r \in Reads, Transit!UnlinkExpired(r) PROVE SweepKept(s)'
      BY <2>3, <2>9 DEF Transit!UnlinkExpired, Transit!Unlinked
    <2>10. ASSUME NEW d \in Deletes, Transit!UnlinkFirst(d) \/ Transit!UnlinkSecond(d)
           PROVE  SweepKept(s)'
      BY <2>3, <2>10 DEF Transit!UnlinkFirst, Transit!UnlinkSecond, Transit!Unlinked
    <2>11. QED
      BY <1>6, <2>2, <2>5, <2>6, <2>7, <2>8, <2>9, <2>10
         DEF Transit!Tick, Transit!vars, Transit!ReadMeta, Transit!OpenRead, Transit!StatRead,
             Transit!StartDelete
  <1>7. ASSUME NEW u \in Uploads, Transit!Rename(u) PROVE SweepKept(s)'
    <2> DEFINE tmp == <<"tmp", u>>
               fil == <<"file", u>>
    <2>1. cutoff' = cutoff /\ todo' = todo
      BY <1>7 DEF Transit!Rename, Transit!sweepVars
    <2>2. CASE disk' = disk
      BY <1>3, <2>1, <2>2
    <2>3. CASE disk' # disk
      <3>1. tmp \in Transit!Files /\ fil \in Transit!Files /\ tmp # fil
        BY DEF Transit!Files
      <3>2. disk' = [disk EXCEPT ![tmp] = None, ![fil] = disk[tmp]] /\ disk[tmp] # None
        BY <1>7, <2>3 DEF Transit!Rename
      <3>3. /\ disk'[fil] = disk[tmp] /\ disk'[tmp] = None
            /\ \A n \in Transit!Files : n # tmp /\ n # fil => disk'[n] = disk[n]
        BY <3>1, <3>2 DEF Transit!TypeOK
      <3>4. todo[s][fil] = "unseen"
        BY <1>7, <1>1, <3>1 DEF Transit!Rename, SweepKept, EntryKept, UploadOver
      <3>5. disk[tmp] < cutoff[s] => todo[s][tmp] # "unseen"
        BY <1>1, <3>1, <3>2 DEF SweepKept, EntryKept
      <3>6. ASSUME NEW n \in Transit!Files
            PROVE  EntryKept(s, n)'
        <4>1. CASE n = fil
          BY <2>1, <3>3, <3>4, <3>5, <4>1 DEF EntryKept
        <4>2. CASE n = tmp
          BY <1>1, <2>1, <3>1, <3>3, <4>2 DEF SweepKept, EntryKept
        <4>3. CASE n # fil /\ n # tmp
          BY <1>1, <1>2, <2>1, <3>3, <4>3 DEF SweepKept, EntryKept, UploadOver
        <4>4. QED
          BY <4>1, <4>2, <4>3
      <3>7. cutoff'[s] = 0 \/ cutoff'[s] + TTL <= clock'
        BY <1>1, <2>1 DEF SweepKept, EntryKept
      <3>8. QED
        BY <3>6, <3>7 DEF SweepKept, EntryKept, UploadOver
    <2>4. QED
      BY <2>2, <2>3
  <1>8. ASSUME NEW u \in Uploads, Transit!StartUpload(u) \/ Transit!EndSweep(u)
        PROVE  SweepKept(s)'
    <2>1. u \in Transit!Sweeps /\ disk' = disk /\ clock' = clock
      BY <1>8 DEF Transit!StartUpload, Transit!EndSweep, Transit!Sweeps
    <2>2. CASE u # s
      <3>1. cutoff'[s] = cutoff[s] /\ todo'[s] = todo[s]
        BY <1>8, <2>1, <2>2
           DEF Transit!StartUpload, Transit!EndSweep, Transit!ForgetSweep, Transit!TypeOK
      <3>2. QED
        BY <1>3, <2>1, <3>1
    <2>3. CASE u = s /\ Transit!StartUpload(u)
      <3>1. cutoff'[s] = Transit!Cutoff /\ todo'[s] = Transit!Listing
        BY <2>1, <2>3 DEF Transit!StartUpload, Transit!TypeOK
      <3>2. QED
        BY <1>1, <1>5, <2>1, <3>1
    <2>4. CASE u = s /\ Transit!EndSweep(u)
      BY <1>4, <2>1, <2>4 DEF Transit!EndSweep, Transit!ForgetSweep, Transit!TypeOK
    <2>5. QED
      BY <1>8, <2>2, <2>3, <2>4
  <1>9. CASE Transit!Restart
    <2>1. CASE s = Transit!Boot
      <3>1. cutoff'[s] = Transit!Cutoff /\ todo'[s] = Transit!Listing /\ disk' = disk
               /\ clock' = clock
        BY <1>9, <2>1 DEF Transit!Restart, Transit!Sweeps
      <3>2. QED
        BY <1>1, <1>5, <3>1
    <2>2. CASE s # Transit!Boot
      <3>1. cutoff'[s] = 0 /\ todo'[s] = [n \in Transit!Files |-> "unseen"]
        BY <1>9, <2>2 DEF Transit!Restart
      <3>2. QED
        BY <1>4, <3>1
    <2>3. QED
      BY <2>1, <2>2
  <1>10. CASE Transit!EndBoot
    <2>1. CASE s = Transit!Boot
      BY <1>4, <1>10, <2>1 DEF Transit!EndBoot, Transit!ForgetSweep, Transit!TypeOK
    <2>2. CASE s # Transit!Boot
      <3>1. cutoff'[s] = cutoff[s] /\ todo'[s] = todo[s] /\ disk' = disk
        BY <1>10, <2>2 DEF Transit!EndBoot, Transit!ForgetSweep, Transit!TypeOK
      <3>2. QED
        BY <1>3, <3>1
    <2>3. QED
      BY <2>1, <2>2
  <1>11. ASSUME NEW q \in Transit!Sweeps, NEW m \in Transit!Files,
                Transit!Stat(q, m) \/ Transit!UnlinkOld(q, m) \/ Transit!UnlinkMetaOfOld(q, m)
         PROVE  SweepKept(s)'
    <2>1. cutoff' = cutoff /\ clock' = clock /\ upload' = upload /\ born' = born
      BY <1>11 DEF Transit!Stat, Transit!UnlinkOld, Transit!UnlinkMetaOfOld, Transit!uploadVars
    <2>2. \A n \in Transit!Files : disk'[n] = disk[n] \/ disk'[n] = None
      BY <1>11
         DEF Transit!Stat, Transit!UnlinkOld, Transit!UnlinkMetaOfOld, Transit!Unlinked,
             Transit!TypeOK
    <2>3. CASE q # s
      <3>1. todo'[s] = todo[s]
        BY <1>11, <2>3
           DEF Transit!Stat, Transit!UnlinkOld, Transit!UnlinkMetaOfOld, Transit!Treat,
               Transit!TypeOK
      <3>2. QED
        BY <1>3, <2>1, <2>2, <3>1
    <2>4. CASE q = s
      <3>1. \A n \in Transit!Files : n # m => todo'[s][n] = todo[s][n]
        BY <1>11, <2>4
           DEF Transit!Stat, Transit!UnlinkOld, Transit!UnlinkMetaOfOld, Transit!Treat,
               Transit!TypeOK
      <3>2. /\ todo[s][m] # "unseen" /\ todo'[s][m] # "unseen"
            /\ todo'[s][m] = "old" => disk[m] # None /\ disk[m] < cutoff[s]
            /\ todo'[s][m] = "unlinked" => todo[s][m] = "old" /\ m[1] = "file" /\ disk'[m] = None
            /\ todo'[s][m] = "done" /\ disk'[m] # None => disk'[m] >= cutoff[s]
        <4>1. CASE Transit!Stat(s, m)
          BY <1>1, <4>1 DEF Transit!Stat, Transit!Treat, Transit!TypeOK
        <4>2. CASE Transit!UnlinkOld(s, m)
          BY <4>2 DEF Transit!UnlinkOld, Transit!Unlinked, Transit!Treat, Transit!TypeOK
        <4>3. CASE Transit!UnlinkMetaOfOld(s, m)
          <5>1. todo[s][m] = "unlinked" /\ todo'[s][m] = "done"
            BY <4>3 DEF Transit!UnlinkMetaOfOld, Transit!Treat, Transit!TypeOK
          <5>2. disk[m] = None
            BY <1>1, <5>1 DEF SweepKept, EntryKept
          <5>3. QED
            BY <2>2, <5>1, <5>2
        <4>4. QED
          BY <1>11, <2>4, <4>1, <4>2, <4>3
      <3>3. m[1] \in {"file", "meta"} /\ todo'[s][m] = "old" => OldOnly(m[2])
        <4>1. SUFFICES ASSUME m[1] \in {"file", "meta"}, todo'[s][m] = "old" PROVE OldOnly(m[2])
          OBVIOUS
        <4>2. disk[m] \in Nat /\ disk[m] < cutoff[s] /\ m[2] \in Uploads /\ m = <<m[1], m[2]>>
          BY <1>1, <1>2, <3>2, <4>1, FileNames
        <4>3. disk[m] + TTL < clock
          BY <1>1, <4>2 DEF SweepKept, EntryKept
        <4>4. born[m[2]] # None /\ born[m[2]] <= disk[m] /\ born[m[2]] \in Nat
          <5>1. born[m[2]] \in Nat \cup {None}
            BY <4>2 DEF Transit!TypeOK, Transit!Times
          <5>2. CASE m[1] = "file"
            <6>1. disk[<<"file", m[2]>>] # None
              BY <4>2, <5>2
            <6>2. born[m[2]] # None /\ disk[<<"file", m[2]>>] = born[m[2]]
              BY <4>2, <6>1 DEF UploadKept
            <6>3. QED
              BY <4>2, <5>1, <5>2, <6>2
          <5>3. CASE m[1] = "meta"
            <6>1. disk[<<"meta", m[2]>>] # None
              BY <4>2, <5>3
            <6>2. born[m[2]] # None /\ born[m[2]] <= disk[<<"meta", m[2]>>]
              BY <4>2, <6>1 DEF UploadKept
            <6>3. QED
              BY <4>2, <5>1, <5>3, <6>2
          <5>4. QED
            BY <4>1, <5>2, <5>3
        <4>5. QED
          BY <1>1, <4>2, <4>3, <4>4 DEF OldOnly, Transit!Aged
      <3>4. todo[s][m] = "old" /\ m[1] \in {"file", "meta"} => OldOnly(m[2])
        BY <1>1 DEF SweepKept, EntryKept
      <3>5. m[1] = "file" => UploadOver(m[2])
        BY <1>1, <3>2 DEF SweepKept, EntryKept, UploadOver
      <3>6. ASSUME NEW n \in Transit!Files
            PROVE  EntryKept(s, n)'
        <4>1. CASE n = m
          BY <1>1, <1>2, <2>1, <3>2, <3>3, <3>4, <3>5, <4>1 DEF EntryKept
        <4>2. CASE n # m
          <5>1. todo[s][<<"tmp", n[2]>>] # "unseen" => todo'[s][<<"tmp", n[2]>>] # "unseen"
            BY <1>2, <3>1, <3>2
          <5>2. todo'[s][n] = todo[s][n] /\ cutoff'[s] = cutoff[s]
            BY <2>1, <3>1, <4>2
          <5>3. EntryKept(s, n)
            BY <1>1 DEF SweepKept, EntryKept, UploadOver
          <5>4. n[2] \in Uploads /\ (disk'[n] = disk[n] \/ disk'[n] = None)
            BY <1>2, <2>2
          <5>5. QED
            BY <1>1, <5>1, <5>2, <5>3, <5>4 DEF EntryKept
        <4>3. QED
          BY <4>1, <4>2
      <3>7. cutoff'[s] = 0 \/ cutoff'[s] + TTL <= clock'
        BY <1>1, <2>1 DEF SweepKept, EntryKept
      <3>8. QED
        BY <3>6, <3>7 DEF SweepKept, EntryKept, UploadOver
    <2>5. QED
      BY <2>3, <2>4
  <1>12. QED
    BY <1>6, <1>7, <1>8, <1>9, <1>10, <1>11 DEF Transit!Next

\* What an answered upload has lost of its file does not come back.
LEMMA GoneStays ==
  ASSUME FileSettings, Transit!TypeOK, \A d \in Deletes : DeleteKept(d),
         [Transit!Next]_(Transit!vars),
         NEW u \in Uploads, upload[u] = "answered"
  PROVE  /\ upload'[u] = "answered"
         /\ disk[<<"file", u>>] = None => disk'[<<"file", u>>] = None
  <1> DEFINE fil == <<"file", u>>
  <1>1. fil \in Transit!Files
    BY DEF Transit!Files
  <1>2. CASE \/ Transit!Tick \/ Transit!EndBoot \/ UNCHANGED Transit!vars
             \/ \E r \in Reads : Transit!ReadMeta(r) \/ Transit!OpenRead(r)
             \/ \E r \in Reads, v \in Uploads : Transit!StatRead(r, v)
             \/ \E d \in Deletes, v \in Uploads : Transit!StartDelete(d, v)
    BY <1>2
       DEF Transit!Tick, Transit!EndBoot, Transit!vars, Transit!ReadMeta, Transit!OpenRead,
           Transit!StatRead, Transit!StartDelete, Transit!uploadVars
  <1>3. CASE Transit!Restart
    BY <1>3 DEF Transit!Restart
  <1>4. ASSUME NEW v \in Uploads,
               Transit!StartUpload(v) \/ Transit!EndSweep(v) \/ Transit!Open(v)
                  \/ Transit!Write(v) \/ Transit!Abort(v)
                  \/ Transit!Rename(v) \/ Transit!WriteMeta(v)
        PROVE  upload'[u] = "answered" /\ (disk[fil] = None => disk'[fil] = None)
    <2>1. v # u
      BY <1>4
         DEF Transit!StartUpload, Transit!EndSweep, Transit!Open, Transit!Write, Transit!Abort,
             Transit!Rename, Transit!WriteMeta
    <2>2. <<"tmp", v>> # fil /\ <<"file", v>> # fil /\ <<"meta", v>> # fil
      BY <2>1
    <2> HIDE DEF fil
    <2>3. QED
      BY <1>1, <1>4, <2>1, <2>2
         DEF Transit!StartUpload, Transit!EndSweep, Transit!Open, Transit!Write, Transit!Abort,
             Transit!Rename, Transit!WriteMeta, Transit!Goto, Transit!Unlinked, Transit!TypeOK
  <1>5. ASSUME NEW m, upload' = upload, disk' = disk \/ disk' = [disk EXCEPT ![m] = None]
        PROVE  upload'[u] = "answered" /\ (disk[fil] = None => disk'[fil] = None)
    BY <1>1, <1>5 DEF Transit!TypeOK
  <1>6. ASSUME NEW s \in Transit!Sweeps, NEW n \in Transit!Files,
               Transit!Stat(s, n) \/ Transit!UnlinkOld(s, n) \/ Transit!UnlinkMetaOfOld(s, n)
        PROVE  upload'[u] = "answered" /\ (disk[fil] = None => disk'[fil] = None)
    <2>1. upload' = upload
      BY <1>6 DEF Transit!Stat, Transit!UnlinkOld, Transit!UnlinkMetaOfOld, Transit!uploadVars
    <2>2. disk' = disk \/ disk' = [disk EXCEPT ![n] = None]
             \/ disk' = [disk EXCEPT ![<<"meta", n[2]>>] = None]
      BY <1>6 DEF Transit!Stat, Transit!UnlinkOld, Transit!UnlinkMetaOfOld, Transit!Unlinked
    <2>3. QED
      BY <1>5, <2>1, <2>2
  <1>7. ASSUME NEW r \in Reads, Transit!UnlinkExpired(r)
        PROVE  upload'[u] = "answered" /\ (disk[fil] = None => disk'[fil] = None)
    BY <1>5, <1>7 DEF Transit!UnlinkExpired, Transit!Unlinked, Transit!uploadVars
  <1>8. ASSUME NEW d \in Deletes, Transit!UnlinkFirst(d) \/ Transit!UnlinkSecond(d)
        PROVE  upload'[u] = "answered" /\ (disk[fil] = None => disk'[fil] = None)
    BY <1>5, <1>8
       DEF Transit!UnlinkFirst, Transit!UnlinkSecond, Transit!Unlinked, Transit!uploadVars
  <1>9. QED
    BY <1>2, <1>3, <1>4, <1>6, <1>7, <1>8 DEF Transit!Next

\* Every step keeps what is known of a read.
LEMMA ReadsKept ==
  ASSUME FileSettings, Transit!TypeOK, Transit!TypeOK', \A u \in Uploads : UploadKept(u),
         \A r \in Reads : ReadKept(r), \A d \in Deletes :
            DeleteKept(d), [Transit!Next]_(Transit!vars),
         NEW r \in Reads
  PROVE  ReadKept(r)'
  <1>1. /\ ReadKept(r)
        /\ \A u \in Uploads : Deleted(u) => Deleted(u)'
        /\ \A u \in Uploads : Transit!Aged(u) /\ upload[u] = "answered" => Transit!Aged(u)'
        /\ \A u \in Uploads : upload[u] = "answered" => /\ upload'[u] = "answered"
                                                        /\ disk[<<"file", u>>] = None =>
                                                              disk'[<<"file", u>>] = None
    <2>1. \A u \in Uploads : upload[u] = "answered" /\ Transit!Aged(u) => OldOnly(u)
      BY DEF UploadKept, OldOnly
    <2>2. \A u \in Uploads : OldOnly(u)' => Transit!Aged(u)'
      BY DEF OldOnly
    <2>3. QED
      BY <2>1, <2>2, AgesGrow, DeletedStays, GoneStays
  <1>2. ASSUME read'[r] = read[r], rpc'[r] = rpc[r], name'[r] = name[r] PROVE ReadKept(r)'
    BY <1>1, <1>2 DEF ReadKept
  <1>3. CASE Transit!Restart
    <2>1. /\ read' = read /\ name' = name /\ upload'[read[r]] = upload'[read[r]]
          /\ rpc'[r] = IF rpc[r] \in {"new"} \cup Transit!Ended THEN rpc[r] ELSE "cut"
      BY <1>3 DEF Transit!Restart
    <2>2. CASE rpc'[r] = rpc[r]
      BY <1>2, <2>1, <2>2
    <2>3. CASE rpc'[r] = "cut" /\ rpc[r] # "new"
      BY <1>1, <2>1, <2>3 DEF ReadKept
    <2>4. QED
      BY <2>1, <2>2, <2>3
  <1>4. ASSUME NEW q \in Reads, NEW u \in Uploads, Transit!StatRead(q, u) PROVE ReadKept(r)'
    <2>1. CASE q # r
      BY <1>2, <1>4, <2>1 DEF Transit!StatRead, Transit!Enter, Transit!TypeOK
    <2>2. CASE q = r
      <3>1. /\ read'[r] = u /\ upload[u] = "answered" /\ upload' = upload /\ disk' = disk
                  /\ clock' = clock
            /\ born' = born
            /\ rpc'[r] = IF disk[<<"file", u>>] = None THEN "missing"
                          ELSE IF Transit!Old(<<"file", u>>) THEN "expired" ELSE "found"
        BY <1>4, <2>2
           DEF Transit!StatRead, Transit!Enter, Transit!Known, Transit!TypeOK,
               Transit!uploadVars
      <3>2. disk[<<"file", u>>] = None => Transit!Aged(u) \/ Deleted(u)
        BY <3>1 DEF UploadKept
      <3>3. disk[<<"file", u>>] # None /\ Transit!Old(<<"file", u>>) => Transit!Aged(u)
        BY DEF UploadKept, Transit!Old, Transit!Aged
      <3>4. Transit!Aged(u)' = Transit!Aged(u)
        BY <3>1 DEF Transit!Aged
      <3>5. QED
        BY <1>1, <3>1, <3>2, <3>3, <3>4 DEF ReadKept
    <2>3. QED
      BY <2>1, <2>2
  <1>5. ASSUME NEW q \in Reads,
               Transit!UnlinkExpired(q) \/ Transit!ReadMeta(q) \/ Transit!OpenRead(q)
        PROVE  ReadKept(r)'
    <2>1. CASE q # r
      BY <1>2, <1>5, <2>1
         DEF Transit!UnlinkExpired, Transit!ReadMeta, Transit!OpenRead, Transit!Enter,
             Transit!TypeOK
    <2> DEFINE u == read[r]
    <2>2. CASE Transit!UnlinkExpired(r)
      <3>1. rpc[r] = "expired" /\ rpc'[r] = "missing" /\ read' = read
        BY <2>2 DEF Transit!UnlinkExpired, Transit!Enter, Transit!TypeOK
      <3>2. QED
        BY <1>1, <3>1 DEF ReadKept
    <2>3. CASE Transit!ReadMeta(r)
      <3>1. /\ rpc[r] = "found" /\ rpc'[r] = "named" /\ read' = read
            /\ name'[r] = IF disk[<<"meta", u>>] = None THEN "fallback" ELSE "own"
        BY <2>3 DEF Transit!ReadMeta, Transit!Enter, Transit!TypeOK
      <3>2. u \in Uploads /\ upload[u] = "answered"
        BY <1>1, <3>1 DEF ReadKept
      <3>3. disk[<<"meta", u>>] = None => Transit!Aged(u) \/ disk[<<"file", u>>] = None
        BY <3>2 DEF UploadKept
      <3>4. name'[r] = "fallback" => Transit!Aged(u)' \/ disk'[<<"file", u>>] = None
        BY <1>1, <3>1, <3>2, <3>3
      <3>5. QED
        BY <1>1, <3>1, <3>2, <3>4 DEF ReadKept
    <2>4. CASE Transit!OpenRead(r)
      <3>1. /\ rpc[r] = "named" /\ read' = read
            /\ rpc'[r] = IF disk[<<"file", u>>] = None THEN "broken"
                ELSE IF name[r] = "own" THEN "whole" ELSE "nameless"
        BY <2>4 DEF Transit!OpenRead, Transit!Enter, Transit!TypeOK
      <3>2. u \in Uploads /\ upload[u] = "answered"
        BY <1>1, <3>1 DEF ReadKept
      <3>3. rpc'[r] = "broken" => Transit!Aged(u) \/ Deleted(u)
        BY <3>1, <3>2 DEF UploadKept
      <3>4. rpc'[r] = "nameless" => Transit!Aged(u)
        <4>1. name[r] \in {"own", "fallback"}
          BY DEF Transit!TypeOK
        <4>2. QED
          BY <1>1, <3>1, <4>1 DEF ReadKept
      <3>5. QED
        BY <1>1, <3>1, <3>2, <3>3, <3>4 DEF ReadKept
    <2>5. QED
      BY <1>5, <2>1, <2>2, <2>3, <2>4
  <1>6. CASE \/ Transit!Tick \/ Transit!EndBoot \/ UNCHANGED Transit!vars
             \/ \E u \in Uploads : Transit!StartUpload(u) \/ Transit!EndSweep(u)
                   \/ Transit!Open(u) \/ Transit!Write(u) \/ Transit!Abort(u)
                                     \/ Transit!Rename(u) \/ Transit!WriteMeta(u)
             \/ \E s \in Transit!Sweeps, n \in Transit!Files : Transit!Stat(s, n)
                   \/ Transit!UnlinkOld(s, n) \/ Transit!UnlinkMetaOfOld(s, n)
             \/ \E d \in Deletes, u \in Uploads : Transit!StartDelete(d, u)
             \/ \E d \in Deletes : Transit!UnlinkFirst(d) \/ Transit!UnlinkSecond(d)
    <2>1. read' = read /\ rpc' = rpc /\ name' = name
      BY <1>6
         DEF Transit!Tick, Transit!EndBoot, Transit!vars, Transit!StartUpload, Transit!EndSweep,
             Transit!Open, Transit!Write, Transit!Abort, Transit!Rename, Transit!WriteMeta,
             Transit!Stat, Transit!UnlinkOld, Transit!UnlinkMetaOfOld, Transit!StartDelete,
             Transit!UnlinkFirst, Transit!UnlinkSecond, Transit!readVars
    <2>2. QED
      BY <1>2, <2>1
  <1>7. QED
    BY <1>3, <1>4, <1>5, <1>6 DEF Transit!Next

\* Every step keeps what is known of a deletion.
LEMMA DeletesKept ==
  ASSUME FileSettings, Transit!TypeOK, \A d \in Deletes : DeleteKept(d),
         [Transit!Next]_(Transit!vars),
         NEW d \in Deletes
  PROVE  DeleteKept(d)'
  <1>1. /\ DeleteKept(d)
        /\ \A u \in Uploads : upload[u] = "answered" => /\ upload'[u] = "answered"
                                                        /\ disk[<<"file", u>>] = None =>
                                                              disk'[<<"file", u>>] = None
    BY GoneStays
  <1>2. ASSUME deletion'[d] = deletion[d], dpc'[d] = dpc[d] PROVE DeleteKept(d)'
    BY <1>1, <1>2 DEF DeleteKept
  <1>3. CASE Transit!Restart
    <2>1. deletion' = deletion /\ dpc'[d] = IF dpc[d] = "new" THEN "new" ELSE "done"
      BY <1>3 DEF Transit!Restart
    <2>2. QED
      BY <1>1, <2>1 DEF DeleteKept
  <1>4. ASSUME NEW e \in Deletes, NEW u \in Uploads, Transit!StartDelete(e, u)
        PROVE  DeleteKept(d)'
    <2>1. CASE e # d
      BY <1>2, <1>4, <2>1 DEF Transit!StartDelete, Transit!TypeOK
    <2>2. CASE e = d
      <3>1. deletion'[d] = u /\ dpc'[d] = "first" /\ upload[u] = "answered"
        BY <1>4, <2>2 DEF Transit!StartDelete, Transit!Known, Transit!TypeOK
      <3>2. QED
        BY <1>1, <3>1 DEF DeleteKept
    <2>3. QED
      BY <2>1, <2>2
  <1>5. ASSUME NEW e \in Deletes, Transit!UnlinkFirst(e) \/ Transit!UnlinkSecond(e)
        PROVE  DeleteKept(d)'
    <2>1. CASE e # d
      BY <1>2, <1>5, <2>1 DEF Transit!UnlinkFirst, Transit!UnlinkSecond, Transit!TypeOK
    <2>2. CASE Transit!UnlinkFirst(d)
      <3>1. /\ dpc[d] = "first" /\ deletion' = deletion /\ dpc'[d] \in {"done", "second"}
            /\ disk' = [disk EXCEPT ![<<"file", deletion[d]>>] = None]
        BY <2>2 DEF Transit!UnlinkFirst, Transit!DeleteOrder, Transit!Unlinked, Transit!TypeOK
      <3>2. deletion[d] \in Uploads /\ <<"file", deletion[d]>> \in Transit!Files
        BY <1>1, <3>1 DEF DeleteKept, Transit!Files
      <3>3. disk'[<<"file", deletion[d]>>] = None
        BY <3>1, <3>2 DEF Transit!TypeOK
      <3>4. QED
        BY <1>1, <3>1, <3>2, <3>3 DEF DeleteKept
    <2>3. CASE Transit!UnlinkSecond(d)
      <3>1. dpc[d] = "second" /\ deletion' = deletion /\ dpc'[d] = "done"
        BY <2>3 DEF Transit!UnlinkSecond, Transit!TypeOK
      <3>2. QED
        BY <1>1, <3>1 DEF DeleteKept
    <2>4. QED
      BY <1>5, <2>1, <2>2, <2>3
  <1>6. CASE \/ Transit!Tick \/ Transit!EndBoot \/ UNCHANGED Transit!vars
             \/ \E u \in Uploads : Transit!StartUpload(u) \/ Transit!EndSweep(u)
                   \/ Transit!Open(u) \/ Transit!Write(u) \/ Transit!Abort(u)
                                     \/ Transit!Rename(u) \/ Transit!WriteMeta(u)
             \/ \E s \in Transit!Sweeps, n \in Transit!Files : Transit!Stat(s, n)
                   \/ Transit!UnlinkOld(s, n) \/ Transit!UnlinkMetaOfOld(s, n)
             \/ \E r \in Reads, u \in Uploads : Transit!StatRead(r, u)
             \/ \E r \in Reads : Transit!UnlinkExpired(r) \/ Transit!ReadMeta(r)
                   \/ Transit!OpenRead(r)
    <2>1. deletion' = deletion /\ dpc' = dpc
      BY <1>6
         DEF Transit!Tick, Transit!EndBoot, Transit!vars, Transit!StartUpload, Transit!EndSweep,
             Transit!Open, Transit!Write, Transit!Abort, Transit!Rename, Transit!WriteMeta,
             Transit!Stat, Transit!UnlinkOld, Transit!UnlinkMetaOfOld, Transit!StatRead,
             Transit!UnlinkExpired, Transit!ReadMeta, Transit!OpenRead, Transit!deleteVars
    <2>2. QED
      BY <1>2, <2>1
  <1>7. QED
    BY <1>3, <1>4, <1>5, <1>6 DEF Transit!Next

\* The initial states satisfy the invariant.
LEMMA FilesInit == FileSettings /\ Transit!Init => FilesInv
  <1> SUFFICES ASSUME FileSettings, Transit!Init PROVE FilesInv
    OBVIOUS
  <1>1. Transit!TypeOK
    BY DEF Transit!Init, Transit!TypeOK, Transit!Times, Transit!UploadSteps, Transit!Ended,
           FileSettings
  <1>2. \A u \in Uploads : UploadKept(u)
    BY DEF Transit!Init, UploadKept, Transit!Files
  <1>3. \A s \in Transit!Sweeps : SweepKept(s)
    BY DEF Transit!Init, SweepKept, EntryKept, Transit!Files
  <1>4. \A r \in Reads : ReadKept(r)
    BY DEF Transit!Init, ReadKept
  <1>5. \A d \in Deletes : DeleteKept(d)
    BY DEF Transit!Init, DeleteKept
  <1>6. QED
    BY <1>1, <1>2, <1>3, <1>4, <1>5 DEF FilesInv

\* Every step keeps it.
LEMMA FilesKept == FileSettings /\ FilesInv /\ [Transit!Next]_(Transit!vars) => FilesInv'
  <1> SUFFICES ASSUME FileSettings, FilesInv, [Transit!Next]_(Transit!vars) PROVE FilesInv'
    OBVIOUS
  <1>1. /\ Transit!TypeOK /\ (\A u \in Uploads : UploadKept(u))
              /\ (\A s \in Transit!Sweeps : SweepKept(s))
        /\ (\A r \in Reads : ReadKept(r)) /\ (\A d \in Deletes : DeleteKept(d))
    BY DEF FilesInv
  <1>2. Transit!TypeOK'
    BY <1>1, FileTypesKept
  <1>3. \A u \in Uploads : UploadKept(u)'
    BY <1>1, <1>2, UploadsKept
  <1>4. \A s \in Transit!Sweeps : SweepKept(s)'
    BY <1>1, <1>2, SweepsKept
  <1>5. \A r \in Reads : ReadKept(r)'
    BY <1>1, <1>2, ReadsKept
  <1>6. \A d \in Deletes : DeleteKept(d)'
    BY <1>1, DeletesKept
  <1>7. QED
    BY <1>2, <1>3, <1>4, <1>5, <1>6 DEF FilesInv

\* It holds in every reachable state.
LEMMA FilesAlways == Transit!Spec => []FilesInv
  <1>1. FileSettings
    BY CompanyStoresAssumption, FilesGiven
  <1>2. QED
    BY <1>1, FilesInit, FilesKept, PTL DEF Transit!Spec

\* The files, uploads, sweeps, reads and deletions keep their types.
THEOREM FilesTypeCorrect == Transit!Spec => []Transit!TypeOK
  <1>1. FilesInv => Transit!TypeOK
    BY DEF FilesInv
  <1>2. QED
    BY <1>1, FilesAlways, PTL

\* Whoever asks for a file whose upload was answered gets it whole and under its
\* name, unless it is old enough to expire or somebody deletes it.
THEOREM ReadWhole == Transit!Spec => []ReadsAreWhole
  <1>1. FilesInv => ReadsAreWhole
    BY DEF FilesInv, ReadKept, ReadsAreWhole, Transit!ReadsAreWhole, Deleted
  <1>2. QED
    BY <1>1, FilesAlways, PTL

\* A sweep that is over has left nothing that was too old when it began, but for a
\* file that came in by a rename behind the sweep's back.
THEOREM SweptClear == Transit!Spec => []SweepClears
  <1>1. FilesInv => SweepClears
    <2> SUFFICES ASSUME FilesInv, NEW s \in Transit!Sweeps, Transit!Swept(s),
                        NEW n \in Transit!Files,
                        disk[n] # None, disk[n] < cutoff[s]
                 PROVE  n[1] = "file" /\ todo[s][<<"tmp", n[2]>>] # "unseen"
      BY DEF SweepClears, Transit!SweepClears
    <2>1. Transit!TypeOK /\ SweepKept(s) /\ todo[s][n] \in {"unseen", "done"}
      BY DEF FilesInv, Transit!Swept
    <2>2. disk[n] \in Nat /\ cutoff[s] \in Nat
      BY <2>1, CompanyStoresAssumption, FilesGiven
         DEF Transit!TypeOK, Transit!Times, FileSettings
    <2>3. QED
      BY <2>1, <2>2 DEF SweepKept, EntryKept
  <1>2. QED
    BY <1>1, FilesAlways, PTL

-------------------------------------------------------------------------------
(* Side by side                                                            *)

\* A behaviour of the run is one of every component's own specification.
LEMMA PartsMove ==
  MCSpec => Spec /\ Bindings!Spec /\ Org!Spec /\ Isolate!Spec /\ Transit!Spec
  <1>1. MCInit => Init /\ Bindings!Init /\ Org!Init /\ Isolate!Init /\ Transit!Init
    BY DEF MCInit
  <1>2. [MCNext]_<<part, vars, tokenVars, orgVars, isolateVars, transitVars>>
          => /\ [Next]_vars
             /\ [Bindings!Next]_(Bindings!vars)
             /\ [Org!Next]_(Org!vars)
             /\ [Isolate!Next]_(Isolate!vars)
             /\ [Transit!Next]_(Transit!vars)
    BY DEF MCNext, OAuthMoves, TokensMove, OrgMoves, IsolateMoves, FilesMove, tokenVars, orgVars,
           isolateVars, transitVars, Bindings!vars, Org!vars, Isolate!vars, Transit!vars,
           Org!historyVars
  <1>3. QED
    BY <1>1, <1>2, PTL
       DEF MCSpec, Spec, Bindings!Spec, Org!Spec, Isolate!Spec, Transit!Spec

\* Every component of the run keeps its types.
THEOREM TypesCorrect == MCSpec => []TypesOK
  <1>1. TypeOK /\ Bindings!TypeOK /\ Org!TypeOK /\ Isolate!TypeOK /\ Transit!TypeOK => TypesOK
    BY DEF TypesOK
  <1>2. QED
    BY <1>1, PartsMove, TypeCorrect, TokensTypeCorrect, OrgTypeCorrect, CacheTypeCorrect,
       FilesTypeCorrect, PTL

\* So do all other guarantees, whichever of them moves.
THEOREM SafeSideBySide ==
  MCSpec => /\ []OneCallbackPerState /\ []GrantsAreInTimeAndRecorded
            /\ []RevocationReachesAll /\ []DeactivatedKeepOnlySpared /\ RunsAsOwner
            /\ []PolicyMirroredUnlessCrossed /\ []SameVersionSamePolicy
            /\ []RetriesAfresh /\ NewerEntrySurvives
            /\ []ReadsAreWhole /\ []SweepClears
  BY PartsMove, StatesLetOneThrough, GrantsCorrect, RevocationReaches, DeactivatedAreCut,
     OwnersAreFound, MirrorFollows, VersionsTell, FailuresForgotten, NewerKept, ReadWhole,
     SweptClear, PTL
===============================================================================
