------------------------------ MODULE OrgConfig ------------------------------
(***************************************************************************)
(* OrgConfigStore with the policy section, the manifest that numbers its   *)
(* versions, the runtime policy it is mirrored into, and a desktop that    *)
(* keeps a copy by version.  A write of the policy rewrites policy.json in *)
(* place, then reads the manifest and rewrites it with the next version,   *)
(* then sets the runtime policy; nothing orders two writes.  A file that   *)
(* does not parse, or that cannot be read, counts as its default, and the  *)
(* layout, which every operation lays first, writes the default over a     *)
(* file that it cannot find.  The other sections are written alike,        *)
(* without a mirror; importBundle is the same with several sections before *)
(* one new version.                                                        *)
(***************************************************************************)
EXTENDS Naturals, FiniteSets

CONSTANTS
    Writers,  \* requests that write the policy, numbered as they come in; the
              \* number is also the policy a request brings
    Garbage   \* a text that does not parse, the empty one too

ConstantsOK ==
    /\ IsFiniteSet(Writers) /\ Writers \subseteq Nat \ {0}
    /\ Garbage \notin Nat

VARIABLES
    policy,    \* policy.json: the number of a policy, or Garbage
    manifest,  \* manifest.json: the version, or Garbage
    runtime,   \* the runtime policy that actions are checked against
    wpc,       \* where each write is
    next,      \* the version each write is about to store
    mirror,    \* the desktop's copy: a version and a policy
    sync,      \* where the desktop's synchronisation is
    fetched,   \* the version of the snapshot it is reading
    crossed,   \* history: two writes have been under way at once
    raced,     \* history: a version has been read while another was being stored
    cut,       \* history: a write has ended before its last step
    unread,    \* history: a write has numbered itself without the version that is stored
    relaid,    \* history: the layout has replaced a file that was there
    blank      \* the policy in the desktop's copy is {} because its file was not read

historyVars == <<crossed, raced, cut, unread, relaid>>
vars == <<policy, manifest, runtime, wpc, next, mirror, sync, fetched, blank, historyVars>>

Policies == Writers \cup {0}
Versions == 0 .. Cardinality(Writers)
WriteSteps == {"new", "opening", "writing", "written", "bumping", "emptied", "bumped", "done"}
SyncSteps == {"idle", "stale", "reading"}

\* What a text says, and what readJsonFile makes of the file: the default, 0, also
\* when the file cannot be read.
PolicyIn(text) == IF text = Garbage THEN 0 ELSE text
VersionIn(text) == IF text = Garbage THEN 0 ELSE text
ReadingsOfPolicy == {PolicyIn(policy), 0}
ReadingsOfManifest == {VersionIn(manifest), 0}

Init ==
    /\ policy = 0
    /\ manifest = 0
    /\ runtime = 0
    /\ wpc = [w \in Writers |-> "new"]
    /\ next = [w \in Writers |-> 0]
    /\ mirror = [version |-> 0, policy |-> 0]
    /\ sync = "idle"
    /\ fetched = 0
    /\ crossed = FALSE /\ raced = FALSE /\ cut = FALSE
    /\ unread = FALSE /\ relaid = FALSE
    /\ blank = FALSE

UnderWay(w) == wpc[w] \notin {"new", "done"}
Quiet == \A w \in Writers : ~UnderWay(w)

desktopVars == <<mirror, sync, fetched, blank>>

-------------------------------------------------------------------------------
(* putSection, and the route's mirror                                      *)

Goto(w, step) == wpc' = [wpc EXCEPT ![w] = step]

Arrive(w) ==
    /\ wpc[w] = "new"
    /\ \A v \in Writers : v < w => wpc[v] # "new"
    /\ Goto(w, "opening")
    /\ crossed' = (crossed \/ ~Quiet)
    /\ UNCHANGED <<policy, manifest, runtime, next, raced, cut, unread, relaid, desktopVars>>

EmptyPolicy(w) ==
    /\ wpc[w] = "opening"
    /\ policy' = Garbage
    /\ Goto(w, "writing")
    /\ UNCHANGED <<manifest, runtime, next, historyVars, desktopVars>>

\* A body written over another one's leaves the end of it if that is longer.
WritePolicy(w) ==
    /\ wpc[w] = "writing"
    /\ policy' \in {w} \cup (IF policy = Garbage THEN {} ELSE {Garbage})
    /\ Goto(w, "written")
    /\ UNCHANGED <<manifest, runtime, next, historyVars, desktopVars>>

\* Seeded fault: the version stays.
SameVersion(version) == version
Bumped(version) == version + 1

\* After a read that fails the versions start again at 1.
ReadManifest(w) ==
    /\ wpc[w] = "written"
    /\ \E seen \in ReadingsOfManifest :
          /\ next' = [next EXCEPT ![w] = Bumped(seen)]
          /\ unread' = (unread \/ seen # VersionIn(manifest))
    /\ raced' = (raced \/ \E v \in Writers \ {w} : wpc[v] \in {"bumping", "emptied"})
    /\ Goto(w, "bumping")
    /\ UNCHANGED <<policy, manifest, runtime, crossed, cut, relaid, desktopVars>>

EmptyManifest(w) ==
    /\ wpc[w] = "bumping"
    /\ manifest' = Garbage
    /\ Goto(w, "emptied")
    /\ UNCHANGED <<policy, runtime, next, historyVars, desktopVars>>

\* All manifests are of one length while the version has one digit.
WriteManifest(w) ==
    /\ wpc[w] = "emptied"
    /\ manifest' = next[w]
    /\ Goto(w, "bumped")
    /\ UNCHANGED <<policy, runtime, next, historyVars, desktopVars>>

\* Seeded fault: one of the routes forgets the mirror.
MirrorsNothing(w) == UNCHANGED runtime
MirrorsBody(w) == runtime' = w

\* onOrgPolicyWrite, with the body of the request.
Mirror(w) ==
    /\ wpc[w] = "bumped"
    /\ MirrorsBody(w)
    /\ Goto(w, "done")
    /\ UNCHANGED <<policy, manifest, next, historyVars, desktopVars>>

\* A file or the database fails: the request ends in an error, and what it has
\* written stays.
Fails(w) ==
    /\ UnderWay(w)
    /\ Goto(w, "done")
    /\ cut' = TRUE
    /\ UNCHANGED <<policy, manifest, runtime, next, crossed, raced, unread, relaid, desktopVars>>

Restart ==
    /\ ~Quiet
    /\ wpc' = [w \in Writers |-> IF UnderWay(w) THEN "done" ELSE wpc[w]]
    /\ cut' = TRUE
    /\ UNCHANGED <<policy, manifest, runtime, next, crossed, raced, unread, relaid, desktopVars>>

\* ensureOrgConfigLayout, in any operation at any time: the default is written over
\* what is there when pathExists takes an error for a missing file, or when, on first
\* use, another request has laid the file and written it since pathExists looked.
LayPolicy ==
    /\ policy' = 0
    /\ relaid' = TRUE
    /\ UNCHANGED <<manifest, runtime, wpc, next, crossed, raced, cut, unread, desktopVars>>

LayManifest ==
    /\ manifest' = 0
    /\ relaid' = TRUE
    /\ UNCHANGED <<policy, runtime, wpc, next, crossed, raced, cut, unread, desktopVars>>

-------------------------------------------------------------------------------
(* docs/onmycompany/DESKTOP-CONTRACT.md: fetch the configuration when its  *)
(* version is not that of the copy                                         *)

serverVars == <<policy, manifest, runtime, wpc, next, historyVars>>

CheckManifest ==
    /\ sync = "idle"
    /\ \E seen \in ReadingsOfManifest : seen # mirror.version
    /\ sync' = "stale"
    /\ UNCHANGED <<mirror, fetched, blank, serverVars>>

\* getSnapshot: the manifest first, then the sections.
SnapshotVersion ==
    /\ sync = "stale"
    /\ fetched' \in ReadingsOfManifest
    /\ sync' = "reading"
    /\ UNCHANGED <<mirror, blank, serverVars>>

SnapshotPolicy ==
    /\ sync = "reading"
    /\ \E seen \in ReadingsOfPolicy :
          /\ mirror' = [version |-> fetched, policy |-> seen]
          /\ blank' = (seen # PolicyIn(policy))
    /\ sync' = "idle"
    /\ UNCHANGED <<fetched, serverVars>>

Next ==
    \/ \E w \in Writers :
          \/ Arrive(w) \/ EmptyPolicy(w) \/ WritePolicy(w) \/ ReadManifest(w)
          \/ EmptyManifest(w) \/ WriteManifest(w) \/ Mirror(w) \/ Fails(w)
    \/ CheckManifest \/ SnapshotVersion \/ SnapshotPolicy
    \/ LayPolicy \/ LayManifest
    \/ Restart

Spec == Init /\ [][Next]_vars

-------------------------------------------------------------------------------
TypeOK ==
    /\ policy \in Policies \cup {Garbage}
    /\ manifest \in Versions \cup {Garbage}
    /\ runtime \in Policies
    /\ wpc \in [Writers -> WriteSteps]
    /\ next \in [Writers -> Versions]
    /\ mirror \in [version : Versions, policy : Policies]
    /\ sync \in SyncSteps
    /\ fetched \in Versions
    /\ {crossed, raced, cut, unread, relaid, blank} \subseteq BOOLEAN

\* docs/onmycompany/CONFIG-SCHEMA.md: a write of the policy stores policy.json and
\* the runtime policy in one transaction.  So once the requests are answered the
\* runtime policy is the one in the file.
PolicyMirrored == Quiet => runtime = PolicyIn(policy)

\* It is so as long as no two writes overlap, none ends half way, and the layout
\* leaves the files alone.
PolicyMirroredUnlessCrossed == crossed \/ cut \/ relaid \/ PolicyMirrored

\* A desktop whose copy has the current version has the current policy, although
\* it may read in the middle of a write, and although writes may overlap: a write
\* stores its policy before it takes its version.  Only these let one version stand
\* for two policies: a version lost to another write, or taken without reading the
\* last one; a write that ends half way; a file lost to the layout; and a copy made
\* while policy.json could not be read, which stays until the version changes.
SameVersionSamePolicy ==
    \/ raced \/ cut \/ unread \/ relaid \/ blank
    \/ Quiet /\ mirror.version = VersionIn(manifest) => mirror.policy = PolicyIn(policy)
===============================================================================
