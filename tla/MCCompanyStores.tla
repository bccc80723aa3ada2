-------------------------- MODULE MCCompanyStores --------------------------
(***************************************************************************)
(* Components that share no state, side by side for TLC: a behaviour       *)
(* chooses one of them at the start and leaves the others alone, so that   *)
(* their state spaces add up instead of multiplying.  OAuthFlow is the one *)
(* this module extends.                                                    *)
(***************************************************************************)
EXTENDS OAuthFlow

CONSTANTS
    Requests, Members, Tokens, Garbage,
    Writers,
    Callers, Keys, MaxBoots,
    Uploads, Reads, Deletes, TTL, MaxTime

VARIABLES
    part,  \* the component that moves
    tokens, issued, signedIn, off, gone, file, req, pc, data, bound, due, minter, spared, disturbed,
    policy, manifest, runtime, wpc, next, mirror, sync, fetched,
    crossed, raced, cut, unread, relaid, blank,
    slot, boots, key, state, waits, wants, failed,
    clock, disk, upload, born, cutoff, todo, read, rpc, name, deletion, dpc

tokenVars ==
    <<tokens, issued, signedIn, off, gone, file,
      req, pc, data, bound, due, minter, spared, disturbed>>
orgVars ==
    <<policy, manifest, runtime, wpc, next, mirror, sync, fetched,
      crossed, raced, cut, unread, relaid, blank>>
isolateVars == <<slot, boots, key, state, waits, wants, failed>>
transitVars ==
    <<clock, disk, upload, born, cutoff, todo, read, rpc, name, deletion, dpc>>

Bindings == INSTANCE RuntimeTokens
Org == INSTANCE OrgConfig
Isolate == INSTANCE IsolateCache
Transit == INSTANCE TransitFiles WITH now <- clock

ASSUME CompanyStoresAssumption ==
    /\ Bindings!ConstantsOK
    /\ Org!ConstantsOK
    /\ Isolate!ConstantsOK
    /\ Transit!ConstantsOK

Parts == {"oauth", "tokens", "org", "isolate", "files"}

MCInit ==
    /\ part \in Parts
    /\ Init
    /\ Bindings!Init
    /\ Org!Init
    /\ Isolate!Init
    /\ Transit!Init

OAuthMoves ==
    /\ part = "oauth" /\ Next
    /\ UNCHANGED <<part, tokenVars, orgVars, isolateVars, transitVars>>

TokensMove ==
    /\ part = "tokens" /\ Bindings!Next
    /\ UNCHANGED <<part, vars, orgVars, isolateVars, transitVars>>

OrgMoves ==
    /\ part = "org" /\ Org!Next
    /\ UNCHANGED <<part, vars, tokenVars, isolateVars, transitVars>>

IsolateMoves ==
    /\ part = "isolate" /\ Isolate!Next
    /\ UNCHANGED <<part, vars, tokenVars, orgVars, transitVars>>

FilesMove ==
    /\ part = "files" /\ Transit!Next
    /\ UNCHANGED <<part, vars, tokenVars, orgVars, isolateVars>>

MCNext == OAuthMoves \/ TokensMove \/ OrgMoves \/ IsolateMoves \/ FilesMove

MCSpec == MCInit /\ [][MCNext]_<<part, vars, tokenVars, orgVars, isolateVars, transitVars>>

-------------------------------------------------------------------------------
(* The properties of the instances, which are explained in their modules   *)

\* Every component keeps its types, in every behaviour of its own code.
TypesOK ==
    /\ TypeOK
    /\ Bindings!TypeOK
    /\ Org!TypeOK
    /\ Isolate!TypeOK
    /\ Transit!TypeOK

\* RuntimeTokens: a revocation reaches every token its member had.
RevocationReachesAll == Bindings!RevocationReachesAll
\* RuntimeTokens: what a deactivated member keeps is what a revocation has missed.
DeactivatedKeepOnlySpared == Bindings!DeactivatedKeepOnlySpared
\* RuntimeTokens: requests run as the member that minted or bound their token.
RunsAsOwner == Bindings!RunsAsOwner
\* OrgConfig: the runtime policy follows policy.json while writes do not overlap.
PolicyMirroredUnlessCrossed == Org!PolicyMirroredUnlessCrossed
\* OrgConfig: one version of the configuration stands for one policy.
SameVersionSamePolicy == Org!SameVersionSamePolicy
\* IsolateCache: a caller that was told of a failure does not meet it again.
RetriesAfresh == Isolate!RetriesAfresh
\* IsolateCache: a failure empties the slot only of its own entry.
NewerEntrySurvives == Isolate!NewerEntrySurvives
\* TransitFiles: a file can be read, whole and under its name, until it expires.
ReadsAreWhole == Transit!ReadsAreWhole
\* TransitFiles: a sweep leaves nothing that was too old when it began.
SweepClears == Transit!SweepClears
=============================================================================
