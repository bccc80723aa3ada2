--------------------------- MODULE MCGuardAndQueue ---------------------------
(***************************************************************************)
(* The concurrency guard and the disable store with its write queue, side  *)
(* by side for TLC: a behaviour chooses one of them at the start and       *)
(* leaves the other alone, so that their state spaces add up instead of    *)
(* multiplying.  They share no state, and both have liveness properties.   *)
(***************************************************************************)
EXTENDS ConcurrencyGuard

CONSTANTS Writers, Readers, Connections, Cold, None

VARIABLES part, file, cache, queue, pc, arg, data, answer, promised, raced, unread

disableVars == <<file, cache, queue, pc, arg, data, answer, promised, raced, unread>>

Disable == INSTANCE DisableStore WITH Keys <- Connections

ASSUME DisableStoreAssumption == Disable!ConstantsOK

MCInit ==
    /\ part \in {"guard", "disable"}
    /\ Init
    /\ Disable!Init

GuardMoves == part = "guard" /\ Next /\ UNCHANGED <<part, disableVars>>
DisableMoves == part = "disable" /\ Disable!Next /\ UNCHANGED <<part, vars>>

MCNext == GuardMoves \/ DisableMoves

\* What is fair of one component says nothing where the other one moves: there it
\* has nothing to do.
MCSpec == MCInit /\ [][MCNext]_<<part, vars, disableVars>> /\ Fairness /\ Disable!Fairness

-------------------------------------------------------------------------------
\* DisableStore keeps its types.
DisableTypeOK == Disable!TypeOK
\* DisableStore: a set is only ever wiped by a load of the file that comes back
\* late or fails.
WipedOnlyByBadLoad == Disable!WipedOnlyByBadLoad
\* DisableStore: a set that is queued comes to its end.
QueueDrains == Disable!QueueDrains
=============================================================================
