--------------------------- MODULE ConcurrencyGuard ---------------------------
(***************************************************************************)
(* The in-flight caps of the gateway (G0).  Every request that may execute *)
(* something (POST actions, proxy, MCP) takes a slot before its handler    *)
(* runs and gives it back in a finally block.  The guard keeps two plain   *)
(* counters, a global one and a Map from member key to count; nothing ties *)
(* them to the slots that are really held except the discipline of the     *)
(* release closure, whose own "released" flag makes it idempotent.         *)
(***************************************************************************)
EXTENDS Integers, FiniteSets

CONSTANTS
    Requests,        \* the requests the process can have in hand at once
    Members,         \* member keys: member id, token id, forwarded address
    NoMember,        \* a blank key: only the global cap applies
    OptMaxGlobal,    \* options.maxGlobal as given to the constructor
    OptMaxPerMember  \* options.maxPerMember as given to the constructor

ASSUME GuardAssumption ==
    /\ IsFiniteSet(Requests)
    /\ NoMember \notin Members
    /\ OptMaxGlobal \in Nat
    /\ OptMaxPerMember \in Nat

VARIABLES
    global,    \* requests in flight, as the guard counts them
    byMember,  \* the Map: its domain is the set of keys that have an entry
    slot,      \* what each request holds
    key        \* the member key each request came with

vars == <<global, byMember, slot, key>>

AtLeastOne(n) == IF n >= 1 THEN n ELSE 1
maxGlobal == AtLeastOne(OptMaxGlobal)
maxPerMember == AtLeastOne(OptMaxPerMember)

Keys == Members \cup {NoMember}
SlotStates == {"idle", "readOnly", "held", "released", "refusedGlobal", "refusedMember"}

MemberCount(k) == IF k \in DOMAIN byMember THEN byMember[k] ELSE 0

Held == {r \in Requests : slot[r] = "held"}
HeldBy(k) == {r \in Held : key[r] = k}

Init ==
    /\ global = 0
    /\ byMember = [k \in {} |-> 0]
    /\ slot = [r \in Requests |-> "idle"]
    /\ key = [r \in Requests |-> NoMember]

\* GET, HEAD and OPTIONS pass the middleware without touching the guard.
PassReadOnly(r) ==
    /\ slot[r] = "idle"
    /\ slot' = [slot EXCEPT ![r] = "readOnly"]
    /\ UNCHANGED <<global, byMember, key>>

\* Seeded fault: the cap is tested one too early.
GlobalFullEarly == global + 1 >= maxGlobal
GlobalFull == global >= maxGlobal
MemberFull(k) == k # NoMember /\ MemberCount(k) >= maxPerMember

Refuse(r, k) ==
    /\ slot[r] = "idle"
    /\ \/ /\ GlobalFull
          /\ slot' = [slot EXCEPT ![r] = "refusedGlobal"]
       \/ /\ ~GlobalFull
          /\ MemberFull(k)
          /\ slot' = [slot EXCEPT ![r] = "refusedMember"]
    /\ key' = [key EXCEPT ![r] = k]
    /\ UNCHANGED <<global, byMember>>

\* Seeded fault: a blank key is counted like any other.
CountedBlankToo(k) ==
    [m \in DOMAIN byMember \cup {k} |-> IF m = k THEN MemberCount(k) + 1 ELSE byMember[m]]

\* The Map after the count of k went up by one.
Counted(k) ==
    IF k = NoMember
      THEN byMember
      ELSE [m \in DOMAIN byMember \cup {k} |-> IF m = k THEN MemberCount(k) + 1 ELSE byMember[m]]

Admit(r, k) ==
    /\ slot[r] = "idle"
    /\ ~GlobalFull
    /\ ~MemberFull(k)
    /\ global' = global + 1
    /\ byMember' = Counted(k)
    /\ slot' = [slot EXCEPT ![r] = "held"]
    /\ key' = [key EXCEPT ![r] = k]

\* The Map after the count of k went down by one; a count of zero is deleted,
\* and a missing entry counts as one.
Uncounted(k) ==
    LET next == (IF k \in DOMAIN byMember THEN byMember[k] ELSE 1) - 1
    IN  CASE k = NoMember -> byMember
          [] k # NoMember /\ next <= 0 -> [m \in DOMAIN byMember \ {k} |-> byMember[m]]
          [] OTHER -> [m \in DOMAIN byMember \cup {k} |-> IF m = k THEN next ELSE byMember[m]]

\* Seeded fault: the slot is given back but the counter stays.
NotLowered(n) == n
Lowered(n) == IF n > 0 THEN n - 1 ELSE 0

\* Seeded fault: the closure has no flag, each call counts.
FlagForgotten(r) == FALSE
AlreadyReleased(r) == slot[r] = "released"

\* The release closure, called once by the middleware's finally block (the
\* handler settled, with a response or an exception) and then, by a caller who
\* kept it, any number of times.
Release(r) ==
    /\ slot[r] \in {"held", "released"}
    /\ IF AlreadyReleased(r)
         THEN UNCHANGED <<global, byMember, slot>>
         ELSE /\ global' = Lowered(global)
              /\ byMember' = Uncounted(key[r])
              /\ slot' = [slot EXCEPT ![r] = "released"]
    /\ UNCHANGED key

\* The response is sent and the request object is gone.
Answer(r) ==
    /\ slot[r] \in {"readOnly", "released", "refusedGlobal", "refusedMember"}
    /\ slot' = [slot EXCEPT ![r] = "idle"]
    /\ UNCHANGED <<global, byMember, key>>

Next ==
    \E r \in Requests :
        \/ PassReadOnly(r)
        \/ \E k \in Keys : Refuse(r, k)
        \/ \E k \in Keys : Admit(r, k)
        \/ Release(r)
        \/ Answer(r)

\* A handler settles (every await in it has a timeout or a peer that answers),
\* and finally runs whatever the outcome: a held slot is eventually released.
Fairness == \A r \in Requests : WF_vars(Release(r))

Spec == Init /\ [][Next]_vars
FairSpec == Spec /\ Fairness

-------------------------------------------------------------------------------
TypeOK ==
    /\ global \in Nat
    /\ DOMAIN byMember \subseteq Members
    /\ byMember \in [DOMAIN byMember -> Nat]
    /\ slot \in [Requests -> SlotStates]
    /\ key \in [Requests -> Keys]

\* The two counters agree with the slots that are really held, and the Map has
\* an entry for exactly the keys that hold one (it does not grow without bound).
CountersMatchSlots ==
    /\ global = Cardinality(Held)
    /\ \A k \in Members : MemberCount(k) = Cardinality(HeldBy(k))
    /\ DOMAIN byMember = {k \in Members : HeldBy(k) # {}}

\* What the caps are for: the executions really in flight, counted from the
\* slots and not from the guard's own counters, stay within both limits.
CapsRespected ==
    /\ Cardinality(Held) <= maxGlobal
    /\ \A k \in Members : Cardinality(HeldBy(k)) <= maxPerMember

\* A 429 is never spurious: when a request is refused, the slots really held
\* fill the cap it was refused for, and the member's own cap is only blamed
\* when the gateway as a whole still had room.
RefusedOnlyWhenFull ==
    [][\A r \in Requests :
         /\ (slot[r] = "idle" /\ slot'[r] = "refusedGlobal") => Cardinality(Held) = maxGlobal
         /\ (slot[r] = "idle" /\ slot'[r] = "refusedMember") =>
               /\ Cardinality(Held) < maxGlobal
               /\ Cardinality(HeldBy(key'[r])) = maxPerMember]_vars

\* Capacity comes back: whatever the arrivals, the gateway never stays closed
\* for good, neither as a whole nor for one member.
CapacityReturns ==
    /\ []<>(global < maxGlobal)
    /\ \A k \in Members : []<>(MemberCount(k) < maxPerMember)
===============================================================================
