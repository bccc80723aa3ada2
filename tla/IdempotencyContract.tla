------------------------- MODULE IdempotencyContract -------------------------
(***************************************************************************)
(* What an Idempotency-Key promises its callers, with no clock and no      *)
(* table: at any time a key has at most one owner; only the owner may      *)
(* publish a result, once; and a result handed to anybody is the one the   *)
(* current owner of the key has published.  A key may be forgotten at any  *)
(* moment (when that is allowed is the business of the implementation),    *)
(* after which another request may come to own it.                         *)
(***************************************************************************)
CONSTANTS Requests, Keys, None

VARIABLES
    keyOf,      \* the key a request carries, None before it arrives
    owner,      \* the request that owns each key, None if it is free
    claimed,    \* requests that have owned their key
    published,  \* requests whose result is published under their key
    got         \* whose result each caller received, None if not (yet) any

vars == <<keyOf, owner, claimed, published, got>>

Init ==
    /\ keyOf = [r \in Requests |-> None]
    /\ owner = [k \in Keys |-> None]
    /\ claimed = {}
    /\ published = {}
    /\ got = [r \in Requests |-> None]

Ask(r) ==
    /\ keyOf[r] = None
    /\ \E k \in Keys : keyOf' = [keyOf EXCEPT ![r] = k]
    /\ UNCHANGED <<owner, claimed, published, got>>

\* The owners left when the keys of F have been forgotten.
Forgotten(F) == [k \in Keys |-> IF k \in F THEN None ELSE owner[k]]

Forget ==
    /\ \E F \in SUBSET Keys : owner' = Forgotten(F)
    /\ UNCHANGED <<keyOf, claimed, published, got>>

Claim(r) ==
    /\ keyOf[r] # None
    /\ r \notin claimed
    /\ \E F \in SUBSET Keys :
          /\ Forgotten(F)[keyOf[r]] = None
          /\ owner' = [Forgotten(F) EXCEPT ![keyOf[r]] = r]
    /\ claimed' = claimed \cup {r}
    /\ UNCHANGED <<keyOf, published, got>>

Publish(r) ==
    /\ keyOf[r] # None
    /\ owner[keyOf[r]] = r
    /\ r \notin published
    /\ published' = published \cup {r}
    /\ UNCHANGED <<keyOf, owner, claimed, got>>

\* The owner's caller receives the published result, even if it comes so late
\* that the key has been forgotten since.
Deliver(r) ==
    /\ r \in published
    /\ got[r] = None
    /\ got' = [got EXCEPT ![r] = r]
    /\ UNCHANGED <<keyOf, owner, claimed, published>>

\* A duplicate receives the result of the current owner; other keys may be
\* forgotten in the same step.
Replay(r) ==
    /\ keyOf[r] # None
    /\ r \notin claimed
    /\ got[r] = None
    /\ \E F \in SUBSET Keys : owner' = Forgotten(F)
    /\ owner'[keyOf[r]] \in published
    /\ got' = [got EXCEPT ![r] = owner'[keyOf[r]]]
    /\ UNCHANGED <<keyOf, claimed, published>>

Next ==
    \/ Forget
    \/ \E r \in Requests : Ask(r) \/ Claim(r) \/ Publish(r) \/ Deliver(r) \/ Replay(r)

Spec == Init /\ [][Next]_vars
===============================================================================
