----------------------------- MODULE IsolateCache -----------------------------
(***************************************************************************)
(* IsolatePromiseCache, the one-slot cache in which an isolate of the      *)
(* Workers build keeps a booted application, by configuration and origin.  *)
(* A caller gets the promise in the slot if it is for its key, and         *)
(* otherwise starts to boot and puts the new promise there.  A promise     *)
(* that is rejected is dropped by a reaction registered before anybody     *)
(* else could wait for it, so it runs before the callers are answered.     *)
(***************************************************************************)
EXTENDS Naturals

CONSTANTS
    Callers,   \* requests
    Keys,
    MaxBoots,  \* how often something is booted
    None

ConstantsOK ==
    /\ MaxBoots \in Nat
    /\ None \notin Keys

VARIABLES
    slot,    \* the entry in the cache, or 0
    boots,   \* entries created so far
    key,     \* the key of each entry
    state,   \* how its promise stands; "evicted" when its reaction has run
    waits,   \* the entry each caller waits for, or 0
    wants,   \* the key it asked for
    failed   \* history: entries whose failure each caller has been told of

vars == <<slot, boots, key, state, waits, wants, failed>>

Entries == 1 .. MaxBoots
States == {"none", "pending", "fulfilled", "rejected", "evicted"}

Init ==
    /\ slot = 0
    /\ boots = 0
    /\ key = [e \in Entries |-> None]
    /\ state = [e \in Entries |-> "none"]
    /\ waits = [c \in Callers |-> 0]
    /\ wants = [c \in Callers |-> None]
    /\ failed = [c \in Callers |-> {}]

\* Seeded fault: the slot is taken whatever its key.
AnyHit(k) == slot # 0
Hit(k) == slot # 0 /\ key[slot] = k

Join(c, k) ==
    /\ waits[c] = 0
    /\ Hit(k)
    /\ waits' = [waits EXCEPT ![c] = slot]
    /\ wants' = [wants EXCEPT ![c] = k]
    /\ UNCHANGED <<slot, boots, key, state, failed>>

Boot(c, k) ==
    /\ waits[c] = 0
    /\ ~Hit(k)
    /\ boots < MaxBoots
    /\ boots' = boots + 1
    /\ slot' = boots + 1
    /\ key' = [key EXCEPT ![boots + 1] = k]
    /\ state' = [state EXCEPT ![boots + 1] = "pending"]
    /\ waits' = [waits EXCEPT ![c] = boots + 1]
    /\ wants' = [wants EXCEPT ![c] = k]
    /\ UNCHANGED failed

Settle(e) ==
    /\ state[e] = "pending"
    /\ \E outcome \in {"fulfilled", "rejected"} : state' = [state EXCEPT ![e] = outcome]
    /\ UNCHANGED <<slot, boots, key, waits, wants, failed>>

\* Seeded fault: whatever is in the slot goes.
Owns(e) == TRUE
OwnsSlot(e) == slot = e

\* The first reaction to a rejection.
Evict(e) ==
    /\ state[e] = "rejected"
    /\ state' = [state EXCEPT ![e] = "evicted"]
    /\ slot' = IF OwnsSlot(e) THEN 0 ELSE slot
    /\ UNCHANGED <<boots, key, waits, wants, failed>>

\* Seeded fault: callers hear of a rejection before the slot is emptied.
Told(e) == state[e] \in {"fulfilled", "rejected", "evicted"}
Answered(e) == state[e] \in {"fulfilled", "evicted"}

Answer(c) ==
    /\ waits[c] # 0
    /\ Answered(waits[c])
    /\ waits' = [waits EXCEPT ![c] = 0]
    /\ wants' = [wants EXCEPT ![c] = None]
    /\ failed' = IF state[waits[c]] = "fulfilled" THEN failed
                                                  ELSE [failed EXCEPT ![c] = @ \cup {waits[c]}]
    /\ UNCHANGED <<slot, boots, key, state>>

Next ==
    \/ \E c \in Callers : Answer(c) \/ \E k \in Keys : Join(c, k) \/ Boot(c, k)
    \/ \E e \in Entries : Settle(e) \/ Evict(e)

Spec == Init /\ [][Next]_vars

-------------------------------------------------------------------------------
TypeOK ==
    /\ slot \in 0 .. boots
    /\ boots \in 0 .. MaxBoots
    /\ key \in [Entries -> Keys \cup {None}]
    /\ state \in [Entries -> States]
    /\ \A e \in Entries : e > boots <=> state[e] = "none"
    /\ waits \in [Callers -> 0 .. boots]
    /\ wants \in [Callers -> Keys \cup {None}]
    /\ failed \in [Callers -> SUBSET Entries]

\* isolate-promise-cache.ts: a rejected promise is not kept, so "the next request
\* retries".  A caller that was told of a failure and asks again never gets the
\* promise that failed, and nobody waits for one made for another key.
RetriesAfresh ==
    \A c \in Callers : waits[c] # 0 => waits[c] \notin failed[c] /\ key[waits[c]] = wants[c]

\* "A different key may have replaced it while the promise was in flight, and that
\* newer entry must survive": the slot is emptied only of an entry that failed, and
\* what works is only replaced for another key.
NewerEntrySurvives ==
    [][slot # 0 /\ slot' # slot =>
          IF slot' = 0 THEN state[slot] = "rejected" ELSE key'[slot'] # key[slot]]_vars
===============================================================================
