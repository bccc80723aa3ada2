------------------------------ MODULE OAuthFlow ------------------------------
(***************************************************************************)
(* OAuthFlowService for one service: authorizations started with the       *)
(* configured OAuth client, the states kept for them in oauth_states, the  *)
(* callbacks that browsers bring back, and the exchange of the code at the *)
(* provider.  A state is taken, row and all, before its code is exchanged; *)
(* so a callback that is repeated, or fails, cannot be tried again.  The   *)
(* provider grants a code to one client and accepts it once.               *)
(***************************************************************************)
EXTENDS Naturals

CONSTANTS
    Flows,      \* started authorizations, each with a state of its own
    Clients,    \* OAuth clients an administrator may configure
    Callbacks,  \* callback requests, numbered as they come in
    MaxAge,     \* how long a state is good for, in ticks
    None

ASSUME OAuthFlowAssumption ==
    /\ Callbacks \subseteq Nat
    /\ MaxAge \in Nat
    /\ None \notin Clients \cup Flows \cup Nat

VARIABLES
    now,      \* ticks, up to one past the age of the first state
    config,   \* the configured client, or None
    states,   \* oauth_states: when each pending authorization began, or None
    began,    \* history: when each authorization began, or None
    asked,    \* the client that each authorization URL names, or None
    codes,    \* the code the provider has granted for each flow: "none",
              \* "granted" or "spent"
    cb,       \* where each callback is
    flow,     \* the flow whose state and code it brings
    client,   \* the client it has found configured, or None
    takenAt,  \* history: when it took its state
    stored    \* history: the grants stored, with the callback, the flow and the
              \* client that is recorded in them

vars == <<now, config, states, began, asked, codes, cb, flow, client, takenAt, stored>>

Times == 0 .. MaxAge + 1

Init ==
    /\ now = 0
    /\ config = None
    /\ states = [f \in Flows |-> None]
    /\ began = [f \in Flows |-> None]
    /\ asked = [f \in Flows |-> None]
    /\ codes = [f \in Flows |-> "none"]
    /\ cb = [k \in Callbacks |-> "new"]
    /\ flow = [k \in Callbacks |-> None]
    /\ client = [k \in Callbacks |-> None]
    /\ takenAt = [k \in Callbacks |-> 0]
    /\ stored = {}

Tick ==
    /\ now < MaxAge + 1
    /\ now' = now + 1
    /\ UNCHANGED <<config, states, began, asked, codes, cb, flow, client, takenAt, stored>>

\* upsertConfig and deleteConfig
Configure ==
    /\ \E c \in (Clients \cup {None}) \ {config} : config' = c
    /\ UNCHANGED <<now, states, began, asked, codes, cb, flow, client, takenAt, stored>>

\* startAuthorization: the URL names the client configured now; without one, none
\* is given.
Start(f) ==
    /\ began[f] = None
    /\ config # None
    /\ states' = [states EXCEPT ![f] = now]
    /\ began' = [began EXCEPT ![f] = now]
    /\ asked' = [asked EXCEPT ![f] = config]
    /\ UNCHANGED <<now, config, codes, cb, flow, client, takenAt, stored>>

\* External: the user consents at the provider, which sends the browser back.
Consent(f) ==
    /\ began[f] # None
    /\ codes[f] = "none"
    /\ codes' = [codes EXCEPT ![f] = "granted"]
    /\ UNCHANGED <<now, config, states, began, asked, cb, flow, client, takenAt, stored>>

-------------------------------------------------------------------------------
(* completeAuthorization                                                   *)

Goto(k, step) == cb' = [cb EXCEPT ![k] = step]

\* Seeded fault: the state stays in the table.
Peeked(f) == states
Taken(f) == [states EXCEPT ![f] = None]

\* Seeded fault: the age does not count.
AnyAge(at) == FALSE
Expired(at) == now - at > MaxAge

\* A browser comes back with a flow's state and code, once or more than once.
Take(k) ==
    /\ cb[k] = "new"
    /\ \A j \in Callbacks : j < k => cb[j] # "new"
    /\ \E f \in Flows :
          /\ codes[f] # "none"
          /\ states' = Taken(f)
          /\ flow' = [flow EXCEPT ![k] = f]
          /\ Goto(k, IF states[f] = None \/ Expired(states[f]) THEN "failed" ELSE "taken")
    /\ takenAt' = [takenAt EXCEPT ![k] = now]
    /\ UNCHANGED <<now, config, began, asked, codes, client, stored>>

FindClient(k) ==
    /\ cb[k] = "taken"
    /\ client' = [client EXCEPT ![k] = config]
    /\ Goto(k, IF config = None THEN "failed" ELSE "exchanging")
    /\ UNCHANGED <<now, config, states, began, asked, codes, flow, takenAt, stored>>

\* The provider's answer may be lost after it has spent the code.
Exchange(k) ==
    /\ cb[k] = "exchanging"
    /\ IF codes[flow[k]] = "granted" /\ client[k] = asked[flow[k]]
         THEN /\ codes' = [codes EXCEPT ![flow[k]] = "spent"]
              /\ \E step \in {"exchanged", "failed"} : Goto(k, step)
         ELSE Goto(k, "failed") /\ UNCHANGED codes
    /\ UNCHANGED <<now, config, states, began, asked, flow, client, takenAt, stored>>

\* Seeded fault: the grant is recorded with the client configured by now.
ConfiguredByNow(k) == config
Recorded(k) == client[k]

\* setOAuthCredential, which may fail on an unknown provider or a failed write.
Store(k) ==
    /\ cb[k] = "exchanged"
    /\ \/ /\ stored' = stored \cup {[by |-> k, flow |-> flow[k], client |-> Recorded(k)]}
          /\ Goto(k, "stored")
       \/ Goto(k, "failed") /\ UNCHANGED stored
    /\ UNCHANGED <<now, config, states, began, asked, codes, flow, client, takenAt>>

Restart ==
    /\ \E k \in Callbacks : cb[k] \notin {"new", "failed", "stored"}
    /\ cb' = [k \in Callbacks |-> IF cb[k] \in {"new", "stored"} THEN cb[k] ELSE "failed"]
    /\ UNCHANGED <<now, config, states, began, asked, codes, flow, client, takenAt, stored>>

Next ==
    \/ \E k \in Callbacks : Take(k) \/ FindClient(k) \/ Exchange(k) \/ Store(k)
    \/ \E f \in Flows : Start(f) \/ Consent(f)
    \/ Tick \/ Configure \/ Restart

Spec == Init /\ [][Next]_vars

-------------------------------------------------------------------------------
TypeOK ==
    /\ now \in Times
    /\ config \in Clients \cup {None}
    /\ states \in [Flows -> Times \cup {None}]
    /\ began \in [Flows -> Times \cup {None}]
    /\ asked \in [Flows -> Clients \cup {None}]
    /\ codes \in [Flows -> {"none", "granted", "spent"}]
    /\ cb \in [Callbacks -> {"new", "taken", "exchanging", "exchanged", "stored", "failed"}]
    /\ flow \in [Callbacks -> Flows \cup {None}]
    /\ client \in [Callbacks -> Clients \cup {None}]
    /\ takenAt \in [Callbacks -> Times]
    /\ stored \subseteq [by : Callbacks, flow : Flows, client : Clients \cup {None}]

\* A state lets one callback through, however often the browser brings it back,
\* and whatever became of that callback: no other one, before, at the same time or
\* after, is at work on or has stored the same authorization.
OneCallbackPerState ==
    \A j, k \in Callbacks :
       /\ {cb[j], cb[k]} \subseteq {"taken", "exchanging", "exchanged", "stored"}
       /\ flow[j] = flow[k]
       => j = k

\* A grant is stored only for an authorization whose callback came in time, and it
\* records the client that its code was granted to, although the administrator may
\* change the client while the browser is away and while the code is exchanged.
GrantsAreInTimeAndRecorded ==
    \A g \in stored :
       /\ takenAt[g.by] - began[g.flow] <= MaxAge
       /\ g.client = asked[g.flow]
===============================================================================
