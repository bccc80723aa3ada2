--------------------------- MODULE OAuthFlowProofs ---------------------------
(***************************************************************************)
(* A state lets one callback through, and the grant that comes of it is in *)
(* time and recorded with the client that asked for it: for any number of  *)
(* authorizations, clients and callbacks and any age.  The argument is     *)
(* that a state still in the table has let nobody through, so who takes it *)
(* is the first; and that the provider only answers the client it granted  *)
(* the code to.                                                            *)
(***************************************************************************)
EXTENDS OAuthFlow, TLAPS

Through == {"taken", "exchanging", "exchanged", "stored"}

\* A state that is still there is as old as its authorization, and no callback
\* has got through with it.
StatesUntaken ==
    \A f \in Flows :
       states[f] # None =>
          /\ states[f] = began[f]
          /\ \A k \in Callbacks : cb[k] \in Through => flow[k] # f

\* A callback that has got through came in time.
ThroughInTime ==
    \A k \in Callbacks :
       cb[k] \in Through =>
          /\ flow[k] \in Flows
          /\ began[flow[k]] \in Nat
          /\ takenAt[k] - began[flow[k]] <= MaxAge

\* A code has been exchanged by the client that asked for it.
ExchangedByAsker ==
    \A k \in Callbacks : cb[k] = "exchanged" => client[k] = asked[flow[k]]

\* A grant is the work of a callback that has come to its end.
GrantsHaveCallback ==
    \A g \in stored :
       /\ cb[g.by] = "stored"
       /\ flow[g.by] = g.flow
       /\ g.client = asked[g.flow]

IInv ==
    /\ TypeOK
    /\ OneCallbackPerState
    /\ StatesUntaken
    /\ ThroughInTime
    /\ ExchangedByAsker
    /\ GrantsHaveCallback

-------------------------------------------------------------------------------
\* The initial states satisfy the invariant.
LEMMA InitEstablishes == Init => IInv
  BY OAuthFlowAssumption
  DEF Init, IInv, TypeOK, Times, OneCallbackPerState, StatesUntaken, ThroughInTime,
      ExchangedByAsker, GrantsHaveCallback, Through

\* A grant that is stored had a callback let through in time.
LEMMA GrantsFollow == IInv => GrantsAreInTimeAndRecorded
  BY DEF IInv, TypeOK, GrantsAreInTimeAndRecorded, GrantsHaveCallback, ThroughInTime, Through

\* The types, by action.
LEMMA TypesKept == ASSUME IInv, [Next]_vars PROVE TypeOK'
  <1>0. TypeOK /\ ThroughInTime
    BY DEF IInv
  <1> USE <1>0, OAuthFlowAssumption DEF TypeOK, Times
  <1>1. CASE UNCHANGED vars
    BY <1>1 DEF vars
  <1>2. ASSUME NEW k \in Callbacks, Take(k) PROVE TypeOK'
    BY <1>2 DEF Take, Taken, Goto
  <1>3. ASSUME NEW k \in Callbacks, FindClient(k) PROVE TypeOK'
    BY <1>3 DEF FindClient, Goto
  <1>4. ASSUME NEW k \in Callbacks, Exchange(k) PROVE TypeOK'
    BY <1>4 DEF Exchange, Goto
  <1>5. ASSUME NEW k \in Callbacks, Store(k) PROVE TypeOK'
    BY <1>5 DEF Store, Goto, Recorded, ThroughInTime, Through
  <1>6. ASSUME NEW f \in Flows, Start(f) PROVE TypeOK'
    BY <1>6 DEF Start
  <1>7. ASSUME NEW f \in Flows, Consent(f) PROVE TypeOK'
    BY <1>7 DEF Consent
  <1>8. CASE Tick
    BY <1>8 DEF Tick
  <1>9. CASE Configure
    BY <1>9 DEF Configure
  <1>10. CASE Restart
    BY <1>10 DEF Restart
  <1>11. QED
    BY <1>1, <1>2, <1>3, <1>4, <1>5, <1>6, <1>7, <1>8, <1>9, <1>10 DEF Next

\* Where neither the table nor a callback moves, nothing the invariant says of
\* them changes, unless a grant is stored or an authorization begins.
LEMMA NothingMoves ==
  ASSUME IInv, TypeOK', UNCHANGED <<states, began, asked, cb, flow, client, takenAt, stored>>
  PROVE  IInv'
  BY DEF IInv, TypeOK, OneCallbackPerState, StatesUntaken, ThroughInTime,
         ExchangedByAsker, GrantsHaveCallback, Through

\* A new authorization keeps the invariant: nobody has come back for it yet.
LEMMA StartStep ==
  ASSUME IInv, TypeOK', NEW f \in Flows, Start(f)
  PROVE  IInv'
  <1> USE DEF IInv
  <1>1. \A k \in Callbacks : cb[k] \in Through => flow[k] # f
    BY OAuthFlowAssumption DEF ThroughInTime, Start
  <1>2. /\ UNCHANGED <<cb, flow, client, takenAt, stored>>
        /\ states' = [states EXCEPT ![f] = now]
        /\ began' = [began EXCEPT ![f] = now]
        /\ asked' = [asked EXCEPT ![f] = config]
    BY DEF Start
  <1>3. StatesUntaken'
    BY <1>1, <1>2 DEF StatesUntaken, TypeOK
  <1>4. ThroughInTime' /\ ExchangedByAsker'
    BY <1>1, <1>2 DEF ThroughInTime, ExchangedByAsker, Through, TypeOK
  <1>5. GrantsHaveCallback'
    BY <1>1, <1>2 DEF GrantsHaveCallback, Through, TypeOK
  <1>6. OneCallbackPerState'
    BY <1>2 DEF OneCallbackPerState
  <1>7. QED
    BY <1>3, <1>4, <1>5, <1>6

\* Whoever takes a state is the first one through.
LEMMA TakeStep ==
  ASSUME IInv, TypeOK', NEW k \in Callbacks, Take(k)
  PROVE  IInv'
  <1> USE DEF IInv
  <1>1. cb[k] = "new"
    BY DEF Take
  <1>2. PICK f \in Flows :
          /\ states' = [states EXCEPT ![f] = None]
          /\ flow' = [flow EXCEPT ![k] = f]
          /\ cb' = [cb EXCEPT ![k] = IF states[f] = None \/ Expired(states[f])
                                       THEN "failed" ELSE "taken"]
    BY DEF Take, Taken, Goto
  <1>3. takenAt' = [takenAt EXCEPT ![k] = now] /\ UNCHANGED <<began, asked, client, stored>>
    BY DEF Take
  <1>4. \A j \in Callbacks \ {k} :
           cb'[j] = cb[j] /\ flow'[j] = flow[j] /\ takenAt'[j] = takenAt[j]
    BY <1>2, <1>3 DEF TypeOK
  <1>5. flow'[k] = f /\ takenAt'[k] = now /\ cb'[k] \in {"taken", "failed"}
    BY <1>2, <1>3 DEF TypeOK
  <1>6. ASSUME cb'[k] = "taken"
        PROVE  /\ states[f] # None
               /\ now - states[f] <= MaxAge
    <2>1. states[f] # None /\ ~Expired(states[f])
      BY <1>2, <1>6 DEF TypeOK
    <2>2. states[f] \in Nat /\ now \in Nat /\ MaxAge \in Nat
      BY <2>1, OAuthFlowAssumption DEF TypeOK, Times
    <2>3. QED
      BY <2>1, <2>2 DEF Expired
  <1>7. StatesUntaken'
    BY <1>2, <1>3, <1>4, <1>5 DEF StatesUntaken, Through, TypeOK
  <1>8. ThroughInTime'
    <2>1. ASSUME cb'[k] = "taken"
          PROVE  began[f] \in Nat /\ now - began[f] <= MaxAge
      BY <2>1, <1>6, OAuthFlowAssumption DEF StatesUntaken, TypeOK, Times
    <2>2. QED
      BY <2>1, <1>3, <1>4, <1>5 DEF ThroughInTime, Through
  <1>9. OneCallbackPerState'
    <2>1. ASSUME cb'[k] = "taken", NEW j \in Callbacks \ {k}, cb'[j] \in Through
          PROVE  flow'[j] # flow'[k]
      BY <2>1, <1>4, <1>5, <1>6 DEF StatesUntaken
    <2>2. QED
      BY <2>1, <1>4, <1>5 DEF OneCallbackPerState, Through
  <1>10. ExchangedByAsker' /\ GrantsHaveCallback'
    BY <1>1, <1>3, <1>4, <1>5 DEF ExchangedByAsker, GrantsHaveCallback, TypeOK
  <1>11. QED
    BY <1>7, <1>8, <1>9, <1>10

\* A callback that goes on, or gives up, without storing anything.
LEMMA GoesOn ==
  ASSUME IInv, TypeOK', NEW k \in Callbacks, NEW step,
         cb[k] \in {"taken", "exchanging"}, step \in {"exchanging", "exchanged", "failed"},
         Goto(k, step), UNCHANGED <<states, began, asked, flow, takenAt, stored>>,
         \A j \in Callbacks \ {k} : client'[j] = client[j],
         step = "exchanged" => client'[k] = asked[flow[k]]
  PROVE  IInv'
  <1> USE DEF IInv
  <1>1. cb'[k] = step /\ \A j \in Callbacks \ {k} : cb'[j] = cb[j]
    BY DEF Goto, TypeOK
  <1>2. StatesUntaken' /\ ThroughInTime'
    BY <1>1 DEF StatesUntaken, ThroughInTime, Through
  <1>3. OneCallbackPerState'
    BY <1>1 DEF OneCallbackPerState
  <1>4. ExchangedByAsker' /\ GrantsHaveCallback'
    BY <1>1 DEF ExchangedByAsker, GrantsHaveCallback, TypeOK
  <1>5. QED
    BY <1>2, <1>3, <1>4

\* So does looking up the client.
LEMMA FindClientStep ==
  ASSUME IInv, TypeOK', NEW k \in Callbacks, FindClient(k)
  PROVE  IInv'
  <1>1. \A j \in Callbacks \ {k} : client'[j] = client[j]
    BY DEF FindClient, IInv, TypeOK
  <1>2. QED
    BY <1>1, GoesOn DEF FindClient

\* So does the exchange of the code.
LEMMA ExchangeStep ==
  ASSUME IInv, TypeOK', NEW k \in Callbacks, Exchange(k)
  PROVE  IInv'
  <1>1. PICK step \in {"exchanged", "failed"} :
          Goto(k, step) /\ (step = "exchanged" => client[k] = asked[flow[k]])
    BY DEF Exchange
  <1>2. QED
    BY <1>1, GoesOn DEF Exchange

\* So does storing the grant, which records the callback it came from.
LEMMA StoreStep ==
  ASSUME IInv, TypeOK', NEW k \in Callbacks, Store(k)
  PROVE  IInv'
  <1> USE DEF IInv
  <1>1. cb[k] = "exchanged" /\ UNCHANGED <<states, began, asked, flow, client, takenAt>>
    BY DEF Store
  <1>2. /\ cb'[k] \in {"stored", "failed"}
        /\ \A j \in Callbacks \ {k} : cb'[j] = cb[j]
    BY DEF Store, Goto, TypeOK
  <1>3. \A g \in stored' \ stored :
           cb'[k] = "stored" /\ g = [by |-> k, flow |-> flow[k], client |-> client[k]]
    BY DEF Store, Goto, Recorded, TypeOK
  <1>4. StatesUntaken' /\ ThroughInTime'
    BY <1>1, <1>2 DEF StatesUntaken, ThroughInTime, Through
  <1>5. OneCallbackPerState'
    BY <1>1, <1>2 DEF OneCallbackPerState
  <1>6. ExchangedByAsker'
    BY <1>1, <1>2 DEF ExchangedByAsker
  <1>7. GrantsHaveCallback'
    <2>1. \A g \in stored' \ stored : g.by = k /\ g.flow = flow[k] /\ g.client = asked[flow[k]]
      BY <1>1, <1>3 DEF ExchangedByAsker
    <2>2. \A g \in stored' \cap stored : g.by \in Callbacks \ {k} /\ cb'[g.by] = "stored"
      BY <1>1, <1>2 DEF GrantsHaveCallback, TypeOK
    <2>3. QED
      BY <1>1, <1>3, <2>1, <2>2 DEF GrantsHaveCallback
  <1>8. QED
    BY <1>4, <1>5, <1>6, <1>7

\* So does a restart, which fails the callbacks under way.
LEMMA RestartStep ==
  ASSUME IInv, TypeOK', Restart
  PROVE  IInv'
  <1> USE DEF IInv
  <1>1. UNCHANGED <<states, began, asked, flow, client, takenAt, stored>>
    BY DEF Restart
  <1>2. \A k \in Callbacks : cb'[k] = IF cb[k] \in {"new", "stored"} THEN cb[k] ELSE "failed"
    BY DEF Restart
  <1>3. StatesUntaken' /\ ThroughInTime' /\ ExchangedByAsker'
    BY <1>1, <1>2 DEF StatesUntaken, ThroughInTime, ExchangedByAsker, Through
  <1>4. OneCallbackPerState' /\ GrantsHaveCallback'
    BY <1>1, <1>2 DEF OneCallbackPerState, GrantsHaveCallback, TypeOK
  <1>5. QED
    BY <1>3, <1>4

\* Every step keeps the invariant.
LEMMA StepPreserves == IInv /\ [Next]_vars => IInv'
  <1> SUFFICES ASSUME IInv, [Next]_vars PROVE IInv'
    OBVIOUS
  <1>1. TypeOK'
    BY TypesKept
  <1>2. CASE UNCHANGED vars
    BY <1>1, <1>2, NothingMoves DEF vars
  <1>3. ASSUME NEW k \in Callbacks, Take(k) PROVE IInv'
    BY <1>1, <1>3, TakeStep
  <1>4. ASSUME NEW k \in Callbacks, FindClient(k) PROVE IInv'
    BY <1>1, <1>4, FindClientStep
  <1>5. ASSUME NEW k \in Callbacks, Exchange(k) PROVE IInv'
    BY <1>1, <1>5, ExchangeStep
  <1>6. ASSUME NEW k \in Callbacks, Store(k) PROVE IInv'
    BY <1>1, <1>6, StoreStep
  <1>7. ASSUME NEW f \in Flows, Start(f) PROVE IInv'
    BY <1>1, <1>7, StartStep
  <1>8. ASSUME NEW f \in Flows, Consent(f) PROVE IInv'
    BY <1>1, <1>8, NothingMoves DEF Consent
  <1>9. CASE Tick
    BY <1>1, <1>9, NothingMoves DEF Tick
  <1>10. CASE Configure
    BY <1>1, <1>10, NothingMoves DEF Configure
  <1>11. CASE Restart
    BY <1>1, <1>11, RestartStep
  <1>12. QED
    BY <1>2, <1>3, <1>4, <1>5, <1>6, <1>7, <1>8, <1>9, <1>10, <1>11 DEF Next

\* It holds in every reachable state.
LEMMA Invariance == Spec => []IInv
  BY InitEstablishes, StepPreserves, PTL DEF Spec

\* The flow keeps its types (OAuthFlowService and the rows of oauth_states).
THEOREM TypeCorrect == Spec => []TypeOK
  <1>1. IInv => TypeOK
    BY DEF IInv
  <1>2. QED
    BY <1>1, Invariance, PTL

\* completeAuthorization: of all callbacks that bring one state, at most one is
\* ever let through, whatever fails or restarts.
THEOREM StatesLetOneThrough == Spec => []OneCallbackPerState
  <1>1. IInv => OneCallbackPerState
    BY DEF IInv
  <1>2. QED
    BY <1>1, Invariance, PTL

\* setOAuthCredential is only ever given a grant whose callback came in time, with
\* the client that the authorization URL named.
THEOREM GrantsCorrect == Spec => []GrantsAreInTimeAndRecorded
  BY GrantsFollow, Invariance, PTL
==============================================================================
