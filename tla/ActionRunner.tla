----------------------------- MODULE ActionRunner -----------------------------
(***************************************************************************)
(* ActionRunner.run and what the runs of one service share: the cooldown   *)
(* map by which a run steers later runs away from a connection that failed *)
(* it, and the table of run logs, which is both the audit trail and what   *)
(* the quota is counted from.  A run is judged by the policy, then by team *)
(* grants and quota; it lists the connections, tries them in order, and    *)
(* writes its log row before it answers.  The row is inserted and the      *)
(* oldest rows are trimmed in two statements; the process may go away      *)
(* between any two steps.  What an attempt does inside is not seen here:   *)
(* Connections models how the credential is resolved.                      *)
(***************************************************************************)
EXTENDS Integers, FiniteSets, Sequences, SequencesExt

CONSTANTS
    Runs,         \* execution ids: numbers, in the order ids are compared
    Members,      \* members with a quota
    NoMember,     \* the caller is no member (a runtime token of the deployment)
    Conns,        \* connection names, in order: "default", then the others by name
    Withheld,     \* connections with a team grant that leaves the callers' team out
    MaxAttempts,  \* fallbackPolicy.maxAttempts
    Budget,       \* fallbackPolicy.totalBudgetMs
    Cooldown,     \* fallbackPolicy.cooldownSec
    RunLimit,     \* OMC_RUN_LIMIT: rows kept
    PageLimit,    \* rows a quota check asks for: 5000
    Quota,        \* policy.quota.memberDailyRuns
    Cap,          \* the gateway's in-flight cap per member
    Day,          \* length of a day
    MaxTime,      \* bound on the clock
    None

ASSUME ActionRunnerAssumption ==
    /\ IsFiniteSet(Runs) /\ Runs \subseteq Nat
    /\ NoMember \notin Members
    /\ Conns \in Seq(ToSet(Conns)) /\ Conns # <<>>
    /\ \A i, j \in DOMAIN Conns : Conns[i] = Conns[j] => i = j
    /\ None \notin Nat \cup ToSet(Conns)
    /\ Withheld \subseteq ToSet(Conns)
    /\ {MaxAttempts, RunLimit, PageLimit, Quota, Cap, Day} \subseteq Nat \ {0}
    /\ {Budget, Cooldown, MaxTime} \subseteq Nat

VARIABLES
    clock,
    cooldownUntil,  \* the cooldown map, 0 where it has no entry
    rows,           \* the runs table: the ids of the runs that have a row
    pc,             \* where each run is
    member,         \* who it is for
    pin,            \* the connection the caller asked for, if any
    startedAt,
    checkedAt,      \* when the quota let it pass
    plan,           \* the candidates
    tried,          \* the attempts that have ended: connection and outcome
    triedAt,        \* history: when the attempt under way, or the last one, began
    avoid,          \* history: connections that had lately failed when it listed them
    failedAt,       \* history: when a connection last failed a run that may fall back,
                    \* if there is a cooldown
    inserted,       \* history: the runs whose row was ever inserted
    unread          \* history: the runs let through by a quota that could not be read

request == <<member, pin, startedAt>>
history == <<triedAt, avoid, failedAt, inserted, unread>>
vars == <<clock, cooldownUntil, rows, pc, request, checkedAt, plan, tried, history>>

Names == ToSet(Conns)
Times == 0..MaxTime
Outcomes == {"ok", "retriable", "fatal"}
Steps == {"idle", "guard", "list", "attempt", "log", "trim", "done", "lost"}

Active(r) == pc[r] \notin {"idle", "done", "lost"}
Executes(r) == checkedAt[r] # None
DayOf(t) == t \div Day

Init ==
    /\ clock = 0
    /\ cooldownUntil = [c \in Names |-> 0]
    /\ rows = {} /\ inserted = {} /\ unread = {}
    /\ pc = [r \in Runs |-> "idle"]
    /\ member = [r \in Runs |-> NoMember]
    /\ pin = [r \in Runs |-> None]
    /\ startedAt = [r \in Runs |-> 0]
    /\ checkedAt = [r \in Runs |-> None]
    /\ plan = [r \in Runs |-> <<>>]
    /\ tried = [r \in Runs |-> <<>>]
    /\ triedAt = [r \in Runs |-> 0]
    /\ avoid = [r \in Runs |-> {}]
    /\ failedAt = [c \in Names |-> None]

Goto(r, step) == pc' = [pc EXCEPT ![r] = step]

Tick ==
    /\ clock < MaxTime
    /\ clock' = clock + 1
    /\ UNCHANGED <<cooldownUntil, rows, pc, request, checkedAt, plan, tried, history>>

-------------------------------------------------------------------------------
(* Before execution                                                        *)

\* The concurrency guard has let the request through; the policy allows the
\* action, or denies it and all that is left is to log that.
Start(r) ==
    /\ pc[r] = "idle"
    /\ \E m \in Members \cup {NoMember}, p \in Names \cup {None}, next \in {"guard", "log"} :
          /\ m # NoMember => Cardinality({q \in Runs : Active(q) /\ member[q] = m}) < Cap
          /\ member' = [member EXCEPT ![r] = m]
          /\ pin' = [pin EXCEPT ![r] = p]
          /\ Goto(r, next)
    /\ startedAt' = [startedAt EXCEPT ![r] = clock]
    /\ UNCHANGED <<clock, cooldownUntil, rows, checkedAt, plan, tried, history>>

\* Newest first: by start, then by id.
Newer(q, r) == startedAt[q] > startedAt[r] \/ (startedAt[q] = startedAt[r] /\ q > r)

\* "order by started_at desc, id desc limit n" over a set of runs.
Newest(S, n) == {r \in S : Cardinality({q \in S : Newer(q, r)}) < n}

\* list gives no more than the table keeps.
RowsCounted == IF PageLimit < RunLimit THEN PageLimit ELSE RunLimit

\* The runs of a member today, as the rows that list returns tell.
CountRuns(m) ==
    Cardinality({q \in Newest(rows, RowsCounted) :
                    member[q] = m /\ DayOf(startedAt[q]) >= DayOf(clock)})

\* Seeded fault: one run more than the limit passes.
OverQuotaLate(m) == m # NoMember /\ CountRuns(m) > Quota
OverQuota(m) == m # NoMember /\ CountRuns(m) >= Quota

\* The connection a team's grant is looked up for: the one asked for, or "default".
Asked(r) == IF pin[r] = None THEN Head(Conns) ELSE pin[r]

\* assertBeforeExecute: the team is not granted the connection, a quota is used up
\* (those by month and by team, see the README, at any time), or the guard fails.
Deny(r) ==
    /\ pc[r] = "guard"
    /\ Goto(r, "log")
    /\ UNCHANGED <<clock, cooldownUntil, rows, request, checkedAt, plan, tried, history>>

Admit(r) ==
    /\ pc[r] = "guard"
    /\ Asked(r) \notin Withheld
    /\ \/ ~OverQuota(member[r]) /\ UNCHANGED unread
       \/ /\ member[r] # NoMember
          /\ unread' = unread \cup {r}  \* policy.json cannot be read or parsed: no quota
    /\ checkedAt' = [checkedAt EXCEPT ![r] = clock]
    /\ Goto(r, "list")
    /\ UNCHANGED <<clock, cooldownUntil, rows, request, plan, tried, triedAt, avoid, failedAt,
                   inserted>>

-------------------------------------------------------------------------------
(* Execution with fallback                                                 *)

IsCoolingDown(c) == cooldownUntil[c] > clock

Position(c) == CHOOSE i \in DOMAIN Conns : Conns[i] = c

\* "default" first, then by name, but one that cools down behind those that do not.
Score(c) == IF IsCoolingDown(c) THEN Position(c) + Len(Conns) ELSE Position(c)

\* orderConnectionCandidates for the names listed: sorted by score, the i-th one
\* has i - 1 before it.
Ordered(names) ==
    [i \in 1..Cardinality(names) |->
        CHOOSE c \in names : Cardinality({d \in names : Score(d) < Score(c)}) = i - 1]

\* One candidate if there are none, or if listing failed.
Candidates(r, names) ==
    CASE pin[r] # None -> <<pin[r]>>
      [] pin[r] = None /\ names = {} -> <<Head(Conns)>>
      [] OTHER -> Ordered(names)

ResolveCandidates(r) ==
    /\ pc[r] = "list"
    /\ \E names \in SUBSET Names : plan' = [plan EXCEPT ![r] = Candidates(r, names)]
    /\ triedAt' = [triedAt EXCEPT ![r] = clock]
    /\ avoid' = [avoid EXCEPT ![r] =
                   {c \in Names : failedAt[c] # None /\ clock < failedAt[c] + Cooldown}]
    /\ Goto(r, "attempt")
    /\ UNCHANGED <<clock, cooldownUntil, rows, request, checkedAt, tried, failedAt, inserted,
                   unread>>

Attempt(r) == Len(tried[r]) + 1
Candidate(r) == plan[r][Attempt(r)]

\* Seeded fault: any failure is worth another attempt.
AnyFailure(outcome) == outcome # "ok"
IsRetriable(outcome) == outcome = "retriable"

\* Seeded fault: only the attempts are counted, not the candidates.
HasNextAttempt(r) == pin[r] = None /\ Attempt(r) < MaxAttempts

HasNext(r) ==
    /\ pin[r] = None
    /\ Attempt(r) < MaxAttempts
    /\ Attempt(r) < Len(plan[r])

\* Seeded fault: a connection is only marked when another one is tried after it.
MarksBeforeRetry(r, outcome) == outcome = "retriable" /\ HasNext(r)
Marks(r, outcome) == outcome = "retriable" /\ pin[r] = None

\* The connection resolves and the executor runs, or either fails; the outcome
\* decides whether the next candidate is tried at once.
EndAttempt(r, outcome) ==
    /\ pc[r] = "attempt"
    /\ tried' = [tried EXCEPT ![r] = Append(@, [conn |-> Candidate(r), outcome |-> outcome])]
    /\ cooldownUntil' = IF Marks(r, outcome)
                          THEN [cooldownUntil EXCEPT ![Candidate(r)] = clock + Cooldown]
                          ELSE cooldownUntil
    /\ failedAt' = IF outcome = "retriable" /\ pin[r] = None /\ Cooldown > 0
                     THEN [failedAt EXCEPT ![Candidate(r)] = clock]
                     ELSE failedAt
    /\ IF IsRetriable(outcome) /\ HasNext(r) /\ clock <= startedAt[r] + Budget
         THEN triedAt' = [triedAt EXCEPT ![r] = clock] /\ UNCHANGED pc
         ELSE Goto(r, "log") /\ UNCHANGED triedAt
    /\ UNCHANGED <<clock, rows, request, checkedAt, plan, avoid, inserted, unread>>

-------------------------------------------------------------------------------
(* The run log                                                             *)

\* The locals of the runs of a set go out of use.
Forget(gone) ==
    /\ pin' = [r \in Runs |-> IF r \in gone THEN None ELSE pin[r]]
    /\ plan' = [r \in Runs |-> IF r \in gone THEN <<>> ELSE plan[r]]
    /\ tried' = [r \in Runs |-> IF r \in gone THEN <<>> ELSE tried[r]]
    /\ triedAt' = [r \in Runs |-> IF r \in gone THEN 0 ELSE triedAt[r]]
    /\ avoid' = [r \in Runs |-> IF r \in gone THEN {} ELSE avoid[r]]

InsertRow(r) ==
    /\ pc[r] = "log"
    /\ rows' = rows \cup {r}
    /\ inserted' = inserted \cup {r}
    /\ Goto(r, "trim")
    /\ Forget({r})
    /\ UNCHANGED <<clock, cooldownUntil, member, startedAt, checkedAt, failedAt, unread>>

\* auditPersisted: false.
InsertFails(r) ==
    /\ pc[r] = "log"
    /\ Goto(r, "done")
    /\ Forget({r})
    /\ UNCHANGED <<clock, cooldownUntil, rows, member, startedAt, checkedAt, failedAt,
                   inserted, unread>>

\* Seeded fault: the rows trimmed are those that were started last.
TrimmedFromTheTop == {r \in rows : Cardinality({q \in rows : Newer(r, q)}) < RunLimit}
Trimmed == Newest(rows, RunLimit)

\* The delete statement; retentionApplied: false if it failed.
Trim(r, failed) ==
    /\ pc[r] = "trim"
    /\ rows' = IF failed THEN rows ELSE Trimmed
    /\ Goto(r, "done")
    /\ UNCHANGED <<clock, cooldownUntil, request, checkedAt, plan, tried, history>>

-------------------------------------------------------------------------------
\* The process is restarted: the runs under way and the cooldown map are gone.
Restart ==
    /\ pc' = [r \in Runs |-> IF Active(r) THEN "lost" ELSE pc[r]]
    /\ cooldownUntil' = [c \in Names |-> 0]
    /\ failedAt' = [c \in Names |-> None]
    /\ Forget({r \in Runs : Active(r)})
    /\ UNCHANGED <<clock, rows, member, startedAt, checkedAt, inserted, unread>>

Proceed(r) ==
    \/ Deny(r) \/ Admit(r) \/ ResolveCandidates(r)
    \/ \E outcome \in Outcomes : EndAttempt(r, outcome)
    \/ InsertRow(r) \/ InsertFails(r)
    \/ \E failed \in BOOLEAN : Trim(r, failed)

Next ==
    \/ Tick \/ Restart
    \/ \E r \in Runs : Start(r) \/ Proceed(r)

Spec == Init /\ [][Next]_vars

-------------------------------------------------------------------------------
TypeOK ==
    /\ clock \in Times
    /\ cooldownUntil \in [Names -> 0..MaxTime + Cooldown]
    /\ rows \subseteq inserted /\ inserted \subseteq Runs
    /\ unread \subseteq Runs
    /\ pc \in [Runs -> Steps]
    /\ member \in [Runs -> Members \cup {NoMember}]
    /\ pin \in [Runs -> Names \cup {None}]
    /\ startedAt \in [Runs -> Times]
    /\ checkedAt \in [Runs -> Times \cup {None}]
    /\ \A r \in Runs :
          /\ ToSet(plan[r]) \subseteq Names
          /\ tried[r] \in Seq([conn : Names, outcome : Outcomes])
          /\ pc[r] = "attempt" => Attempt(r) \in DOMAIN plan[r]
          /\ Executes(r) /\ pc[r] = "log" => tried[r] # <<>>
    /\ triedAt \in [Runs -> Times]
    /\ avoid \in [Runs -> SUBSET Names]
    /\ failedAt \in [Names -> Times \cup {None}]

\* docs/onmycompany/GATEWAY-OBSERVABILITY-PLAN.md, what falls back and what does
\* not: an action is dispatched again only after a retriable failure, never to
\* the same connection, never away from a connection the caller asked for, at
\* most MaxAttempts times, and not once the run's time budget is used up.
FallsBackOnlyWhenAllowed ==
    \A r \in Runs :
       /\ \A i, j \in 1..Len(tried[r]) :
             i < j => /\ tried[r][i].outcome = "retriable"
                      /\ tried[r][i].conn # tried[r][j].conn
       /\ Len(tried[r]) <= MaxAttempts
       /\ pin[r] # None => ToSet(tried[r]) \subseteq [conn : {pin[r]}, outcome : Outcomes]
       /\ pc[r] = "attempt" /\ tried[r] # <<>> => triedAt[r] <= startedAt[r] + Budget

\* docs/onmycompany/API-NOTES.md, grants by team: a team that is not on a connection's
\* list is refused, 403 connection_team_denied.  So no run turns to such a connection.
GrantsHold == \A r \in Runs : \A i \in DOMAIN tried[r] : tried[r][i].conn \notin Withheld

\* A failure seen by one run steers the others: a run does not turn to a
\* connection that had failed a run within the cooldown while it still knows
\* one that had not.
LatelyFailedComeLast ==
    \A r \in Runs : pin[r] = None =>
        \A i \in DOMAIN tried[r] : tried[r][i].conn \in avoid[r] =>
            ToSet(plan[r]) \ avoid[r] \subseteq {tried[r][j].conn : j \in 1..(i - 1)}

\* A page of runs, as people and the quota read it, holds the newest of all runs ever
\* logged, in whatever order runs end, although rows are trimmed late, by other
\* runs, or never.
PageIsNewest == \A n \in 1..RunLimit : Newest(rows, n) = Newest(inserted, n)

\* The runs of a day that count against a quota that could be read: executing, or
\* logged.
Charged(m, d) ==
    {r \in Runs \ unread : /\ Executes(r) /\ member[r] = m
                           /\ DayOf(startedAt[r]) = d /\ DayOf(checkedAt[r]) = d
                           /\ Active(r) \/ r \in inserted}

\* docs/user-guide/policy.md: beyond the quota, 429.  The check is not atomic with
\* the row it counts, so runs that overlap may exceed the quota, but by no more
\* than the gateway's in-flight cap admits.
QuotaHolds ==
    \A m \in Members, d \in {DayOf(t) : t \in Times} :
        Cardinality(Charged(m, d)) <= Quota + Cap - 1

\* It is so as long as the table keeps all rows, and a check reads them all.
QuotaHoldsWhileRowsFit == Cardinality(inserted) <= RowsCounted => QuotaHolds
===============================================================================
