--------------------------- MODULE MCActionRunner ---------------------------
(***************************************************************************)
(* Instances of ActionRunner for TLC.  The fallback needs several          *)
(* connections, but two runs and no members will do; the run log and the   *)
(* quota need three runs and members, but all on one connection.  MCSpec   *)
(* keeps to these two scenes, so that their state spaces add up.           *)
(***************************************************************************)
EXTENDS ActionRunner

CONSTANTS default, backup, spare

ThreeConns == <<default, backup, spare>>
OneConn == <<default>>

FallbackScene == \A r \in Runs : member[r] = NoMember /\ (r > 2 => pc[r] = "idle")

\* Who is to execute has asked for the default connection.
LogScene ==
    /\ clock <= 1
    /\ \A r \in Runs : pc[r] \in {"guard", "list", "attempt"} => pin[r] = default

MCNext == Next /\ (FallbackScene \/ LogScene)'

MCSpec == Init /\ [][MCNext]_vars

\* What the log and the quota depend on.  Left out are a run that has ended without a
\* row, how one ended that has a row, and when a run was checked that counts against
\* no quota.
RunView(r) ==
    CASE pc[r] = "idle" -> "idle"
      [] ~Active(r) /\ pc[r] # "idle" /\ r \notin inserted -> "gone"
      [] OTHER -> [at |-> IF Active(r) THEN pc[r] ELSE "ended", member |-> member[r],
                   started |-> startedAt[r], unread |-> r \in unread,
                   checked |-> IF Executes(r) /\ (member[r] = NoMember \/ r \in unread)
                                 THEN "uncounted" ELSE checkedAt[r]]

LogView == <<clock, rows, inserted, [r \in Runs |-> RunView(r)]>>

\* On one connection there is nothing to choose: what a run was asked to use, has
\* tried and steers others away from only counts in the first scene, to which no
\* behaviour that has left it comes back.
View ==
    IF FallbackScene
      THEN <<LogView, pin, plan, tried, triedAt, avoid, cooldownUntil, failedAt>>
      ELSE LogView
=============================================================================
