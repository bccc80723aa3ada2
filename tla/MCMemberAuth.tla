--------------------------- MODULE MCMemberAuth ---------------------------
(***************************************************************************)
(* Instances of MemberAuth for TLC.  Requests are interchangeable, and     *)
(* only safety is checked.  The view leaves out what no later step and no  *)
(* invariant depends on: who asked, once the request is let in, unless the *)
(* asker's session is to be revoked; who is off, once a change has been    *)
(* wiped; and what a request was, once its last text is being written and  *)
(* no history waits for it.                                                *)
(***************************************************************************)
EXTENDS MemberAuth, TLC

Symmetry == Permutations(Handlers)

Asked(j) == IF j = None \/ j.kind = "logout" THEN j ELSE [kind |-> j.kind, on |-> j.on]

Doing(h) ==
    IF /\ buf[h] # None
       /\ Len(todo[h]) = 1
       /\ wiped \/ job[h].kind \notin {"deactivate", "reactivate", "remove"}
    THEN "ending"
    ELSE <<Asked(job[h]), todo[h]>>

View == <<file, cache, load, [h \in Handlers |-> Doing(h)], buf, issued,
          wiped, emptied, stale, IF wiped THEN {} ELSE off>>

\* A bound: once a change has been wiped, only the requests under way go on, with
\* whatever is loaded, fails or is restarted.
NoMoreArrive == wiped => \A h \in Handlers : job'[h] \in {job[h], None}

MCNext == Next /\ NoMoreArrive

MCSpec == Init /\ [][MCNext]_vars
=============================================================================
