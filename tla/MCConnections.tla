---------------------------- MODULE MCConnections ----------------------------
(***************************************************************************)
(* An instance of Connections for TLC, with a second bound: the last       *)
(* credential issued is that of a refresh.  A connect in its place would  *)
(* only be read, or come before a refresh that has nothing left to issue.  *)
(***************************************************************************)
EXTENDS Connections

LastIsRefreshed == root[MaxSerial] # MaxSerial

MCNext == Next /\ LastIsRefreshed'

MCSpec == Init /\ [][MCNext]_vars /\ \A c \in Callers : WF_vars(Proceed(c))
=============================================================================
