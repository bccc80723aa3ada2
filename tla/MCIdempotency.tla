--------------------------- MODULE MCIdempotency ---------------------------
(***************************************************************************)
(* Instances of Idempotency for TLC.  No definition tells two requests, two *)
(* keys or two identities apart, and only safety is checked, so the states  *)
(* may be taken up to their permutations.                                   *)
(***************************************************************************)
EXTENDS Idempotency, TLC

Symmetry == Permutations(Requests) \cup Permutations(Keys) \cup Permutations(Identities)
=============================================================================
