----------------------------- MODULE MCCustody ------------------------------
(* Model-checking instance of Custody: see MCCustody.cfg. *)
EXTENDS Custody, TLC

CONSTANTS w1, w2, p1, r1, r2

MCRequests == {r1, r2}
Symmetry == Permutations(MCRequests)
=============================================================================
