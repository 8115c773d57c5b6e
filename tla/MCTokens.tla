------------------------------ MODULE MCTokens ------------------------------
(* Model-checking instance of Tokens: see MCTokens.cfg. *)
EXTENDS Tokens, TLC

CONSTANTS u1, u2, usdc, r1

MCUsers == {u1, u2}
Symmetry == Permutations(MCUsers)
=============================================================================
