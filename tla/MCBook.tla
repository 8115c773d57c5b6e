------------------------------- MODULE MCBook -------------------------------
(* Model-checking instance of Insights over PoolBook: see MCBook.cfg. *)
EXTENDS Insights, TLC

CONSTANTS w1, w2

MCWallets == {w1, w2}
\* One tier; a contribution at its maximum, one above it, and none.
MCTierMax == <<1>>
MCAmounts == {0, 1, 2}
Symmetry == Permutations(MCWallets) \cup Permutations(Requests)
=============================================================================
