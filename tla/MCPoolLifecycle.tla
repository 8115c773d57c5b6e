-------------------------- MODULE MCPoolLifecycle ---------------------------
(* Model-checking instances of PoolLifecycle: see the three configurations. *)
EXTENDS PoolLifecycle, TLC

CONSTANTS w1, w2, k1, k2, k3, r1, r2

TwoWallets == {w1, w2}
Symmetry == Permutations(Wallets) \cup Permutations(Keys) \cup Permutations(Readers)
=============================================================================
