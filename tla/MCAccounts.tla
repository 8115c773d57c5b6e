----------------------------- MODULE MCAccounts -----------------------------
(* Model-checking instance of Accounts: see MCAccounts.cfg. *)
EXTENDS Accounts, TLC

CONSTANTS w1, w2, s1, dev, r1, r2

MCWallets == {w1, w2}
MCRequests == {r1, r2}
Symmetry == Permutations(MCWallets) \cup Permutations(MCRequests)
=============================================================================
