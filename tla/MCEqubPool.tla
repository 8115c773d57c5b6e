----------------------------- MODULE MCEqubPool -----------------------------
(* Model-checking instances of EqubPool: one pool with every account a       *)
(* possible member (MCEqubPool.cfg), and two pools that share the members,   *)
(* a token, their credit scores and their collateral (MCEqubPoolShared.cfg). *)
EXTENDS EqubPool, TLC

CONSTANTS u1, u2, u3, native

TwoUsers == {u1, u2}
ThreeUsers == {u1, u2, u3}
Symmetry == Permutations(Users)

\* Pools up to 2 units, and a collateral of half the unreleased payout.
OneTier == {[enabled |-> TRUE, maxPoolSize |-> 2, collateralRateBps |-> 5000]}
Lowest == -10
=============================================================================
