--------------------------- MODULE MCEqubGovernor ---------------------------
(* Model-checking instance of EqubGovernor: see MCEqubGovernor.cfg. *)
EXTENDS EqubGovernor, TLC

CONSTANTS u1, u2, r0, r1, r2

MCUsers == {u1, u2}
MCCreator == [p \in PoolIds |-> u1]
OnePool == {1}
TwoPools == {1, 2}
MCRules == {r0, r1, r2}
\* The initial rules are a fixed value; the others are interchangeable.
Symmetry == Permutations({r1, r2})
=============================================================================
