--------------------------- MODULE MCPayoutStream ---------------------------
(* Model-checking instance of PayoutStream: see MCPayoutStream.cfg. *)
EXTENDS PayoutStream, TLC

CONSTANTS u1, u2, c1, c2

\* A total that divides evenly, two that round at either division, and zero.
MCTotals == {0, 7, 10}
\* No upfront share, a rounded one, the highest allowed and the first refused.
MCPercents == {0, 25, 30, 31}
\* Zero (refused), one and a count that does not divide the totals.
MCRoundCounts == {0, 1, 3}
MCUsers == {u1, u2}
MCCallers == {c1, c2}
Symmetry == Permutations(MCUsers) \cup Permutations(MCCallers)
=============================================================================
