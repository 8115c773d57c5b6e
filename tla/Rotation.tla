------------------------------ MODULE Rotation ------------------------------
(***************************************************************************)
(* What an equb promises its members, whatever the rounds, payments and    *)
(* streams are: every draw serves a member in good standing, nobody is     *)
(* served twice before everyone in good standing has been served once, and *)
(* an excluded member never comes back.  EqubPool implements it.           *)
(***************************************************************************)
CONSTANTS PoolIds, Users

VARIABLES
    standing,   \* standing[p]: the members that may still be drawn
    excluded,   \* excluded[p]: the members that defaulted
    served      \* served[p]: who was drawn in the running season

vars == <<standing, excluded, served>>

Init ==
    /\ standing = [p \in PoolIds |-> {}]
    /\ excluded = [p \in PoolIds |-> {}]
    /\ served = [p \in PoolIds |-> {}]

Join(p, u) ==
    /\ u \notin standing[p] \cup excluded[p]
    /\ standing' = [standing EXCEPT ![p] = @ \cup {u}]
    /\ UNCHANGED <<excluded, served>>

Exclude(p, u) ==
    /\ u \in standing[p]
    /\ standing' = [standing EXCEPT ![p] = @ \ {u}]
    /\ excluded' = [excluded EXCEPT ![p] = @ \cup {u}]
    /\ UNCHANGED served

\* The members in late drop out and one of the others is drawn; the season
\* starts over when they all had their turn.
Draw(p, late, winner) ==
    LET left == standing[p] \ late
        overdue == left \ served[p]
    IN  /\ standing' = [standing EXCEPT ![p] = left]
        /\ excluded' = [excluded EXCEPT ![p] = @ \cup late]
        /\ winner \in left
        /\ overdue # {} => winner \in overdue
        /\ served' = [served EXCEPT ![p] =
               IF overdue = {} THEN {winner} ELSE @ \cup {winner}]

DrawIn(p) ==
    \E late \in SUBSET standing[p], winner \in Users : Draw(p, late, winner)

Next ==
    \E p \in PoolIds :
        \/ \E u \in Users : Join(p, u) \/ Exclude(p, u)
        \/ DrawIn(p)

Spec == Init /\ [][Next]_vars

=============================================================================
