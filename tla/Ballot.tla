-------------------------------- MODULE Ballot -------------------------------
(***************************************************************************)
(* What the governor promises the members of a pool, whatever the clock,   *)
(* the counters and the flags are: a motion is open for a while, every     *)
(* member casts one vote on it, the result stands when it closes, and the  *)
(* rules of a pool change only to those of a closed motion that more than  *)
(* half of its voters approved, once.  EqubGovernor implements it.         *)
(***************************************************************************)
EXTENDS Integers, FiniteSets

CONSTANTS Motions, PoolIds, Users, Rules, InitialRules

VARIABLES
    stage,      \* stage[i]: "none", "open", "closed", "adopted" or "withdrawn"
    terms,      \* terms[i]: the pool and the rules that motion i is about
    voters,     \* voters[i]: who cast a vote
    ayes,       \* ayes[i]: how many of them approve
    members,    \* members[p]: who may vote
    rules       \* rules[p]

vars == <<stage, terms, voters, ayes, members, rules>>

\* Terms mean nothing before a motion is made.
Init ==
    /\ stage = [i \in Motions |-> "none"]
    /\ voters = [i \in Motions |-> {}]
    /\ ayes = [i \in Motions |-> 0]
    /\ members = [p \in PoolIds |-> {}]
    /\ rules = [p \in PoolIds |-> InitialRules]
    /\ terms = [i \in Motions |-> terms[i]]

Enrol(u, p) ==
    /\ members' = [members EXCEPT ![p] = @ \cup {u}]
    /\ UNCHANGED <<stage, terms, voters, ayes, rules>>

Move(i, p, newRules) ==
    /\ stage[i] = "none"
    /\ stage' = [stage EXCEPT ![i] = "open"]
    /\ terms' = [terms EXCEPT ![i] = [pool |-> p, rules |-> newRules]]
    /\ UNCHANGED <<voters, ayes, members, rules>>

Cast(i, u, aye) ==
    /\ stage[i] = "open"
    /\ u \in members[terms[i].pool] \ voters[i]
    /\ voters' = [voters EXCEPT ![i] = @ \cup {u}]
    /\ ayes' = [ayes EXCEPT ![i] = IF aye THEN @ + 1 ELSE @]
    /\ UNCHANGED <<stage, terms, members, rules>>

Withdraw(i) ==
    /\ stage[i] = "open"
    /\ stage' = [stage EXCEPT ![i] = "withdrawn"]
    /\ UNCHANGED <<terms, voters, ayes, members, rules>>

\* Time closes any number of motions at once.
Close(over) ==
    /\ \A i \in over : stage[i] = "open"
    /\ stage' = [i \in Motions |-> IF i \in over THEN "closed" ELSE stage[i]]
    /\ UNCHANGED <<terms, voters, ayes, members, rules>>

Adopt(i) ==
    /\ stage[i] = "closed"
    /\ 2 * ayes[i] > Cardinality(voters[i])
    /\ stage' = [stage EXCEPT ![i] = "adopted"]
    /\ rules' = [rules EXCEPT ![terms[i].pool] = terms[i].rules]
    /\ UNCHANGED <<terms, voters, ayes, members>>

Next ==
    \/ \E u \in Users, p \in PoolIds : Enrol(u, p)
    \/ \E over \in SUBSET Motions : Close(over)
    \/ \E i \in Motions :
          \/ \E p \in PoolIds, newRules \in Rules : Move(i, p, newRules)
          \/ \E u \in Users, aye \in BOOLEAN : Cast(i, u, aye)
          \/ Withdraw(i)
          \/ Adopt(i)

Spec == Init /\ [][Next]_vars
=============================================================================
