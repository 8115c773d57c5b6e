------------------------- MODULE EqubGovernor_proofs ------------------------
(***************************************************************************)
(* Theorems about EqubGovernor, for any accounts, pools and rules, any     *)
(* periods and any number of proposals.                                    *)
(***************************************************************************)
EXTENDS EqubGovernor, FiniteSetTheorems, TLAPS

\* No proposal exists beyond the counter, and nobody has voted on one that does
\* not exist: a new proposal starts from nothing.
FreshBeyondCount ==
    \A i \in ProposalIds :
        /\ Exists(i) => i <= proposalCount
        /\ ~Exists(i) => hasVoted[i] = {}

TypeInv == TypeOK /\ FreshBeyondCount

LEMMA InitTypeInv == Init => TypeInv
<1> SUFFICES ASSUME Init PROVE TypeInv
  OBVIOUS
<1> USE GovernorAssumption DEF Init
<1>1. NoProposal \in Proposal
  BY DEF NoProposal, Proposal
<1>2. TypeOK
  BY <1>1 DEF TypeOK
<1>3. FreshBeyondCount
  BY DEF FreshBeyondCount, Exists, NoProposal
<1> QED BY <1>2, <1>3 DEF TypeInv

\* What a new proposal is: typed, and made by somebody.
LEMMA NewProposalType ==
    ASSUME TypeInv, NEW caller \in Users, NEW p \in PoolIds, NEW newRules \in Rules,
           ProposeRuleChange(caller, p, newRules)
    PROVE  LET i == proposalCount + 1
           IN  /\ i \in ProposalIds /\ ~Exists(i) /\ hasVoted[i] = {}
               /\ proposals'[i] \in Proposal
               /\ proposals'[i].equbId = p /\ proposals'[i].proposer # NoUser
               /\ proposals'[i].proposedRules = newRules /\ proposals'[i].deadline = now + VotingPeriod
               /\ proposals'[i].yesVotes = 0 /\ proposals'[i].noVotes = 0
               /\ ~proposals'[i].executed /\ ~proposals'[i].cancelled
               /\ \A j \in ProposalIds : j # i => proposals'[j] = proposals[j]
<1> DEFINE i == proposalCount + 1
<1>1. i \in ProposalIds
  BY GovernorAssumption DEF TypeInv, TypeOK, ProposalIds, ProposeRuleChange
<1>2. ~Exists(i) /\ hasVoted[i] = {}
  <2>1. ~(i <= proposalCount)
    BY DEF TypeInv, TypeOK
  <2>2. QED BY <1>1, <2>1 DEF TypeInv, FreshBeyondCount
<1>3. DOMAIN proposals = ProposalIds
  BY DEF TypeInv, TypeOK
<1>4. proposals'[i] = [equbId |-> p, proposer |-> caller, proposedRules |-> newRules,
                       yesVotes |-> 0, noVotes |-> 0, deadline |-> now + VotingPeriod,
                       executed |-> FALSE, cancelled |-> FALSE]
  BY <1>1, <1>3 DEF ProposeRuleChange
<1>5. now + VotingPeriod \in Nat
  BY GovernorAssumption DEF TypeInv, TypeOK
<1>6. proposals'[i] \in Proposal
  BY <1>4, <1>5 DEF Proposal
<1>7. \A j \in ProposalIds : j # i => proposals'[j] = proposals[j]
  BY <1>3 DEF ProposeRuleChange
<1>8. caller # NoUser
  BY GovernorAssumption
<1> QED BY <1>1, <1>2, <1>4, <1>6, <1>7, <1>8

\* What a vote does: one more in the tally of one side, and the voter is noted.
LEMMA VoteEffect ==
    ASSUME TypeOK, NEW i \in ProposalIds, NEW voter \in Users, NEW support \in BOOLEAN, Vote(voter, i, support)
    PROVE  /\ proposals' \in [ProposalIds -> Proposal]
           /\ \A j \in ProposalIds : j # i => proposals'[j] = proposals[j]
           /\ \A j \in ProposalIds : /\ proposals'[j].proposer = proposals[j].proposer
                                    /\ proposals'[j].equbId = proposals[j].equbId
                                    /\ proposals'[j].proposedRules = proposals[j].proposedRules
                                    /\ proposals'[j].deadline = proposals[j].deadline
                                    /\ proposals'[j].executed = proposals[j].executed
                                    /\ proposals'[j].cancelled = proposals[j].cancelled
           /\ proposals'[i].yesVotes = IF support THEN proposals[i].yesVotes + 1 ELSE proposals[i].yesVotes
           /\ proposals'[i].noVotes = IF support THEN proposals[i].noVotes ELSE proposals[i].noVotes + 1
<1> DEFINE p == proposals[i]
           yes == IF support THEN p.yesVotes + 1 ELSE p.yesVotes
           no == IF support THEN p.noVotes ELSE p.noVotes + 1
<1>1. p \in Proposal
  BY DEF TypeOK
<1>2. yes \in Nat /\ no \in Nat
  BY <1>1 DEF Proposal
<1>3. proposals' = [proposals EXCEPT ![i] = [[p EXCEPT !.yesVotes = yes] EXCEPT !.noVotes = no]]
  <2>1. proposals' = [proposals EXCEPT ![i].yesVotes = IF support THEN @ + 1 ELSE @,
                                       ![i].noVotes = IF support THEN @ ELSE @ + 1]
    BY DEF Vote
  <2>2. DOMAIN p = {"equbId", "proposer", "proposedRules", "yesVotes", "noVotes", "deadline", "executed", "cancelled"}
    BY <1>1 DEF Proposal
  <2>3. DOMAIN proposals = ProposalIds
    BY DEF TypeOK
  <2>4. QED BY <2>1, <2>2, <2>3
<1>4. [[p EXCEPT !.yesVotes = yes] EXCEPT !.noVotes = no] =
        [equbId |-> p.equbId, proposer |-> p.proposer, proposedRules |-> p.proposedRules,
         yesVotes |-> yes, noVotes |-> no, deadline |-> p.deadline,
         executed |-> p.executed, cancelled |-> p.cancelled]
  <2> HIDE DEF p, yes, no
  <2>1. [p EXCEPT !.yesVotes = yes] =
          [equbId |-> p.equbId, proposer |-> p.proposer, proposedRules |-> p.proposedRules,
           yesVotes |-> yes, noVotes |-> p.noVotes, deadline |-> p.deadline,
           executed |-> p.executed, cancelled |-> p.cancelled]
    BY <1>1 DEF Proposal
  <2>2. [[equbId |-> p.equbId, proposer |-> p.proposer, proposedRules |-> p.proposedRules,
          yesVotes |-> yes, noVotes |-> p.noVotes, deadline |-> p.deadline,
          executed |-> p.executed, cancelled |-> p.cancelled] EXCEPT !.noVotes = no] =
          [equbId |-> p.equbId, proposer |-> p.proposer, proposedRules |-> p.proposedRules,
           yesVotes |-> yes, noVotes |-> no, deadline |-> p.deadline,
           executed |-> p.executed, cancelled |-> p.cancelled]
    OBVIOUS
  <2>3. QED BY <2>1, <2>2
<1> DEFINE q == [equbId |-> p.equbId, proposer |-> p.proposer, proposedRules |-> p.proposedRules,
                 yesVotes |-> yes, noVotes |-> no, deadline |-> p.deadline,
                 executed |-> p.executed, cancelled |-> p.cancelled]
<1>5. q \in Proposal
  BY <1>1, <1>2 DEF Proposal
<1>6. proposals' = [proposals EXCEPT ![i] = q]
  BY <1>3, <1>4
<1>7. proposals' \in [ProposalIds -> Proposal] /\ proposals'[i] = q
  BY <1>5, <1>6 DEF TypeOK
<1>8. \A j \in ProposalIds : j # i => proposals'[j] = proposals[j]
  BY <1>6 DEF TypeOK
<1> QED BY <1>7, <1>8

\* Setting a flag of one proposal leaves proposals, of the same proposers.
Marks(after, before, i) ==
    \/ after = [before EXCEPT ![i].executed = TRUE]
    \/ after = [before EXCEPT ![i].cancelled = TRUE]

LEMMA MarkedType ==
    ASSUME NEW before \in [ProposalIds -> Proposal], NEW i \in ProposalIds, NEW after,
           Marks(after, before, i)
    PROVE  /\ after \in [ProposalIds -> Proposal]
           /\ \A j \in ProposalIds : after[j].proposer = before[j].proposer
<1> DEFINE p == before[i]
<1>1. p \in Proposal
  OBVIOUS
<1>2. PICK q : /\ q = [p EXCEPT !.executed = TRUE] \/ q = [p EXCEPT !.cancelled = TRUE]
               /\ after = [before EXCEPT ![i] = q]
  BY DEF Marks
<1> HIDE DEF p
<1>3. q \in Proposal /\ q.proposer = p.proposer
  BY <1>1, <1>2 DEF Proposal
<1>4. after \in [ProposalIds -> Proposal]
  BY <1>2, <1>3
<1>5. \A j \in ProposalIds : after[j] = IF j = i THEN q ELSE before[j]
  BY <1>2
<1>6. QED BY <1>3, <1>4, <1>5 DEF p

LEMMA StepTypeInv == TypeInv /\ [Next]_vars => TypeInv'
<1> SUFFICES ASSUME TypeInv, [Next]_vars PROVE TypeInv'
  OBVIOUS
<1> USE GovernorAssumption
<1>1. CASE Tick
  BY <1>1 DEF Tick, poolVars, TypeInv, TypeOK, FreshBeyondCount, Exists
<1>2. ASSUME NEW address \in {Governor, Other}, SetGovernor(address) PROVE TypeInv'
  BY <1>2 DEF SetGovernor, TypeInv, TypeOK, FreshBeyondCount, Exists
<1>3. ASSUME NEW u \in Users, NEW p \in PoolIds, JoinPool(u, p) PROVE TypeInv'
  <2>1. members' \in [PoolIds -> SUBSET Users]
    BY <1>3 DEF JoinPool, TypeInv, TypeOK
  <2>2. QED BY <1>3, <2>1 DEF JoinPool, TypeInv, TypeOK, FreshBeyondCount, Exists
<1>4. ASSUME NEW u \in Users, NEW p \in PoolIds, NEW newRules \in Rules,
             ProposeRuleChange(u, p, newRules)
      PROVE  TypeInv'
  <2> DEFINE n == proposalCount + 1
  <2>1. /\ n \in ProposalIds /\ proposals'[n] \in Proposal /\ proposals'[n].proposer # NoUser
        /\ \A j \in ProposalIds : j # n => proposals'[j] = proposals[j]
    BY <1>4, NewProposalType
  <2>2. /\ proposalCount' = n
        /\ UNCHANGED <<now, hasVoted, lastRejectedTimestamp, members, rules, equbGovernor>>
        /\ \E r : proposals' = [proposals EXCEPT ![n] = r]
    BY <1>4 DEF ProposeRuleChange, poolVars
  <2>3. proposals' \in [ProposalIds -> Proposal]
    BY <2>1, <2>2 DEF TypeInv, TypeOK
  <2>4. proposalCount' \in 0 .. MaxProposals
    BY <2>1, <2>2 DEF ProposalIds
  <2>5. TypeOK'
    BY <2>2, <2>3, <2>4 DEF TypeInv, TypeOK
  <2>6. ASSUME NEW i \in ProposalIds PROVE (Exists(i) => i <= proposalCount)' /\ (~Exists(i) => hasVoted[i] = {})'
    <3>1. CASE i = n
      BY <2>1, <2>2, <3>1 DEF Exists, ProposalIds
    <3>2. CASE i # n
      <4>1. Exists(i)' <=> Exists(i)
        BY <2>1, <3>2 DEF Exists
      <4>2. (Exists(i) => i <= proposalCount) /\ (~Exists(i) => hasVoted[i] = {})
        BY DEF TypeInv, FreshBeyondCount
      <4>3. i \in Int /\ proposalCount \in Int
        BY DEF ProposalIds, TypeInv, TypeOK
      <4>4. QED BY <2>2, <4>1, <4>2, <4>3
    <3>3. QED BY <3>1, <3>2
  <2>7. FreshBeyondCount'
    BY <2>6 DEF FreshBeyondCount
  <2>8. QED BY <2>5, <2>7 DEF TypeInv
<1>5. ASSUME NEW i \in ProposalIds, ExecuteProposal(i) PROVE TypeInv'
  <2>1. proposals' \in [ProposalIds -> Proposal] /\ \A j \in ProposalIds : proposals'[j].proposer = proposals[j].proposer
    <3>1. Marks(proposals', proposals, i)
      BY <1>5 DEF ExecuteProposal, Marks
    <3>2. proposals \in [ProposalIds -> Proposal]
      BY DEF TypeInv, TypeOK
    <3>3. QED BY <3>1, <3>2, MarkedType
  <2>2. rules' \in [PoolIds -> Rules]
    BY <1>5 DEF ExecuteProposal, UpdateRules, TypeInv, TypeOK, Proposal
  <2>3. UNCHANGED <<now, proposalCount, hasVoted, lastRejectedTimestamp, members, equbGovernor>>
    BY <1>5 DEF ExecuteProposal, UpdateRules
  <2>4. QED BY <2>1, <2>2, <2>3 DEF TypeInv, TypeOK, FreshBeyondCount, Exists
<1>6. ASSUME NEW i \in ProposalIds, NEW u \in Users, CancelProposal(u, i) PROVE TypeInv'
  <2>1. proposals' \in [ProposalIds -> Proposal] /\ \A j \in ProposalIds : proposals'[j].proposer = proposals[j].proposer
    <3>1. Marks(proposals', proposals, i)
      BY <1>6 DEF CancelProposal, Marks
    <3>2. proposals \in [ProposalIds -> Proposal]
      BY DEF TypeInv, TypeOK
    <3>3. QED BY <3>1, <3>2, MarkedType
  <2>2. UNCHANGED <<now, proposalCount, hasVoted, lastRejectedTimestamp, members, rules, equbGovernor>>
    BY <1>6 DEF CancelProposal, poolVars
  <2>3. QED BY <2>1, <2>2 DEF TypeInv, TypeOK, FreshBeyondCount, Exists
<1>7. ASSUME NEW i \in ProposalIds, NEW u \in Users, NEW support \in BOOLEAN, Vote(u, i, support) PROVE TypeInv'
  <2>1. proposals' \in [ProposalIds -> Proposal] /\ \A j \in ProposalIds : proposals'[j].proposer = proposals[j].proposer
    BY <1>7, VoteEffect DEF TypeInv
  <2>2. hasVoted' \in [ProposalIds -> SUBSET Users] /\ \A j \in ProposalIds : j # i => hasVoted'[j] = hasVoted[j]
    BY <1>7 DEF Vote, TypeInv, TypeOK
  <2>3. UNCHANGED <<now, proposalCount, lastRejectedTimestamp, members, rules, equbGovernor>> /\ Exists(i)
    BY <1>7 DEF Vote, poolVars
  <2>4. QED BY <2>1, <2>2, <2>3 DEF TypeInv, TypeOK, FreshBeyondCount, Exists
<1>8. CASE UNCHANGED vars
  BY <1>8 DEF vars, TypeInv, TypeOK, FreshBeyondCount, Exists
<1> QED BY <1>1, <1>2, <1>3, <1>4, <1>5, <1>6, <1>7, <1>8 DEF Next

\* Storage keeps its shape, and a proposal exists only once its id was given
\* out (EqubGovernor's mappings).
THEOREM TypeCorrect == Spec => []TypeOK
<1>1. Spec => []TypeInv
  BY InitTypeInv, StepTypeInv, PTL DEF Spec
<1>2. TypeInv => TypeOK
  BY DEF TypeInv
<1> QED BY <1>1, <1>2, PTL

-----------------------------------------------------------------------------
(* What a step leaves of the proposals *)

\* The parts of an action the safety proofs need, with the updates resolved.
Adds(n, p) ==
    /\ ~Exists(n) /\ hasVoted[n] = {}
    /\ proposals'[n].equbId = p /\ proposals'[n].proposer # NoUser
    /\ proposals'[n].yesVotes = 0 /\ proposals'[n].noVotes = 0
    /\ ~proposals'[n].executed /\ ~proposals'[n].cancelled
    /\ \A j \in ProposalIds : j # n => proposals'[j] = proposals[j]
    /\ UNCHANGED <<now, hasVoted, members, rules>>

LEMMA ProposeAdds ==
    ASSUME TypeInv, NEW caller \in Users, NEW p \in PoolIds, NEW newRules \in Rules,
           ProposeRuleChange(caller, p, newRules)
    PROVE  \E n \in ProposalIds : Adds(n, p)
<1>1. UNCHANGED <<now, hasVoted, members, rules>>
  BY DEF ProposeRuleChange, poolVars
<1>2. proposalCount + 1 \in ProposalIds /\ Adds(proposalCount + 1, p)
  BY <1>1, NewProposalType DEF Adds
<1> QED BY <1>2

\* Execution and cancellation set one flag of one proposal.
Same(a, b) ==
    /\ a.equbId = b.equbId /\ a.proposer = b.proposer /\ a.proposedRules = b.proposedRules
    /\ a.yesVotes = b.yesVotes /\ a.noVotes = b.noVotes /\ a.deadline = b.deadline

LEMMA ExecuteEffect ==
    ASSUME TypeOK, NEW i \in ProposalIds, ExecuteProposal(i)
    PROVE  /\ proposals'[i].executed /\ proposals'[i].cancelled = proposals[i].cancelled
           /\ \A j \in ProposalIds : Same(proposals'[j], proposals[j])
           /\ \A j \in ProposalIds : j # i => proposals'[j] = proposals[j]
           /\ Passed(i) /\ ~proposals[i].executed
           /\ rules'[proposals[i].equbId] = proposals[i].proposedRules
           /\ \A p \in PoolIds : p # proposals[i].equbId => rules'[p] = rules[p]
           /\ UNCHANGED <<now, hasVoted, members>>
<1>1. proposals[i] \in Proposal
  BY DEF TypeOK
<1>2. proposals' = [proposals EXCEPT ![i] = [proposals[i] EXCEPT !.executed = TRUE]]
  BY DEF ExecuteProposal
<1>3. proposals'[i] = [proposals[i] EXCEPT !.executed = TRUE]
  BY <1>2 DEF TypeOK
<1>4. \A j \in ProposalIds : j # i => proposals'[j] = proposals[j]
  BY <1>2 DEF TypeOK
<1>5. proposals'[i].executed /\ proposals'[i].cancelled = proposals[i].cancelled /\ Same(proposals'[i], proposals[i])
  BY <1>1, <1>3 DEF Proposal, Same
<1>6. \A j \in ProposalIds : Same(proposals'[j], proposals[j])
  BY <1>4, <1>5 DEF Same
<1>7. Passed(i) /\ ~proposals[i].executed
  BY DEF ExecuteProposal, Passed
<1>8. rules' = [rules EXCEPT ![proposals[i].equbId] = proposals[i].proposedRules] /\ proposals[i].equbId \in PoolIds
  BY <1>1 DEF ExecuteProposal, UpdateRules, Proposal
<1>9. UNCHANGED <<now, hasVoted, members>>
  BY DEF ExecuteProposal, UpdateRules
<1> QED BY <1>4, <1>5, <1>6, <1>7, <1>8, <1>9 DEF TypeOK

LEMMA CancelEffect ==
    ASSUME TypeOK, NEW i \in ProposalIds, NEW u \in Users, CancelProposal(u, i)
    PROVE  /\ proposals'[i].cancelled /\ proposals'[i].executed = proposals[i].executed
           /\ ~proposals[i].executed /\ now <= proposals[i].deadline
           /\ \A j \in ProposalIds : Same(proposals'[j], proposals[j])
           /\ \A j \in ProposalIds : j # i => proposals'[j] = proposals[j]
           /\ UNCHANGED <<now, hasVoted, members, rules>>
<1>1. proposals[i] \in Proposal
  BY DEF TypeOK
<1>2. proposals' = [proposals EXCEPT ![i] = [proposals[i] EXCEPT !.cancelled = TRUE]]
  BY DEF CancelProposal
<1>3. proposals'[i] = [proposals[i] EXCEPT !.cancelled = TRUE]
  BY <1>2 DEF TypeOK
<1>4. \A j \in ProposalIds : j # i => proposals'[j] = proposals[j]
  BY <1>2 DEF TypeOK
<1>5. proposals'[i].cancelled /\ proposals'[i].executed = proposals[i].executed /\ Same(proposals'[i], proposals[i])
  BY <1>1, <1>3 DEF Proposal, Same
<1>6. \A j \in ProposalIds : Same(proposals'[j], proposals[j])
  BY <1>4, <1>5 DEF Same
<1>7. UNCHANGED <<now, hasVoted, members, rules>> /\ ~proposals[i].executed /\ now <= proposals[i].deadline
  BY DEF CancelProposal, poolVars
<1> QED BY <1>4, <1>5, <1>6, <1>7

-----------------------------------------------------------------------------
(* The tally *)

LEMMA InitTally == Init => TallyIsHonest
<1> SUFFICES ASSUME Init, NEW i \in ProposalIds
             PROVE  /\ proposals[i].yesVotes + proposals[i].noVotes = Cardinality(hasVoted[i])
                    /\ hasVoted[i] \subseteq members[proposals[i].equbId]
  BY DEF TallyIsHonest
<1>1. proposals[i].yesVotes = 0 /\ proposals[i].noVotes = 0 /\ hasVoted[i] = {}
  BY DEF Init, NoProposal
<1> QED BY <1>1, FS_EmptySet

LEMMA StepTally == TypeInv /\ TallyIsHonest /\ [Next]_vars => TallyIsHonest'
<1> SUFFICES ASSUME TypeInv, TallyIsHonest, [Next]_vars, NEW i \in ProposalIds
             PROVE  /\ (proposals[i].yesVotes + proposals[i].noVotes = Cardinality(hasVoted[i]))'
                    /\ (hasVoted[i] \subseteq members[proposals[i].equbId])'
  BY DEF TallyIsHonest
<1> USE GovernorAssumption
<1>0. /\ proposals[i].yesVotes + proposals[i].noVotes = Cardinality(hasVoted[i])
      /\ hasVoted[i] \subseteq members[proposals[i].equbId]
      /\ proposals[i].equbId \in PoolIds
      /\ TypeOK
  BY DEF TallyIsHonest, TypeInv, TypeOK, Proposal
<1>1. CASE Tick
  BY <1>0, <1>1 DEF Tick, poolVars
<1>2. ASSUME NEW address \in {Governor, Other}, SetGovernor(address)
      PROVE  (proposals[i].yesVotes + proposals[i].noVotes = Cardinality(hasVoted[i])
                /\ hasVoted[i] \subseteq members[proposals[i].equbId])'
  BY <1>0, <1>2 DEF SetGovernor
<1>3. ASSUME NEW u \in Users, NEW p \in PoolIds, JoinPool(u, p)
      PROVE  (proposals[i].yesVotes + proposals[i].noVotes = Cardinality(hasVoted[i])
                /\ hasVoted[i] \subseteq members[proposals[i].equbId])'
  <2>1. UNCHANGED <<proposals, hasVoted>>
    BY <1>3 DEF JoinPool
  <2>2. members[proposals[i].equbId] \subseteq members'[proposals[i].equbId]
    BY <1>0, <1>3 DEF JoinPool, TypeOK
  <2>3. QED BY <1>0, <2>1, <2>2
<1>4. ASSUME NEW u \in Users, NEW p \in PoolIds, NEW newRules \in Rules, ProposeRuleChange(u, p, newRules)
      PROVE  (proposals[i].yesVotes + proposals[i].noVotes = Cardinality(hasVoted[i])
                /\ hasVoted[i] \subseteq members[proposals[i].equbId])'
  <2>1. PICK n \in ProposalIds : Adds(n, p)
    BY <1>4, ProposeAdds
  <2>2. UNCHANGED <<hasVoted, members>>
    BY <2>1 DEF Adds
  <2>3. CASE i # n
    BY <1>0, <2>1, <2>2, <2>3 DEF Adds
  <2>4. CASE i = n
    <3>1. hasVoted'[i] = {} /\ proposals'[i].yesVotes = 0 /\ proposals'[i].noVotes = 0
      BY <2>1, <2>2, <2>4 DEF Adds
    <3>2. Cardinality(hasVoted'[i]) = 0
      BY <3>1, FS_EmptySet
    <3>3. QED BY <3>1, <3>2
  <2>5. QED BY <2>3, <2>4
<1>5. ASSUME NEW k \in ProposalIds, ExecuteProposal(k)
      PROVE  (proposals[i].yesVotes + proposals[i].noVotes = Cardinality(hasVoted[i])
                /\ hasVoted[i] \subseteq members[proposals[i].equbId])'
  BY <1>0, <1>5, ExecuteEffect DEF Same
<1>6. ASSUME NEW k \in ProposalIds, NEW u \in Users, CancelProposal(u, k)
      PROVE  (proposals[i].yesVotes + proposals[i].noVotes = Cardinality(hasVoted[i])
                /\ hasVoted[i] \subseteq members[proposals[i].equbId])'
  BY <1>0, <1>6, CancelEffect DEF Same
<1>7. ASSUME NEW k \in ProposalIds, NEW u \in Users, NEW support \in BOOLEAN, Vote(u, k, support)
      PROVE  (proposals[i].yesVotes + proposals[i].noVotes = Cardinality(hasVoted[i])
                /\ hasVoted[i] \subseteq members[proposals[i].equbId])'
  <2>1. /\ hasVoted' = [hasVoted EXCEPT ![k] = @ \cup {u}] /\ UNCHANGED members
        /\ u \notin hasVoted[k] /\ u \in members[proposals[k].equbId]
    BY <1>7 DEF Vote, poolVars
  <2>2. CASE i # k
    <3>1. hasVoted'[i] = hasVoted[i] /\ proposals'[i] = proposals[i]
      BY <1>0, <1>7, <2>1, <2>2, VoteEffect DEF TypeOK
    <3>2. QED BY <1>0, <2>1, <3>1
  <2>3. CASE i = k
    <3>1. hasVoted'[i] = hasVoted[i] \cup {u}
      BY <1>0, <2>1, <2>3 DEF TypeOK
    <3>2. hasVoted[i] \in SUBSET Users
      BY <1>0 DEF TypeOK
    <3>3. IsFiniteSet(hasVoted[i])
      BY <3>2, FS_Subset
    <3>4. Cardinality(hasVoted'[i]) = Cardinality(hasVoted[i]) + 1
      <4>1. u \notin hasVoted[i]
        BY <2>1, <2>3
      <4>2. Cardinality(hasVoted[i] \cup {u}) = Cardinality(hasVoted[i]) + 1
        BY <3>3, <4>1, FS_AddElement
      <4>3. QED BY <3>1, <4>2
    <3>5. /\ proposals'[i].yesVotes = IF support THEN proposals[i].yesVotes + 1 ELSE proposals[i].yesVotes
          /\ proposals'[i].noVotes = IF support THEN proposals[i].noVotes ELSE proposals[i].noVotes + 1
          /\ proposals'[i].equbId = proposals[i].equbId
      BY <1>0, <1>7, <2>3, VoteEffect
    <3>6. proposals[i].yesVotes \in Nat /\ proposals[i].noVotes \in Nat
      BY <1>0 DEF TypeOK, Proposal
    <3>7. proposals'[i].yesVotes + proposals'[i].noVotes = proposals[i].yesVotes + proposals[i].noVotes + 1
      BY <3>5, <3>6
    <3>8. QED BY <1>0, <2>1, <2>3, <3>1, <3>4, <3>5, <3>7
  <2>4. QED BY <2>2, <2>3
<1>8. CASE UNCHANGED vars
  BY <1>0, <1>8 DEF vars
<1> QED BY <1>1, <1>2, <1>3, <1>4, <1>5, <1>6, <1>7, <1>8 DEF Next

\* The tally of every proposal counts the members that voted, each once (vote).
THEOREM HonestTally == Spec => []TallyIsHonest
<1>1. Init => TypeInv /\ TallyIsHonest
  BY InitTypeInv, InitTally
<1>2. TypeInv /\ TallyIsHonest /\ [Next]_vars => TypeInv' /\ TallyIsHonest'
  BY StepTypeInv, StepTally
<1> QED BY <1>1, <1>2, PTL DEF Spec

-----------------------------------------------------------------------------
(* Approved rules and final results *)

\* Once the deadline of a proposal has passed, a step that is not its own
\* execution leaves what decides about it.
LEMMA AfterDeadline ==
    ASSUME TypeInv, [Next]_vars, NEW i \in ProposalIds, Exists(i), now > proposals[i].deadline
    PROVE  /\ Same(proposals'[i], proposals[i])
           /\ proposals'[i].cancelled = proposals[i].cancelled
           /\ now' > proposals'[i].deadline
           /\ hasVoted'[i] = hasVoted[i]
           /\ ExecuteProposal(i) \/ proposals'[i] = proposals[i]
<1> USE GovernorAssumption
<1>0. TypeOK /\ now \in Nat /\ proposals[i].deadline \in Nat
  BY DEF TypeInv, TypeOK, Proposal
<1> DEFINE Goal == /\ Same(proposals'[i], proposals[i])
                   /\ proposals'[i].cancelled = proposals[i].cancelled
                   /\ now' > proposals'[i].deadline
                   /\ hasVoted'[i] = hasVoted[i]
                   /\ ExecuteProposal(i) \/ proposals'[i] = proposals[i]
<1>1. CASE Tick
  BY <1>0, <1>1 DEF Tick, Same
<1>2. ASSUME NEW address \in {Governor, Other}, SetGovernor(address) PROVE Goal
  BY <1>0, <1>2 DEF SetGovernor, Same
<1>3. ASSUME NEW u \in Users, NEW p \in PoolIds, JoinPool(u, p) PROVE Goal
  BY <1>0, <1>3 DEF JoinPool, Same
<1>4. ASSUME NEW u \in Users, NEW p \in PoolIds, NEW newRules \in Rules, ProposeRuleChange(u, p, newRules) PROVE Goal
  <2>1. PICK n \in ProposalIds : Adds(n, p)
    BY <1>4, ProposeAdds
  <2>2. i # n /\ UNCHANGED <<now, hasVoted>>
    BY <2>1 DEF Adds
  <2>3. proposals'[i] = proposals[i]
    BY <2>1, <2>2 DEF Adds
  <2>4. QED BY <1>0, <2>2, <2>3 DEF Same
<1>5. ASSUME NEW k \in ProposalIds, ExecuteProposal(k) PROVE Goal
  <2>1. Same(proposals'[i], proposals[i]) /\ UNCHANGED <<now, hasVoted>>
    BY <1>0, <1>5, ExecuteEffect
  <2>2. CASE i = k
    BY <1>0, <1>5, <2>1, <2>2, ExecuteEffect DEF Same
  <2>3. CASE i # k
    BY <1>0, <1>5, <2>1, <2>3, ExecuteEffect DEF Same
  <2>4. QED BY <2>2, <2>3
<1>6. ASSUME NEW k \in ProposalIds, NEW u \in Users, CancelProposal(u, k) PROVE Goal
  <2>1. /\ Same(proposals'[i], proposals[i]) /\ UNCHANGED <<now, hasVoted>>
        /\ now <= proposals[k].deadline /\ (k # i => proposals'[i] = proposals[i])
    BY <1>0, <1>6, CancelEffect
  <2>2. k # i
    BY <1>0, <2>1
  <2>3. QED BY <1>0, <2>1, <2>2 DEF Same
<1>7. ASSUME NEW k \in ProposalIds, NEW u \in Users, NEW support \in BOOLEAN, Vote(u, k, support) PROVE Goal
  <2>1. /\ now <= proposals[k].deadline /\ UNCHANGED now
        /\ hasVoted' = [hasVoted EXCEPT ![k] = @ \cup {u}]
    BY <1>7 DEF Vote
  <2>2. k # i
    BY <1>0, <2>1
  <2>3. proposals'[i] = proposals[i] /\ hasVoted'[i] = hasVoted[i]
    BY <1>0, <1>7, <2>1, <2>2, VoteEffect DEF TypeOK
  <2>4. QED BY <1>0, <2>1, <2>3 DEF Same
<1>8. CASE UNCHANGED vars
  BY <1>0, <1>8 DEF vars, Same
<1> QED BY <1>1, <1>2, <1>3, <1>4, <1>5, <1>6, <1>7, <1>8 DEF Next

\* A proposal that a step executes had passed.
LEMMA ExecutedWhenPassed ==
    ASSUME TypeInv, [Next]_vars, NEW i \in ProposalIds, proposals'[i].executed, ~proposals[i].executed
    PROVE  ExecuteProposal(i)
<1> USE GovernorAssumption
<1>0. TypeOK
  BY DEF TypeInv
<1>1. CASE Tick
  BY <1>1 DEF Tick
<1>2. ASSUME NEW address \in {Governor, Other}, SetGovernor(address) PROVE FALSE
  BY <1>2 DEF SetGovernor
<1>3. ASSUME NEW u \in Users, NEW p \in PoolIds, JoinPool(u, p) PROVE FALSE
  BY <1>3 DEF JoinPool
<1>4. ASSUME NEW u \in Users, NEW p \in PoolIds, NEW newRules \in Rules, ProposeRuleChange(u, p, newRules) PROVE FALSE
  BY <1>4, ProposeAdds DEF Adds
<1>5. ASSUME NEW k \in ProposalIds, ExecuteProposal(k) PROVE ExecuteProposal(i)
  BY <1>0, <1>5, ExecuteEffect
<1>6. ASSUME NEW k \in ProposalIds, NEW u \in Users, CancelProposal(u, k) PROVE FALSE
  BY <1>0, <1>6, CancelEffect
<1>7. ASSUME NEW k \in ProposalIds, NEW u \in Users, NEW support \in BOOLEAN, Vote(u, k, support) PROVE FALSE
  BY <1>0, <1>7, VoteEffect
<1>8. CASE UNCHANGED vars
  BY <1>8 DEF vars
<1> QED BY <1>1, <1>2, <1>3, <1>4, <1>5, <1>6, <1>7, <1>8 DEF Next

LEMMA RulesChangeByExecution ==
    ASSUME TypeInv, [Next]_vars
    PROVE  rules' = rules \/ \E k \in ProposalIds : ExecuteProposal(k)
<1>1. ASSUME NEW u \in Users, NEW k \in ProposalIds, CancelProposal(u, k) PROVE rules' = rules
  BY <1>1 DEF CancelProposal, poolVars
<1>2. ASSUME NEW u \in Users, NEW k \in ProposalIds, NEW support \in BOOLEAN, Vote(u, k, support) PROVE rules' = rules
  BY <1>2 DEF Vote, poolVars
<1>3. ASSUME NEW u \in Users, NEW p \in PoolIds, NEW newRules \in Rules, ProposeRuleChange(u, p, newRules) PROVE rules' = rules
  BY <1>3 DEF ProposeRuleChange, poolVars
<1>4. ASSUME NEW u \in Users, NEW p \in PoolIds, JoinPool(u, p) PROVE rules' = rules
  BY <1>4 DEF JoinPool
<1>5. ASSUME NEW address \in {Governor, Other}, SetGovernor(address) PROVE rules' = rules
  BY <1>5 DEF SetGovernor
<1>6. CASE Tick
  BY <1>6 DEF Tick, poolVars
<1>7. CASE UNCHANGED vars
  BY <1>7 DEF vars
<1> QED BY <1>1, <1>2, <1>3, <1>4, <1>5, <1>6, <1>7 DEF Next

LEMMA StepApproved == TypeInv /\ RulesAreApproved /\ [Next]_vars => RulesAreApproved'
<1> SUFFICES ASSUME TypeInv, RulesAreApproved, [Next]_vars PROVE RulesAreApproved'
  OBVIOUS
<1>0. TypeOK
  BY DEF TypeInv
<1>1. ASSUME NEW i \in ProposalIds, proposals[i].executed
      PROVE  Same(proposals'[i], proposals[i]) /\ proposals'[i].executed /\ Passed(i)'
  <2>1. Passed(i)
    BY <1>1 DEF RulesAreApproved
  <2>2. /\ Same(proposals'[i], proposals[i]) /\ proposals'[i].cancelled = proposals[i].cancelled
        /\ now' > proposals'[i].deadline /\ (ExecuteProposal(i) \/ proposals'[i] = proposals[i])
    BY <2>1, AfterDeadline DEF Passed
  <2>3. proposals'[i].executed
    BY <1>0, <1>1, <2>2, ExecuteEffect
  <2>4. Passed(i)'
    BY <2>1, <2>2 DEF Passed, Same, Exists
  <2>5. QED BY <2>2, <2>3, <2>4
<1>2. ASSUME NEW i \in ProposalIds, proposals'[i].executed PROVE Passed(i)'
  <2>1. CASE proposals[i].executed
    BY <1>1, <2>1
  <2>2. CASE ~proposals[i].executed
    <3>1. ExecuteProposal(i)
      BY <1>2, <2>2, ExecutedWhenPassed
    <3>2. Passed(i)
      BY <1>0, <3>1, ExecuteEffect
    <3>3. /\ Same(proposals'[i], proposals[i]) /\ proposals'[i].cancelled = proposals[i].cancelled
          /\ now' > proposals'[i].deadline
      BY <3>2, AfterDeadline DEF Passed
    <3>4. QED BY <3>2, <3>3 DEF Passed, Same, Exists
  <2>3. QED BY <2>1, <2>2
<1> DEFINE Explained(p) == \/ rules[p] = InitialRules
                           \/ \E i \in ProposalIds : /\ proposals[i].equbId = p
                                                     /\ proposals[i].proposedRules = rules[p]
                                                     /\ proposals[i].executed
<1>3. ASSUME NEW p \in PoolIds PROVE Explained(p)'
  <2>1. CASE rules'[p] = rules[p]
    <3>1. Explained(p)
      BY DEF RulesAreApproved
    <3>2. QED BY <1>1, <2>1, <3>1 DEF Same
  <2>2. CASE rules'[p] # rules[p]
    <3>1. PICK k \in ProposalIds : ExecuteProposal(k)
      BY <2>2, RulesChangeByExecution
    <3>2. p = proposals[k].equbId /\ rules'[p] = proposals[k].proposedRules
      BY <1>0, <2>2, <3>1, ExecuteEffect
    <3>3. Same(proposals'[k], proposals[k]) /\ proposals'[k].executed
      BY <1>0, <3>1, ExecuteEffect
    <3>4. QED BY <3>2, <3>3 DEF Same
  <2>3. QED BY <2>1, <2>2
<1> QED BY <1>2, <1>3 DEF RulesAreApproved

LEMMA InitApproved == Init => RulesAreApproved
BY DEF Init, RulesAreApproved, NoProposal

\* A pool has the rules it was created with or those of a proposal a majority
\* approved, whatever is proposed, voted and executed (executeProposal).
THEOREM ApprovedRules == Spec => []RulesAreApproved
<1>1. Init => TypeInv /\ RulesAreApproved
  BY InitTypeInv, InitApproved
<1>2. TypeInv /\ RulesAreApproved /\ [Next]_vars => TypeInv' /\ RulesAreApproved'
  BY StepTypeInv, StepApproved
<1> QED BY <1>1, <1>2, PTL DEF Spec

\* After the deadline nothing changes a result, and it takes effect at most
\* once (vote, cancelProposal, executeProposal).
THEOREM FinalResults == Spec => ResultIsFinal
<1> DEFINE Final(i) ==
      (Exists(i) /\ now > proposals[i].deadline) =>
          /\ Passed(i)' = Passed(i)
          /\ proposals[i].executed => proposals'[i] = proposals[i] /\ UNCHANGED hasVoted[i]
          /\ (proposals'[i].executed /\ ~proposals[i].executed) =>
                 rules'[proposals[i].equbId] = proposals[i].proposedRules
<1>1. ASSUME TypeInv, [Next]_vars, NEW i \in ProposalIds PROVE Final(i)
  <2> SUFFICES ASSUME Exists(i), now > proposals[i].deadline
               PROVE  /\ Passed(i)' = Passed(i)
                      /\ proposals[i].executed => proposals'[i] = proposals[i] /\ UNCHANGED hasVoted[i]
                      /\ (proposals'[i].executed /\ ~proposals[i].executed) =>
                             rules'[proposals[i].equbId] = proposals[i].proposedRules
    OBVIOUS
  <2>0. TypeOK
    BY <1>1 DEF TypeInv
  <2>1. /\ Same(proposals'[i], proposals[i]) /\ proposals'[i].cancelled = proposals[i].cancelled
        /\ now' > proposals'[i].deadline /\ hasVoted'[i] = hasVoted[i]
        /\ (ExecuteProposal(i) \/ proposals'[i] = proposals[i])
    BY <1>1, AfterDeadline
  <2>2. Passed(i)' = Passed(i)
    BY <2>1 DEF Passed, Same, Exists
  <2>3. proposals[i].executed => proposals'[i] = proposals[i] /\ UNCHANGED hasVoted[i]
    BY <2>0, <2>1, ExecuteEffect
  <2>4. (proposals'[i].executed /\ ~proposals[i].executed) => rules'[proposals[i].equbId] = proposals[i].proposedRules
    BY <1>1, <2>0, ExecutedWhenPassed, ExecuteEffect
  <2>5. QED BY <2>2, <2>3, <2>4
<1>2. TypeInv /\ [Next]_vars => [\A i \in ProposalIds : Final(i)]_vars
  BY <1>1
<1>3. Spec => []TypeInv
  BY InitTypeInv, StepTypeInv, PTL DEF Spec
<1> QED BY <1>2, <1>3, PTL DEF Spec, ResultIsFinal

-----------------------------------------------------------------------------
(* The promise to the voters *)

\* What a motion is depends on its record and the clock only.
Phase(r, t) ==
    IF r.proposer = NoUser THEN "none"
    ELSE IF r.executed THEN "adopted"
    ELSE IF r.cancelled THEN "withdrawn"
    ELSE IF t > r.deadline THEN "closed" ELSE "open"

\* The variables of the promise, as functions of the governor's.
Stages(ps, t) == [i \in ProposalIds |-> Phase(ps[i], t)]
AllTerms(ps) == [i \in ProposalIds |-> [pool |-> ps[i].equbId, rules |-> ps[i].proposedRules]]
Ayes(ps) == [i \in ProposalIds |-> ps[i].yesVotes]

LEMMA View ==
    /\ [i \in ProposalIds |-> Stage(i)] = Stages(proposals, now)
    /\ [i \in ProposalIds |-> Terms(i)] = AllTerms(proposals)
    /\ [i \in ProposalIds |-> proposals[i].yesVotes] = Ayes(proposals)
<1>1. ASSUME NEW i \in ProposalIds PROVE Stage(i) = Phase(proposals[i], now)
  BY DEF Stage, Phase, Exists
<1>2. ASSUME NEW i \in ProposalIds PROVE Terms(i) = [pool |-> proposals[i].equbId, rules |-> proposals[i].proposedRules]
  BY DEF Terms
<1>3. QED BY <1>1, <1>2 DEF Stages, AllTerms, Ayes

LEMMA ViewNext ==
    ( /\ [i \in ProposalIds |-> Stage(i)] = Stages(proposals, now)
      /\ [i \in ProposalIds |-> Terms(i)] = AllTerms(proposals)
      /\ [i \in ProposalIds |-> proposals[i].yesVotes] = Ayes(proposals) )'
BY View, PTL

\* A step that keeps what proposals are about and how many approve them.
LEMMA TermsStay ==
    ASSUME NEW ps, NEW qs, \A i \in ProposalIds : Same(qs[i], ps[i])
    PROVE  AllTerms(qs) = AllTerms(ps) /\ Ayes(qs) = Ayes(ps)
BY DEF AllTerms, Ayes, Same

\* The clock passes deadlines: open motions close.
LEMMA TickCloses == ASSUME TypeInv, Tick PROVE \E over \in SUBSET ProposalIds : Promise!Close(over)
<1> DEFINE st == Stages(proposals, now)
           over == {i \in ProposalIds : st[i] = "open" /\ now' > proposals[i].deadline}
<1>1. now' = now + 1 /\ UNCHANGED <<proposals, hasVoted, members, rules>>
  BY DEF Tick, poolVars
<1>2. ASSUME NEW i \in ProposalIds PROVE Phase(proposals[i], now') = IF i \in over THEN "closed" ELSE st[i]
  <2>1. proposals[i] \in Proposal /\ now \in Nat /\ now' \in Nat
    BY <1>1 DEF TypeInv, TypeOK
  <2>2. proposals[i].deadline \in Nat
    BY <2>1 DEF Proposal
  <2>3. now > proposals[i].deadline => now' > proposals[i].deadline
    BY <1>1, <2>1, <2>2
  <2>4. st[i] = Phase(proposals[i], now)
    BY DEF Stages
  <2> DEFINE r == proposals[i]
  <2> HIDE DEF st, r
  <2>5. CASE i \in over
    <3>1. Phase(r, now) = "open" /\ now' > r.deadline
      BY <2>4, <2>5 DEF r
    <3>2. Phase(r, now') = "closed"
      <4>1. r.proposer # NoUser /\ ~r.executed /\ ~r.cancelled
        BY <3>1 DEF Phase
      <4>2. QED BY <3>1, <4>1 DEF Phase
    <3>3. QED BY <2>5, <3>2 DEF r
  <2>6. CASE i \notin over
    <3>1. Phase(r, now) # "open" \/ ~(now' > r.deadline)
      BY <2>4, <2>6 DEF r
    <3>2. Phase(r, now') = Phase(r, now)
      BY <2>1, <2>3, <3>1 DEF r, Phase
    <3>3. QED BY <2>4, <2>6, <3>2 DEF r
  <2>7. QED BY <2>5, <2>6
<1>3. \A i \in over : st[i] = "open"
  OBVIOUS
<1>4. Stages(proposals', now') = [i \in ProposalIds |-> IF i \in over THEN "closed" ELSE st[i]]
  <2> HIDE DEF st, over
  <2>1. QED BY <1>1, <1>2 DEF Stages
<1>5. Promise!Close(over)
  <2> HIDE DEF over
  <2>1. QED BY <1>1, <1>3, <1>4, View, ViewNext DEF Promise!Close
<1>6. over \in SUBSET ProposalIds
  OBVIOUS
<1>7. QED BY <1>5, <1>6

OnlyTouches(i, qs, ps) == \A j \in ProposalIds : j # i => qs[j] = ps[j]

\* A fresh id has no votes, so the new motion starts from nothing.
LEMMA ProposeMoves ==
    ASSUME TypeInv, TallyIsHonest, NEW caller \in Users, NEW p \in PoolIds, NEW newRules \in Rules,
           ProposeRuleChange(caller, p, newRules)
    PROVE  \E i \in ProposalIds : Promise!Move(i, p, newRules)
<1> DEFINE i == proposalCount + 1
           r == proposals'[i]
<1>1. /\ i \in ProposalIds /\ ~Exists(i) /\ hasVoted[i] = {}
      /\ r.equbId = p /\ r.proposer # NoUser /\ r.yesVotes = 0
      /\ r.proposedRules = newRules /\ r.deadline = now + VotingPeriod
      /\ ~r.executed /\ ~r.cancelled
      /\ \A j \in ProposalIds : j # i => proposals'[j] = proposals[j]
  BY NewProposalType
<1>2. UNCHANGED <<now, hasVoted, members, rules>>
  BY DEF ProposeRuleChange, poolVars
<1> HIDE DEF i, r
<1>3. Phase(proposals[i], now) = "none"
  BY <1>1 DEF Phase, Exists
<1>4. ~(now > r.deadline)
  BY <1>1, GovernorAssumption DEF TypeInv, TypeOK
<1>5. Phase(r, now) = "open"
  BY <1>1, <1>4 DEF Phase
<1>6. Stages(proposals', now') = [Stages(proposals, now) EXCEPT ![i] = "open"]
  <2>0. i \in ProposalIds /\ OnlyTouches(i, proposals', proposals)
    BY <1>1 DEF OnlyTouches
  <2>1. Stages(proposals', now) = [Stages(proposals, now) EXCEPT ![i] = Phase(proposals'[i], now)]
    BY <2>0 DEF OnlyTouches, Stages
  <2>2. QED BY <1>2, <1>5, <2>1 DEF r
<1>7. AllTerms(proposals') = [AllTerms(proposals) EXCEPT ![i] = [pool |-> p, rules |-> newRules]]
  BY <1>1 DEF AllTerms, r
<1>8. Ayes(proposals') = Ayes(proposals)
  <2>1. proposals[i] \in Proposal
    BY <1>1 DEF TypeInv, TypeOK
  <2>2. proposals[i].yesVotes \in Nat /\ proposals[i].noVotes \in Nat
    BY <2>1 DEF Proposal
  <2>3. proposals[i].yesVotes + proposals[i].noVotes = Cardinality({})
    BY <1>1 DEF TallyIsHonest
  <2>4. proposals[i].yesVotes = 0
    BY <2>2, <2>3, FS_EmptySet
  <2>5. \A j \in ProposalIds : proposals'[j].yesVotes = proposals[j].yesVotes
    BY <1>1, <2>4 DEF r
  <2>6. QED BY <2>5 DEF Ayes
<1>9. Stages(proposals, now)[i] = "none"
  BY <1>1, <1>3 DEF Stages
<1>10. Promise!Move(i, p, newRules)
  BY <1>2, <1>6, <1>7, <1>8, <1>9, View, ViewNext DEF Promise!Move
<1>11. QED BY <1>1, <1>10

LEMMA VoteCasts ==
    ASSUME TypeInv, NEW i \in ProposalIds, NEW voter \in Users, NEW support \in BOOLEAN,
           Vote(voter, i, support)
    PROVE  Promise!Cast(i, voter, support)
<1>0. TypeOK
  BY DEF TypeInv
<1>1. /\ \A j \in ProposalIds : j # i => proposals'[j] = proposals[j]
      /\ \A j \in ProposalIds : /\ proposals'[j].proposer = proposals[j].proposer
                               /\ proposals'[j].equbId = proposals[j].equbId
                               /\ proposals'[j].proposedRules = proposals[j].proposedRules
                               /\ proposals'[j].deadline = proposals[j].deadline
                               /\ proposals'[j].executed = proposals[j].executed
                               /\ proposals'[j].cancelled = proposals[j].cancelled
      /\ proposals'[i].yesVotes = IF support THEN proposals[i].yesVotes + 1 ELSE proposals[i].yesVotes
  BY <1>0, VoteEffect
<1>2. /\ Exists(i) /\ ~proposals[i].executed /\ ~proposals[i].cancelled /\ now <= proposals[i].deadline
      /\ voter \in members[proposals[i].equbId] \ hasVoted[i]
      /\ hasVoted' = [hasVoted EXCEPT ![i] = @ \cup {voter}]
      /\ UNCHANGED <<now, members, rules>>
  BY DEF Vote, poolVars
<1>3. ~(now > proposals[i].deadline)
  <2>1. now \in Nat /\ proposals[i].deadline \in Nat
    BY <1>0 DEF TypeOK, Proposal
  <2>2. QED BY <1>2, <2>1
<1>4. Stages(proposals, now)[i] = "open"
  <2>1. Phase(proposals[i], now) = "open"
    BY <1>2, <1>3 DEF Phase, Exists
  <2>2. QED BY <2>1 DEF Stages
<1>5. Stages(proposals', now') = Stages(proposals, now)
  <2>1. \A j \in ProposalIds : Phase(proposals'[j], now) = Phase(proposals[j], now)
    BY <1>1 DEF Phase
  <2>2. QED BY <1>2, <2>1 DEF Stages
<1>6. AllTerms(proposals') = AllTerms(proposals) /\ AllTerms(proposals)[i].pool = proposals[i].equbId
  BY <1>1 DEF AllTerms
<1>7. Ayes(proposals') = [Ayes(proposals) EXCEPT ![i] = IF support THEN @ + 1 ELSE @]
  BY <1>1 DEF Ayes
<1>8. QED BY <1>2, <1>4, <1>5, <1>6, <1>7, View, ViewNext DEF Promise!Cast

\* A second cancellation changes nothing.
LEMMA CancelWithdraws ==
    ASSUME TypeInv, NEW i \in ProposalIds, NEW u \in Users, CancelProposal(u, i)
    PROVE  Promise!Withdraw(i) \/ UNCHANGED Promise!vars
<1>0. TypeOK
  BY DEF TypeInv
<1>1. /\ proposals'[i].cancelled /\ proposals'[i].executed = proposals[i].executed
      /\ ~proposals[i].executed /\ now <= proposals[i].deadline
      /\ \A j \in ProposalIds : Same(proposals'[j], proposals[j])
      /\ \A j \in ProposalIds : j # i => proposals'[j] = proposals[j]
      /\ UNCHANGED <<now, hasVoted, members, rules>>
  BY <1>0, CancelEffect
<1>2. Exists(i)
  BY DEF CancelProposal
<1>3. AllTerms(proposals') = AllTerms(proposals) /\ Ayes(proposals') = Ayes(proposals)
  BY <1>1, TermsStay
<1>4. Phase(proposals'[i], now) = "withdrawn"
  BY <1>1, <1>2 DEF Phase, Exists, Same
<1>5. Stages(proposals', now') = [Stages(proposals, now) EXCEPT ![i] = "withdrawn"]
  <2>0. i \in ProposalIds /\ OnlyTouches(i, proposals', proposals)
    BY <1>1 DEF OnlyTouches
  <2>1. Stages(proposals', now) = [Stages(proposals, now) EXCEPT ![i] = Phase(proposals'[i], now)]
    BY <2>0 DEF OnlyTouches, Stages
  <2>2. QED BY <1>1, <1>4, <2>1
<1>6. CASE proposals[i].cancelled
  <2>1. Phase(proposals[i], now) = "withdrawn"
    BY <1>1, <1>2, <1>6 DEF Phase, Exists
  <2>2. Stages(proposals, now)[i] = "withdrawn"
    BY <2>1 DEF Stages
  <2>3. Stages(proposals', now') = Stages(proposals, now)
    BY <1>5, <2>2 DEF Stages
  <2>4. QED BY <1>1, <1>3, <2>3, View, ViewNext DEF Promise!vars
<1>7. CASE ~proposals[i].cancelled
  <2>1. ~(now > proposals[i].deadline)
    <3>1. now \in Nat /\ proposals[i].deadline \in Nat
      BY <1>0 DEF TypeOK, Proposal
    <3>2. QED BY <1>1, <3>1
  <2>2. Phase(proposals[i], now) = "open"
    BY <1>1, <1>2, <1>7, <2>1 DEF Phase, Exists
  <2>3. Stages(proposals, now)[i] = "open"
    BY <2>2 DEF Stages
  <2>4. Promise!Withdraw(i)
    BY <1>1, <1>3, <1>5, <2>3, View, ViewNext DEF Promise!Withdraw
  <2>5. QED BY <2>4
<1>8. QED BY <1>6, <1>7

\* More for than against is more than half of those that voted, because the
\* tally is honest.
LEMMA ExecuteAdopts ==
    ASSUME TypeInv, TallyIsHonest, NEW i \in ProposalIds, ExecuteProposal(i)
    PROVE  Promise!Adopt(i)
<1>0. TypeOK
  BY DEF TypeInv
<1>1. /\ proposals'[i].executed
      /\ \A j \in ProposalIds : Same(proposals'[j], proposals[j])
      /\ \A j \in ProposalIds : j # i => proposals'[j] = proposals[j]
      /\ Passed(i) /\ ~proposals[i].executed
      /\ UNCHANGED <<now, hasVoted, members>>
  BY <1>0, ExecuteEffect
<1>2. rules' = [rules EXCEPT ![proposals[i].equbId] = proposals[i].proposedRules]
  BY DEF ExecuteProposal, UpdateRules
<1>3. AllTerms(proposals') = AllTerms(proposals) /\ Ayes(proposals') = Ayes(proposals)
  BY <1>1, TermsStay
<1>4. Stages(proposals, now)[i] = "closed"
  <2>1. Phase(proposals[i], now) = "closed"
    BY <1>1 DEF Phase, Exists, Passed
  <2>2. QED BY <2>1 DEF Stages
<1>5. Stages(proposals', now') = [Stages(proposals, now) EXCEPT ![i] = "adopted"]
  <2>1. Phase(proposals'[i], now) = "adopted"
    BY <1>1 DEF Phase, Exists, Passed, Same
  <2>0. OnlyTouches(i, proposals', proposals)
    BY <1>1 DEF OnlyTouches
  <2>2. Stages(proposals', now) = [Stages(proposals, now) EXCEPT ![i] = Phase(proposals'[i], now)]
    BY <2>0 DEF OnlyTouches, Stages
  <2>3. QED BY <1>1, <2>1, <2>2
<1>6. 2 * Ayes(proposals)[i] > Cardinality(hasVoted[i])
  <2>1. proposals[i].yesVotes \in Nat /\ proposals[i].noVotes \in Nat
    BY <1>0 DEF TypeOK, Proposal
  <2>2. proposals[i].yesVotes + proposals[i].noVotes = Cardinality(hasVoted[i])
    BY DEF TallyIsHonest
  <2>3. proposals[i].yesVotes > proposals[i].noVotes
    BY <1>1 DEF Passed
  <2>4. Ayes(proposals)[i] = proposals[i].yesVotes
    BY DEF Ayes
  <2>5. QED BY <2>1, <2>2, <2>3, <2>4
<1>7. AllTerms(proposals)[i] = [pool |-> proposals[i].equbId, rules |-> proposals[i].proposedRules]
  BY DEF AllTerms
<1> DEFINE st == Stages(proposals, now)
           tm == AllTerms(proposals)
           ay == Ayes(proposals)
<1>8. /\ st[i] = "closed" /\ 2 * ay[i] > Cardinality(hasVoted[i])
      /\ Stages(proposals', now') = [st EXCEPT ![i] = "adopted"]
      /\ rules' = [rules EXCEPT ![tm[i].pool] = tm[i].rules]
      /\ AllTerms(proposals') = tm /\ Ayes(proposals') = ay
      /\ UNCHANGED <<hasVoted, members>>
  <2>1. tm[i].pool = proposals[i].equbId /\ tm[i].rules = proposals[i].proposedRules
    BY <1>7
  <2> HIDE DEF tm
  <2>2. rules' = [rules EXCEPT ![tm[i].pool] = tm[i].rules]
    BY <1>2, <2>1
  <2>3. QED BY <1>1, <1>3, <1>4, <1>5, <1>6, <2>2 DEF tm
<1> DEFINE adopted == [st EXCEPT ![i] = "adopted"]
<1> HIDE DEF st, tm, ay, adopted
<1>9. /\ [j \in ProposalIds |-> Stage(j)] = st /\ [j \in ProposalIds |-> Stage(j)]' = adopted
      /\ [j \in ProposalIds |-> Terms(j)] = tm /\ [j \in ProposalIds |-> Terms(j)]' = tm
      /\ [j \in ProposalIds |-> proposals[j].yesVotes] = ay
      /\ [j \in ProposalIds |-> proposals[j].yesVotes]' = ay
  BY <1>8, View, ViewNext DEF st, tm, ay, adopted
<1>10. rules' = [rules EXCEPT ![tm[i].pool] = tm[i].rules]
  BY <1>8
<1>11. st[i] = "closed" /\ 2 * ay[i] > Cardinality(hasVoted[i])
  BY <1>8
<1>12. Promise!Cardinality(hasVoted[i]) = Cardinality(hasVoted[i])
  BY DEF Promise!Cardinality, Cardinality, Promise!IsFiniteSet, IsFiniteSet
<1>13. QED BY <1>1, <1>9, <1>10, <1>11, <1>12 DEF Promise!Adopt, adopted

LEMMA StepPromised ==
    ASSUME TypeInv, TallyIsHonest, [Next]_vars
    PROVE  [Promise!Next]_(Promise!vars)
<1>1. CASE Tick
  BY <1>1, TickCloses DEF Promise!Next
<1>2. ASSUME NEW address \in {Governor, Other}, SetGovernor(address) PROVE UNCHANGED Promise!vars
  BY <1>2, View, ViewNext DEF SetGovernor, Promise!vars
<1>3. ASSUME NEW u \in Users, NEW p \in PoolIds, JoinPool(u, p) PROVE Promise!Next
  <2>1. Promise!Enrol(u, p)
    BY <1>3, View, ViewNext DEF JoinPool, Promise!Enrol
  <2>2. QED BY <2>1 DEF Promise!Next
<1>4. ASSUME NEW u \in Users, NEW p \in PoolIds, NEW newRules \in Rules,
             ProposeRuleChange(u, p, newRules)
      PROVE  Promise!Next
  BY <1>4, ProposeMoves DEF Promise!Next
<1>5. ASSUME NEW i \in ProposalIds, ExecuteProposal(i) PROVE Promise!Next
  BY <1>5, ExecuteAdopts DEF Promise!Next
<1>6. ASSUME NEW i \in ProposalIds, NEW u \in Users, CancelProposal(u, i)
      PROVE  Promise!Next \/ UNCHANGED Promise!vars
  BY <1>6, CancelWithdraws DEF Promise!Next
<1>7. ASSUME NEW i \in ProposalIds, NEW u \in Users, NEW support \in BOOLEAN, Vote(u, i, support)
      PROVE  Promise!Next
  BY <1>7, VoteCasts DEF Promise!Next
<1>8. CASE UNCHANGED vars
  BY <1>8, View, ViewNext DEF vars, Promise!vars
<1> QED BY <1>1, <1>2, <1>3, <1>4, <1>5, <1>6, <1>7, <1>8 DEF Next

LEMMA InitPromised == Init => Promise!Init
<1> SUFFICES ASSUME Init PROVE Promise!Init
  OBVIOUS
<1>1. \A i \in ProposalIds : proposals[i] = NoProposal
  BY DEF Init
<1>2. NoProposal.proposer = NoUser /\ NoProposal.yesVotes = 0
  BY DEF NoProposal
<1>3. \A i \in ProposalIds : Stage(i) = "none" /\ proposals[i].yesVotes = 0
  BY <1>1, <1>2 DEF Stage, Exists
<1>4. QED BY <1>3 DEF Init, Promise!Init

\* Every behaviour of the contract, seen through its motions and the rules, is
\* a behaviour of the promise: one vote per member while a motion is open, and
\* rules change only to a closed motion's that most of its voters approved
\* (vote, executeProposal, cancelProposal).
THEOREM BallotRefinement == Spec => ImplementsBallot
<1>1. Init => TypeInv /\ TallyIsHonest /\ Promise!Init
  BY InitTypeInv, InitTally, InitPromised
<1>2. TypeInv /\ TallyIsHonest /\ [Next]_vars => TypeInv' /\ TallyIsHonest'
  BY StepTypeInv, StepTally
<1>3. TypeInv /\ TallyIsHonest /\ [Next]_vars => [Promise!Next]_(Promise!vars)
  BY StepPromised
<1> QED BY <1>1, <1>2, <1>3, PTL DEF Spec, ImplementsBallot, Promise!Spec
=============================================================================
