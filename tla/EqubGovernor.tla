---------------------------- MODULE EqubGovernor ----------------------------
(***************************************************************************)
(* contracts/src/EqubGovernor.sol: the creator of a pool proposes rules,   *)
(* its members vote until a deadline, anyone executes what a majority      *)
(* approved, and EqubPool accepts the new rules from its governor only.    *)
(* Of EqubPool it needs the members, the creators, the rules and the       *)
(* registered governor.  Time is block.timestamp: it never goes back, and  *)
(* several transactions may carry the same one.                            *)
(***************************************************************************)
EXTENDS Integers, FiniteSets

CONSTANTS
    Users,          \* accounts
    NoUser,         \* address(0)
    PoolIds,        \* the pools there are
    Creator,        \* Creator[p]: poolCreator
    Rules,          \* rule sets
    InitialRules,   \* the rules every pool is created with
    Governor,       \* the address of this contract
    Other,          \* another address the owner may register as governor
    VotingPeriod,   \* votingPeriod
    CooldownPeriod, \* cooldownPeriod
    MaxProposals,   \* bound: proposals made
    MaxTime         \* bound: timestamps

ASSUME GovernorAssumption ==
    /\ Creator \in [PoolIds -> Users]
    /\ PoolIds # {}
    /\ IsFiniteSet(Users)
    /\ NoUser \notin Users
    /\ InitialRules \in Rules
    /\ Governor # Other
    /\ VotingPeriod \in Nat
    /\ CooldownPeriod \in Nat
    /\ MaxProposals \in Nat
    /\ MaxTime \in Nat

VARIABLES
    now,            \* block.timestamp
    proposalCount,
    proposals,      \* the proposals, by proposalId
    hasVoted,       \* hasVoted[i]: who voted on proposal i
    lastRejectedTimestamp,
    members,        \* EqubPool: isMember
    rules,          \* EqubPool: the rules of each pool
    equbGovernor    \* EqubPool: the registered governor

vars == <<now, proposalCount, proposals, hasVoted, lastRejectedTimestamp,
          members, rules, equbGovernor>>
poolVars == <<members, rules, equbGovernor>>

ProposalIds == 1 .. MaxProposals
Proposal == [equbId : PoolIds, proposer : Users \cup {NoUser}, proposedRules : Rules,
             yesVotes : Nat, noVotes : Nat, deadline : Nat,
             executed : BOOLEAN, cancelled : BOOLEAN]

\* The zero value of a mapping entry that was never written.
NoProposal == [equbId |-> CHOOSE p \in PoolIds : TRUE, proposer |-> NoUser,
               proposedRules |-> InitialRules, yesVotes |-> 0, noVotes |-> 0,
               deadline |-> 0, executed |-> FALSE, cancelled |-> FALSE]

\* The chain is older than a cooldown period when the governor is deployed.
Init ==
    /\ now = CooldownPeriod
    /\ proposalCount = 0
    /\ proposals = [i \in ProposalIds |-> NoProposal]
    /\ hasVoted = [i \in ProposalIds |-> {}]
    /\ lastRejectedTimestamp = [p \in PoolIds |-> 0]
    /\ members = [p \in PoolIds |-> {}]
    /\ rules = [p \in PoolIds |-> InitialRules]
    /\ equbGovernor = Other

-----------------------------------------------------------------------------
(* EqubPool *)

JoinPool(u, p) ==
    /\ u \notin members[p]
    /\ members' = [members EXCEPT ![p] = @ \cup {u}]
    /\ UNCHANGED <<now, proposalCount, proposals, hasVoted, lastRejectedTimestamp,
                   rules, equbGovernor>>

\* The owner may register another address, and the first again.
SetGovernor(address) ==
    /\ equbGovernor' = address
    /\ UNCHANGED <<now, proposalCount, proposals, hasVoted, lastRejectedTimestamp,
                   members, rules>>

UpdateRules(caller, p, newRules) ==
    /\ caller = equbGovernor
    /\ rules' = [rules EXCEPT ![p] = newRules]
    /\ UNCHANGED <<members, equbGovernor>>

-----------------------------------------------------------------------------
(* The governor *)

Tick ==
    /\ now < MaxTime
    /\ now' = now + 1
    /\ UNCHANGED <<proposalCount, proposals, hasVoted, lastRejectedTimestamp, poolVars>>

ProposeRuleChange(caller, p, newRules) ==
    LET i == proposalCount + 1
    IN  /\ caller = Creator[p]
        /\ now >= lastRejectedTimestamp[p] + CooldownPeriod
        /\ i <= MaxProposals
        /\ proposalCount' = i
        /\ proposals' = [proposals EXCEPT ![i] =
               [equbId |-> p, proposer |-> caller, proposedRules |-> newRules,
                yesVotes |-> 0, noVotes |-> 0, deadline |-> now + VotingPeriod,
                executed |-> FALSE, cancelled |-> FALSE]]
        /\ UNCHANGED <<now, hasVoted, lastRejectedTimestamp, poolVars>>

Exists(i) == proposals[i].proposer # NoUser

\* Mutants: a member may vote twice; votes are accepted one timestamp too late.
VoteAgain(voter, i, support) ==
    LET p == proposals[i]
    IN  /\ Exists(i)
        /\ ~p.executed /\ ~p.cancelled /\ now <= p.deadline
        /\ p.yesVotes + p.noVotes <= Cardinality(Users)
        /\ voter \in members[p.equbId]
        /\ hasVoted' = [hasVoted EXCEPT ![i] = @ \cup {voter}]
        /\ proposals' = [proposals EXCEPT
               ![i].yesVotes = IF support THEN @ + 1 ELSE @,
               ![i].noVotes = IF support THEN @ ELSE @ + 1]
        /\ UNCHANGED <<now, proposalCount, lastRejectedTimestamp, poolVars>>
VoteLate(voter, i, support) ==
    LET p == proposals[i]
    IN  /\ Exists(i)
        /\ ~p.executed /\ ~p.cancelled /\ now <= p.deadline + 1
        /\ voter \notin hasVoted[i]
        /\ voter \in members[p.equbId]
        /\ hasVoted' = [hasVoted EXCEPT ![i] = @ \cup {voter}]
        /\ proposals' = [proposals EXCEPT
               ![i].yesVotes = IF support THEN @ + 1 ELSE @,
               ![i].noVotes = IF support THEN @ ELSE @ + 1]
        /\ UNCHANGED <<now, proposalCount, lastRejectedTimestamp, poolVars>>

\* Membership is checked when the vote is cast, not when it was proposed.
Vote(voter, i, support) ==
    LET p == proposals[i]
    IN  /\ Exists(i)
        /\ ~p.executed
        /\ ~p.cancelled
        /\ now <= p.deadline
        /\ voter \notin hasVoted[i]
        /\ voter \in members[p.equbId]
        /\ hasVoted' = [hasVoted EXCEPT ![i] = @ \cup {voter}]
        /\ proposals' = [proposals EXCEPT
               ![i].yesVotes = IF support THEN @ + 1 ELSE @,
               ![i].noVotes = IF support THEN @ ELSE @ + 1]
        /\ UNCHANGED <<now, proposalCount, lastRejectedTimestamp, poolVars>>

\* Mutant: a tie is a majority.
ExecuteTie(i) ==
    LET p == proposals[i]
    IN  /\ Exists(i)
        /\ ~p.executed /\ ~p.cancelled
        /\ now > p.deadline
        /\ p.yesVotes >= p.noVotes
        /\ proposals' = [proposals EXCEPT ![i].executed = TRUE]
        /\ UpdateRules(Governor, p.equbId, p.proposedRules)
        /\ UNCHANGED <<now, proposalCount, hasVoted, lastRejectedTimestamp>>

\* There is no expiry, and no order between the proposals of a pool.  It
\* reverts as a whole unless EqubPool knows this contract as its governor.
ExecuteProposal(i) ==
    LET p == proposals[i]
    IN  /\ Exists(i)
        /\ ~p.executed
        /\ ~p.cancelled
        /\ now > p.deadline
        /\ p.yesVotes > p.noVotes
        /\ proposals' = [proposals EXCEPT ![i].executed = TRUE]
        /\ UpdateRules(Governor, p.equbId, p.proposedRules)
        /\ UNCHANGED <<now, proposalCount, hasVoted, lastRejectedTimestamp>>

CancelProposal(caller, i) ==
    LET p == proposals[i]
    IN  /\ Exists(i)
        /\ p.proposer = caller
        /\ ~p.executed
        /\ now <= p.deadline
        /\ proposals' = [proposals EXCEPT ![i].cancelled = TRUE]
        /\ UNCHANGED <<now, proposalCount, hasVoted, lastRejectedTimestamp, poolVars>>

Next ==
    \/ Tick
    \/ \E address \in {Governor, Other} : SetGovernor(address)
    \/ \E u \in Users, p \in PoolIds :
          \/ JoinPool(u, p)
          \/ \E newRules \in Rules : ProposeRuleChange(u, p, newRules)
    \/ \E i \in ProposalIds :
          \/ ExecuteProposal(i)
          \/ \E u \in Users :
                \/ CancelProposal(u, i)
                \/ \E support \in BOOLEAN : Vote(u, i, support)

Spec == Init /\ [][Next]_vars

-----------------------------------------------------------------------------
(* Properties *)

\* Storage has its shape, and a mapping entry is written exactly when its id
\* was given out.
TypeOK ==
    /\ now \in Nat
    /\ proposalCount \in 0 .. MaxProposals
    /\ proposals \in [ProposalIds -> Proposal]
    /\ hasVoted \in [ProposalIds -> SUBSET Users]
    /\ lastRejectedTimestamp \in [PoolIds -> Nat]
    /\ members \in [PoolIds -> SUBSET Users]
    /\ rules \in [PoolIds -> Rules]
    /\ equbGovernor \in {Governor, Other}

\* The tally is the count of the members that voted, one vote each, whatever
\* the order of joins, votes and proposals (vote).
TallyIsHonest ==
    \A i \in ProposalIds :
        /\ proposals[i].yesVotes + proposals[i].noVotes = Cardinality(hasVoted[i])
        /\ hasVoted[i] \subseteq members[proposals[i].equbId]

Passed(i) ==
    /\ Exists(i)
    /\ ~proposals[i].cancelled
    /\ now > proposals[i].deadline
    /\ proposals[i].yesVotes > proposals[i].noVotes

\* The rules of a pool are the ones it was created with or those of an executed
\* proposal of that pool, and a proposal is executed only if a majority of its
\* voters approved it by its deadline and it was not cancelled.
RulesAreApproved ==
    /\ \A p \in PoolIds :
          \/ rules[p] = InitialRules
          \/ \E i \in ProposalIds : /\ proposals[i].equbId = p
                                    /\ proposals[i].proposedRules = rules[p]
                                    /\ proposals[i].executed
    /\ \A i \in ProposalIds : proposals[i].executed => Passed(i)

\* After the deadline a result is final: at the boundary no vote, no cancel and
\* no new proposal changes what executeProposal will decide, and it decides once.
ResultIsFinal ==
    [][\A i \in ProposalIds :
          (Exists(i) /\ now > proposals[i].deadline) =>
              /\ Passed(i)' = Passed(i)
              /\ proposals[i].executed => proposals'[i] = proposals[i] /\ UNCHANGED hasVoted[i]
              /\ (proposals'[i].executed /\ ~proposals[i].executed) =>
                     rules'[proposals[i].equbId] = proposals[i].proposedRules]_vars

\* The governor as its voters see it: a proposal is open while the clock has not
\* passed its deadline, and its terms and its tally are those of its record.
Stage(i) ==
    IF ~Exists(i) THEN "none"
    ELSE IF proposals[i].executed THEN "adopted"
    ELSE IF proposals[i].cancelled THEN "withdrawn"
    ELSE IF now > proposals[i].deadline THEN "closed" ELSE "open"
Terms(i) == [pool |-> proposals[i].equbId, rules |-> proposals[i].proposedRules]

Promise == INSTANCE Ballot WITH
    Motions <- ProposalIds,
    stage <- [i \in ProposalIds |-> Stage(i)],
    terms <- [i \in ProposalIds |-> Terms(i)],
    voters <- hasVoted,
    ayes <- [i \in ProposalIds |-> proposals[i].yesVotes]

\* Whatever the clock, the order of the transactions and the registered governor,
\* no rules change but by a motion its voters carried, which is decided once.
ImplementsBallot == Promise!Spec
=============================================================================
