------------------------------- MODULE MCIndexer ------------------------------
EXTENDS Indexer

Event(contract, name, arg) == [contract |-> contract, name |-> name, arg |-> arg]

\* The contributions of round 2 reopen the pool; a member defaults.
Pool == <<Event("EqubPool", "PoolCreated", 0), Event("EqubPool", "RoundClosed", 1),
          Event("EqubPool", "ContributionReceived", 2)>>
Defaulting == <<Event("EqubPool", "PoolCreated", 0), Event("EqubPool", "DefaultTriggered", 1),
                Event("EqubPool", "RoundClosed", 1)>>
\* The pool and its stream come from two contracts.
Stream == <<Event("EqubPool", "PoolCreated", 0), Event("PayoutStream", "StreamCreated", 3),
            Event("PayoutStream", "StreamFrozen", 0)>>
Paid == <<Event("EqubPool", "PoolCreated", 0), Event("PayoutStream", "StreamCreated", 3),
          Event("PayoutStream", "RoundReleased", 1)>>
Vote == <<Event("EqubGovernor", "ProposalCreated", 0), Event("EqubGovernor", "VoteCast", 1),
          Event("EqubGovernor", "VoteCast", 0)>>
Executed == <<Event("EqubGovernor", "ProposalCreated", 0), Event("EqubGovernor", "VoteCast", 1),
              Event("EqubGovernor", "ProposalExecuted", 0)>>
Score == <<Event("CreditRegistry", "ScoreUpdated", 1), Event("CreditRegistry", "ScoreUpdated", 0)>>
Joined == <<Event("EqubPool", "PoolCreated", 0), Event("EqubPool", "JoinedPool", 0)>>
Cancelled == <<Event("EqubGovernor", "ProposalCreated", 0), Event("EqubGovernor", "VoteCast", 0),
               Event("EqubGovernor", "ProposalCancelled", 0)>>
Slashed == <<Event("CollateralVault", "CollateralDeposited", 2), Event("CollateralVault", "CollateralLocked", 1),
             Event("CollateralVault", "CollateralSlashed", 1)>>

Logs == {Pool, Defaulting, Stream, Paid, Vote, Executed, Score, Joined, Cancelled, Slashed}
=============================================================================
