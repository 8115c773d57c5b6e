CONSTANTS
    u1 = u1
    u2 = u2
    u3 = u3
    native = native
    NoUser = NoUser
    Users <- TwoUsers
    Tokens = {native}
    Tiers = {0}
    TierConfigs <- OneTier
    Contributions = {1, 2}
    Sizes = {2}
    Totals = {2}
    Percents = {0}
    RoundCounts = {1}
    Amounts = {1}
    MaxPools = 2
    MaxRound = 1
    MaxDeposits = 2
    MinScore = 0
SPECIFICATION Spec
INVARIANTS  CustodyIsContributions VaultSolvent
 
SYMMETRY Symmetry
CHECK_DEADLOCK FALSE
