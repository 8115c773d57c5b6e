CONSTANTS
    w1 = w1
    w2 = w2
    NoWallet = NoWallet
    NoType = NoType
    Wallets <- MCWallets
    TierMax <- MCTierMax
    Amounts <- MCAmounts
    Types = {0, 1}
    Requests = {q1, q2}
    MaxPools = 2
    MaxRows = 2
    MaxRounds = 2
    MaxCalls = 4
    Limit = 1
SPECIFICATION InsightsSpec
INVARIANTS RowsExplained RulesAgree  
SYMMETRY Symmetry
CHECK_DEADLOCK FALSE
