CONSTANTS
    u1 = u1
    u2 = u2
    u3 = u3
    native = native
    NoUser = NoUser
    Users <- ThreeUsers
    Tokens = {native}
    Tiers = {0}
    TierConfigs <- OneTier
    Contributions = {1}
    Sizes = {3}
    Totals = {4}
    Percents = {30}
    RoundCounts = {2}
    Amounts = {}
    MaxPools = 1
    MaxRound = 4
    MaxDeposits = 0
    MinScore = 0
SPECIFICATION Spec
INVARIANTS TypeOK FrozenTogether WinnersPaid OneWinPerSeason RoundClosable
PROPERTIES SeasonEndsWhenServed StreamPerWonRound ImplementsRotation
SYMMETRY Symmetry
CHECK_DEADLOCK FALSE
