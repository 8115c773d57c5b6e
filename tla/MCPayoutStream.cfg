CONSTANTS
    u1 = u1
    u2 = u2
    c1 = c1
    c2 = c2
    PoolIds = {1}
    Beneficiaries <- MCUsers
    Callers <- MCCallers
    NoCaller = NoCaller
    Totals <- MCTotals
    Percents <- MCPercents
    RoundCounts <- MCRoundCounts
SPECIFICATION StreamSpec
INVARIANT StreamsPayAsPlanned
PROPERTY FrozenReleasesNothing
SYMMETRY Symmetry
