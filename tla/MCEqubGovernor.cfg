CONSTANTS
    u1 = u1
    u2 = u2
    r0 = r0
    r1 = r1
    r2 = r2
    NoUser = NoUser
    Users <- MCUsers
    PoolIds <- TwoPools
    Creator <- MCCreator
    Rules <- MCRules
    InitialRules = r0
    Governor = Governor
    Other = Other
    VotingPeriod = 1
    CooldownPeriod = 2
    MaxProposals = 2
    MaxTime = 5
SPECIFICATION Spec
INVARIANT RulesAreApproved
PROPERTIES ResultIsFinal ImplementsBallot
SYMMETRY Symmetry
