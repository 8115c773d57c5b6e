CONSTANTS
    w1 = w1
    w2 = w2
    k1 = k1
    k2 = k2
    k3 = k3
    r1 = r1
    r2 = r2
    NoWallet = NoWallet
    Wallets <- TwoWallets
    Keys = {k1, k2}
    Readers = {r1}
    MaxMembers = 2
    MaxSeasons = 2
    MaxNumber = 3
    MaxCalls = 2
SPECIFICATION Spec
INVARIANT NoRepeatWinner
SYMMETRY Symmetry
CHECK_DEADLOCK FALSE
