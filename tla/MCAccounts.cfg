CONSTANTS
    w1 = w1
    w2 = w2
    s1 = s1
    dev = dev
    r1 = r1
    r2 = r2
    None = None
    Wallets <- MCWallets
    Subjects = {s1}
    DevHash = dev
    Requests <- MCRequests
    DevMode = TRUE
    MaxCalls = 4
SPECIFICATION Spec
INVARIANTS SignatureUsedOnce 
PROPERTY NeverUnbound
SYMMETRY Symmetry
CHECK_DEADLOCK FALSE
