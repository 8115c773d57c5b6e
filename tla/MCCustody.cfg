CONSTANTS
    w1 = w1
    w2 = w2
    p1 = p1
    r1 = r1
    r2 = r2
    None = None
    Clients = {w1}
    Pools = {p1}
    Requests <- MCRequests
    Recent = 1
    PageLimit = 1
    Tick = 2
    Amounts = {3}
    Whole = 2
    MaxCalls = 3
    MaxSent = 3
SPECIFICATION Spec
INVARIANTS  DuplicatesExplained
PROPERTY CursorSkipsNone
SYMMETRY Symmetry
CHECK_DEADLOCK FALSE
