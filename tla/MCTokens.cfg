CONSTANTS
    u1 = u1
    u2 = u2
    usdc = usdc
    r1 = r1
    None = None
    Router = Router
    Nobody = Nobody
    Tokens = {usdc}
    Users <- MCUsers
    Requests = {r1}
    Amounts = {3}
    Lookback = 2
    Chunk = 2
    Limit = 2
    Wealth = 6
    MaxCoins = 6
    MaxBlocks = 4
    MaxQuotes = 1
    MaxScans = 1
SPECIFICATION Spec
INVARIANTS MarketBacked QuoteExplained 
PROPERTY ImplementsExchange
SYMMETRY Symmetry
CHECK_DEADLOCK FALSE
