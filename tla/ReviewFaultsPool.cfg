SPECIFICATION FaultyFairSpec
CONSTANTS
    p1 = p1
    p2 = p2
    sA = sA
    sB = sB
    h1 = h1
    h2 = h2
    m1 = m1
    fA = fA
    fB = fB
    gA = gA
    gB = gB
    None = None
    PullRequests <- TwoPulls
    Shas <- OneSha
    Deliveries <- PairDeliveries
    Hooks <- PairHook
    Replays = {}
    ReplayOf <- NoReplay
    Manuals <- PairManual
    Ignored = {}
    PrOf <- PairPr
    RefreshId <- PairRefresh
    Slots = {w1, w2}
    MaxRetries = 0
    MaxMoves = 0
    MaxRestarts = 0
    MaxFaults = 1
PROPERTIES
    PoolKeepsWorking
