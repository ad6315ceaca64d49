SPECIFICATION BothSpec
CONSTANTS
    p1 = p1
    p2 = p2
    sA = sA
    sB = sB
    h1 = h1
    h2 = h2
    m1 = m1
    fA = fA
    fB = fB
    gA = gA
    gB = gB
    None = None
    PullRequests <- TwoPulls
    Shas <- TwoShas
    Deliveries <- BothDeliveries
    Hooks <- PairHook
    Replays = {}
    ReplayOf <- NoReplay
    Manuals <- PairManual
    Ignored = {}
    PrOf <- BothPr
    RefreshId <- BothRefresh
    Slots = {w1, w2}
    MaxRetries = 0
    MaxMoves = 4
    MaxRestarts = 1
    MaxFaults = 2
INVARIANTS
    ReviewIsPublished
    FewStranded
PROPERTIES
    FaultIsIsolated
