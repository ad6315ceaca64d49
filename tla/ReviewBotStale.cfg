SPECIFICATION FairSpec
CONSTANTS
    p1 = p1
    sA = sA
    sB = sB
    h1 = h1
    h2 = h2
    x1 = x1
    m1 = m1
    fA = fA
    fB = fB
    None = None
    PullRequests <- OnePull
    Shas <- TwoShas
    Deliveries <- IgnoredDeliveries
    Hooks <- LateHook
    Replays = {}
    ReplayOf <- NoReplay
    Manuals <- OneManual
    Ignored <- NotReviewed
    PrOf <- IgnoredPr
    RefreshId <- Refresh
    Slots = {w1}
    MaxRetries = 0
    MaxMoves = 1
    MaxRestarts = 0
PROPERTIES
    NewestOnly
