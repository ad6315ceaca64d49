SPECIFICATION Spec
CONSTANTS
    p1 = p1
    sA = sA
    sB = sB
    h1 = h1
    h2 = h2
    x1 = x1
    m1 = m1
    fA = fA
    fB = fB
    None = None
    PullRequests <- OnePull
    Shas <- TwoShas
    Deliveries <- ReplayDeliveries
    Hooks <- ReplayHooks
    Replays <- TheReplay
    ReplayOf <- TheReplayOf
    Manuals = {}
    Ignored = {}
    PrOf <- ReplayPr
    RefreshId <- Refresh
    Slots = {w1, w2}
    MaxRetries = 1
    MaxMoves = 2
    MaxRestarts = 1
SYMMETRY SlotSymmetry
INVARIANTS
    TypeOK
    OneWorkerPerPull
    ClaimIsKept
    NoLeakedClaim
    ReviewedOnce
    ReviewIsPublished
    AttemptsBounded
PROPERTIES
    SettledStays
    KeepsPromise
