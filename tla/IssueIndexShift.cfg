SPECIFICATION IndexSpec
CONSTANTS
    Count = 3
    PageSize = 1
    MaxPages = 2
    Overlap = 1
    MaxSeconds = 1
    MaxUpdates = 2
    MaxSyncs = 2
INVARIANT
    NothingIsSkipped
CHECK_DEADLOCK FALSE
