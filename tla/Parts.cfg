SPECIFICATION PartsSpec
CONSTANTS
    \* ReviewContent
    MaxBytes = 3
    FindingLimit = 2
    Contents <- FewContents
    Replies <- FewReplies
    FormatRetries = 1
    MaxHeads = 3
    \* Autoclose
    q1 = q1
    q2 = q2
    Questions = {q1, q2}
    Nobody = Nobody
    MaxAnswers <- FewAnswers
    \* IssueIndex
    Count = 3
    PageSize = 1
    MaxPages = 2
    Overlap = 1
    MaxSeconds = 1
    MaxUpdates = 2
    MaxSyncs = 2
    \* Intake
    Bots = {"robomp", "codex"}
    Self = "robomp"
    ReviewerBots = {"codex"}
    Maintainers = {"maintainer"}
    Unrestricted = {}
    Default = 1
    Contributor = 2
    Unlimited = Unlimited
    Webhooks = {"opened", "comment", "review", "closed", "byBot", "order", "line", "run"}
    EventOf <- FewEvents
    PullsOfBot <- OnePull
    Window = 1
    MaxTime = 2
    \* AgentWork
    Foreigners = {f1}
    MaxStarts = 2
    MaxPulls = 1
    \* ReleaseTrain
    Tags = {"v1", "v2"}
    MaxRounds = 2
    MaxShas = 2
    \* PullReview
    Remarks = {r1, r2}
    MaxReviewTasks = 3
    \* NativesCache
    Keys = {k1, k2}
    Workspaces = {w1, w2}
    Variants = {"modern", "baseline"}
    None = None
    MaxEntries = 1
    MaxBuilds = 2
    MaxCacheTasks = 3
SYMMETRY WorkspaceSymmetry
INVARIANTS
    PartsTypeOK
    BatchesFaithful
    OnlyAnchored
    MergeKeepsWorst
    OpenFindingsAreCurrent
    CancelledStaysOpen
    WatermarkIsHonest
    WithinCap
    PublishedIsAuthorized
    OneRoundPerFailure
    StagedIsNotLost
    EntryKeepsContents
PROPERTY
    LeaseProtects
CHECK_DEADLOCK FALSE
