SPECIFICATION FewSpec
CONSTANTS
    h1 = h1
    m1 = m1
    h2 = h2
    issue = issue
    None = None
    Deliveries <- ThreeDeliveries
    Hooks <- TwoHooks
    Manuals <- OneManual
    IssueOf <- TwoKeys
    Slots = {s1}
    MaxRetries = 1
    MaxReplays = 2
    MaxRestarts = 2
INVARIANTS
    TypeOK
    WorkspaceIsOwn
    SlotIsOwn
    RowIsHeld
    MarksDie
PROPERTIES
    KeepsPromise
    CancelIsFinal
    ShutdownKeepsWork
    QueuedSettles
