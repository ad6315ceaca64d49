SPECIFICATION Spec
CONSTANTS
    h1 = h1
    m1 = m1
    h2 = h2
    issue = issue
    None = None
    Deliveries <- ThreeDeliveries
    Hooks <- TwoHooks
    Manuals <- OneManual
    IssueOf <- TwoKeys
    Slots = {s1}
    MaxRetries = 1
    MaxReplays = 1
    MaxRestarts = 1
INVARIANT
    LateHookObserves
