CONSTANTS
    r1 = r1
    r2 = r2
    Remarks <- TwoRemarks
    MaxReviewTasks = 3
SPECIFICATION ReviewSpec
INVARIANT SkippedIsSubmitted
CHECK_DEADLOCK FALSE
