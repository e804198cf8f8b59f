CONSTANTS
    Requests = {r1, r2}
    Capacity = 2
    MaxSequence = 4
    MaxAsks = 0
    Confirms <- NoConfirms
    Outcomes <- Natural
    AutoCompact = TRUE
    CompactMayFail = TRUE
    Manual = FALSE
    Withdraws = FALSE
    Resubmits = FALSE
    MayCancel = FALSE
    MayCrash = FALSE
SPECIFICATION FairSpec
PROPERTIES
    QueueDrains
CHECK_DEADLOCK FALSE
