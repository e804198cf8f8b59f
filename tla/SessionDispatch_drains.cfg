CONSTANTS
    Requests = {r1, r2, r3}
    Capacity = 2
    MaxSequence = 4
    MaxAsks = 0
    Confirms <- NoConfirms
    Outcomes <- Natural
    AutoCompact = TRUE
    CompactMayFail = FALSE
    Manual = FALSE
    Withdraws = FALSE
    Resubmits = FALSE
    MayCancel = FALSE
    MayCrash = FALSE
SPECIFICATION FairSpec
INVARIANTS
    TurnAndCompactionNeverOverlap
PROPERTIES
    QueueDrains
CHECK_DEADLOCK FALSE
