CONSTANTS
    Requests = {r1, r2}
    Capacity = 2
    MaxSequence = 4
    MaxAsks = 0
    Confirms <- NoConfirms
    Outcomes <- Natural
    AutoCompact = TRUE
    CompactMayFail = FALSE
    Manual = FALSE
    Withdraws = TRUE
    Resubmits = TRUE
    MayCancel = TRUE
    MayCrash = FALSE
SYMMETRY RequestSymmetry
SPECIFICATION Spec
INVARIANTS
    TurnAndCompactionNeverOverlap
CHECK_DEADLOCK FALSE
