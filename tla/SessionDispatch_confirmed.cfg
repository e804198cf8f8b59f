CONSTANTS
    Requests = {r1, r2}
    Capacity = 2
    MaxSequence = 4
    MaxAsks = 1
    Confirms <- OneConfirm
    Outcomes <- NotFailed
    AutoCompact = TRUE
    CompactMayFail = TRUE
    Manual = TRUE
    Withdraws = TRUE
    Resubmits = TRUE
    MayCancel = FALSE
    MayCrash = FALSE
SYMMETRY RequestSymmetry
SPECIFICATION Spec
INVARIANTS
    NoClaimIsLost
PROPERTIES
    NoTurnBehindTheMark
    PausedHoldsTheQueue
CHECK_DEADLOCK FALSE
