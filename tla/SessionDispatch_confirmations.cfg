CONSTANTS
    Requests = {r1, r2}
    Capacity = 2
    MaxSequence = 3
    MaxAsks = 1
    Confirms <- TwoConfirms
    Outcomes <- AllOutcomes
    AutoCompact = TRUE
    CompactMayFail = TRUE
    Manual = TRUE
    Withdraws = TRUE
    Resubmits = TRUE
    MayCancel = TRUE
    MayCrash = TRUE
SYMMETRY RequestSymmetry
SPECIFICATION Spec
INVARIANTS
    TypeOK
    AtMostOneActiveTurn
    RunHasItsDispatcher
CHECK_DEADLOCK FALSE
