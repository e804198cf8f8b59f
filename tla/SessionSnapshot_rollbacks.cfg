CONSTANTS
    Requests = {r1, r2}
    MaxSeq = 4
    Outcomes <- Answers
    MayFail = TRUE
    MayRollback = TRUE
    MayAttach = FALSE
    MayCrash = TRUE
SYMMETRY RequestSymmetry
SPECIFICATION Spec
INVARIANTS
    HistoryIsKept
PROPERTIES
    SeqNeverGoesBack
CHECK_DEADLOCK FALSE
