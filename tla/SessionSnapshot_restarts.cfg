CONSTANTS
    Requests = {r1, r2}
    MaxSeq = 3
    Outcomes <- Answers
    MayFail = TRUE
    MayRollback = FALSE
    MayAttach = TRUE
    MayCrash = TRUE
SPECIFICATION FairSpec
INVARIANTS
    SnapshotMatchesItsSeq
PROPERTIES
    FlushIsABarrier
    ClientCatchesUp
    EventsReachTheFile
    FlushReturns
CHECK_DEADLOCK FALSE
