CONSTANTS
    Requests = {r1, r2}
    MaxSeq = 6
    Outcomes <- Answers
    MayFail = FALSE
    MayRollback = FALSE
    MayAttach = FALSE
    MayCrash = TRUE
SPECIFICATION FairSpec
PROPERTIES
    CompletedIsNotRunAgain
CHECK_DEADLOCK FALSE
