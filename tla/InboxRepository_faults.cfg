CONSTANTS
    Requests = {r1, r2}
    Capacity = 2
    MaxSequence = 3
    MaxOrphans = 1
    MaxWaiting = 1
    Cancellable <- TurnTasks
    MayFail = TRUE
SYMMETRY RequestSymmetry
VIEW Unacknowledged
SPECIFICATION Spec
INVARIANTS
    QueuesWellFormed
    FileLoads
PROPERTIES
    ClaimedReturnsOnlyByRestart
