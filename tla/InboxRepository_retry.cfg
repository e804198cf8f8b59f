CONSTANTS
    Requests = {r1, r2}
    Capacity = 2
    MaxSequence = 3
    MaxOrphans = 1
    MaxWaiting = 1
    Cancellable <- NoneCancelled
    MayFail = TRUE
SYMMETRY RequestSymmetry
SPECIFICATION Spec
INVARIANTS
    AcceptedIsDurable
