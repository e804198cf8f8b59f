CONSTANTS
    Requests = {r1, r2, r3}
    Capacity = 2
    MaxSequence = 4
    MaxOrphans = 1
    MaxWaiting = 1
    Cancellable <- NoneCancelled
    MayFail = FALSE
SYMMETRY RequestSymmetry
SPECIFICATION Spec
INVARIANTS
    TypeOK
    AcceptedIsDurable
    ClaimedNeverReturns
    WithinCapacity
PROPERTIES
    ImplementsDurableInbox
