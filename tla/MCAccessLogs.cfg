CONSTANTS
    QueueMax = 3
    BatchMax = 2
    MaxRecorded = 6
    HasEndpoint = TRUE
    Blank = {2}
SPECIFICATION Spec
INVARIANTS
    TypeOK
    NothingVanishes
    KboardAccount
    ExitLeavesOverflowOnly
PROPERTIES
    ImplementsQueue
    EntriesAreDelivered
