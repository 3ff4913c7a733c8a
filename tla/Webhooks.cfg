SPECIFICATION FairSpec
CONSTANTS
    Hook = {1, 2, 3, 4}
    Request <- MCRequest
    None = None
    Quantity = 3
    ChunkSize = 2
    RemoveAfterSent = FALSE
    Healthy = {4}
    MaxCreates = 4
    MaxFaults = 1
INVARIANTS
    NothingIsLost
PROPERTIES
    StatusesInOrder
    SentIsNotRepeated
    HealthyIsServed
CHECK_DEADLOCK FALSE
