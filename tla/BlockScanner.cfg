SPECIFICATION FairSpec
CONSTANTS
    BlocksInChunk = 2
    StartHeight = 1
    MaxHeight = 4
    MaxReorgs = 2
    MaxFaults = 1
INVARIANTS
    NoGap
PROPERTY CatchesUp
CHECK_DEADLOCK FALSE
