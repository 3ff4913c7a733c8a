SPECIFICATION Spec
CONSTANTS
    StepCount = 5
    StageOf <- MCStageOf
    MaxAttempts = 3
    MaxFaults = 2
INVARIANTS
    InOrder
PROPERTIES
    SettledForGood
    PendingJumpHonoured
    VerdictIsFinal
CHECK_DEADLOCK FALSE
