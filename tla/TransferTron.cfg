SPECIFICATION FairSpecTron
CONSTANTS
    StepCount = 25
    StageOf <- TronStageOf
    MaxAttempts = 2
    MaxFaults = 1
    Resources = {"energy"}
INVARIANTS
    CompletedIsConfirmed
    RepaymentNeedsFault
    ReclaimNeedsNoFault
PROPERTIES
    KeepsLifecycle
    Concludes
CHECK_DEADLOCK FALSE
