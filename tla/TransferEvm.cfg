SPECIFICATION FairSpecEvm
CONSTANTS
    StepCount = 7
    StageOf <- EvmStageOf
    MaxAttempts = 3
    MaxFaults = 2
    MinConfirmations = 2
INVARIANTS
    CompletedIsConfirmed
    RepaymentNeedsFault
PROPERTIES
    LifecycleUnlessLate
    Concludes
CHECK_DEADLOCK FALSE
