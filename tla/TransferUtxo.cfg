SPECIFICATION FairSpecUtxo
CONSTANTS
    StepCount = 6
    StageOf <- UtxoStageOf
    MaxAttempts = 3
    MaxFaults = 2
    Coins <- MCCoins
    Amount <- MCAmount
    From <- MCFrom
    To <- MCTo
    Signature = {70, 72}
    MinUTXOAmount = 100
    FeePerByte = 2
    Testnet = FALSE
    Fee = 0
    FeeMax = 3
    MinConfirmations = 2
INVARIANTS
    CompletedIsConfirmed
    ResendNeedsFault
    FeeIsPaid
PROPERTIES
    KeepsLifecycle
    Concludes
CHECK_DEADLOCK FALSE
