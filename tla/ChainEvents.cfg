SPECIFICATION FairSpecEvents
CONSTANTS
    Tx = {1, 2, 3, 4, 5}
    Blockchain <- MCBlockchain
    System = {1}
    Event <- MCEvent
    WalletType <- MCWalletType
    MinConfirmations = 2
    Modulus = 16
    MaxAttempts = 2
    MaxSent = 1
    MaxReorgs = 2
    MaxFailures = 1
INVARIANTS
    SystemIsMarked
    CompletedOnce
PROPERTIES
    EventCompletes
CHECK_DEADLOCK FALSE
