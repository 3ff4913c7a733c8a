SPECIFICATION FairSpec
CONSTANTS
    Callers = {1, 2, 3, 4}
    Request <- MCAccounts
    Passes = {1, 2}
    TotalEnergy = 2
    MaxCrashes = 1
INVARIANTS
    AccountExclusive
    OneJobPerTransfer
    EnergyNotOvercommitted
PROPERTIES
    CreateReturns
    NewGetsJob
CHECK_DEADLOCK FALSE
