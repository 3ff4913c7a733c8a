SPECIFICATION Spec
CONSTANTS
    Callers = {1, 2, 3}
    Request <- MCUtxo
    Passes = {1, 2}
    TotalEnergy = 0
    MaxCrashes = 0
PROPERTIES
    OccupiedIsRefused
CHECK_DEADLOCK FALSE
