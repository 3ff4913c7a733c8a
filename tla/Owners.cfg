SPECIFICATION SpecOwner
CONSTANTS
    Caller = {r1, r2, r3, r4}
    MaxSecret = 3
    MaxFailures = 1
INVARIANTS
    OwnerCanAuthenticate
    RevokedIsRefused
SYMMETRY Symmetry
CHECK_DEADLOCK FALSE
