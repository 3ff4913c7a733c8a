SPECIFICATION Spec
CONSTANTS
    o1 = o1
    o2 = o2
    o3 = o3
    Owner <- MCOwner
    Seed <- MCSeed
    Existing = {o1}
    Blockchain = {"ethereum", "polygon", "tron", "bitcoin"}
    Upgraded = {"polygon"}
    External = {A, B}
    WalletType = {"SEGWIT", "P2SH"}
    ColdAddress = {x}
    Request = {r1, r2}
    Pass = {p1, p2}
    MaxFaults = 1
INVARIANTS
    KeyControlsAddress
    AddressesNotShared
    LoadedStaysVisible
    QuietPassAgrees
SYMMETRY Symmetry
CHECK_DEADLOCK FALSE
