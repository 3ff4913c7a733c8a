SPECIFICATION Spec
CONSTANTS
    w1 = w1
    w2 = w2
    t1 = t1
    other = other
    Wallet = {w1, w2}
    BitcoinLike = {w1}
    Tx = {t1}
    To <- MCTo
    MaxAttempts = 2
    MaxFaults = 2
PROPERTIES
    CreatedIsWatched
    Reconnects
CHECK_DEADLOCK FALSE
