SPECIFICATION Spec
CHECK_DEADLOCK FALSE
CONSTANTS
    t1 = t1
    c1 = c1
    Txs = {t1}
    Closings = {c1}
    Bitcoin = TRUE
    MaxHandlers = 2
    MaxRetries = 1
    MaxCrashes = 1
INVARIANTS
    RevokedIsNotSigned
    StopsAtHalfRevoked
    FinishedIsSigned
PROPERTIES
    PaidIsFinished
