SPECIFICATION Spec
CONSTANTS
    MaxChans = 2
    Messages = {m1, m2}
    NoMessage = none
    Concurrency = 1
    QOSPrefetch = 1
    CloseGracefully = TRUE
    MayGiveUp = FALSE
    Closers = {c1, c2}
    Impatient = {c2}
INVARIANT GracefulCloseWaits
CHECK_DEADLOCK FALSE
SYMMETRY MessageSymmetry
