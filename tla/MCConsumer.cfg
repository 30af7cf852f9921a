SPECIFICATION FairSpec
CONSTANTS
    MaxChans = 2
    Messages = {m1}
    NoMessage = none
    Concurrency = 1
    QOSPrefetch = 1
    CloseGracefully = TRUE
    MayGiveUp = FALSE
    Closers = {c1}
    Impatient = {c1}
INVARIANTS IInv SettledByHandler
PROPERTIES MessageReachesHandler CloseReturns CloseLeavesNothing ClosedStopsWorkers
CHECK_DEADLOCK FALSE
