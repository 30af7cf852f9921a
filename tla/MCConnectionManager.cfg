SPECIFICATION FairSpec
CONSTANTS
    Limit = 1024
    MaxConns = 4
    Borrowers = {b1, b2}
    Interval = 2
    MaxFailures = 2
    LateTerminal = {"told"}
INVARIANTS
    IInv
    NoOrphanConnection
    BlockedHeardOnCurrent
    BackoffInBand
PROPERTIES
    FailureWaitsLonger
    RecoversUnlessClosed
    CloseLeavesNothing
CHECK_DEADLOCK FALSE
