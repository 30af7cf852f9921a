SPECIFICATION FairSpec
CONSTANTS
    p1 = p1
    p2 = p2
    NoOne = NoOne
    Publishers <- MCPublishers
    MaxConns = 2
    MaxNotes = 2
INVARIANTS IInv NoSendOnClosed LatestRead
PROPERTIES CloseEndsReader DeadConnectionReleased
CHECK_DEADLOCK FALSE
