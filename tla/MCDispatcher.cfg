SPECIFICATION FairSpec
CONSTANTS
    MaxSubs = 2
    Dispatchers = {d1, d2}
    Free = Free
    Cleaner = Cleaner
INVARIANTS
    IInv
    NoSendOnClosed
PROPERTIES
    DispatchReturns
    UnsubscribeCloses
