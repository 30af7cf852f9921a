SPECIFICATION Spec
CONSTANTS
    p1 = p1
    p2 = p2
    NoOne = NoOne
    Publishers <- MCPublishers
    MaxConns = 2
    MaxNotes = 2
INVARIANT PauseEnds
CHECK_DEADLOCK FALSE
