SPECIFICATION Spec
CONSTANTS
    MaxChans = 3
    MaxCalls = 1
    MaxTags = 2
    MaxHandlers = 1
    Callers = {c1}
    MayGiveUp = TRUE
INVARIANTS IInv ReturnHeard FlowListened PublishHeard  CloseLeavesNothing
CHECK_DEADLOCK FALSE
