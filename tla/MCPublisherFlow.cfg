SPECIFICATION Spec
CONSTANTS
    MaxChans = 2
    MaxCalls = 0
    MaxTags = 0
    MaxHandlers = 1
    Callers = {}
    MayGiveUp = FALSE
INVARIANTS FlowHeard
CHECK_DEADLOCK FALSE
