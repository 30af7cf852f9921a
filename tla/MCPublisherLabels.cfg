SPECIFICATION Spec
CONSTANTS
    MaxChans = 2
    MaxCalls = 2
    MaxTags = 1
    MaxHandlers = 1
    Callers = {}
    MayGiveUp = FALSE
PROPERTIES LabelsUnique
CHECK_DEADLOCK FALSE
