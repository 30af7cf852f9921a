SPECIFICATION Spec
CONSTANTS
    Limit = 64
    MaxConns = 2
    Borrowers = {1, 2}
    Interval = 0
    MaxFailures = 0
    LateTerminal = {"told"}
    MaxChans = 2
    Users = {}
INVARIANTS
    NeverAbandoned
CHECK_DEADLOCK FALSE
