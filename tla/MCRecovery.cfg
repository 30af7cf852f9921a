SPECIFICATION FairSpec
CONSTANTS
    Limit = 64
    MaxConns = 3
    Borrowers = {1, 2}
    Interval = 0
    MaxFailures = 0
    LateTerminal = {"told", "dropped"}
    MaxChans = 2
    Users = {}
PROPERTIES
    ImplementsChannelManager
    ConnectionCloseEndsAll
    RecoversOnNewConnection
CHECK_DEADLOCK FALSE
