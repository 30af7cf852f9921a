SPECIFICATION FairSpec
CONSTANTS
    MaxChans = 2
    Users = {u1}
INVARIANTS
    IInv
    MappingInv
    ManagedInv
    NoOrphanChannel
    GenerationNamesChannel
PROPERTIES
    ImplementsManagedChannel
    StateEventsRead
    RecoversOnLiveConnection
    CloseLeavesNothing
CHECK_DEADLOCK FALSE
