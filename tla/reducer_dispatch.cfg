SPECIFICATION FairSpec
CONSTANTS
    Hosts <- MCHosts
    Streams <- MCStreams
    Messages = {"valid", "invalid"}
    MaxCalls = 3
    MaxSignals = 2
    MaxKills = 1
    MaxChanges = 1
INVARIANTS
    OneReducer
    InstalledWhole
    ReasonTrue
PROPERTY DispatchEnds
CHECK_DEADLOCK FALSE
