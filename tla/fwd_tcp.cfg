SPECIFICATION FairSpec
CONSTANTS
    Tls = FALSE
    MaxSessions = 2
    MaxChunks = 2
INVARIANTS
    Armed
    NothingLost
    ConnectOwned
PROPERTIES
    ClosedStaysQuiet
    Implements
    ConnectEnds
    ClosedDrains
CHECK_DEADLOCK FALSE
