SPECIFICATION FairSpec
CONSTANTS
    Tls = FALSE
    MaxSessions = 2
    MaxChunks = 2
    Requests = {"connect", "other", "bad"}
INVARIANTS
    Armed
    NothingLost
    Survives
PROPERTIES
    Implements
    ClosedDrains
CHECK_DEADLOCK FALSE
