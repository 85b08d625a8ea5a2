SPECIFICATION FairSpec
CONSTANTS
    Tls = FALSE
    MaxSessions = 2
    MaxChunks = 2
    Greetings = {"noauth", "bad"}
    Requests = {"connect", "bad"}
INVARIANTS
    Armed
    NothingLost
PROPERTIES
    Implements
    ConnectEnds
    ClosedDrains
CHECK_DEADLOCK FALSE
