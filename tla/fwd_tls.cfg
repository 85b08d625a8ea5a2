SPECIFICATION FairSpec
CONSTANTS
    Tls = TRUE
    MaxSessions = 2
    MaxChunks = 2
INVARIANTS
    BuffersExclusive
    AtMostOneCut
PROPERTIES
    ClosedDrains
CHECK_DEADLOCK FALSE
