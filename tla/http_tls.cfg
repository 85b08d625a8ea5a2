SPECIFICATION Spec
CONSTANTS
    Tls = TRUE
    MaxSessions = 2
    MaxChunks = 2
    Requests = {"connect", "other", "bad", "valueless"}
INVARIANTS
    BuffersExclusive
    OpenedOnce
PROPERTIES
    ClosedStaysQuiet
CHECK_DEADLOCK FALSE
