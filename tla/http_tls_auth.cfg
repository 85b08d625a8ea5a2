SPECIFICATION Spec
CONSTANTS
    Tls = TRUE
    MaxSessions = 1
    MaxChunks = 1
    Requests = {"connect", "other", "bad"}
INVARIANTS
    Survives
CHECK_DEADLOCK FALSE
