SPECIFICATION Spec
CONSTANTS
    Tls = TRUE
    MaxSessions = 2
    MaxChunks = 2
    Greetings = {"noauth", "bad"}
    Requests = {"connect", "udp", "bad"}
INVARIANTS
    BuffersExclusive
    Transcript
    ConnectOwned
PROPERTIES
    ClosedStaysQuiet
CHECK_DEADLOCK FALSE
