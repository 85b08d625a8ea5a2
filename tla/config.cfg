SPECIFICATION Spec
CONSTANT
    ModeNames = {"http", "socks5", "tun", "other"}
INVARIANTS
    TlsHonoured
CHECK_DEADLOCK FALSE
