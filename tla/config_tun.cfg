SPECIFICATION Spec
CONSTANT
    ModeNames = {"http", "socks5", "tun", "other"}
INVARIANTS
    TunChecked
CHECK_DEADLOCK FALSE
