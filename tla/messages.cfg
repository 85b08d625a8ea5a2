SPECIFICATION Spec
CONSTANTS
    MaxMethods = 2
    MaxName = 4
    MaxData = 2
    MaxHeaders = 3
INVARIANTS
    Understood
    CutStable
    CutRefused
CHECK_DEADLOCK FALSE
