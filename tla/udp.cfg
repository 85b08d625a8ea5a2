SPECIFICATION FairSpec
CONSTANTS
    Tls = FALSE
    MaxDatagrams = 2
    MaxAnswers = 2
    MaxControl = 1
INVARIANTS
    Armed
    OneAtATime
    QueuesServed
    InOrder
PROPERTIES
    ClosedShrinks
    Implements
    ClosedDrains
    Forwarded
CHECK_DEADLOCK FALSE
