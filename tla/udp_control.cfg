SPECIFICATION Spec
CONSTANTS
    Tls = FALSE
    MaxDatagrams = 2
    MaxAnswers = 2
    MaxControl = 1
INVARIANTS
    ControlWatched
CHECK_DEADLOCK FALSE
