SPECIFICATION PingSpec
CONSTANTS
    Period = 1
    Patience = 3
    Jitter = 1
    Trip = 1
    MaxTime = 8
    MaxLinks = 2
INVARIANTS
    SilenceShown
    OneInterval
    InfoIsCurrent
PROPERTIES
    NoFalseAlarm
\* The clock ends at its bound.
CHECK_DEADLOCK FALSE
