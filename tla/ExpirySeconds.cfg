SPECIFICATION Spec
CONSTANTS
    Second = 2
    Idle = 4
    Lifetime = 10
    Interval = 2
    ReapTimeout = 1
    KeepAlive = 2
    Slack = 1
    Lag = 1
    MaxFails = 1
    MaxMissed = 1
    MaxNow = 21
CHECK_DEADLOCK FALSE
INVARIANTS
    TypeOK
    StoresAgree
    ReapedInTime
PROPERTY
    UseIsSpared
