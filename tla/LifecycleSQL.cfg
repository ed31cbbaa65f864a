SPECIFICATION Spec
SYMMETRY Symmetry
INVARIANTS
    TypeOK
    OrphansExplained
    RunningIsBound
    NoEarlyReap
    LifetimeIsFixed
    AckedIsRunning
PROPERTIES
    RefinesRegistry
CONSTANTS
    w1 = w1
    w2 = w2
    e1 = e1
    e2 = e2
    u1 = u1
    u2 = u2
    Envs <- OneEnv
    NoEnv = NoEnv
    Users <- OneUser
    Workers <- TwoWorkers
    Reaper = Reaper
    Store = "sql"
    IdleTimeout = 0
    MaxLifetime = 1
    MaxClock = 1
    MaxFaults = 1
    MaxCrashes = 1
