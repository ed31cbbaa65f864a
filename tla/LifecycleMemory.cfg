SPECIFICATION Spec
SYMMETRY Symmetry
INVARIANTS
    CallersOwnTargets
    OrphansExplained
CONSTANTS
    w1 = w1
    w2 = w2
    e1 = e1
    e2 = e2
    u1 = u1
    u2 = u2
    Envs <- OneEnv
    NoEnv = NoEnv
    Users <- TwoUsers
    Workers <- TwoWorkers
    Reaper = Reaper
    Store = "memory"
    IdleTimeout = 1
    MaxLifetime = 2
    MaxClock = 3
    MaxFaults = 1
    MaxCrashes = 1
