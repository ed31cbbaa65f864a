SPECIFICATION RestartSpec
PROPERTIES
    ExpiredEventuallyReaped
CONSTANTS
    w1 = w1
    w2 = w2
    e1 = e1
    e2 = e2
    u1 = u1
    u2 = u2
    Envs <- TwoEnvs
    NoEnv = NoEnv
    Users <- OneUser
    Workers <- OneWorker
    Reaper = Reaper
    Store = "sql"
    IdleTimeout = 1
    MaxLifetime = 1
    MaxClock = 2
    MaxFaults = 1
    MaxCrashes = 0
