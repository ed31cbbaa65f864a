SPECIFICATION Spec
CONSTANTS
    w1 = w1  w2 = w2  s1 = s1  s2 = s2  u1 = u1  u2 = u2  NoSnap = NoSnap
    Workers <- TwoWorkers
    Snaps <- TwoSnaps
    Users <- TwoUsers
    Store = "sql"
    MaxFaults = 1
    MaxCrashes = 1
SYMMETRY Symmetry
INVARIANTS AckedIsRestorable ImagesExplained
CHECK_DEADLOCK FALSE
