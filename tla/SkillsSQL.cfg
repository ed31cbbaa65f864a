SPECIFICATION Spec
CONSTANTS
    w1 = w1  w2 = w2  i1 = i1  i2 = i2  n1 = n1  n2 = n2  n3 = n3  a1 = a1  a2 = a2  u1 = u1  u2 = u2
    NoRow = NoRow
    Workers <- TwoWorkers
    SkillIDs <- TwoIDs
    Names <- ThreeNames
    ValidNames <- TwoNames
    Archives <- TwoArchives
    ValidArchives <- OneArchive
    Users <- TwoUsers
    Store = "sql"
    MaxFaults = 1
SYMMETRY Symmetry
INVARIANTS AnsweredIdsResolve InstalledIsOwners StableSkillsInjected PushIsOnTop ListingComplete
CHECK_DEADLOCK FALSE
