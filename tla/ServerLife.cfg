SPECIFICATION FairSpec
CONSTANTS
    p1 = p1
    p2 = p2
    Processes = {p1, p2}
    Keys = {k1}
    k1 = k1
    NewIDs = {"new"}
    MaxDeaths = 1
    MaxSignals = 1
INVARIANTS
    ServingSchema
    QuietAfterStop
PROPERTIES
    RowsKept
    AllServeInTheEnd
