SPECIFICATION Spec
CONSTANTS
    k1 = k1
    k2 = k2
    i1 = i1
    i2 = i2
    Keys = {k1, k2}
    Names = {"a"}
    RowIDs = {i1, i2}
    MaxRestarts = 1
SYMMETRY IDSymmetry
CHECK_DEADLOCK FALSE
INVARIANT
    RowsKeepMakers
PROPERTIES
    AnswersMatchMakers
    OnlyMakersRemove
