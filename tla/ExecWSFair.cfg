SPECIFICATION FairSpec
CONSTANT MaxOutput = 2
INVARIANTS ReturnsClean ExitExplained
PROPERTIES SessionEnds SilentClientDropped
