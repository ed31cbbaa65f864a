SPECIFICATION Spec
CONSTANTS
    MaxFrames = 3
    Window = 1
INVARIANTS TypeOK AnswerIsComplete AnswerHasExit
PROPERTIES ExecEnds
