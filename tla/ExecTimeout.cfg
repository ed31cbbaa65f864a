SPECIFICATION Spec
CONSTANTS
    MaxFrames = 1
    Window = 1
PROPERTIES TimeoutEndsExec
