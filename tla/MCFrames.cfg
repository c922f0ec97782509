CONSTANTS
    Names = {x, y}
    Sizes = {4, 5}
    MaxTokens = 7
    None = None
SPECIFICATION Spec
SYMMETRY Symmetry
INVARIANTS
    TypeOK
    NamesResolve
    FramesSound
    PlainKeepsLive
CONSTRAINT NoIdleTokens
CHECK_DEADLOCK FALSE
