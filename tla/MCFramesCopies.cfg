CONSTANTS
    Names = {x, y}
    Sizes = {4}
    MaxTokens = 7
    None = None
SPECIFICATION Spec
SYMMETRY Symmetry
INVARIANTS
    OptimisedKeepsLive
CONSTRAINT NoIdleTokens
CHECK_DEADLOCK FALSE
