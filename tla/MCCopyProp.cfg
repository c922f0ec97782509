CONSTANTS
    N = 6
    x = x
    y = y
    z = z
    one = one
    none = none
    Var <- MCVar
    None = none
    Programs <- Loops
SPECIFICATION Spec
INVARIANTS
    TypeOK
    AvailableExact
    AvailableCopiesHold
PROPERTIES
    AnalysisEnds
CHECK_DEADLOCK FALSE
