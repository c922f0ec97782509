CONSTANTS
    N = 6
    g = g
    k = k
    p = p
    x = x
    y = y
    q = q
    none = none
    undef = undef
    Global <- MCGlobal
    Param <- MCParam
    Local <- MCLocal
    Pointers <- MCPointers
    Undef = undef
    NAC = NAC
    None = none
    Values <- MCValues
    ValueBound = 4
    Programs <- Functions
SPECIFICATION Spec
INVARIANTS
    TypeOK
    ClaimsHold
    SimplifiedAgrees
PROPERTIES
    AnalysisEnds
CHECK_DEADLOCK FALSE
