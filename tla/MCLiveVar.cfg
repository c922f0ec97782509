CONSTANTS
    N = 5
    x = x
    y = y
    g = g
    lit = lit
    Var <- MCVar
    Global <- MCGlobal
    Literal = lit
    Programs <- LoopsAndCuts
SPECIFICATION Spec
INVARIANTS
    TypeOK
    LiveExact
    RemovedStaysUnused
    OnlyUnseenLose
PROPERTIES
    Terminates
