CONSTANTS
    a = a
    b = b
    c = c
    d = d
    g = g
    Var <- MCVar
    RegNum = 2
    Funs <- Small
SPECIFICATION Spec
INVARIANTS
    TypeOK
    RegistersFit
    EveryNodeHadATurn
    SpillsForced
