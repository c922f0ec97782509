CONSTANTS
    Undef = Undef
    Vars <- MCVars
    Funs <- MCFuns
    Place <- MCPlace
    Start <- MCStart
    Inputs <- MCInputs
SPECIFICATION Spec
INVARIANTS
    TypeOK
    RejectsIllTyped
    DoesWhatItMeans
