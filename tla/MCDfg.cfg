CONSTANTS
    N = 6
    Shapes <- AllShapes
SPECIFICATION Spec
INVARIANTS
    TypeOK
    Mirror
    ReachableIsRight
    CanReachIsExact
PROPERTIES
    Terminates
