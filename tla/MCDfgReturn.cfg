CONSTANTS
    N = 8
    Shapes <- NestedReturn
SPECIFICATION Spec
PROPERTIES
    ReleaseOnlyUnreachable
