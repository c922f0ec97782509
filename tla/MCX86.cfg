CONSTANTS
    ByteSize = 4
    x = x
    y = y
    c = c
    b = b
    p = p
    cp = cp
    a = a
    Vars = {x, y, b, c, p, cp, a}
    Chars = {c}
    Arrays = {a}
    Layouts <- MCLayouts
    Insts <- MCInsts
    Inputs <- MCInputs
    Dirt = {0, 5, 255}
    Given = 30
    MaxCode = 2
SPECIFICATION Spec
INVARIANTS TypeOK Balanced
PROPERTY Implements
CHECK_DEADLOCK FALSE
