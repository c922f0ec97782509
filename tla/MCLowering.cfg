CONSTANTS
    None = None
    MaxTokens = 7
    Odd <- Plain
SPECIFICATION Spec
INVARIANTS
    TypeOK
    RejectedRightly
    SameOrder
PROPERTIES
    KeepsActing
CONSTRAINT NoIdleTokens
CHECK_DEADLOCK FALSE
