CONSTANTS
    NameLen <- MCNameLen
    Inputs <- MCInputs
    BASE_ADDR = 320
    MEM_ALIGN = 32
SPECIFICATION Spec
INVARIANTS TypeOK HeadersTellTheTruth SegmentsApart ImageRunsTheSource
CHECK_DEADLOCK FALSE
