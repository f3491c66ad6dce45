\* gunzip's writes may end in the middle of a record.
SPECIFICATION Spec
CONSTANTS
    Pipes = {0}
    CAPACITY = 4
    Blocks = {1, 3}
    TraceSizes = {0, 3, 4, 6}
    JunkSizes = {0, 1, 2}
    ReadErrors = {0}
    REC = 2
    TraceRecords <- MCRecords
INVARIANTS
    RefusedOnlyIfInvalid
CHECK_DEADLOCK FALSE
