\* What is printed for a trace without records.
SPECIFICATION Spec
CONSTANTS
    Pipes = {0}
    CAPACITY = 4
    Blocks = {2, 4}
    TraceSizes = {0, 3, 4, 6}
    JunkSizes = {0, 1, 2}
    ReadErrors = {0}
    REC = 2
    TraceRecords <- MCRecords
INVARIANTS
    CountIsTheTrace
CHECK_DEADLOCK FALSE
