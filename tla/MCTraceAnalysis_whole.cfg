\* gunzip writes whole records at a time, but for the end of a trace that is cut short.
SPECIFICATION Spec
CONSTANTS
    Pipes = {0}
    CAPACITY = 4
    Blocks = {2, 4}
    TraceSizes = {0, 3, 4, 6}
    JunkSizes = {0, 1, 2}
    ReadErrors = {0}
    REC = 2
    TraceRecords <- MCRecords
INVARIANTS
    SuccessMeansWhole
    StatisticsAgree
    RefusedOnlyIfInvalid
PROPERTIES
    BothProcessesEnd
CHECK_DEADLOCK FALSE
