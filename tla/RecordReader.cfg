\* A pipe that holds four bytes, writes of one, two or three, and records of three;
\* Lab 3's EXEQ can be full once two of them have been read.
SPECIFICATION Spec
CONSTANTS
    Pipes = {0}
    CAPACITY = 4
    Blocks = {1, 2, 3}
    TraceSizes = {0, 3, 7, 9}
    JunkSizes = {0, 2, 4}
    ReadErrors = {0}
    REC = 3
    MAX_EXEQ_ENTRIES = 1
    BadRecords = TRUE
INVARIANTS
    SuccessMeansRun
PROPERTIES
    ReadsTheStream
    BothProcessesEnd
CHECK_DEADLOCK FALSE
