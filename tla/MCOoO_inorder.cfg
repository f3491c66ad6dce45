\* Two lanes, in-order scheduling, a buffer of three; every operation takes one
\* cycle, so the EXEQ is not used.
SPECIFICATION Spec
CONSTANTS
    MAX_ARF_REGS = 3
    NUM_ROB_ENTRIES = 3
    MAX_EXEQ_ENTRIES = 2
    LOAD_EXE_CYCLES = 1
    PIPE_WIDTH = 2
    SCHED_POLICY = "SCHED_IN_ORDER"
    MAX_WRITEBACKS = 2
    TraceRecords <- MCWriters
    MaxInst = 6
    BadRecords = FALSE
    OobReg = 2
PROPERTIES
    ImplementsDataflow
