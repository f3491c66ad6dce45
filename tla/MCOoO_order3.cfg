\* Three lanes: the sort of pipe_cycle_issue leaves them out of order.
SPECIFICATION Spec
CONSTANTS
    MAX_ARF_REGS = 3
    NUM_ROB_ENTRIES = 4
    MAX_EXEQ_ENTRIES = 4
    LOAD_EXE_CYCLES = 2
    PIPE_WIDTH = 3
    SCHED_POLICY = "SCHED_OUT_OF_ORDER"
    MAX_WRITEBACKS = 4
    TraceRecords <- MCTwoRecords
    MaxInst = 7
    BadRecords = FALSE
    OobReg = 2
INVARIANTS
    HeadIsOldest
