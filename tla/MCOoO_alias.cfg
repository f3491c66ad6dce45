\* One lane, a program that writes register OobReg.
SPECIFICATION Spec
CONSTANTS
    MAX_ARF_REGS = 2
    NUM_ROB_ENTRIES = 2
    MAX_EXEQ_ENTRIES = 2
    LOAD_EXE_CYCLES = 2
    PIPE_WIDTH = 1
    SCHED_POLICY = "SCHED_OUT_OF_ORDER"
    MAX_WRITEBACKS = 3
    TraceRecords <- MCTwoRecords
    MaxInst = 5
    BadRecords = FALSE
    OobReg = 0
INVARIANTS
    AliasNamesValidEntry
