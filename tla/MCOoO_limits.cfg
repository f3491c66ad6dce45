\* Where the other runs do not go: three lanes, an execution queue of one
\* entry that overflows, records that are not valid, and a program that uses
\* the register whose alias writeback overwrites.
SPECIFICATION Spec
CONSTANTS
    MAX_ARF_REGS = 2
    NUM_ROB_ENTRIES = 2
    MAX_EXEQ_ENTRIES = 1
    LOAD_EXE_CYCLES = 2
    PIPE_WIDTH = 3
    SCHED_POLICY = "SCHED_OUT_OF_ORDER"
    MAX_WRITEBACKS = 3
    TraceRecords <- MCTwoRecords
    MaxInst = 3
    BadRecords = TRUE
    OobReg = 0
INVARIANTS
    RobWindow
    NoInstructionLost
PROPERTIES
    LoopEnds
