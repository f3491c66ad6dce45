\* Two lanes, out of order, loads of two cycles, a buffer of three entries
\* that wraps while a trace of five instructions passes through it; and the
\* shortest heartbeat without a false alarm.
SPECIFICATION MainSpec
CONSTANTS
    MAX_ARF_REGS = 3
    NUM_ROB_ENTRIES = 3
    MAX_EXEQ_ENTRIES = 3
    LOAD_EXE_CYCLES = 2
    PIPE_WIDTH = 2
    SCHED_POLICY = "SCHED_OUT_OF_ORDER"
    MAX_WRITEBACKS = 3
    TraceRecords <- MCRecords
    MaxInst = 5
    BadRecords = FALSE
    OobReg = 2
    HEARTBEAT_CYCLES = 8
INVARIANTS
    HealthyRunsGoOn
    TypeOK
    RobProgramOrder
    RatNamesLatestWriter
    OperandsWaitForTheirProducer
    ExecutedOnce
    ExeqDrainsInTime
PROPERTIES
    ImplementsDataflow
    Halts
