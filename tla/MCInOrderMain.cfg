\* Two lanes, every policy and every combination of forwarding, with the driver and a heartbeat
\* longer than any instruction takes.
SPECIFICATION MainSpec
CONSTANTS
    PIPE_WIDTH = 2
    KEY_BITS = 1
    STAT_SPAN = 16
    TraceRecords <- MCFewRecords
    MaxInst = 4
    BadRecords = FALSE
    Policies = {"PERFECT", "ALWAYS_TAKEN", "GSHARE"}
    HEARTBEAT_CYCLES = 8
INVARIANTS
    InOrderTypeOK
    EveryInstructionOnce
    FetchWaitsForTheBranch
    GshareLearns
    KeepsTime
    EndsWithTheTrace
    EndsInTime
CHECK_DEADLOCK FALSE
