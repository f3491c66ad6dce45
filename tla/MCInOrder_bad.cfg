\* Records that are not valid, anywhere in the trace.
SPECIFICATION Spec
CONSTANTS
    PIPE_WIDTH = 2
    KEY_BITS = 1
    STAT_SPAN = 16
    TraceRecords <- MCRecords
    MaxInst = 3
    BadRecords = TRUE
    Policies = {"PERFECT", "ALWAYS_TAKEN"}
INVARIANTS
    EveryInstructionOnce
PROPERTIES
    HaltsNoEarlier
    HaltsWhenPerfect
CHECK_DEADLOCK FALSE
