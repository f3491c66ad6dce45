\* A 32-bit result, here of two bits, for statistics of 64.
SPECIFICATION Spec
CONSTANTS
    PIPE_WIDTH = 1
    KEY_BITS = 1
    STAT_SPAN = 4
    TraceRecords <- MCBranches
    MaxInst = 4
    BadRecords = FALSE
    Policies = {"ALWAYS_TAKEN"}
INVARIANTS
    CountNeverWraps
CHECK_DEADLOCK FALSE
