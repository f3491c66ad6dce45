\* One lane and a predictor that always says taken: the pipeline may be left
\* waiting, after the end of the trace, for a branch that is not in it.
SPECIFICATION Spec
CONSTANTS
    PIPE_WIDTH = 1
    KEY_BITS = 1
    STAT_SPAN = 16
    TraceRecords <- MCBranches
    MaxInst = 4
    BadRecords = FALSE
    Policies = {"ALWAYS_TAKEN"}
PROPERTIES
    Halts
CHECK_DEADLOCK FALSE
