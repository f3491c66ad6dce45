\* Two lanes and a predictor that always says taken: the lane after the one
\* that finds the end of the trace tells the predictor of a branch again.
SPECIFICATION Spec
CONSTANTS
    PIPE_WIDTH = 2
    KEY_BITS = 1
    STAT_SPAN = 16
    TraceRecords <- MCBranches
    MaxInst = 4
    BadRecords = FALSE
    Policies = {"ALWAYS_TAKEN"}
INVARIANTS
    BranchesAreCounted
CHECK_DEADLOCK FALSE
