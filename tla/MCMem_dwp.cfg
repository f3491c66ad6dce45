\* Dynamic way partitioning, with three ways for the two cores to share.
SPECIFICATION Spec
CONSTANTS
    SIM_MODES = {"DEF"}
    NUM_CORES = 2
    REPL_POLICY = "LRU"
    L2CACHE_REPLS = {"DWP"}
    SWP_CORE0_WAYS = 1
    DCACHE_SIZE = 2
    DCACHE_ASSOC = 1
    ICACHE_SIZE = 2
    ICACHE_ASSOC = 1
    L2CACHE_SIZE = 6
    L2CACHE_ASSOC = 3
    CACHE_LINESIZE = 2
    PAGE_SIZE = 4
    VPN_TAIL = 2
    DCACHE_HIT_LATENCY = 1
    ICACHE_HIT_LATENCY = 1
    L2CACHE_HIT_LATENCY = 2
    DRAM_PAGE_POLICIES = {"CLOSE_PAGE"}
    ROW_BUFFER_SIZE = 4
    NUM_BANKS = 2
    DELAY_SIM_MODE_B = 2
    DELAY_ACT = 1
    DELAY_CAS = 1
    DELAY_PRE = 1
    DELAY_BUS = 1
    MemRecords <- MCFetches
    MaxInst = 4
    MaxCycle = 80
INVARIANTS
    PartitionMaximizesUtility
CHECK_DEADLOCK FALSE
