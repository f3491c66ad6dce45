\* One core in each of modes A, B and C, open and closed pages: a data cache of two sets of two
\* ways and a second level of one set, so that the same line has different tags in them, and
\* more lines of a set than there are ways at every level.
SPECIFICATION RecencySpec
CONSTANTS
    SIM_MODES = {"A", "B", "C"}
    NUM_CORES = 1
    REPL_POLICY = "LRU"
    L2CACHE_REPLS = {"LRU"}
    SWP_CORE0_WAYS = 0
    DCACHE_SIZE = 8
    DCACHE_ASSOC = 2
    ICACHE_SIZE = 4
    ICACHE_ASSOC = 2
    L2CACHE_SIZE = 4
    L2CACHE_ASSOC = 2
    CACHE_LINESIZE = 2
    PAGE_SIZE = 4
    VPN_TAIL = 4
    DCACHE_HIT_LATENCY = 1
    ICACHE_HIT_LATENCY = 1
    L2CACHE_HIT_LATENCY = 2
    DRAM_PAGE_POLICIES = {"OPEN_PAGE", "CLOSE_PAGE"}
    ROW_BUFFER_SIZE = 4
    NUM_BANKS = 2
    DELAY_SIM_MODE_B = 2
    DELAY_ACT = 1
    DELAY_CAS = 1
    DELAY_PRE = 1
    DELAY_BUS = 1
    MemRecords <- MCThreeLines
    MaxInst = 5
    MaxCycle = 80
INVARIANTS
    LoadsSeeTheLastStore
    TrafficBalances
    TimeIsAccounted
    SecondLevelIsLRU
PROPERTIES
    FirstLevelIsLRU
CHECK_DEADLOCK FALSE
