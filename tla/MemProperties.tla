--------------------------- MODULE MemProperties ---------------------------
(***************************************************************************)
(* What the memory-system simulator of Lab 4 promises.                     *)
(***************************************************************************)
EXTENDS MemSim, Sequences, SequencesExt

L1Caches == {sys.dcache[k] : k \in Cores} \cup {sys.icache[k] : k \in Cores}
Sets(c)  == DOMAIN c.sets

\* The sum over the cores of F(k).
SumOverCores(F(_)) == MapThenSumSet(F, Cores)

(***************************************************************************)
(* The types, with what the fields of a line say about each other: a dirty *)
(* line is valid, no line is from the future, and a line in a core's own   *)
(* cache is that core's (cache_install).                                   *)
(***************************************************************************)
LineOK(line, owners) ==
    /\ line.tag \in Nat /\ line.hits \in Nat
    /\ line.dirty => line.valid
    /\ line.last_access_time <= current_cycle
    /\ line.coreID \in owners
CacheOK(c, owners) == \A s \in Sets(c) : \A w \in Ways(c) : LineOK(c.sets[s][w], owners)

MemTypeOK ==
    /\ \A k \in Cores : CacheOK(sys.dcache[k], {0, k}) /\ CacheOK(sys.icache[k], {0, k})
    /\ CacheOK(sys.l2cache, Cores)
    /\ sys.dram.row_buffer_array \in [0 .. NUM_BANKS - 1 -> [valid : BOOLEAN, row_id : Nat]]
    /\ core \in [Cores -> [done : BOOLEAN, trace : MemRecords \cup {NoRecord},
                           snooze_end_cycle : Nat, inst_count : 0 .. MaxInst,
                           done_inst_count : 0 .. MaxInst, done_cycle_count : 0 .. current_cycle]]
    /\ current_cycle \in 0 .. MaxCycle
    /\ i \in 0 .. NUM_CORES
    /\ all_cores_done \in BOOLEAN /\ running \in BOOLEAN

(***************************************************************************)
(* No cache holds the same line address twice, for one core or for two: a  *)
(* line is looked up before it is installed, and the two cores' pages are  *)
(* mapped to different frames.  Otherwise the copy that a search finds     *)
(* first would hide the other, and a dirty one could be written back late. *)
(***************************************************************************)
OneCopy ==
    \A c \in L1Caches \cup {sys.l2cache} : \A s \in Sets(c) : \A v, w \in Ways(c) :
        /\ v # w /\ c.sets[s][v].valid /\ c.sets[s][w].valid
        => c.sets[s][v].tag # c.sets[s][w].tag

(***************************************************************************)
(* A load finds what the last store to its line wrote: of the data cache,  *)
(* the second level and DRAM the first that holds the line is current.  So *)
(* no dirty line is dropped, written back to another line's address or     *)
(* overwritten by an older copy of itself, whatever the order in which a   *)
(* miss, its victim's writeback and that writeback's own victim go.        *)
(***************************************************************************)
Holds(c, l, k) == HitWays(c, l, k) # {}
LinesOf(k) == {IF SIM_MODE = "DEF" THEN PhysicalLine(l, k) ELSE l :
                   l \in {r.ldst_addr \div CACHE_LINESIZE : r \in MemRecords}}
DataCache(k) == sys.dcache[IF SIM_MODE = "DEF" THEN k ELSE 0]

LoadsSeeTheLastStore ==
    \A k \in Cores : \A l \in LinesOf(k) :
        CASE Holds(DataCache(k), l, k) -> CurrentIn(DataCache(k), l, k)
          [] ~ Holds(DataCache(k), l, k) /\ Holds(sys.l2cache, l, k) -> CurrentIn(sys.l2cache, l, k)
          [] OTHER -> SIM_MODE = "A" \/ l \notin sys.dram.stale

(***************************************************************************)
(* The statistics of the levels agree, as they are printed and graded:     *)
(* every miss of a first-level cache reads the second level and every      *)
(* dirty eviction writes to it, and likewise between the second level and  *)
(* DRAM; every instruction executed is fetched once.                       *)
(***************************************************************************)
Misses(c) == c.stat_read_miss + c.stat_write_miss

TrafficBalances ==
    SIM_MODE # "A" /\ ~ Fault(sys) =>
        /\ sys.l2cache.stat_read_access =
               SumOverCores(LAMBDA k : Misses(sys.dcache[k]) + Misses(sys.icache[k]))
        /\ sys.l2cache.stat_write_access =
               SumOverCores(LAMBDA k : sys.dcache[k].stat_dirty_evicts)
        /\ sys.dram.stat_read_access = Misses(sys.l2cache)
        /\ sys.dram.stat_write_access = sys.l2cache.stat_dirty_evicts
        /\ sys.access["IFETCH"] = SumOverCores(LAMBDA k : core[k].inst_count)

(***************************************************************************)
(* Every delay that is reported is waited out, once: the cycles in which   *)
(* the cores may start their next instruction add up to one initial cycle  *)
(* for each core and the delays of its fetches and loads, a load's first   *)
(* cycle being that of its fetch; stores are free (core_cycle).            *)
(***************************************************************************)
NextVisit(k) == IF i > k THEN current_cycle + 1 ELSE current_cycle
NextStart(k) == Max({core[k].snooze_end_cycle + 1,
                     IF core[k].done THEN core[k].done_cycle_count + 1 ELSE NextVisit(k)})

TimeIsAccounted ==
    SIM_MODE # "A" /\ ~ Fault(sys) =>
        SumOverCores(NextStart) =
            NUM_CORES + sys.delay["IFETCH"] + sys.delay["LOAD"] - sys.access["LOAD"]

(***************************************************************************)
(* Way partitioning: in a set that is full, no access takes core 0's share *)
(* further from its quota, in either direction, so a share that has        *)
(* reached the quota stays there (cache_find_victim_from_partition).       *)
(***************************************************************************)
Full(set) == \A w \in DOMAIN set : set[w].valid
Distance(set) == LET d == Cardinality(WaysOf(set, TRUE)) - SWP_CORE0_WAYS
                 IN  IF d < 0 THEN - d ELSE d

QuotaConverges ==
    [][sys.l2cache.replacement_policy = "SWP" =>
        \A s \in Sets(sys.l2cache) :
            Full(sys.l2cache.sets[s]) =>
                Distance(sys'.l2cache.sets[s]) <= Distance(sys.l2cache.sets[s])]_vars

(***************************************************************************)
(* cache_find_victim returns "the index of the victim way", as its comment *)
(* says: an install never writes outside the set.                          *)
(***************************************************************************)
VictimIsAWay == ~ Fault(sys)

(***************************************************************************)
(* The aim that cache_find_victim states for DWP, "to maximize utot": in a *)
(* full set no partition has more utility than the one that is taken.      *)
(***************************************************************************)
PartitionMaximizesUtility ==
    \A s \in Sets(sys.l2cache) :
        LET set == sys.l2cache.sets[s]
        IN  Full(set) =>
                \A p \in Partitions(set) : Utility(set, p) <= Utility(set, BestPartition(set))

(***************************************************************************)
(* main's loop ends in the very cycle in which the last core is done, so   *)
(* that CYCLES, which it prints, is one more than the largest CORE_x_CYCLES*)
(* (all_cores_done is set and conjoined anew in every turn).               *)
(***************************************************************************)
StopsWithTheLastCore ==
    (\A k \in Cores : core[k].done) =>
        IF running THEN current_cycle = Max({core[k].done_cycle_count : k \in Cores})
        ELSE current_cycle = Max({core[k].done_cycle_count : k \in Cores}) + 1

(***************************************************************************)
(* The first-level caches under LRU are caches of the abstract module      *)
(* LRUCaches: they hold and miss what sequences of tags in the order of    *)
(* last use do, although the code keeps one number per way, the cycle of   *)
(* its last access, in no order, and looks for the least ("Evict the least *)
(* recently used line", cache.h).  That works as long as no two accesses   *)
(* of a cache fall into one cycle.                                         *)
(***************************************************************************)
L1Names == {"dcache", "icache"} \X Cores

\* The valid ways of a set, and those of them that were used after way w.
Valid(set)    == {w \in DOMAIN set : set[w].valid}
After(set, w) == {v \in Valid(set) : set[v].last_access_time > set[w].last_access_time}

\* The tags of a set, the last one used first.
Nth(set, j) == CHOOSE w \in Valid(set) : Cardinality(After(set, w)) = j - 1
Tags(set)   == [j \in 1 .. Cardinality(Valid(set)) |-> set[Nth(set, j)].tag]

SizeOf(n)  == IF n[1] = "dcache" THEN DCACHE_SIZE ELSE ICACHE_SIZE
AssocOf(n) == IF n[1] = "dcache" THEN DCACHE_ASSOC ELSE ICACHE_ASSOC

\* What the next instruction of the core will ask of its cache.
AskedLine(n) ==
    LET r == core[n[2]].trace
        l == (IF n[1] = "icache" THEN r.inst_addr ELSE r.ldst_addr) \div CACHE_LINESIZE
    IN  IF SIM_MODE = "DEF" THEN PhysicalLine(l, n[2]) ELSE l
Asks(n) == \/ n[1] = "icache"
           \/ core[n[2]].trace.inst_type \in {"LOAD", "STORE"}

FirstLevel == INSTANCE LRUCaches WITH
    Caches  <- L1Names,
    SETS    <- [n \in L1Names |->
                   0 .. SizeOf(n) \div (AssocOf(n) * CACHE_LINESIZE) - 1],
    WAYS    <- [n \in L1Names |-> AssocOf(n)],
    order   <- [n \in L1Names |-> LET c == sys[n[1]][n[2]]
                                  IN  [s \in Sets(c) |-> Tags(c.sets[s])]],
    request <- [n \in L1Names |-> LET c == sys[n[1]][n[2]]
                                  IN  IF Asks(n) THEN [set |-> IndexOf(c, AskedLine(n)),
                                                       tag |-> TagOf(c, AskedLine(n))]
                                      ELSE [set |-> 0, tag |-> -1]],
    served  <- [n \in L1Names |-> sys[n[1]][n[2]].stat_read_access
                                  + sys[n[1]][n[2]].stat_write_access],
    missed  <- [n \in L1Names |-> Misses(sys[n[1]][n[2]])]

FirstLevelIsLRU == FirstLevel!LRUSpec
=============================================================================
