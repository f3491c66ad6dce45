------------------------------- MODULE Cache -------------------------------
(***************************************************************************)
(* Lab 4: one set-associative cache (cache.h, cache.cpp).  A cache is a    *)
(* value; access and install are operators from caches to caches.  Sets    *)
(* and ways are numbered from 0 as in the code.                            *)
(*                                                                         *)
(* The simulator keeps no contents.  The model adds one bit of it to each  *)
(* line: current says that the line holds what the last store to its       *)
(* address wrote.  No operator here reads it; the parameter data of access *)
(* and install is what the caller writes into the line.                    *)
(***************************************************************************)
EXTENDS Integers, FiniteSets, FiniteSetsExt

CONSTANT SWP_CORE0_WAYS     \* core 0's quota of each set under SWP

ASSUME CacheAssumption == SWP_CORE0_WAYS \in Nat

\* What cache_find_victim_from_partition returns when its search finds no
\* line: -1, which as an unsigned index is outside every set.
NoWay == -1

EmptyLine == [valid |-> FALSE, dirty |-> FALSE, tag |-> 0, coreID |-> 0,
              last_access_time |-> 0, hits |-> 0, current |-> FALSE]

\* 2 ^ num_index_bits, where the bits are log2(num_sets) rounded down.
IndexSpan(num_sets) == CHOOSE p \in {2 ^ k : k \in 0 .. num_sets} :
                           p <= num_sets /\ num_sets < 2 * p

cache_new(size, associativity, line_size, policy) ==
    [sets |-> [s \in 0 .. size \div (associativity * line_size) - 1 |->
                   [w \in 0 .. associativity - 1 |-> EmptyLine]],
     index_span |-> IndexSpan(size \div (associativity * line_size)),
     replacement_policy |-> policy,
     last_evicted_line |-> EmptyLine,
     fault |-> FALSE,       \* an install wrote outside the set
     stat_read_access |-> 0, stat_read_miss |-> 0,
     stat_write_access |-> 0, stat_write_miss |-> 0,
     stat_dirty_evicts |-> 0]

\* The low num_index_bits of a line address are the index, the others the tag.
IndexOf(c, l) == l % c.index_span
TagOf(c, l)   == l \div c.index_span
LineAddr(c, tag, index) == tag * c.index_span + index

Ways(c)     == DOMAIN c.sets[0]
SetOf(c, l) == c.sets[IndexOf(c, l)]

\* The ways that hold line l for core_id, of which the code takes the first.
HitWays(c, l, core_id) ==
    {w \in Ways(c) : /\ SetOf(c, l)[w].valid
                     /\ SetOf(c, l)[w].tag = TagOf(c, l)
                     /\ SetOf(c, l)[w].coreID = core_id}

\* Slip: a hit by a write leaves the line clean.
Accessed_Clean(line, is_write, now, data) ==
    [line EXCEPT !.last_access_time = now, !.hits = @ + 1,
                 !.current = IF is_write THEN data ELSE @]

\* Slip: a hit does not renew the time, so that the first in goes first.
Accessed_Fifo(line, is_write, now, data) ==
    [line EXCEPT !.hits = @ + 1, !.dirty = @ \/ is_write,
                 !.current = IF is_write THEN data ELSE @]

Accessed(line, is_write, now, data) ==
    [line EXCEPT !.last_access_time = now, !.hits = @ + 1,
                 !.dirty = @ \/ is_write,
                 !.current = IF is_write THEN data ELSE @]

\* cache_access, as the outcome and the cache it leaves.
cache_access(c, l, is_write, core_id, now, data) ==
    LET H       == HitWays(c, l, core_id)
        counted == IF is_write THEN [c EXCEPT !.stat_write_access = @ + 1]
                   ELSE [c EXCEPT !.stat_read_access = @ + 1]
    IN  [hit   |-> H # {},
         cache |-> IF H # {}
                   THEN [counted EXCEPT !.sets[IndexOf(c, l)][Min(H)] =
                                            Accessed(@, is_write, now, data)]
                   ELSE IF is_write THEN [counted EXCEPT !.stat_write_miss = @ + 1]
                   ELSE [counted EXCEPT !.stat_read_miss = @ + 1]]

(***************************************************************************)
(* Victims.  A victim is chosen from one set, a function from ways to      *)
(* lines.  Among the ways W the one with the least time, the first of them *)
(* if several have it, as a search with < from way 0 upwards finds it.     *)
(***************************************************************************)
Oldest(set, W) ==
    IF W = {} THEN NoWay
    ELSE Min({w \in W : \A v \in W : set[w].last_access_time <= set[v].last_access_time})

WaysOf(set, zero) == {w \in DOMAIN set : (set[w].coreID = 0) = zero}

\* Slip: the requesting core gives up a line of its own at its quota only.
VictimCore_Swapped(set, core_id, partition) == 1 - core_id

\* Of which core the victim comes; lines that are not core 0's count for core 1.
VictimCore(set, core_id, partition) ==
    LET core0space == Cardinality(WaysOf(set, TRUE))
        core1space == Cardinality(WaysOf(set, FALSE))
    IN  IF core_id = 0
        THEN IF core1space > Cardinality(DOMAIN set) - partition THEN 1 ELSE 0
        ELSE IF core0space > partition THEN 0 ELSE 1

cache_find_victim_from_partition(set, core_id, partition) ==
    Oldest(set, {w \in DOMAIN set : set[w].coreID = VictimCore(set, core_id, partition)})

cache_find_victim_LRU(set) == Oldest(set, DOMAIN set)

\* UMON: way v is before way w when the ways are sorted by time, then hits,
\* and the order is reversed.
Before(set, v, w) ==
    \/ set[v].last_access_time > set[w].last_access_time
    \/ /\ set[v].last_access_time = set[w].last_access_time
       /\ set[v].hits > set[w].hits \/ (set[v].hits = set[w].hits /\ v < w)

\* The hits of the first n of the ways W in that order.
HitsOfFirst(set, W, n) ==
    MapThenSumSet(LAMBDA w : set[w].hits,
                  {w \in W : Cardinality({v \in W : Before(set, v, w)}) < n})

Utility(set, partition) ==
    HitsOfFirst(set, WaysOf(set, TRUE), partition)
    + HitsOfFirst(set, WaysOf(set, FALSE), Cardinality(DOMAIN set) - partition)

Partitions(set) == 1 .. Cardinality(DOMAIN set) - 1

\* utotmax is 0 and stays 0: where a new best is found the code assigns
\* utot = utotmax.  So the last partition that is tried is the one taken.
BestPartition(set) ==
    LET P == {p \in Partitions(set) : 0 <= Utility(set, p)}
    IN  IF P = {} THEN -1 ELSE Max(P)

\* std::default_random_engine is made afresh, with its default seed, on every
\* call, and its first draw from 0 .. num_ways - 1 is 0.
FirstDraw == 0

cache_find_victim(c, set, core_id) ==
    LET invalid == {w \in DOMAIN set : ~ set[w].valid}
    IN  IF invalid # {} THEN Min(invalid)
        ELSE CASE c.replacement_policy = "LRU" -> cache_find_victim_LRU(set)
               [] c.replacement_policy = "RANDOM" -> FirstDraw
               [] c.replacement_policy = "SWP" ->
                      cache_find_victim_from_partition(set, core_id, SWP_CORE0_WAYS)
               [] c.replacement_policy = "DWP" ->
                      cache_find_victim_from_partition(set, core_id, BestPartition(set))

Installed(c, l, is_write, core_id, now, data) ==
    [valid |-> TRUE, dirty |-> is_write, tag |-> TagOf(c, l), coreID |-> core_id,
     last_access_time |-> now, hits |-> 0, current |-> data]

\* The line new replaces the one in way w of the set with this index.
Replaced(c, index, w, new) ==
    LET old == c.sets[index][w]
    IN  IF w = NoWay THEN [c EXCEPT !.fault = TRUE]
        ELSE [c EXCEPT
                !.last_evicted_line = old,
                !.stat_dirty_evicts = @ + (IF old.valid /\ old.dirty THEN 1 ELSE 0),
                !.sets[index][w] = new]

cache_install(c, l, is_write, core_id, now, data) ==
    Replaced(c, IndexOf(c, l), cache_find_victim(c, SetOf(c, l), core_id),
             Installed(c, l, is_write, core_id, now, data))
=============================================================================
