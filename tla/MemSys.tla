------------------------------- MODULE MemSys ------------------------------
(***************************************************************************)
(* Lab 4: the memory system (memsys.h, memsys.cpp): first-level caches,    *)
(* one pair shared by all in modes A to C and one pair per core in mode    *)
(* DEF, a second level and DRAM.  An access is an operator that returns    *)
(* its delay and the memory system it leaves.                              *)
(***************************************************************************)
EXTENDS Cache, DRAM

CONSTANTS NUM_CORES, REPL_POLICY,
          DCACHE_SIZE, DCACHE_ASSOC, ICACHE_SIZE, ICACHE_ASSOC,
          L2CACHE_SIZE, L2CACHE_ASSOC,
          DCACHE_HIT_LATENCY, ICACHE_HIT_LATENCY, L2CACHE_HIT_LATENCY,
          PAGE_SIZE,
          VPN_TAIL      \* 2^20: a virtual page number of a 32-bit address is below it

(***************************************************************************)
(* The code asserts two cores in mode DEF.  It accepts two trace files in  *)
(* the other modes too, but nothing in the repository runs them that way.  *)
(* It does not check that there is a set in every cache, which cache_new   *)
(* takes the logarithm of, or that a line is no longer than a page.        *)
(***************************************************************************)
ASSUME MemSysAssumption ==
    /\ IF "DEF" \in SIM_MODES THEN SIM_MODES = {"DEF"} /\ NUM_CORES = 2 ELSE NUM_CORES = 1
    /\ REPL_POLICY \in {"LRU", "RANDOM", "SWP", "DWP"}
    /\ {DCACHE_ASSOC, ICACHE_ASSOC, L2CACHE_ASSOC} \subseteq Nat \ {0}
    /\ {DCACHE_SIZE \div (DCACHE_ASSOC * CACHE_LINESIZE),
        ICACHE_SIZE \div (ICACHE_ASSOC * CACHE_LINESIZE),
        L2CACHE_SIZE \div (L2CACHE_ASSOC * CACHE_LINESIZE)} \subseteq Nat \ {0}
    /\ {DCACHE_HIT_LATENCY, ICACHE_HIT_LATENCY, L2CACHE_HIT_LATENCY} \subseteq Nat
    /\ PAGE_SIZE \in Nat \ {0} /\ VPN_TAIL \in Nat \ {0} /\ CACHE_LINESIZE <= PAGE_SIZE

Cores == 0 .. NUM_CORES - 1

ACCESS_TYPES == {"IFETCH", "LOAD", "STORE"}

memsys_new(l2repl) ==
    LET l1(size, assoc) == [k \in Cores |-> cache_new(size, assoc, CACHE_LINESIZE, REPL_POLICY)]
    IN  [dcache  |-> l1(DCACHE_SIZE, DCACHE_ASSOC),
         icache  |-> l1(ICACHE_SIZE, ICACHE_ASSOC),
         l2cache |-> cache_new(L2CACHE_SIZE, L2CACHE_ASSOC, CACHE_LINESIZE,
                               IF SIM_MODE = "DEF" THEN l2repl ELSE REPL_POLICY),
         dram    |-> dram_new,
         access  |-> [t \in ACCESS_TYPES |-> 0],
         delay   |-> [t \in ACCESS_TYPES |-> 0]]

\* A write outside a cache's set ends the simulator.
Fault(s) == \/ s.l2cache.fault
            \/ \E k \in Cores : s.dcache[k].fault \/ s.icache[k].fault

\* A dirty line that has just been evicted from c to make room for line l.
MustWriteBack(c) ==
    c.last_evicted_line.dirty /\ c.last_evicted_line.valid /\ ~ c.fault

\* Slip: the address written back is that of the line which is coming in.
EvictedAddr_Incoming(c, l) == l

EvictedAddr(c, l) == LineAddr(c, c.last_evicted_line.tag, IndexOf(c, l))

(***************************************************************************)
(* A request is what memsys_access is called with: the line, the type of   *)
(* access and the core, and the cycle in which it is made.                 *)
(***************************************************************************)
Request(l, type, core_id, now) ==
    [line |-> l, type |-> type, core_id |-> core_id, now |-> now]

IsWrite(q) == q.type = "STORE"

\* A store outdates every copy of the line but the one it writes.
OutdatedIn(c, l) ==
    [c EXCEPT !.sets[IndexOf(c, l)] =
        [w \in DOMAIN @ |-> IF @[w].tag = TagOf(c, l) THEN [@[w] EXCEPT !.current = FALSE]
                            ELSE @[w]]]
Outdated(s, q) ==
    IF IsWrite(q)
    THEN [s EXCEPT !.dcache = [k \in Cores |-> OutdatedIn(@[k], q.line)],
                   !.icache = [k \in Cores |-> OutdatedIn(@[k], q.line)],
                   !.l2cache = OutdatedIn(@, q.line),
                   !.dram.stale = @ \cup {q.line}]
    ELSE s

\* Whether c holds a current copy of line l for this core.
CurrentIn(c, l, core_id) == \E w \in HitWays(c, l, core_id) : SetOf(c, l)[w].current

(***************************************************************************)
(* memsys_l2_access; data is what a writeback writes.  On a miss d is the  *)
(* read of DRAM and c the second level with the line installed.            *)
(***************************************************************************)
WriteBackL2(dram, c, l) ==
    IF MustWriteBack(c)
    THEN dram_access(dram, EvictedAddr(c, l), TRUE, c.last_evicted_line.current).dram
    ELSE dram

L2Filled(s, l, d, c) ==
    [delay |-> L2CACHE_HIT_LATENCY + d.delay,
     sys   |-> [s EXCEPT !.l2cache = c, !.dram = WriteBackL2(d.dram, c, l)]]

L2Looked(s, l, is_writeback, core_id, now, data, a) ==
    IF a.hit THEN [delay |-> L2CACHE_HIT_LATENCY, sys |-> [s EXCEPT !.l2cache = a.cache]]
    ELSE L2Filled(s, l, dram_access(s.dram, l, FALSE, FALSE),
                  cache_install(a.cache, l, is_writeback, core_id, now,
                                IF is_writeback THEN data ELSE l \notin s.dram.stale))

memsys_l2_access(s, l, is_writeback, core_id, now, data) ==
    L2Looked(s, l, is_writeback, core_id, now, data,
             cache_access(s.l2cache, l, is_writeback, core_id, now, data))

(***************************************************************************)
(* The two levels under a request, as modes BC and DEF both spell it out;  *)
(* k is whose first-level caches it goes through.  The delay of a          *)
(* writeback is not charged to the access.                                 *)
(***************************************************************************)
Level1(q)  == IF q.type = "IFETCH" THEN "icache" ELSE "dcache"
Latency(q) == IF q.type = "IFETCH" THEN ICACHE_HIT_LATENCY ELSE DCACHE_HIT_LATENCY

\* Slip: the victim is dropped.
WriteBackL1_Never(s, c, q) == s

\* s with its first level c, into which the line of q was installed.
WriteBackL1(s, c, q) ==
    IF MustWriteBack(c)
    THEN memsys_l2_access(s, EvictedAddr(c, q.line), TRUE, q.core_id, q.now,
                          c.last_evicted_line.current).sys
    ELSE s

L1Filled(s, q, k, c) == WriteBackL1([s EXCEPT ![Level1(q)][k] = c], c, q)

\* The second level has answered with r.
L1Missed(q, k, r) ==
    [delay |-> Latency(q) + r.delay,
     sys   |-> IF r.sys.l2cache.fault THEN r.sys
               ELSE L1Filled(r.sys, q, k,
                        cache_install(r.sys[Level1(q)][k], q.line, IsWrite(q), q.core_id, q.now,
                                      IsWrite(q) \/ CurrentIn(r.sys.l2cache, q.line, q.core_id)))]

\* The first level has answered with a.
L1Looked(s, q, k, a) ==
    IF a.hit THEN [delay |-> Latency(q), sys |-> [s EXCEPT ![Level1(q)][k] = a.cache]]
    ELSE L1Missed(q, k, memsys_l2_access([s EXCEPT ![Level1(q)][k] = a.cache],
                                         q.line, FALSE, q.core_id, q.now, FALSE))

TwoLevels(s, q, k) ==
    L1Looked(Outdated(s, q), q, k,
             cache_access(Outdated(s, q)[Level1(q)][k], q.line, IsWrite(q), q.core_id, q.now, TRUE))

\* Mode A: one cache, to which instructions do not go.
LookedA(s, q, a) ==
    [s EXCEPT !.dcache[0] =
        IF a.hit THEN a.cache
        ELSE cache_install(a.cache, q.line, IsWrite(q), q.core_id, q.now, TRUE)]

memsys_access_modeA(s, q) ==
    [delay |-> 0,
     sys   |-> IF q.type = "IFETCH" THEN s
               ELSE LookedA(Outdated(s, q), q,
                            cache_access(Outdated(s, q).dcache[0], q.line, IsWrite(q),
                                         q.core_id, q.now, TRUE))]

memsys_access_modeBC(s, q) == TwoLevels(s, q, 0)

\* Slip: the core is left out.
memsys_convert_vpn_to_pfn_NoCore(vpn, core_id) ==
    (vpn % VPN_TAIL) + (vpn \div VPN_TAIL) * 2 * VPN_TAIL

memsys_convert_vpn_to_pfn(vpn, core_id) ==
    (vpn % VPN_TAIL) + core_id * 2 * VPN_TAIL + (vpn \div VPN_TAIL) * 2 * VPN_TAIL

\* The physical line of a virtual line of a core.
PhysicalLine(v_line, core_id) ==
    LET v_addr == v_line * CACHE_LINESIZE
        pfn    == memsys_convert_vpn_to_pfn(v_addr \div PAGE_SIZE, core_id)
    IN  (pfn * PAGE_SIZE + (v_addr % PAGE_SIZE)) \div CACHE_LINESIZE

Physical(q) == [q EXCEPT !.line = PhysicalLine(@, q.core_id)]

\* Slip: as in modes B and C, all go through the first pair of caches.
memsys_access_modeDEF_OneCache(s, q) == TwoLevels(s, Physical(q), 0)

memsys_access_modeDEF(s, q) == TwoLevels(s, Physical(q), q.core_id)

\* The statistics, when r is what the mode's function returns.
Counted(q, r) ==
    [r EXCEPT !.sys.access[q.type] = @ + 1, !.sys.delay[q.type] = @ + r.delay]

memsys_access(s, addr, type, core_id, now) ==
    LET q == Request(addr \div CACHE_LINESIZE, type, core_id, now)
    IN  Counted(q, CASE SIM_MODE = "A" -> memsys_access_modeA(s, q)
                     [] SIM_MODE \in {"B", "C"} -> memsys_access_modeBC(s, q)
                     [] SIM_MODE = "DEF" -> memsys_access_modeDEF(s, q))
=============================================================================
