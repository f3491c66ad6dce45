------------------------------- MODULE MemSim ------------------------------
(***************************************************************************)
(* Lab 4: the cores (core.h, core.cpp) and the loop of main (sim.cpp) that *)
(* calls them in turn, one after the other, once a cycle.  A step is one   *)
(* call of core_cycle or the end of a turn of the loop; nothing in the     *)
(* program runs concurrently with it.                                      *)
(***************************************************************************)
EXTENDS MemSys

CONSTANTS L2CACHE_REPLS,   \* the choices of -L2repl, one of which is made at the start
          MemRecords,      \* trace records: [inst_addr, inst_type, ldst_addr]
          MaxInst,         \* bound: records a trace may have
          MaxCycle         \* bound: cycles a run may take

ASSUME MemSimAssumption ==
    /\ L2CACHE_REPLS \subseteq {"LRU", "RANDOM", "SWP", "DWP"}
    /\ {MaxInst, MaxCycle} \subseteq Nat
    /\ \A r \in MemRecords :
           /\ r.inst_type \in {"ALU", "LOAD", "STORE", "OTHER"}
           /\ {r.inst_addr, r.ldst_addr} \subseteq 0 .. PAGE_SIZE * VPN_TAIL - 1

VARIABLES sys,              \* the memory system
          core,             \* for each core, what struct Core holds
          current_cycle,
          i,                \* the core that main calls next; NUM_CORES: none is left
          all_cores_done,
          running           \* main is still in its while loop

options == <<SIM_MODE, DRAM_PAGE_POLICY>>
vars == <<options, sys, core, current_cycle, i, all_cores_done, running>>

NoRecord == [inst_addr |-> 0, inst_type |-> "OTHER", ldst_addr |-> 0]

(***************************************************************************)
(* core_read_trace: the next record, or the end of the trace, which always *)
(* comes within MaxInst records.  What a failed read leaves in the record  *)
(* is never used: a core that is done does nothing.                        *)
(***************************************************************************)
AfterRead(k) ==
    {[k EXCEPT !.trace = r] : r \in IF k.inst_count < MaxInst THEN MemRecords ELSE {}}
    \cup {[k EXCEPT !.trace = NoRecord, !.done = TRUE,
                    !.done_inst_count = k.inst_count,
                    !.done_cycle_count = current_cycle]}

NewCore == [done |-> FALSE, trace |-> NoRecord, snooze_end_cycle |-> 0,
            inst_count |-> 0, done_inst_count |-> 0, done_cycle_count |-> 0]

\* main up to its loop: memsys_new, and core_new, which reads a record, for each core.
Init ==
    /\ SIM_MODE \in SIM_MODES /\ DRAM_PAGE_POLICY \in DRAM_PAGE_POLICIES
    /\ \E p \in L2CACHE_REPLS : sys = memsys_new(p)
    /\ current_cycle = 0
    /\ core \in [Cores -> AfterRead(NewCore)]
    /\ i = 0
    /\ all_cores_done = TRUE
    /\ running = TRUE

\* Slip: a core starts again in the last cycle of its delay.
Snoozing_Short(k) == current_cycle < k.snooze_end_cycle

Snoozing(k) == current_cycle <= k.snooze_end_cycle

\* main goes on to the next core; k is what the one it called has become.
CallNextCore(k) ==
    /\ i' = i + 1
    /\ all_cores_done' = (all_cores_done /\ k.done)
    /\ UNCHANGED <<options, current_cycle, running>>

\* core_cycle returns at once: the core is done, or waits for its memory.
CoreIdle ==
    /\ running /\ ~ Fault(sys) /\ i < NUM_CORES
    /\ core[i].done \/ Snoozing(core[i])
    /\ CallNextCore(core[i])
    /\ UNCHANGED <<sys, core>>

\* The data access of an instruction, if it has one and its fetch did not
\* end the simulator.
DataAccess(s, k) ==
    IF core[k].trace.inst_type \in {"LOAD", "STORE"} /\ ~ Fault(s)
    THEN memsys_access(s, core[k].trace.ldst_addr, core[k].trace.inst_type, k, current_cycle)
    ELSE [delay |-> 0, sys |-> s]

\* The cycles that an access of this delay adds; a store adds none.
Bubble(type, delay) == IF type \in {"IFETCH", "LOAD"} /\ delay > 1 THEN delay - 1 ELSE 0

\* core_cycle executes an instruction and reads the next.
InstructionFetch == memsys_access(sys, core[i].trace.inst_addr, "IFETCH", i, current_cycle)

Executed(k, bubble_cycles) ==
    [k EXCEPT !.inst_count = @ + 1,
              !.snooze_end_cycle = IF bubble_cycles > 0 THEN current_cycle + bubble_cycles ELSE @]

CoreExecutes ==
    /\ running /\ ~ Fault(sys) /\ i < NUM_CORES
    /\ ~ core[i].done /\ ~ Snoozing(core[i])
    /\ \E f \in {InstructionFetch} : \E d \in {DataAccess(f.sys, i)} :
           /\ sys' = d.sys
           /\ \E k \in AfterRead(Executed(core[i], Bubble("IFETCH", f.delay)
                                              + Bubble(core[i].trace.inst_type, d.delay))) :
                  /\ core' = [core EXCEPT ![i] = k]
                  /\ CallNextCore(k)

EndOfTurn ==
    /\ running /\ ~ Fault(sys) /\ i = NUM_CORES
    /\ current_cycle < MaxCycle
    /\ current_cycle' = current_cycle + 1
    /\ running' = ~ all_cores_done
    /\ i' = 0
    /\ UNCHANGED <<options, sys, core>>

\* Slip: all_cores_done is set before the loop only.
EndCycle_NoReset == EndOfTurn /\ UNCHANGED all_cores_done

EndCycle == EndOfTurn /\ all_cores_done' = TRUE

Next == CoreIdle \/ CoreExecutes \/ EndCycle

Spec == Init /\ [][Next]_vars
=============================================================================
