--------------------------- MODULE OoOProperties ----------------------------
(***************************************************************************)
(* What makes the out-of-order pipeline correct.                           *)
(***************************************************************************)
EXTENDS OoOPipeline, FiniteSets

Entry(i) == rob.entries[i]
ValidIds == {i \in RobIds : Entry(i).valid}
Num(i) == Entry(i).inst.inst_num

\* Entries in use, from the pointers alone: the cases of rob_check_space.
Occupancy == IF rob_check_space(rob)
             THEN (rob.tail_ptr - rob.head_ptr) % NUM_ROB_ENTRIES
             ELSE NUM_ROB_ENTRIES

-----------------------------------------------------------------------------
\* Every variable has the type its declaration gives it.
TypeOK ==
    /\ stage \in Stages
    /\ lane \in Nat
    /\ pass \in Lanes
    /\ FE_latch \in [Lanes -> Latch]
    /\ ID_latch \in [Lanes -> Latch]
    /\ SC_latch \in [Lanes -> Latch]
    /\ EX_latch \in [ExLanes -> Latch]
    /\ rob \in ROBType
    /\ rat \in RATType
    /\ exeq \in EXEQType
    /\ pipeIndex \in [Lanes -> Lanes]
    /\ continueScheduling \in BOOLEAN
    /\ next_inst_num \in Nat
    /\ halt_inst_num \in Nat
    /\ stat_retired_inst \in Nat
    /\ halt \in BOOLEAN
    /\ fetched \in Seq(TraceRecords)
    /\ eof \in BOOLEAN

(***************************************************************************)
(* The valid entries are exactly the window from head_ptr to tail_ptr, at  *)
(* every wrap-around, with the buffer empty and with it full, where the    *)
(* two pointers are equal: no hole lets rob_check_space or rob_check_head  *)
(* mistake one case for the other.  This holds at every width.             *)
(***************************************************************************)
RobWindow == \A i \in RobIds : Entry(i).valid <=> Age(rob, i) < Occupancy

(***************************************************************************)
(* rob.h: the head is always the oldest instruction and the tail is just   *)
(* past the youngest.  Going round the window, the entries are the         *)
(* instructions after the retired ones, in program order and without gap.  *)
(***************************************************************************)
RobProgramOrder ==
    /\ RobWindow
    /\ \A i \in ValidIds : Num(i) = stat_retired_inst + 1 + Age(rob, i)

(***************************************************************************)
(* rat.h: a valid alias names the valid reorder-buffer entry that will     *)
(* hold the latest value of the register, the youngest of its issued       *)
(* writers; without an alias the latest value is committed, so no writer   *)
(* is in the buffer.  Broken by a reset at commit that drops a younger     *)
(* alias or keeps one whose entry is then reused.                          *)
(***************************************************************************)
WritersOf(r) == {i \in ValidIds : Entry(i).inst.dest_reg = r}

RatNamesLatestWriter ==
    \A r \in ArfRegs :
        /\ rat[r].valid = (WritersOf(r) # {})
        /\ rat[r].valid =>
            /\ rat[r].prf_id \in WritersOf(r)
            /\ \A i \in WritersOf(r) : Age(rob, i) <= Age(rob, rat[r].prf_id)

(***************************************************************************)
(* Issue, writeback and commit together neither lose nor anticipate a      *)
(* wakeup.  An operand that waits carries the tag of the youngest older    *)
(* writer of its register, and that writer is still in the buffer with its *)
(* result to come; an operand that is ready has no such writer left.  A    *)
(* lost wakeup would leave an instruction waiting for a tag nobody will    *)
(* broadcast, or for a later instruction that reuses the entry.            *)
(***************************************************************************)
PendingWriters(i, k) ==
    {j \in ValidIds : /\ Entry(i).inst.src_reg[k] # NoReg
                      /\ Entry(j).inst.dest_reg = Entry(i).inst.src_reg[k]
                      /\ Age(rob, j) < Age(rob, i)}

OperandsWaitForTheirProducer ==
    \A i \in ValidIds, k \in Src :
        LET W == PendingWriters(i, k)
            youngest == {j \in W : \A l \in W : Age(rob, l) <= Age(rob, j)}
            pending == {j \in youngest : ~Entry(j).ready}
        IN pending = IF Entry(i).inst.src_ready[k]
                     THEN {} ELSE {Entry(i).inst.src_tag[k]}

(***************************************************************************)
(* An instruction that the scheduler has picked is in exactly one of the   *)
(* SC latches, the EXEQ and the EX latches until it is written back, and   *)
(* nothing else is there: none is executed twice, dropped between two      *)
(* stages, or overwritten in an EX latch before writeback has seen it.     *)
(***************************************************************************)
LatchHomes(latch, name, n) ==
    {<<name, l>> : l \in {l \in DOMAIN latch :
                            latch[l].valid /\ latch[l].inst.inst_num = n}}
UnitsOf(n) == LatchHomes(SC_latch, "SC", n) \cup LatchHomes(exeq, "EXEQ", n)
                \cup LatchHomes(EX_latch, "EX", n)
ExecutingNums == {Num(i) : i \in {i \in ValidIds : Entry(i).exec /\ ~Entry(i).ready}}

ExecutedOnce ==
    \A n \in 0 .. last_inst_num :
        Cardinality(UnitsOf(n)) = IF n \in ExecutingNums THEN 1 ELSE 0

(***************************************************************************)
(* Between trace and retirement no instruction is lost or duplicated: each *)
(* is in at most one of FE, ID and the reorder buffer, and with the        *)
(* retired ones they make up all that was fetched.  This holds at every    *)
(* width, with a full buffer, and when the simulation is cut short.        *)
(***************************************************************************)
HomesOf(n) == LatchHomes(FE_latch, "FE", n) \cup LatchHomes(ID_latch, "ID", n)
                \cup LatchHomes(rob.entries, "ROB", n)

NoInstructionLost ==
    /\ \A n \in 0 .. last_inst_num : Cardinality(HomesOf(n)) <= 1
    /\ stat_retired_inst
         + Cardinality({n \in 1 .. last_inst_num : HomesOf(n) # {}}) = last_inst_num

(***************************************************************************)
(* An execution-queue slot whose count has reached zero is emptied in the  *)
(* same cycle: otherwise exeq_cycle takes it below zero, it is never done  *)
(* again, and its instruction and everything behind it wait for ever.      *)
(***************************************************************************)
ExeqDrainsInTime ==
    /\ \A s \in ExeqSlots : exeq[s].valid =>
            exeq[s].inst.exe_wait_cycles \in 0 .. LOAD_EXE_CYCLES
    /\ stage # "exe_done" => DoneSlots(exeq) = {}

(***************************************************************************)
(* The pipeline implements Dataflow, with the in-order condition when the  *)
(* scheduler is in order.  An instruction has started when its entry is    *)
(* executing and is done when its entry is ready; the machine has stopped  *)
(* when main leaves its loop.                                              *)
(***************************************************************************)
NumsWhere(S) == 1 .. stat_retired_inst \cup {Num(i) : i \in S}

Abstract == INSTANCE Dataflow WITH
    Records      <- TraceRecords,
    None         <- NoReg,
    Operands     <- Src,
    Window       <- NUM_ROB_ENTRIES,
    InOrderStart <- SCHED_POLICY = "SCHED_IN_ORDER",
    program      <- fetched,
    started      <- NumsWhere({i \in ValidIds : Entry(i).exec}),
    done         <- NumsWhere({i \in ValidIds : Entry(i).ready}),
    retired      <- stat_retired_inst,
    stopped      <- stage = "halted"

ImplementsDataflow == Abstract!DataflowSpec

(***************************************************************************)
(* A finite trace is simulated to its end: the last commit and the read    *)
(* that finds the end of the trace race, and whichever comes second must   *)
(* stop the loop.  pipe_commit_inst and pipe_fetch_inst each test for it.  *)
(***************************************************************************)
Halts == <>(stage = "halted")

(***************************************************************************)
(* Whatever the trace, the widths and the sizes, the loop of main ends: at *)
(* the end of the trace, with EXEQ full, or by the fault of a wild tag.    *)
(***************************************************************************)
LoopEnds == <>(stage \in {"halted", "crashed"})

-----------------------------------------------------------------------------
(***************************************************************************)
(* rob.h:71 of head_ptr: "This is always the entry containing the oldest   *)
(* instruction."  Part of RobProgramOrder, stated alone because the code   *)
(* does not keep it with three lanes or more: see IssueCompare.            *)
(***************************************************************************)
HeadIsOldest == \A i \in ValidIds : Num(rob.head_ptr) <= Num(i)

(***************************************************************************)
(* rat.h:22 of an alias that is valid: "prf_id refers to a valid entry in  *)
(* the ROB".  Part of RatNamesLatestWriter, stated alone because the code  *)
(* does not keep it for the register OobReg: see WritebackLane.            *)
(***************************************************************************)
AliasNamesValidEntry == \A r \in ArfRegs : rat[r].valid => rat[r].prf_id \in ValidIds

=============================================================================
