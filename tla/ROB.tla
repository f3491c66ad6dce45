-------------------------------- MODULE ROB ---------------------------------
(***************************************************************************)
(* The reorder buffer (rob.h, rob.cpp): a circular array of entries        *)
(* between head_ptr (next to commit) and tail_ptr (next to fill).  A ROB   *)
(* is a value; each function of rob.cpp is an operator on it.              *)
(***************************************************************************)
EXTENDS Instructions

CONSTANT NUM_ROB_ENTRIES

ASSUME RobAssumption == NUM_ROB_ENTRIES \in Nat \ {0}

RobIds == 0 .. NUM_ROB_ENTRIES - 1

ROBEntry == [ valid : BOOLEAN, exec : BOOLEAN, ready : BOOLEAN,
              inst : InstInfo ]

ROBType == [ entries : [RobIds -> ROBEntry],
             head_ptr : RobIds, tail_ptr : RobIds ]

rob_init ==
    [ entries  |-> [i \in RobIds |-> [ valid |-> FALSE, exec |-> FALSE,
                                       ready |-> FALSE, inst |-> ZeroInst ]],
      head_ptr |-> 0,
      tail_ptr |-> 0 ]

\* Slip: the index does not wrap around.
NextId_NoWrap(i) == i + 1

NextId(i) == (i + 1) % NUM_ROB_ENTRIES

\* Distance of entry i from the head: 0 is the next to commit.
Age(rob, i) == (i - rob.head_ptr) % NUM_ROB_ENTRIES

\* Slip: a finished instruction at the tail counts as gone.
rob_check_space_Finished(rob) ==
    \/ rob.head_ptr # rob.tail_ptr
    \/ ~rob.entries[rob.tail_ptr].valid
    \/ rob.entries[rob.tail_ptr].ready

\* head_ptr = tail_ptr both when the buffer is empty and when it is full.
rob_check_space(rob) ==
    \/ rob.head_ptr # rob.tail_ptr
    \/ ~rob.entries[rob.tail_ptr].valid

\* Callers have tested rob_check_space.
rob_insert(rob, inst) ==
    [ rob EXCEPT
        !.entries = [@ EXCEPT ![rob.tail_ptr] =
                        [ valid |-> TRUE, exec |-> FALSE, ready |-> FALSE,
                          inst |-> inst ]],
        !.tail_ptr = NextId(@) ]

(***************************************************************************)
(* The first entry that holds the instruction numbered n, valid or not;    *)
(* -1 when there is none.                                                  *)
(***************************************************************************)
Holders(rob, n) == {i \in RobIds : rob.entries[i].inst.inst_num = n}

find_rob_inst(rob, n) ==
    IF Holders(rob, n) = {}
    THEN -1
    ELSE CHOOSE i \in Holders(rob, n) : \A j \in Holders(rob, n) : i <= j

SetExec(rob, i)  == [rob EXCEPT !.entries = [@ EXCEPT ![i].exec = TRUE]]
SetReady(rob, i) == [rob EXCEPT !.entries = [@ EXCEPT ![i].ready = TRUE]]

\* The scheduler passes an instruction it has just read from the buffer.
rob_mark_exec(rob, inst) == SetExec(rob, find_rob_inst(rob, inst.inst_num))

\* For an instruction that is present; the pipeline models the other case.
rob_mark_ready(rob, inst) == SetReady(rob, find_rob_inst(rob, inst.inst_num))

rob_check_ready(rob, tag) == rob.entries[tag].ready /\ rob.entries[tag].valid

rob_check_head(rob) == rob_check_ready(rob, rob.head_ptr)

WakeInst(inst, wakes) ==
    [inst EXCEPT !.src_ready = [k \in Src |-> inst.src_ready[k] \/ wakes[k]]]

WakeOperands(rob, wakes) ==
    [ rob EXCEPT !.entries =
        [i \in RobIds |->
            [rob.entries[i] EXCEPT !.inst = WakeInst(rob.entries[i].inst, wakes[i])]]]

WaitsFor(rob, tag, i, k) == /\ rob.entries[i].inst.src_reg[k] # NoReg
                            /\ rob.entries[i].inst.src_tag[k] = tag

\* Slip: one match makes both operands ready.
rob_wakeup_Both(rob, tag) ==
    WakeOperands(rob, [i \in RobIds |-> [k \in Src |->
                          \E l \in Src : WaitsFor(rob, tag, i, l)]])

\* Every entry is compared, the invalid ones too.
rob_wakeup(rob, tag) ==
    WakeOperands(rob, [i \in RobIds |-> [k \in Src |-> WaitsFor(rob, tag, i, k)]])

\* Callers have tested rob_check_head.  The removed instruction stays behind
\* in the invalid entry.
rob_remove_head(rob) ==
    [ rob EXCEPT
        !.entries = [@ EXCEPT ![rob.head_ptr].valid = FALSE],
        !.head_ptr = NextId(@) ]

HeadInst(rob) == rob.entries[rob.head_ptr].inst

rob_check_inputs_ready(rob, i) == \A k \in Src : rob.entries[i].inst.src_ready[k]

=============================================================================
