-------------------------------- MODULE EXEQ --------------------------------
(***************************************************************************)
(* The execution queue (exeq.h, exeq.cpp): instructions that are executing *)
(* and the cycles each has left.  A slot is reused as soon as it is free,  *)
(* so slots are not in program order.                                      *)
(***************************************************************************)
EXTENDS Instructions

CONSTANTS MAX_EXEQ_ENTRIES,     \* exeq.h: 16
          LOAD_EXE_CYCLES       \* -loadlatency

ASSUME ExeqAssumption == /\ MAX_EXEQ_ENTRIES \in Nat \ {0}
                         /\ LOAD_EXE_CYCLES \in Nat \ {0}

ExeqSlots == 0 .. MAX_EXEQ_ENTRIES - 1

EXEQType == [ExeqSlots -> [valid : BOOLEAN, inst : InstInfo]]

exeq_init == [s \in ExeqSlots |-> [valid |-> FALSE, inst |-> ZeroInst]]

\* The first slot of a non-empty set, as the loops over the array find it.
FirstSlot(S) == CHOOSE s \in S : \A t \in S : s <= t

FreeSlots(exeq) == {s \in ExeqSlots : ~exeq[s].valid}
DoneSlots(exeq) ==
    {s \in ExeqSlots : exeq[s].valid /\ exeq[s].inst.exe_wait_cycles = 0}

\* exeq_insert fails, and inserts nothing, when no slot is free.
exeq_full(exeq) == FreeSlots(exeq) = {}

\* Slip: the first slot is taken whether or not it is free.
exeq_insert_SlotZero(exeq, inst) ==
    [ exeq EXCEPT ![0] =
        [ valid |-> TRUE,
          inst  |-> [ inst EXCEPT !.exe_wait_cycles = 1 ]]]

exeq_insert(exeq, inst) ==
    [ exeq EXCEPT ![FirstSlot(FreeSlots(exeq))] =
        [ valid |-> TRUE,
          inst  |-> [ inst EXCEPT !.exe_wait_cycles =
                        IF inst.op_type = "OP_LD" THEN LOAD_EXE_CYCLES ELSE 1 ]]]

exeq_cycle(exeq) ==
    [s \in ExeqSlots |->
        IF exeq[s].valid
        THEN [exeq[s] EXCEPT !.inst.exe_wait_cycles = @ - 1]
        ELSE exeq[s]]

exeq_check_done(exeq) == DoneSlots(exeq) # {}

DoneInst(exeq) == exeq[FirstSlot(DoneSlots(exeq))].inst

exeq_remove(exeq) == [exeq EXCEPT ![FirstSlot(DoneSlots(exeq))].valid = FALSE]

=============================================================================
