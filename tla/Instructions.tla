---------------------------- MODULE Instructions ----------------------------
(***************************************************************************)
(* The records that travel through the out-of-order processor of Lab 3     *)
(* (trace.h): the raw trace record and the in-flight InstInfo.             *)
(*                                                                         *)
(* The two source operands, src1_* and src2_* in the code, are handled     *)
(* alike everywhere; here each is a component of a function over Src.      *)
(* Of the operation types only the load is told apart by any code, so an   *)
(* op_type is OP_LD or OP_OTHER.  Addresses are not read by this lab.      *)
(***************************************************************************)
EXTENDS Integers

CONSTANT
    MAX_ARF_REGS        \* number of architectural registers (rat.h)

ASSUME ArfAssumption == MAX_ARF_REGS \in Nat \ {0}

ArfRegs == 0 .. MAX_ARF_REGS - 1
Src == {1, 2}

\* The value -1 of a register or a tag field that is not used.
NoReg == -1
NoTag == -1

OpTypes == {"OP_LD", "OP_OTHER"}

(***************************************************************************)
(* A trace record, after the *_needed flags have been folded into the      *)
(* register fields as pipe_fetch_inst does.                                *)
(***************************************************************************)
TraceRec == [ op_type  : OpTypes,
              dest_reg : ArfRegs \cup {NoReg},
              src_reg  : [Src -> ArfRegs \cup {NoReg}] ]

InstInfo == [ inst_num        : Nat,
              op_type         : OpTypes,
              dest_reg        : ArfRegs \cup {NoReg},
              src_reg         : [Src -> ArfRegs \cup {NoReg}],
              dr_tag          : Int,
              src_tag         : [Src -> Int],
              src_ready       : [Src -> BOOLEAN],
              exe_wait_cycles : Int ]

(***************************************************************************)
(* The instruction calloc leaves in a latch or a table entry that has not  *)
(* been used: register and tag fields are 0, which is a register and a     *)
(* reorder-buffer entry, not "none".                                       *)
(***************************************************************************)
ZeroInst == [ inst_num        |-> 0,
              op_type         |-> "OP_OTHER",
              dest_reg        |-> 0,
              src_reg         |-> [k \in Src |-> 0],
              dr_tag          |-> 0,
              src_tag         |-> [k \in Src |-> 0],
              src_ready       |-> [k \in Src |-> FALSE],
              exe_wait_cycles |-> 0 ]

\* What pipe_fetch_inst makes of a record: the n-th instruction of the trace.
NewInst(n, rec) ==
    [ inst_num        |-> n,
      op_type         |-> rec.op_type,
      dest_reg        |-> rec.dest_reg,
      src_reg         |-> rec.src_reg,
      dr_tag          |-> NoTag,
      src_tag         |-> [k \in Src |-> NoTag],
      src_ready       |-> [k \in Src |-> FALSE],
      exe_wait_cycles |-> 0 ]

=============================================================================
