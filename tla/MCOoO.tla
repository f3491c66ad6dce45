------------------------------- MODULE MCOoO --------------------------------
(***************************************************************************)
(* The pipeline on small traces.  The records load a register, update it,  *)
(* read two registers at once, and read without writing: between them      *)
(* they give true dependences through both operands, an instruction that   *)
(* reads the register it writes, and several writers of one register.      *)
(***************************************************************************)
EXTENDS OoOProperties, TLC

Rec(op, dest, src1, src2) ==
    [op_type |-> op, dest_reg |-> dest, src_reg |-> (1 :> src1 @@ 2 :> src2)]

\* Registers 0 and 1; the last register of the file is not used.
MCRecords == { Rec("OP_LD",    0, NoReg, NoReg),
               Rec("OP_OTHER", 0, 0,     1),
               Rec("OP_OTHER", 1, 0,     NoReg),
               Rec("OP_OTHER", NoReg, 1, 0) }

MCWriters == {r \in MCRecords : r.dest_reg # NoReg}

MCTwoRecords == { Rec("OP_LD", 0, NoReg, NoReg), Rec("OP_OTHER", 1, 0, 1) }

=============================================================================
