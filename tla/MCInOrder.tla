----------------------------- MODULE MCInOrder -----------------------------
(***************************************************************************)
(* Trace records for TLC.                                                  *)
(***************************************************************************)
EXTENDS InOrderProperties

Rec(type, reads, writes) ==
    [op_type |-> type, reads |-> reads, writes |-> writes, inst_addr |-> {}, br_dir |-> FALSE]

\* A conditional branch at pc reads the condition code.
Branch(pc, taken) ==
    [op_type |-> "OP_CBR", reads |-> {"cc"}, writes |-> {}, inst_addr |-> pc, br_dir |-> taken]

MCRecords == {Rec("OP_LD", {}, {"r1"}), Rec("OP_ALU", {"r1"}, {"r1"}),
              Rec("OP_ALU", {}, {"r1", "cc"}), Branch({}, TRUE), Branch({}, FALSE)}

MCBranches == {Rec("OP_ALU", {}, {"cc"}), Branch({}, TRUE), Branch({}, FALSE), Branch({0}, TRUE)}
=============================================================================
