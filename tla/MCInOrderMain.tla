---------------------------- MODULE MCInOrderMain ----------------------------
(***************************************************************************)
(* The driver around the pipeline, on few records: a load, an instruction  *)
(* that reads the register it writes and sets the condition code, and a    *)
(* branch in either direction.                                             *)
(***************************************************************************)
EXTENDS MCInOrder, InOrderMain

MCFewRecords == {Rec("OP_LD", {}, {"r1"}), Rec("OP_ALU", {"r1"}, {"r1", "cc"}),
                 Branch({}, TRUE), Branch({}, FALSE)}
=============================================================================
