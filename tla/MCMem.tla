------------------------------- MODULE MCMem -------------------------------
(***************************************************************************)
(* Trace records for TLC.  Lines are two bytes long and pages four.        *)
(***************************************************************************)
EXTENDS MemProperties

Rec(pc, type, addr) == [inst_addr |-> pc, inst_type |-> type, ldst_addr |-> addr]

\* Two lines of data that share their line of code.
MCTwoCores == {Rec(0, "OTHER", 0), Rec(0, "LOAD", 2), Rec(1, "STORE", 2), Rec(0, "STORE", 4)}

\* Instructions only, from three lines.
MCFetches == {Rec(0, "ALU", 0), Rec(2, "ALU", 0), Rec(4, "ALU", 0)}
=============================================================================
