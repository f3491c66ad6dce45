---------------------------- MODULE MCMemRecency ---------------------------
(***************************************************************************)
(* Trace records for TLC.  Lines are two bytes long and pages four.        *)
(***************************************************************************)
EXTENDS MemRecency

Rec(pc, type, addr) == [inst_addr |-> pc, inst_type |-> type, ldst_addr |-> addr]

\* Three lines of code, and five of data of which four share a set of the
\* data cache; a line of code is also loaded.
MCThreeLines == { Rec(0, "LOAD", 4),  Rec(0, "STORE", 4), Rec(2, "LOAD", 8),
                  Rec(0, "STORE", 8), Rec(2, "STORE", 14), Rec(0, "LOAD", 12),
                  Rec(4, "LOAD", 0) }
=============================================================================
