--------------------------- MODULE MCTraceAnalysis ---------------------------
(***************************************************************************)
(* Trace records for TLC: every type of operation, at two addresses, and   *)
(* one type that is not valid.                                             *)
(***************************************************************************)
EXTENDS TraceAnalysis

MCRecords == {[inst_addr |-> "a", optype |-> t] : t \in OpTypes \cup {"NUM_OP_TYPES"}}
             \cup {[inst_addr |-> "b", optype |-> "OP_ALU"]}
=============================================================================
