---------------------------- MODULE TraceAnalysis ----------------------------
(***************************************************************************)
(* Lab 1: main and read_trace (sim.cpp), which read a trace through a pipe *)
(* record by record, and analyze_trace_record (studentwork.cpp), which     *)
(* counts.  A step is one system call with what follows it.                *)
(***************************************************************************)
EXTENDS TracePipe, Sequences, SequencesExt

CONSTANTS
    REC,            \* sizeof(TraceRec)
    TraceRecords    \* the records a trace may hold

OpTypes == {"OP_ALU", "OP_LD", "OP_ST", "OP_CBR", "OP_OTHER"}

ASSUME AnalysisAssumption ==
    /\ Pipes = {0}
    /\ REC \in Nat \ {0}
    /\ \A r \in TraceRecords : DOMAIN r = {"inst_addr", "optype"}

VARIABLES
    pc, ret,            \* main's place, and what it returns
    verdict,            \* why read_trace returned
    stat_num_inst, stat_optype_dyn, stat_num_cycle, PC_unique,
    trace               \* history: the records analyzed

main_vars == <<pc, ret, verdict>>
stat_vars == <<stat_num_inst, stat_optype_dyn, stat_num_cycle, PC_unique, trace>>
vars == <<pipe_vars, main_vars, stat_vars>>

Init ==
    /\ PipeInit
    /\ pc = "open" /\ ret = 0 /\ verdict = "none"
    /\ stat_num_inst = 0 /\ stat_num_cycle = 0
    /\ stat_optype_dyn = [t \in OpTypes |-> 0]
    /\ PC_unique = {} /\ trace = <<>>

stat_unique_pc == Cardinality(PC_unique)

Return(r) == pc' = "exited" /\ ret' = r

\* pipe or fork may fail.
Open ==
    /\ pc = "open"
    /\ \/ Fork(0) /\ pc' = "opened" /\ UNCHANGED ret
       \/ Return(1) /\ UNCHANGED pipe_vars
    /\ UNCHANGED <<verdict, stat_vars>>

Opened ==
    /\ pc = "opened"
    /\ CloseWriteEnd(0)
    /\ pc' = "read_trace"
    /\ UNCHANGED <<ret, verdict, stat_vars>>

\* Slip: a branch is not counted in the second switch.
Cycles_NoBranch(optype) == IF optype \in {"OP_LD", "OP_ST"} THEN 2 ELSE 1

Cycles(optype) ==
    CASE optype \in {"OP_ALU", "OP_OTHER"} -> 1
      [] optype \in {"OP_LD", "OP_ST"}     -> 2
      [] optype = "OP_CBR"                 -> 3

analyze_trace_record(t) ==
    /\ stat_optype_dyn' = [stat_optype_dyn EXCEPT ![t.optype] = @ + 1]
    /\ stat_num_cycle' = stat_num_cycle + Cycles(t.optype)
    /\ PC_unique' = PC_unique \cup {t.inst_addr}

(***************************************************************************)
(* One round of read_trace's loop.  What a child that could not exec has   *)
(* left in the pipe is text, in which no byte is an optype.                *)
(***************************************************************************)
ReadRecord ==
    /\ pc = "read_trace"
    /\ Read(0, REC, REC)
    /\ is_gunzip[0]
    /\ \E t \in TraceRecords :
           /\ t.optype \in OpTypes
           /\ stat_num_inst' = stat_num_inst + 1
           /\ analyze_trace_record(t)
           /\ trace' = Append(trace, t)
    /\ UNCHANGED main_vars

ReadTraceReturns(v) == pc' = "close" /\ verdict' = v /\ UNCHANGED <<ret, stat_vars>>

ReadEnd   == pc = "read_trace" /\ Read(0, REC, 0) /\ ReadTraceReturns("end")
ReadError == pc = "read_trace" /\ Read(0, REC, -1) /\ ReadTraceReturns("error")

\* Slip: read is asked for the size of a pointer to the record.
ReadShort_PointerSize ==
    /\ pc = "read_trace"
    /\ Read(0, REC - 1, REC - 1)
    /\ ReadTraceReturns("truncated")

ReadShort ==
    /\ pc = "read_trace"
    /\ \E got \in 1 .. REC - 1 : Read(0, REC, got)
    /\ ReadTraceReturns("truncated")

ReadInvalid ==
    /\ pc = "read_trace"
    /\ Read(0, REC, REC)
    /\ ~ is_gunzip[0] \/ \E t \in TraceRecords : t.optype \notin OpTypes
    /\ ReadTraceReturns("invalid")

\* After an error main does not wait for its child.
AfterClose == IF verdict = "end" THEN pc' = "wait" /\ UNCHANGED ret ELSE Return(1)

Close ==
    /\ pc = "close"
    /\ CloseReadEnd(0)
    /\ AfterClose
    /\ UNCHANGED <<verdict, stat_vars>>

\* waitpid; then, unless the child could not exec, print_stats, which corrects a count of 0.
Wait ==
    /\ pc = "wait" /\ Waited(0)
    /\ IF exit_status[0] = 127
       THEN Return(1) /\ UNCHANGED stat_num_inst
       ELSE Return(0) /\ stat_num_inst' = IF stat_num_inst = 0 THEN 1 ELSE stat_num_inst
    /\ UNCHANGED <<pipe_vars, verdict, stat_optype_dyn, stat_num_cycle, PC_unique, trace>>

MainRuns == \/ Open \/ Opened \/ Close \/ Wait
            \/ ReadRecord \/ ReadEnd \/ ReadShort \/ ReadInvalid

MainStep == MainRuns \/ ReadError

ChildStep == Child(0) /\ UNCHANGED <<main_vars, stat_vars>>

Next == MainStep \/ ChildStep

\* The kernel runs both processes; no file need be damaged and no read need fail.
Fairness == /\ WF_vars(MainRuns)
            /\ WF_vars(Runs(0) /\ UNCHANGED <<main_vars, stat_vars>>)

Spec == Init /\ [][Next]_vars /\ Fairness

-----------------------------------------------------------------------------
(***************************************************************************)
(* main reports success only if gunzip ran and every byte it wrote is in a *)
(* record that was counted: no short read, early end, error or failure to  *)
(* exec lets it print statistics of part of a trace.  (What gunzip itself  *)
(* did not write is lost to main, which ignores every status but 127.)     *)
(***************************************************************************)
SuccessMeansWhole ==
    pc = "exited" /\ ret = 0 => is_gunzip[0] /\ Len(trace) * REC = sent[0]

(***************************************************************************)
(* The statistics, kept up by separate statements, are those of one and    *)
(* the same trace: its instructions by type, each of which takes as many   *)
(* cycles as its type is given in analyze_trace_record, and its distinct   *)
(* addresses.                                                              *)
(***************************************************************************)
Of(type) == {n \in 1 .. Len(trace) : trace[n].optype = type}

StatisticsAgree ==
    /\ pc # "exited" => stat_num_inst = Len(trace)
    /\ \A t \in OpTypes : stat_optype_dyn[t] = Cardinality(Of(t))
    /\ stat_num_cycle = Len(trace) + Cardinality(Of("OP_LD")) + Cardinality(Of("OP_ST"))
                                   + 2 * Cardinality(Of("OP_CBR"))
    /\ stat_unique_pc = Cardinality({trace[n].inst_addr : n \in 1 .. Len(trace)})

(***************************************************************************)
(* "Error: Invalid trace file" (sim.cpp:124) is said of a trace that is    *)
(* not a whole number of records.  So it is as long as gunzip writes whole *)
(* records at a time; read_trace itself does not see to it.                *)
(***************************************************************************)
RefusedOnlyIfInvalid ==
    verdict = "truncated" => ~ is_gunzip[0] \/ size[0] % REC # 0

(***************************************************************************)
(* Whatever fails, main ends and leaves no child behind that waits: the    *)
(* end of the pipe is seen because no other process can write to it, and   *)
(* the child is not left writing to a pipe that main has given up.         *)
(***************************************************************************)
BothProcessesEnd == <>(pc = "exited" /\ child[0] \in {"none", "exited"})

(***************************************************************************)
(* stat_num_inst is the "Total number of instructions executed"            *)
(* (sim.cpp:15), also when it is printed.                                  *)
(***************************************************************************)
CountIsTheTrace == pc = "exited" /\ ret = 0 => stat_num_inst = Len(trace)
=============================================================================
