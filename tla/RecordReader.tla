---------------------------- MODULE RecordReader -----------------------------
(***************************************************************************)
(* The driver of Labs 2 and 3 and the reader of its pipeline: main and     *)
(* open_gunzip_pipe (sim.cpp), and the loop of read in pipe_get_fetch_op   *)
(* (Lab 2) and pipe_fetch_inst (Lab 3), which collects a record from as    *)
(* many reads as it takes.  The two labs have the same code here.  Of the  *)
(* pipeline there is left that it asks for a record any number of times,   *)
(* goes on asking when there is none, and may then halt; that Lab 3's also *)
(* halts, whatever it has been told, when it finds its EXEQ full; and that *)
(* the heartbeat may end the loop at any time (see OoOMain, InOrderMain).  *)
(* The behaviors of Lab 2 are those without the step ExeFull.              *)
(***************************************************************************)
EXTENDS TracePipe, Sequences

CONSTANTS
    REC,            \* sizeof(TraceRec)
    MAX_EXEQ_ENTRIES,   \* Lab 3: how many instructions can be in execution
    BadRecords      \* may a trace hold a record with an invalid op_type?

ASSUME ReaderAssumption ==
    /\ Pipes = {0}
    /\ REC \in Nat \ {0} /\ BadRecords \in BOOLEAN
    /\ MAX_EXEQ_ENTRIES \in Nat \ {0}

VARIABLES
    pc, ret,            \* main's place, and what it returns
    trace_rec,          \* what has been read of the record: numbers of bytes
    inst,               \* the record in the fetch latch
    last_inst_num,      \* records read before the first that could not be
    verdict,            \* why that could not be
    exe_halt            \* Lab 3: pipe_cycle_exe has set halt

main_vars == <<pc, ret, trace_rec, inst, last_inst_num, verdict, exe_halt>>
vars == <<pipe_vars, main_vars>>

Init ==
    /\ PipeInit
    /\ pc = "open" /\ ret = 0
    /\ trace_rec = <<>> /\ inst = <<>> /\ last_inst_num = 0 /\ verdict = "none"
    /\ exe_halt = FALSE

Return(r) == pc' = "exited" /\ ret' = r

reader_vars == <<trace_rec, inst, last_inst_num, verdict, exe_halt>>

-----------------------------------------------------------------------------
(* open_gunzip_pipe, and main up to its loop. *)

Open ==
    /\ pc = "open"
    /\ \/ Fork(0) /\ pc' = "opened" /\ UNCHANGED ret
       \/ Return(1) /\ UNCHANGED pipe_vars
    /\ UNCHANGED reader_vars

Opened ==
    /\ pc = "opened"
    /\ CloseWriteEnd(0)
    /\ pc' = "cycle"
    /\ UNCHANGED <<ret, reader_vars>>

-----------------------------------------------------------------------------
(* The pipeline's reader. *)

bytes_left == REC - Len(trace_rec)

Fetch ==
    /\ pc = "cycle"
    /\ pc' = "read" /\ trace_rec' = <<>>
    /\ UNCHANGED <<pipe_vars, ret, inst, last_inst_num, verdict, exe_halt>>

\* Records count up to the first that could not be read.
Count(bytes) ==
    IF verdict = "none" THEN last_inst_num' = last_inst_num + 1 /\ inst' = bytes
    ELSE UNCHANGED <<last_inst_num, inst>>

Invalid(v) ==
    /\ verdict' = IF verdict = "none" THEN v ELSE verdict
    /\ UNCHANGED <<inst, last_inst_num>>

\* A record is whole; the text of a child that could not exec is not a valid one.
Collected(bytes) ==
    /\ pc' = "cycle"
    /\ \/ is_gunzip[0] /\ Count(bytes) /\ UNCHANGED verdict
       \/ (~ is_gunzip[0] \/ BadRecords) /\ Invalid("invalid")

\* Slip: whatever a read gives is a record, as in Lab 1.
ReadSome_Once ==
    /\ pc = "read"
    /\ \E got \in 1 .. bytes_left :
           LET bytes == trace_rec \o BytesRead(0, got) IN
           /\ Read(0, bytes_left, got)
           /\ trace_rec' = bytes
           /\ Collected(bytes)
    /\ UNCHANGED <<ret, exe_halt>>

ReadSome ==
    /\ pc = "read"
    /\ \E got \in 1 .. bytes_left :
           LET bytes == trace_rec \o BytesRead(0, got) IN
           /\ Read(0, bytes_left, got)
           /\ trace_rec' = bytes
           /\ IF got < bytes_left
              THEN pc' = "read" /\ UNCHANGED <<inst, last_inst_num, verdict>>
              ELSE Collected(bytes)
    /\ UNCHANGED <<ret, exe_halt>>

ReadNone(got, v) ==
    /\ pc = "read"
    /\ Read(0, bytes_left, got)
    /\ Invalid(v)
    /\ pc' = "cycle"
    /\ UNCHANGED <<ret, trace_rec, exe_halt>>

ReadEnd   == ReadNone(0, IF trace_rec = <<>> THEN "end" ELSE "truncated")
ReadError == ReadNone(-1, "error")

-----------------------------------------------------------------------------
(* The end of main. *)

(***************************************************************************)
(* Lab 3: "EXEQ full".  One instruction more than the EXEQ holds has come  *)
(* to execution, so at least as many have been read.  The cycle goes on,   *)
(* and fetch may still read in it.                                         *)
(***************************************************************************)
ExeFull ==
    /\ pc = "cycle"
    /\ last_inst_num > MAX_EXEQ_ENTRIES
    /\ exe_halt' = TRUE
    /\ UNCHANGED <<pipe_vars, pc, ret, trace_rec, inst, last_inst_num, verdict>>

\* The pipeline halts: it has been told of the end, and all before it has retired, or ExeFull.
MayHalt == verdict # "none" \/ exe_halt

\* main leaves its loop with status 0 if the pipeline has halted, with 1 if the heartbeat says so.
LoopEnds ==
    /\ pc = "cycle"
    /\ \/ MayHalt /\ UNCHANGED ret
       \/ ret' = 1
    /\ pc' = "close"
    /\ UNCHANGED <<pipe_vars, reader_vars>>

\* Slip: the read end is still open when main waits.
Close_Later == pc = "close" /\ pc' = "wait" /\ UNCHANGED <<pipe_vars, ret, reader_vars>>

Close ==
    /\ pc = "close"
    /\ CloseReadEnd(0)
    /\ pc' = "wait"
    /\ UNCHANGED <<ret, reader_vars>>

Wait ==
    /\ pc = "wait" /\ Waited(0)
    /\ Return(IF exit_status[0] = 127 THEN 1 ELSE ret)
    /\ UNCHANGED <<pipe_vars, reader_vars>>

MainRuns == Open \/ Opened \/ Fetch \/ ReadSome \/ ReadEnd \/ LoopEnds \/ Close \/ Wait

MainStep == MainRuns \/ ReadError \/ ExeFull

ChildStep == Child(0) /\ UNCHANGED main_vars

Next == MainStep \/ ChildStep

(***************************************************************************)
(* The kernel runs both processes; no file need be damaged and no read     *)
(* need fail, and no EXEQ need be full.  Once it knows of the end the      *)
(* pipeline halts or is stopped by the heartbeat, so the loop is left in   *)
(* the end although a next fetch is always possible.                       *)
(***************************************************************************)
Fairness == /\ WF_vars(MainRuns)
            /\ WF_vars(Runs(0) /\ UNCHANGED main_vars)
            /\ SF_vars(LoopEnds /\ MayHalt)

Spec == Init /\ [][Next]_vars /\ Fairness

-----------------------------------------------------------------------------
(***************************************************************************)
(* The reader gives the pipeline the records of the trace one by one,      *)
(* however gunzip and the kernel cut the bytes, and says that the trace    *)
(* has ended, or ends in the middle of a record, only if it does.          *)
(***************************************************************************)
Stream == INSTANCE RecordStream WITH
    written   <- sent[0],
    closed    <- child[0] # "none" /\ writers[0] = {},
    delivered <- last_inst_num,
    record    <- inst

ReadsTheStream == Stream!StreamSpec

(***************************************************************************)
(* Unless reading failed, main reports success only if gunzip ran: what a  *)
(* child flushes that could not exec looks like a trace that is not valid, *)
(* and its status tells, unless a signal takes it, which main, when it     *)
(* closes the pipe early, must not take for success.  And the pipeline was *)
(* told why there is no more to fetch; but Lab 3's may have given up in    *)
(* the middle of a trace, its EXEQ full, and main returns 0 for that too.  *)
(***************************************************************************)
SuccessMeansRun ==
    pc = "exited" /\ ret = 0 /\ verdict # "error" =>
        /\ is_gunzip[0]
        /\ verdict = "none" => exe_halt /\ last_inst_num > MAX_EXEQ_ENTRIES

(***************************************************************************)
(* main ends and leaves no child behind, also when the heartbeat stops the *)
(* loop while the pipe is full and gunzip waits to write: main closes its  *)
(* end before it waits.                                                    *)
(***************************************************************************)
BothProcessesEnd == <>(pc = "exited" /\ child[0] \in {"none", "exited"})
=============================================================================
