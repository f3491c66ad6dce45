--------------------------- MODULE BufferedReader ----------------------------
(***************************************************************************)
(* How the cores of Lab 4 get their records (core.cpp): a pipe and a child *)
(* for each core, and trace_read, which takes the fields of a record one   *)
(* by one from a buffer that it refills from the pipe.  Of the simulation  *)
(* there is left the order in which main opens the cores, lets them read   *)
(* as long as they are not done, in an order that the delays of the memory *)
(* decide, and closes them.                                                *)
(***************************************************************************)
EXTENDS TracePipe, Sequences

CONSTANTS
    BUFFER,             \* sizeof(core->read_buf)
    inst_addr_size, inst_type_size, ldst_addr_size  \* the fields of a record

FIELDS == <<inst_addr_size, inst_type_size, ldst_addr_size>>

REC == inst_addr_size + inst_type_size + ldst_addr_size

\* A child that cannot exec runs into a core that is not there: it never writes a record.
ASSUME BufferAssumption ==
    /\ Pipes \in {{0}, {0, 1}}
    /\ BUFFER \in Nat \ {0}
    /\ \A f \in 1 .. 3 : FIELDS[f] \in Nat \ {0}
    /\ \A n \in JunkSizes : n < REC

NumCores == Cardinality(Pipes)

VARIABLES
    pc, core,           \* main's place, and the core that it is busy with
    running,            \* all cores are there: main is in its loop
    field, bytes,       \* trace_read's field, and what the record has so far
    read_buf, read_buf_offset, read_buf_left,
    done,
    delivered, record, verdict      \* of each core, as in RecordStream

core_vars == <<read_buf, read_buf_offset, read_buf_left, done, delivered, record, verdict>>
call_vars == <<running, field, bytes>>
vars == <<pipe_vars, pc, core, call_vars, core_vars>>

Init ==
    /\ PipeInit
    /\ pc = "core_new" /\ core = 0 /\ running = FALSE /\ field = 1 /\ bytes = <<>>
    /\ read_buf = [c \in Pipes |-> [i \in 0 .. BUFFER - 1 |-> 0]]
    /\ read_buf_offset = [c \in Pipes |-> 0] /\ read_buf_left = [c \in Pipes |-> 0]
    /\ done = [c \in Pipes |-> FALSE]
    /\ delivered = [c \in Pipes |-> 0] /\ record = [c \in Pipes |-> <<>>]
    /\ verdict = [c \in Pipes |-> "none"]

-----------------------------------------------------------------------------
(* core_new *)

\* If pipe or fork fails there is no core, and main's loop is a null dereference.
Open ==
    /\ pc = "core_new"
    /\ \/ Fork(core) /\ pc' = "opened"
       \/ /\ pc' = "crashed"
          /\ readers' = [p \in Pipes |-> readers[p] \ {Main}]
          /\ UNCHANGED <<child, child_vars, sent, taken, writers>>
    /\ UNCHANGED <<core, call_vars, core_vars>>

\* core_read_trace begins.
StartRecord == pc' = "trace_read" /\ field' = 1 /\ bytes' = <<>>

Opened ==
    /\ pc = "opened"
    /\ CloseWriteEnd(core)
    /\ StartRecord
    /\ UNCHANGED <<core, running, core_vars>>

-----------------------------------------------------------------------------
(* main: core_read_trace is the end of core_new, and later of core_cycle. *)

Returned ==
    IF running THEN pc' = "loop" /\ UNCHANGED <<core, running>>
    ELSE IF core + 1 < NumCores THEN pc' = "core_new" /\ core' = core + 1 /\ UNCHANGED running
    ELSE pc' = "loop" /\ running' = TRUE /\ UNCHANGED core

CoreCycle ==
    /\ pc = "loop"
    /\ \E c \in Pipes : ~ done[c] /\ core' = c
    /\ StartRecord
    /\ UNCHANGED <<running, pipe_vars, core_vars>>

AllDone ==
    /\ pc = "loop"
    /\ \A c \in Pipes : done[c]
    /\ pc' = "print_stats" /\ core' = 0
    /\ UNCHANGED <<pipe_vars, call_vars, core_vars>>

-----------------------------------------------------------------------------
(* trace_read.  A field is complete when bytes has all bytes up to its end. *)

EndOfField == CASE field = 1 -> FIELDS[1] [] field = 2 -> FIELDS[1] + FIELDS[2] [] field = 3 -> REC

field_bytes_left == EndOfField - Len(bytes)

\* Slip: a read is taken to have filled the buffer.
Filled_Whole(got) ==
    /\ read_buf' = [read_buf EXCEPT ![core] =
                        [i \in DOMAIN @ |-> IF i < got THEN taken[core] + 1 + i ELSE @[i]]]
    /\ read_buf_offset' = [read_buf_offset EXCEPT ![core] = 0]
    /\ read_buf_left' = [read_buf_left EXCEPT ![core] = BUFFER]

\* A read puts its bytes at the front of the buffer.
Filled(got) ==
    /\ read_buf' = [read_buf EXCEPT ![core] =
                        [i \in DOMAIN @ |-> IF i < got THEN taken[core] + 1 + i ELSE @[i]]]
    /\ read_buf_offset' = [read_buf_offset EXCEPT ![core] = 0]
    /\ read_buf_left' = [read_buf_left EXCEPT ![core] = got]

Refill ==
    /\ pc = "trace_read" /\ read_buf_left[core] = 0
    /\ \E got \in 1 .. BUFFER : Read(core, BUFFER, got) /\ Filled(got)
    /\ UNCHANGED <<pc, core, call_vars, done, delivered, record, verdict>>

(***************************************************************************)
(* The end of the trace, or an error, which stays in read_buf_left: the    *)
(* field is incomplete, so core_read_trace reads no other and sets done.   *)
(***************************************************************************)
RefillFails(got, v) ==
    /\ pc = "trace_read" /\ read_buf_left[core] = 0
    /\ Read(core, BUFFER, got)
    /\ read_buf_left' = [read_buf_left EXCEPT ![core] = got]
    /\ verdict' = [verdict EXCEPT ![core] = v]
    /\ done' = [done EXCEPT ![core] = TRUE]
    /\ Returned
    /\ UNCHANGED <<field, bytes, read_buf, read_buf_offset, delivered, record>>

RefillEnd   == RefillFails(0, IF bytes = <<>> THEN "end" ELSE "truncated")
RefillError == RefillFails(-1, "error")

\* The next field, or the caller has its record.
FieldDone(all) ==
    IF field < 3
    THEN field' = field + 1 /\ UNCHANGED <<pc, core, running, delivered, record>>
    ELSE /\ delivered' = [delivered EXCEPT ![core] = @ + 1]
         /\ record' = [record EXCEPT ![core] = all]
         /\ Returned
         /\ UNCHANGED field

Copy ==
    /\ pc = "trace_read" /\ read_buf_left[core] > 0
    /\ LET n   == Least(field_bytes_left, read_buf_left[core])
           all == bytes \o [i \in 1 .. n |-> read_buf[core][read_buf_offset[core] + i - 1]]
       IN  /\ bytes' = all
           /\ read_buf_left' = [read_buf_left EXCEPT ![core] = @ - n]
           /\ read_buf_offset' = [read_buf_offset EXCEPT ![core] = @ + n]
           /\ IF n < field_bytes_left
              THEN UNCHANGED <<pc, core, running, field, delivered, record>>
              ELSE FieldDone(all)
    /\ UNCHANGED <<pipe_vars, read_buf, done, verdict>>

-----------------------------------------------------------------------------
(* core_print_stats, for one core after the other. *)

\* Slip: the pipe is closed after the wait.
Close_Later ==
    /\ pc = "print_stats" /\ pc' = "waitpid"
    /\ UNCHANGED <<pipe_vars, core, call_vars, core_vars>>

Close ==
    /\ pc = "print_stats"
    /\ CloseReadEnd(core)
    /\ pc' = "waitpid"
    /\ UNCHANGED <<core, call_vars, core_vars>>

Wait ==
    /\ pc = "waitpid" /\ Waited(core)
    /\ IF core + 1 < NumCores THEN pc' = "print_stats" /\ core' = core + 1
       ELSE pc' = "exited" /\ UNCHANGED core
    /\ UNCHANGED <<pipe_vars, call_vars, core_vars>>

MainRuns == \/ Open \/ Opened \/ CoreCycle \/ AllDone
            \/ Refill \/ RefillEnd \/ Copy \/ Close \/ Wait

MainStep == MainRuns \/ RefillError

main_vars == <<pc, core, call_vars, core_vars>>

ChildStep(p) == Child(p) /\ UNCHANGED main_vars

Next == MainStep \/ \E p \in Pipes : ChildStep(p)

\* The kernel runs all processes; no file need be damaged and no read need fail.
Fairness == /\ WF_vars(MainRuns)
            /\ \A p \in Pipes : WF_vars(Runs(p) /\ UNCHANGED main_vars)

Spec == Init /\ [][Next]_vars /\ Fairness

-----------------------------------------------------------------------------
(***************************************************************************)
(* Each core gets the records of its own trace, byte by byte and in order, *)
(* wherever refills and short reads cut them, and is done at the end of    *)
(* the trace, at its first incomplete record or at an error.               *)
(***************************************************************************)
Stream(c) == INSTANCE RecordStream WITH
    written   <- sent[c],
    closed    <- child[c] # "none" /\ writers[c] = {},
    delivered <- delivered[c],
    record    <- record[c],
    verdict   <- verdict[c]

\* StreamSpec of every core.
CoresReadTheirStreams ==
    /\ \A c \in Pipes : Stream(c)!StreamInit
    /\ [][\A c \in Pipes : [Stream(c)!StreamNext]_(Stream(c)!stream_vars)]_vars

(***************************************************************************)
(* main ends and leaves no child behind, although the second child has     *)
(* inherited the first one's read end.  The exception is that reading has  *)
(* failed for every core: then the first child may wait for room in a pipe *)
(* that only the second holds open, which waits in turn for main, which    *)
(* waits for the first.                                                    *)
(***************************************************************************)
EverybodyEnds ==
    <>(\/ pc \in {"exited", "crashed"} /\ \A p \in Pipes : child[p] \in {"none", "exited"}
       \/ \A p \in Pipes : verdict[p] = "error")
=============================================================================
