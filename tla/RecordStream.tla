---------------------------- MODULE RecordStream ----------------------------
(***************************************************************************)
(* What a reader of a trace promises its simulator, whatever the sizes of  *)
(* the reads and writes below it: the records of the trace one after the   *)
(* other, each made of the bytes at its place, none of them twice and none *)
(* left out, and then one verdict that is true of the bytes written.       *)
(***************************************************************************)
EXTENDS Integers

CONSTANT REC        \* bytes in a record

VARIABLES
    written, closed,    \* bytes written so far; whether there can be more
    delivered,          \* records handed to the simulator
    record,             \* the bytes of the last of them
    verdict             \* why there are no more: see below

stream_vars == <<written, closed, delivered, record, verdict>>

StreamInit ==
    /\ written = 0 /\ closed = FALSE /\ delivered = 0 /\ record = <<>> /\ verdict = "none"

Supply ==
    /\ ~ closed
    /\ written' >= written /\ closed' \in BOOLEAN
    /\ UNCHANGED <<delivered, record, verdict>>

\* A whole record is there.
Complete == written >= (delivered + 1) * REC

Deliver ==
    /\ verdict = "none" /\ Complete
    /\ delivered' = delivered + 1
    /\ record' = [i \in 1 .. REC |-> delivered * REC + i]
    /\ UNCHANGED <<written, closed, verdict>>

\* The bytes end with a record, or in the middle of one.
Conclude ==
    /\ verdict = "none" /\ closed /\ ~ Complete
    /\ verdict' = IF written = delivered * REC THEN "end" ELSE "truncated"
    /\ UNCHANGED <<written, closed, delivered, record>>

\* The record is whole but not valid.
Reject ==
    /\ verdict = "none" /\ Complete
    /\ verdict' = "invalid"
    /\ UNCHANGED <<written, closed, delivered, record>>

\* The bytes cannot be read.
Fail ==
    /\ verdict = "none"
    /\ verdict' = "error"
    /\ UNCHANGED <<written, closed, delivered, record>>

StreamNext == Supply \/ Deliver \/ Conclude \/ Reject \/ Fail

StreamSpec == StreamInit /\ [][StreamNext]_stream_vars
=============================================================================
