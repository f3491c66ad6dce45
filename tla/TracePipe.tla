----------------------------- MODULE TracePipe ------------------------------
(***************************************************************************)
(* The pipe through which every simulator reads its trace, and the child   *)
(* at its other end.  Each lab opens it the same way (open_gunzip_pipe, in *)
(* Lab 1 the beginning of main): pipe, fork, and in the child exec gunzip. *)
(* The kernel's part and gunzip's are external; what they may do is taken  *)
(* from how the programs use them.                                         *)
(*                                                                         *)
(* The bytes of a pipe are numbered in the order in which they are         *)
(* written, so a pipe holds the bytes taken + 1 .. sent.                   *)
(***************************************************************************)
EXTENDS Integers, FiniteSets

CONSTANTS
    Pipes,          \* a set of numbers: pipes are opened in ascending order
    CAPACITY,       \* bytes that the kernel holds for a pipe
    Blocks,         \* the sizes of gunzip's writes
    TraceSizes,     \* bound: the sizes of a trace
    JunkSizes,      \* what a child that cannot exec flushes to its stdout
    ReadErrors      \* the pipes whose reads may fail

ASSUME TracePipeAssumption ==
    /\ Pipes \subseteq Nat /\ IsFiniteSet(Pipes)
    /\ Blocks \subseteq 1 .. CAPACITY /\ Blocks # {}
    /\ TraceSizes \subseteq Nat /\ JunkSizes \subseteq 0 .. CAPACITY
    /\ ReadErrors \subseteq Pipes

VARIABLES
    child,          \* "none", "forked", "running", "exited"
    is_gunzip,      \* exec has replaced the child by gunzip
    exit_status,    \* WEXITSTATUS of the child, 0 if a signal killed it
    size,           \* the bytes this child has to write
    sent, taken,
    writers, readers    \* the processes that hold an end of the pipe

child_vars == <<is_gunzip, exit_status, size>>
pipe_vars  == <<child, child_vars, sent, taken, writers, readers>>

Main == -1
Processes == Pipes \cup {Main}

PipeInit ==
    /\ child = [p \in Pipes |-> "none"]
    /\ is_gunzip = [p \in Pipes |-> FALSE]
    /\ exit_status = [p \in Pipes |-> 0]
    /\ size \in [Pipes -> TraceSizes]
    /\ sent = [p \in Pipes |-> 0] /\ taken = [p \in Pipes |-> 0]
    /\ writers = [p \in Pipes |-> {}] /\ readers = [p \in Pipes |-> {}]

Held(p) == sent[p] - taken[p]

Least(a, b) == IF a <= b THEN a ELSE b

-----------------------------------------------------------------------------
(* What main does. *)

(***************************************************************************)
(* pipe and fork: both processes hold both ends, and the child also those  *)
(* read ends of other pipes that main has open.                            *)
(***************************************************************************)
Fork(p) ==
    /\ child[p] = "none"
    /\ child' = [child EXCEPT ![p] = "forked"]
    /\ writers' = [writers EXCEPT ![p] = {Main, p}]
    /\ readers' = [q \in Pipes |-> IF q = p THEN {Main, p}
                                   ELSE IF Main \in readers[q] THEN readers[q] \cup {p}
                                   ELSE readers[q]]
    /\ UNCHANGED <<child_vars, sent, taken>>

\* Slip: main keeps the write end.
CloseWriteEnd_No(p) == UNCHANGED pipe_vars

CloseWriteEnd(p) ==
    /\ writers' = [writers EXCEPT ![p] = @ \ {Main}]
    /\ UNCHANGED <<child, child_vars, sent, taken, readers>>

CloseReadEnd(p) ==
    /\ readers' = [readers EXCEPT ![p] = @ \ {Main}]
    /\ UNCHANGED <<child, child_vars, sent, taken, writers>>

(***************************************************************************)
(* read of at most n bytes, which gives got: as much as the pipe holds, 0  *)
(* when it is empty and nobody can write to it any more, -1 for an error.  *)
(* It waits while the pipe is empty and somebody can.                      *)
(***************************************************************************)
Read(p, n, got) ==
    /\ \/ Held(p) > 0 /\ got = Least(n, Held(p))
       \/ Held(p) = 0 /\ writers[p] = {} /\ got = 0
       \/ p \in ReadErrors /\ got = -1
    /\ taken' = [taken EXCEPT ![p] = IF got > 0 THEN @ + got ELSE @]
    /\ UNCHANGED <<child, child_vars, sent, writers, readers>>

\* The numbers of the bytes that such a read gives.
BytesRead(p, got) == [i \in 1 .. got |-> taken[p] + i]

\* waitpid returns once the child has exited.
Waited(p) == child[p] = "exited"

-----------------------------------------------------------------------------
(* What a child does. *)

\* dup2 makes the write end its stdout; the ends it does not need are closed.
Exec(p) ==
    /\ child[p] = "forked"
    /\ child' = [child EXCEPT ![p] = "running"]
    /\ readers' = [readers EXCEPT ![p] = @ \ {p}]
    /\ \/ is_gunzip' = [is_gunzip EXCEPT ![p] = TRUE] /\ UNCHANGED size
       \/ \E n \in JunkSizes : size' = [size EXCEPT ![p] = n] /\ UNCHANGED is_gunzip
    /\ UNCHANGED <<exit_status, sent, taken, writers>>

\* gunzip writes block by block; what is flushed at an exit is written at once.
Write(p) ==
    /\ child[p] = "running" /\ sent[p] < size[p] /\ readers[p] # {}
    /\ \E b \in Blocks :
           LET n == IF is_gunzip[p] THEN Least(b, size[p] - sent[p]) ELSE size[p] IN
           /\ Held(p) + n <= CAPACITY
           /\ sent' = [sent EXCEPT ![p] = @ + n]
    /\ UNCHANGED <<child, child_vars, taken, writers, readers>>

\* A process that ends lets go of every end it holds.
Ends(p, s) ==
    /\ child' = [child EXCEPT ![p] = "exited"]
    /\ exit_status' = [exit_status EXCEPT ![p] = s]
    /\ writers' = [q \in Pipes |-> writers[q] \ {p}]
    /\ readers' = [q \in Pipes |-> readers[q] \ {p}]
    /\ UNCHANGED <<is_gunzip, size, sent, taken>>

\* Slip: main of the child goes on to report success.
Exits_Zero(p) == child[p] = "running" /\ sent[p] = size[p] /\ Ends(p, 0)

\* gunzip at the end of its file; or the child that could not exec, from main with 127.
Exits(p) == child[p] = "running" /\ sent[p] = size[p] /\ Ends(p, IF is_gunzip[p] THEN 0 ELSE 127)

\* gunzip finds its file damaged.
GivesUp(p) == child[p] = "running" /\ is_gunzip[p] /\ sent[p] < size[p] /\ Ends(p, 1)

\* A write to a pipe that nobody can read (SIGPIPE).
Killed(p) == child[p] = "running" /\ sent[p] < size[p] /\ readers[p] = {} /\ Ends(p, 0)

\* What a child does as soon as it can.
Runs(p) == Exec(p) \/ Write(p) \/ Exits(p) \/ Killed(p)

Child(p) == Runs(p) \/ GivesUp(p)
=============================================================================
