------------------------------ MODULE Dataflow ------------------------------
(***************************************************************************)
(* What an out-of-order processor promises of a program, with no reorder   *)
(* buffer, no renaming, no latches and no cycles: an instruction starts    *)
(* only after the instructions that produce its operands are done, starts  *)
(* at most Window places ahead of the oldest unfinished business, and      *)
(* retires in program order; the machine stops when everything that was    *)
(* read has retired.                                                       *)
(***************************************************************************)
EXTENDS Integers, Sequences

CONSTANTS Records,       \* what a program may consist of
          None,          \* the register of an operand that is not used
          Operands,
          Window,        \* how far beyond the retired prefix work may start
          InOrderStart   \* must instructions start in program order?

VARIABLES program,       \* the records read so far
          started, done, \* sets of instruction numbers
          retired,       \* the retired prefix
          stopped

dfVars == <<program, started, done, retired, stopped>>

Numbers == 1 .. Len(program)

\* The older instructions that write the register operand k of i reads.
Writers(i, k) ==
    {j \in 1 .. i - 1 : /\ program[i].src_reg[k] # None
                        /\ program[j].dest_reg = program[i].src_reg[k]}

\* Only the youngest of them produces the value i reads.
Producers(i) ==
    {j \in 1 .. i - 1 : \E k \in Operands :
        j \in Writers(i, k) /\ \A l \in Writers(i, k) : l <= j}

DataflowInit ==
    program = <<>> /\ started = {} /\ done = {} /\ retired = 0 /\ stopped = FALSE

Read ==
    /\ ~stopped
    /\ \E rec \in Records : program' = Append(program, rec)
    /\ UNCHANGED <<started, done, retired, stopped>>

Start(i) ==
    /\ i \notin started
    /\ i <= retired + Window
    /\ Producers(i) \subseteq done
    /\ InOrderStart => 1 .. i - 1 \subseteq started
    /\ started' = started \cup {i}
    /\ UNCHANGED <<program, done, retired, stopped>>

Finish(i) ==
    /\ i \in started \ done
    /\ done' = done \cup {i}
    /\ UNCHANGED <<program, started, retired, stopped>>

Retire ==
    /\ retired + 1 \in done
    /\ retired' = retired + 1
    /\ UNCHANGED <<program, started, done, stopped>>

Stop ==
    /\ retired = Len(program)
    /\ stopped' = TRUE
    /\ UNCHANGED <<program, started, done, retired>>

DataflowNext ==
    \/ Read
    \/ \E i \in Numbers : Start(i) \/ Finish(i)
    \/ Retire
    \/ Stop

DataflowSpec == DataflowInit /\ [][DataflowNext]_dfVars

=============================================================================
