-------------------------- MODULE InOrderPipeline --------------------------
(***************************************************************************)
(* Lab 2: the in-order superscalar pipeline (pipeline.h, pipeline.cpp) and *)
(* the loop of main that runs it (sim.cpp).  One thread calls the stages   *)
(* of a cycle from write back to fetch; a step here is one call of a stage *)
(* function or, in fetch, which reads the trace, one lane of its loop.     *)
(***************************************************************************)
EXTENDS BPred, FiniteSets, FiniteSetsExt, Sequences

CONSTANTS PIPE_WIDTH,
          TraceRecords,   \* the records a trace may hold
          MaxInst,        \* bound: instructions a trace may hold
          BadRecords,     \* may a trace hold a record with an invalid op_type?
          Policies        \* the branch predictors to choose from

(***************************************************************************)
(* A record has the operation, the registers read and written, among which *)
(* the condition code counts as one more, and for a conditional branch the *)
(* low bits of its address and its direction.                              *)
(***************************************************************************)
OpTypes == {"OP_ALU", "OP_LD", "OP_ST", "OP_CBR", "OP_OTHER"}

ASSUME PipelineAssumption ==
    /\ PIPE_WIDTH \in Nat \ {0}
    /\ MaxInst \in Nat /\ BadRecords \in BOOLEAN
    /\ Policies \subseteq BPredPolicies
    /\ \A r \in TraceRecords : /\ r.op_type \in OpTypes
                               /\ r.inst_addr \in Keys /\ r.br_dir \in BOOLEAN

VARIABLES BPRED_POLICY, ENABLE_EXE_FWD, ENABLE_MEM_FWD,    \* set on the command line
          stage,            \* the stage function that runs next
          lane,             \* the lane that fetch does next
          latch,            \* pipe_latch
          stall,            \* the stall flags of the IF latches; no other's is read
          fetch_cbr_stall,
          last_op_id, halt_op_id, halt,
          b_pred,
          stat_retired_inst,
          trace_end,        \* a read has found the end of the trace
          trace             \* history: the valid records read so far

options == <<BPRED_POLICY, ENABLE_EXE_FWD, ENABLE_MEM_FWD>>
vars == <<options, stage, lane, latch, stall, fetch_cbr_stall, last_op_id, halt_op_id,
          halt, b_pred, stat_retired_inst, trace_end, trace>>

Lanes   == 0 .. PIPE_WIDTH - 1
Latches == {"IF_LATCH", "ID_LATCH", "EX_LATCH", "MA_LATCH"}

NoRec   == [op_type |-> "OP_ALU", reads |-> {}, writes |-> {}, inst_addr |-> {},
            br_dir |-> FALSE]
Bubble  == [valid |-> FALSE, op_id |-> 0, trace_rec |-> NoRec, is_mispred_cbr |-> FALSE]

\* The id with which no instruction can halt the pipeline: (uint64_t)(-1) - 3.
NoHaltId == MaxInst + 1

Init ==
    /\ BPRED_POLICY \in Policies
    /\ ENABLE_EXE_FWD \in BOOLEAN /\ ENABLE_MEM_FWD \in BOOLEAN
    /\ stage = "WB" /\ lane = 0
    /\ latch = [t \in Latches |-> [k \in Lanes |-> Bubble]]
    /\ stall = [k \in Lanes |-> FALSE]
    /\ fetch_cbr_stall = FALSE
    /\ last_op_id = 0 /\ halt_op_id = NoHaltId /\ halt = FALSE
    /\ b_pred = BPredNew
    /\ stat_retired_inst = 0
    /\ trace_end = FALSE /\ trace = <<>>

Valid(t) == {k \in Lanes : latch[t][k].valid}

\* pipe_cycle_WB, at the start of a cycle that main begins as long as halt is not set.
WB ==
    /\ stage = "WB" /\ ~ halt
    /\ stage' = "MA"
    /\ stat_retired_inst' = stat_retired_inst + Cardinality(Valid("MA_LATCH"))
    /\ halt' = \E k \in Valid("MA_LATCH") : latch["MA_LATCH"][k].op_id >= halt_op_id
    /\ fetch_cbr_stall' = (fetch_cbr_stall /\ \A k \in Valid("MA_LATCH") :
                                                  ~ latch["MA_LATCH"][k].is_mispred_cbr)
    /\ UNCHANGED <<options, lane, latch, stall, last_op_id, halt_op_id, b_pred, trace_end, trace>>

\* A stage that copies every lane of the latch before it.
Move(from, to, here, next) ==
    /\ stage = here
    /\ stage' = next
    /\ latch' = [latch EXCEPT ![to] = latch[from]]
    /\ UNCHANGED <<options, lane, stall, fetch_cbr_stall, last_op_id, halt_op_id, halt,
                   b_pred, stat_retired_inst, trace_end, trace>>

MA == Move("EX_LATCH", "MA_LATCH", "MA", "EX")
EX == Move("ID_LATCH", "EX_LATCH", "EX", "ID")

(***************************************************************************)
(* pipe_cycle_ID.  in is what the IF latches hand over.  A lane looks for  *)
(* the youngest instruction that writes register r, in the MA and EX       *)
(* latches and among the older ones beside it, except those of the lanes   *)
(* in gone: lanes before it that stall and have become bubbles.            *)
(***************************************************************************)
In == latch["IF_LATCH"]

Writes(l, r) == l.valid /\ r \in l.trace_rec.writes

Producers(k, r, gone) ==
    {p \in {"MA_LATCH", "EX_LATCH"} \X Lanes : Writes(latch[p[1]][p[2]], r)}
    \cup {<<"ID_LATCH", j>> : j \in {j \in Lanes \ gone :
                                        Writes(In[j], r) /\ In[j].op_id < In[k].op_id}}

Producer(p) == IF p[1] = "ID_LATCH" THEN In[p[2]] ELSE latch[p[1]][p[2]]

\* Slip: the first producer that is found counts, MA before EX before ID.
Youngest_First(P) ==
    IF \E p \in P : p[1] = "MA_LATCH" THEN CHOOSE p \in P : p[1] = "MA_LATCH"
    ELSE CHOOSE p \in P : \A q \in P : Producer(q).op_id <= Producer(p).op_id

Youngest(P) == CHOOSE p \in P : \A q \in P : Producer(q).op_id <= Producer(p).op_id

\* A result can be forwarded from the MA latch and, if it is not a load's, from the EX latch.
MustWaitFor(p) ==
    CASE p[1] = "MA_LATCH" -> ~ ENABLE_MEM_FWD
      [] p[1] = "EX_LATCH" -> ~ ENABLE_EXE_FWD \/ Producer(p).trace_rec.op_type = "OP_LD"
      [] p[1] = "ID_LATCH" -> TRUE

ShouldStall(k, gone) ==
    \E r \in In[k].trace_rec.reads :
        LET P == Producers(k, r, gone) IN P # {} /\ MustWaitFor(Youngest(P))

\* The lanes that stall for an operand, among the first n, in the order of the loop.
StalledAmong ==
    LET S[n \in 0 .. PIPE_WIDTH] ==
            IF n = 0 THEN {}
            ELSE S[n - 1] \cup {k \in {n - 1} : In[k].valid /\ ShouldStall(k, S[n - 1])}
    IN  S[PIPE_WIDTH]

\* Slip: younger instructions go on.
Stalled_Overtaken == StalledAmong

\* With the younger ones, which must not overtake the oldest that stalls.
Stalled ==
    LET S == StalledAmong
    IN  S \cup {k \in Lanes : /\ In[k].valid
                             /\ \E j \in Lanes : j \in S /\ In[k].op_id > In[j].op_id}

ID ==
    /\ stage = "ID"
    /\ stage' = "IF" /\ lane' = 0
    /\ stall' = [k \in Lanes |-> k \in Stalled]
    /\ latch' = [latch EXCEPT !["ID_LATCH"] =
                    [k \in Lanes |-> IF k \in Stalled THEN [In[k] EXCEPT !.valid = FALSE]
                                     ELSE In[k]]]
    /\ UNCHANGED <<options, fetch_cbr_stall, last_op_id, halt_op_id, halt, b_pred,
                   stat_retired_inst, trace_end, trace>>

(***************************************************************************)
(* pipe_cycle_IF, for one lane.  After the last lane the cycle is over.    *)
(***************************************************************************)
NextLane ==
    /\ stage = "IF"
    /\ lane' = (lane + 1) % PIPE_WIDTH
    /\ stage' = IF lane + 1 = PIPE_WIDTH THEN "WB" ELSE "IF"
    /\ UNCHANGED <<options, stall, stat_retired_inst>>

FetchStalledLane ==
    /\ NextLane
    /\ stall[lane]
    /\ UNCHANGED <<latch, fetch_cbr_stall, last_op_id, halt_op_id, halt, b_pred, trace_end, trace>>

FetchNothing ==
    /\ NextLane
    /\ ~ stall[lane] /\ fetch_cbr_stall
    /\ latch' = [latch EXCEPT !["IF_LATCH"][lane].valid = FALSE]
    /\ UNCHANGED <<fetch_cbr_stall, last_op_id, halt_op_id, halt, b_pred, trace_end, trace>>

(***************************************************************************)
(* pipe_check_bpred of a fetched operation: it is told of the record's     *)
(* branch, if that is what it is, and stops fetching if it is surprised.   *)
(***************************************************************************)
Checked(rec) == BPRED_POLICY # "PERFECT" /\ rec.op_type = "OP_CBR"
Mispredicted(rec) ==
    Checked(rec) /\ predict(BPRED_POLICY, b_pred, rec.inst_addr) # rec.br_dir

\* Slip: fetch goes on after a mispredicted branch.
pipe_check_bpred_NoStall(rec) ==
    /\ UNCHANGED fetch_cbr_stall
    /\ b_pred' = IF Checked(rec)
                 THEN update(BPRED_POLICY, b_pred, rec.inst_addr,
                             predict(BPRED_POLICY, b_pred, rec.inst_addr), rec.br_dir)
                 ELSE b_pred

pipe_check_bpred(rec) ==
    /\ fetch_cbr_stall' = (fetch_cbr_stall \/ Mispredicted(rec))
    /\ b_pred' = IF Checked(rec)
                 THEN update(BPRED_POLICY, b_pred, rec.inst_addr,
                             predict(BPRED_POLICY, b_pred, rec.inst_addr), rec.br_dir)
                 ELSE b_pred

Reads == NextLane /\ ~ stall[lane] /\ ~ fetch_cbr_stall

\* pipe_get_fetch_op finds a record.
FetchRecord ==
    /\ Reads
    /\ ~ trace_end /\ Len(trace) < MaxInst
    /\ \E rec \in TraceRecords :
           /\ last_op_id' = last_op_id + 1
           /\ latch' = [latch EXCEPT !["IF_LATCH"][lane] =
                            [valid |-> TRUE, op_id |-> last_op_id + 1, trace_rec |-> rec,
                             is_mispred_cbr |-> Mispredicted(rec)]]
           /\ trace' = Append(trace, rec)
           /\ pipe_check_bpred(rec)
    /\ UNCHANGED <<halt_op_id, halt, trace_end>>

\* Slip: nobody waits for the instructions that are still in the pipeline.
HaltsAfter_AtOnce == halt_op_id' = last_op_id /\ halt' = TRUE

\* The instruction whose retirement will halt the pipeline; none if none was fetched.
HaltsAfter == halt_op_id' = last_op_id /\ halt' = (halt \/ last_op_id = 0)

(***************************************************************************)
(* pipe_get_fetch_op finds the end of the trace, here or in a later cycle  *)
(* again, or a record that is not valid; the next lane reads on.  Its      *)
(* caller goes on to check the branch of what was read.  An op_type that   *)
(* is not valid is no branch.  At the end nothing was read, and what is in *)
(* the operation that was not initialised may be any record, typically     *)
(* that of an earlier fetch, or no branch.                                 *)
(***************************************************************************)
FetchEnd ==
    /\ Reads
    /\ trace_end' \in IF trace_end \/ ~ BadRecords THEN {TRUE} ELSE BOOLEAN
    /\ HaltsAfter
    /\ latch' = [latch EXCEPT !["IF_LATCH"][lane] = Bubble]
    /\ \E rec \in TraceRecords \cup {NoRec} :
           (trace_end' \/ rec = NoRec) /\ pipe_check_bpred(rec)
    /\ UNCHANGED <<last_op_id, trace>>

IF_ == FetchStalledLane \/ FetchNothing \/ FetchRecord \/ FetchEnd

Next == WB \/ MA \/ EX \/ ID \/ IF_

\* main has nothing else to do: it calls pipe_cycle again and again.
Spec == Init /\ [][Next]_vars /\ WF_vars(Next)
=============================================================================
