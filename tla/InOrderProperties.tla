------------------------- MODULE InOrderProperties -------------------------
(***************************************************************************)
(* What the in-order pipeline of Lab 2 promises.                           *)
(***************************************************************************)
EXTENDS InOrderPipeline

(***************************************************************************)
(* The types; b_pred is left alone when prediction is perfect.             *)
(***************************************************************************)
LatchType == [valid : BOOLEAN, op_id : 0 .. MaxInst, trace_rec : TraceRecords \cup {NoRec},
              is_mispred_cbr : BOOLEAN]

InOrderTypeOK ==
    /\ BPRED_POLICY \in Policies
    /\ stage \in {"WB", "MA", "EX", "ID", "IF"} /\ lane \in Lanes
    /\ latch \in [Latches -> [Lanes -> LatchType]]
    /\ stall \in [Lanes -> BOOLEAN]
    /\ {fetch_cbr_stall, halt, trace_end} \subseteq BOOLEAN
    /\ last_op_id = Len(trace) /\ halt_op_id \in 0 .. NoHaltId
    /\ \A k \in Keys : b_pred.pattern_history_table[k] \in STRONGLY_NOTTAKEN .. STRONGLY_TAKEN
    /\ b_pred.global_history_register \in Keys
    /\ BPRED_POLICY = "PERFECT" => b_pred = BPredNew
    /\ stat_retired_inst \in 0 .. last_op_id

(***************************************************************************)
(* Between two cycles every instruction that was fetched is retired or in  *)
(* exactly one latch, and the later the stage the older the instruction,   *)
(* so instructions retire in program order, cycle by cycle: no stall loses *)
(* or repeats one, though the lanes of a latch come to hold theirs in any  *)
(* order (pipe_cycle_ID's bubbles and pipe_cycle_IF's stalled lanes).      *)
(***************************************************************************)
Ids(t) == {latch[t][k].op_id : k \in Valid(t)}

Older(t, u) == \A x \in Ids(t), y \in Ids(u) : x < y

EveryInstructionOnce ==
    stage = "WB" =>
        /\ UNION {Ids(t) : t \in Latches} = stat_retired_inst + 1 .. last_op_id
        /\ Cardinality({p \in Latches \X Lanes : latch[p[1]][p[2]].valid})
               = last_op_id - stat_retired_inst
        /\ Older("MA_LATCH", "EX_LATCH") /\ Older("EX_LATCH", "ID_LATCH")
        /\ Older("ID_LATCH", "IF_LATCH")

\* The last instruction before n that writes register r.
LastWriter(n, r) ==
    LET W == {m \in 1 .. n - 1 : r \in trace[m].writes}
    IN  IF W = {} THEN 0 ELSE Max(W)

(***************************************************************************)
(* Fetch is held up exactly while a mispredicted branch is in the pipeline *)
(* and nothing younger than that branch is: pipe_check_bpred and           *)
(* pipe_cycle_WB, several stages apart, keep one flag between them.  Once  *)
(* the trace has ended there is nothing to hold up.                        *)
(***************************************************************************)
Mispredictions == {latch[t][k].op_id : t \in Latches, k \in Lanes} \cap
                  {n \in 1 .. last_op_id : \E t \in Latches : \E k \in Valid(t) :
                        latch[t][k].op_id = n /\ latch[t][k].is_mispred_cbr}

FetchWaitsForTheBranch ==
    stage = "WB" =>
        /\ Mispredictions \subseteq {last_op_id}
        /\ ~ trace_end => (fetch_cbr_stall <=> Mispredictions # {})

(***************************************************************************)
(* What gshare learns: if the last two branches that shared this branch's  *)
(* table entry, by address and preceding directions, went the same way, it *)
(* is predicted to go that way.  The entry that is trained must be the one *)
(* that was used to predict (update's order of table and history).         *)
(***************************************************************************)
\* The branches among records t, by their numbers.
Branches(t) == {n \in DOMAIN t : t[n].op_type = "OP_CBR"}

\* Those after record m up to record n.
After(t, m, n) == {k \in Branches(t) : m < k /\ k <= n}

\* The directions of the last branches among the first n records: bit b is that
\* of the one with b branches after it.
History(t, n) ==
    {b \in 0 .. KEY_BITS - 1 : \E m \in Branches(t) :
        m <= n /\ t[m].br_dir /\ Cardinality(After(t, m, n)) = b}

\* The key of a branch at pc after the first n records.
KeyAfter(t, n, pc) == (pc \ History(t, n)) \cup (History(t, n) \ pc)

\* The branches whose key it is.
UsesOf(t, key) == {n \in Branches(t) : KeyAfter(t, n - 1, t[n].inst_addr) = key}

GshareLearns ==
    BPRED_POLICY = "GSHARE" /\ ~ trace_end =>
        \A pc \in {r.inst_addr : r \in TraceRecords} :
            LET uses == UsesOf(trace, KeyAfter(trace, Len(trace), pc))
                last == Max(uses)
                prev == Max(uses \ {last})
            IN  Cardinality(uses) >= 2 /\ trace[last].br_dir = trace[prev].br_dir
                => predict(BPRED_POLICY, b_pred, pc) = trace[last].br_dir

(***************************************************************************)
(* Where a record is not valid, the pipeline does not halt before those    *)
(* that were read ahead of the last such record have retired: fetch, which *)
(* names the last instruction, goes on beyond it, and write back stops at  *)
(* whatever comes.                                                         *)
(***************************************************************************)
HaltsNoEarlier == [][halt' /\ ~ halt => stat_retired_inst' >= halt_op_id']_vars

(***************************************************************************)
(* It does halt, if branches are predicted perfectly ...                   *)
(***************************************************************************)
HaltsWhenPerfect == BPRED_POLICY = "PERFECT" => <>halt

(***************************************************************************)
(* ... and pipe_cycle_WB's comment, "Halt the pipeline if we've reached    *)
(* the end of the trace", says so for every policy.                        *)
(***************************************************************************)
Halts == <>halt

(***************************************************************************)
(* stat_num_branches is "the total number of branches this branch          *)
(* predictor has seen" (bpred.h).                                          *)
(***************************************************************************)
BranchesAreCounted ==
    BPRED_POLICY # "PERFECT" => b_pred.stat_num_branches = Cardinality(Branches(trace)) % STAT_SPAN

(***************************************************************************)
(* sat_increment returns "the incremented value if x < max, or x otherwise"*)
(* (bpred.h), so the branches of the trace up to its end are all counted.  *)
(***************************************************************************)
CountNeverWraps ==
    BPRED_POLICY # "PERFECT" /\ ~ trace_end =>
        b_pred.stat_num_branches = Cardinality(Branches(trace))
=============================================================================
