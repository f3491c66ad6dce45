--------------------------- MODULE InOrderProofs ---------------------------
(***************************************************************************)
(* The in-order pipeline of Lab 2 and the loop of main that runs it, for   *)
(* every width, predictor and trace.                                       *)
(* In the middle of a cycle a latch holds copies of what has moved on, so  *)
(* the invariants speak of the lanes that are live at the present stage.   *)
(***************************************************************************)
EXTENDS InOrderMain, FiniteSetTheorems, WellFoundedInduction, TLAPS

BPredType == [ pattern_history_table : [Keys -> STRONGLY_NOTTAKEN .. STRONGLY_TAKEN],
               global_history_register : Keys,
               stat_num_branches : Nat, stat_num_mispred : Nat ]

\* InOrderTypeOK without stat_retired_inst's limit, which is FlowInv's, and with what it needs.
TypeInv ==
    /\ BPRED_POLICY \in Policies
    /\ stage \in {"WB", "MA", "EX", "ID", "IF"} /\ lane \in Lanes
    /\ stage # "IF" => lane = 0
    /\ latch \in [Latches -> [Lanes -> LatchType]]
    /\ stall \in [Lanes -> BOOLEAN]
    /\ fetch_cbr_stall \in BOOLEAN /\ halt \in BOOLEAN /\ trace_end \in BOOLEAN
    /\ trace \in Seq(TraceRecords) /\ last_op_id = Len(trace) /\ Len(trace) <= MaxInst
    /\ halt_op_id \in 0 .. NoHaltId
    /\ b_pred \in BPredType
    /\ BPRED_POLICY = "PERFECT" => b_pred = BPredNew
    /\ stat_retired_inst \in Nat

-----------------------------------------------------------------------------
Places == Latches \X Lanes
At(p) == latch[p[1]][p[2]]

\* Whether p's instruction has not moved on from p in this cycle.
Live(p) ==
    /\ At(p).valid
    /\ p[1] = "MA_LATCH" => stage # "MA"
    /\ p[1] = "EX_LATCH" => stage # "EX"
    /\ p[1] = "ID_LATCH" => stage # "ID"
    /\ p[1] = "IF_LATCH" /\ stage = "IF" => stall[p[2]] \/ p[2] < lane

Depth(t) == CASE t = "IF_LATCH" -> 1 [] t = "ID_LATCH" -> 2
              [] t = "EX_LATCH" -> 3 [] t = "MA_LATCH" -> 4

(***************************************************************************)
(* The live instructions are those fetched and not retired, each in one    *)
(* place, the older ones in the later latches.                             *)
(***************************************************************************)
FlowInv ==
    /\ \A p \in Places : Live(p) => At(p).op_id \in stat_retired_inst + 1 .. last_op_id
    /\ \A n \in stat_retired_inst + 1 .. last_op_id :
           \E p \in Places : Live(p) /\ At(p).op_id = n
    /\ \A p, q \in Places : Live(p) /\ Live(q) =>
           /\ At(p).op_id = At(q).op_id => p = q
           /\ Depth(p[1]) > Depth(q[1]) => At(p).op_id < At(q).op_id
    /\ stat_retired_inst <= last_op_id

(***************************************************************************)
(* A mispredicted branch is the last instruction that was fetched, and     *)
(* nothing is fetched while it is live.                                    *)
(***************************************************************************)
BranchInv ==
    /\ \A p \in Places : Live(p) /\ At(p).is_mispred_cbr =>
                             At(p).op_id = last_op_id /\ fetch_cbr_stall
    /\ fetch_cbr_stall /\ ~ trace_end => \E p \in Places : Live(p) /\ At(p).is_mispred_cbr

-----------------------------------------------------------------------------
(* Types. *)

LEMMA NewPredictor == BPredNew \in BPredType
BY BPredAssumption DEF BPredNew, BPredType, Keys, STRONGLY_NOTTAKEN, WEAKLY_TAKEN, STRONGLY_TAKEN

LEMMA UpdateType ==
    ASSUME NEW b \in BPredType, NEW policy, NEW pc \in Keys, NEW pred \in BOOLEAN,
           NEW taken \in BOOLEAN
    PROVE  update(policy, b, pc, pred, taken) \in BPredType
<1> DEFINE counted == [b EXCEPT !.stat_num_branches = sat_increment(@),
                                !.stat_num_mispred = IF pred # taken
                                                     THEN sat_increment(@) ELSE @]
           key == get_pht_key(b, pc)
<1>1. counted \in BPredType
  <2>1. \A n \in Nat : sat_increment(n) \in Nat
    BY BPredAssumption DEF sat_increment
  <2> QED  BY <2>1 DEF BPredType
<1>2. key \in Keys
  BY DEF get_pht_key, BPredType, Keys
<1>3. \A s \in STRONGLY_NOTTAKEN .. STRONGLY_TAKEN :
          Trained(s, taken) \in STRONGLY_NOTTAKEN .. STRONGLY_TAKEN
  BY DEF Trained, STRONGLY_NOTTAKEN, STRONGLY_TAKEN
<1>4. Shifted(b.global_history_register, taken) \in Keys
  BY BPredAssumption DEF Shifted, Keys
<1> HIDE DEF counted, key
<1>5. CASE policy # "GSHARE"
  BY <1>1, <1>5 DEF update, counted
<1>6. CASE policy = "GSHARE"
  <2> DEFINE trained == [counted.pattern_history_table EXCEPT ![key] = Trained(@, taken)]
             moved == [counted EXCEPT
                          !.pattern_history_table = trained,
                          !.global_history_register = Shifted(b.global_history_register, taken)]
  <2>1. trained \in [Keys -> STRONGLY_NOTTAKEN .. STRONGLY_TAKEN]
    BY <1>1, <1>2, <1>3 DEF BPredType
  <2>2. moved \in BPredType
    BY <1>1, <1>4, <2>1 DEF BPredType
  <2>3. counted.global_history_register = b.global_history_register
    BY DEF counted, BPredType
  <2>4. update(policy, b, pc, pred, taken) = moved
    BY <1>1, <1>6, <2>3 DEF update, counted, key, BPredType
  <2> QED  BY <2>2, <2>4
<1> QED  BY <1>5, <1>6

LEMMA CheckedType ==
    ASSUME TypeInv, UNCHANGED options, NEW rec \in TraceRecords \cup {NoRec}, pipe_check_bpred(rec)
    PROVE  /\ b_pred' \in BPredType /\ fetch_cbr_stall' \in BOOLEAN
           /\ BPRED_POLICY' = "PERFECT" => b_pred' = BPredNew
           /\ Mispredicted(rec) \in BOOLEAN
<1> DEFINE pred == predict(BPRED_POLICY, b_pred, rec.inst_addr)
<1>1. rec.inst_addr \in Keys /\ rec.br_dir \in BOOLEAN
  <2>1. CASE rec \in TraceRecords
    BY <2>1, PipelineAssumption
  <2>2. CASE rec = NoRec
    BY <2>2 DEF NoRec, Keys
  <2> QED  BY <2>1, <2>2
<1>2. pred \in BOOLEAN
  BY DEF predict
<1>3. fetch_cbr_stall' \in BOOLEAN /\ Mispredicted(rec) \in BOOLEAN
  BY DEF pipe_check_bpred, TypeInv, Mispredicted, Checked
<1> HIDE DEF pred
<1>4. CASE Checked(rec)
  <2>1. b_pred' = update(BPRED_POLICY, b_pred, rec.inst_addr, pred, rec.br_dir)
    BY <1>4 DEF pipe_check_bpred, pred
  <2>2. b_pred' \in BPredType
    BY <1>1, <1>2, <2>1, UpdateType DEF TypeInv
  <2> QED  BY <1>3, <1>4, <2>2 DEF Checked, options
<1>5. CASE ~ Checked(rec)
  BY <1>3, <1>5 DEF pipe_check_bpred, TypeInv, options
<1> QED  BY <1>4, <1>5

LEMMA LaneFacts ==
    /\ PIPE_WIDTH \in Nat \ {0} /\ 0 \in Lanes
    /\ \A k \in Lanes : /\ k \in Nat /\ k < PIPE_WIDTH
                        /\ (k + 1) % PIPE_WIDTH = IF k + 1 = PIPE_WIDTH THEN 0 ELSE k + 1
                        /\ k + 1 # PIPE_WIDTH => k + 1 \in Lanes
    /\ IsFiniteSet(Lanes)
<1>1. PIPE_WIDTH \in Nat \ {0}
  BY PipelineAssumption
<1>2. IsFiniteSet(Lanes)
  BY <1>1, FS_Interval DEF Lanes
<1>3. ASSUME NEW k \in Lanes
      PROVE  /\ k \in Nat /\ k < PIPE_WIDTH
             /\ (k + 1) % PIPE_WIDTH = IF k + 1 = PIPE_WIDTH THEN 0 ELSE k + 1
             /\ k + 1 # PIPE_WIDTH => k + 1 \in Lanes
  BY <1>1 DEF Lanes
<1>4. 0 \in Lanes
  BY <1>1 DEF Lanes
<1> QED  BY <1>1, <1>2, <1>3, <1>4

LEMMA MaxFacts == MaxInst \in Nat /\ NoHaltId = MaxInst + 1
BY PipelineAssumption DEF NoHaltId

\* What all steps of fetch have in common.
LEMMA NextLaneType ==
    ASSUME TypeInv, NextLane
    PROVE  /\ UNCHANGED <<options, stall, stat_retired_inst>>
           /\ stage' \in {"WB", "IF"} /\ lane' \in Lanes /\ (stage' # "IF" => lane' = 0)
           /\ stage = "IF" /\ lane \in Lanes
BY LaneFacts DEF NextLane, TypeInv

LEMMA StepType == TypeInv /\ [Next]_vars => TypeInv'
<1> SUFFICES ASSUME TypeInv, [Next]_vars PROVE TypeInv'
  OBVIOUS
<1>1. CASE UNCHANGED vars
  BY <1>1 DEF vars, options, TypeInv
<1>2. CASE WB
  <2>1. IsFiniteSet(Valid("MA_LATCH"))
    BY LaneFacts, FS_Subset DEF Valid
  <2>2. stat_retired_inst' \in Nat
    BY <1>2, <2>1, FS_CardinalityType DEF WB, TypeInv
  <2>3. halt' \in BOOLEAN /\ fetch_cbr_stall' \in BOOLEAN
    BY <1>2 DEF WB, TypeInv
  <2> QED  BY <1>2, <2>2, <2>3 DEF WB, TypeInv, options
<1>3. CASE MA
  BY <1>3 DEF MA, Move, TypeInv, options, Latches
<1>4. CASE EX
  BY <1>4 DEF EX, Move, TypeInv, options, Latches
<1>5. CASE ID
  <2>1. [k \in Lanes |-> IF k \in Stalled THEN [In[k] EXCEPT !.valid = FALSE] ELSE In[k]]
            \in [Lanes -> LatchType]
    <3>1. \A k \in Lanes : In[k] \in LatchType
      BY DEF In, TypeInv, Latches
    <3>2. \A l \in LatchType : [l EXCEPT !.valid = FALSE] \in LatchType
      BY DEF LatchType
    <3> QED  BY <3>1, <3>2
  <2>2. latch' \in [Latches -> [Lanes -> LatchType]]
    BY <1>5, <2>1 DEF ID, TypeInv, Latches
  <2>3. stall' \in [Lanes -> BOOLEAN]
    BY <1>5 DEF ID
  <2> QED  BY <1>5, <2>2, <2>3, LaneFacts DEF ID, TypeInv, options
<1>6. CASE FetchStalledLane
  BY <1>6, NextLaneType DEF FetchStalledLane, TypeInv, options
<1>7. CASE FetchNothing
  <2>1. latch' \in [Latches -> [Lanes -> LatchType]]
    <3> DEFINE l == latch["IF_LATCH"][lane]
    <3>1. l \in LatchType /\ "IF_LATCH" \in Latches /\ lane \in Lanes
      BY DEF TypeInv, Latches
    <3>2. [l EXCEPT !.valid = FALSE] \in LatchType
      BY <3>1 DEF LatchType
    <3> HIDE DEF l
    <3>3. latch' = [latch EXCEPT !["IF_LATCH"][lane] = [l EXCEPT !.valid = FALSE]]
      BY <1>7 DEF FetchNothing, l
    <3> QED  BY <3>1, <3>2, <3>3 DEF TypeInv
  <2> QED  BY <1>7, <2>1, NextLaneType DEF FetchNothing, TypeInv, options
<1>8. CASE FetchRecord
  <2>1. PICK rec \in TraceRecords :
            /\ last_op_id' = last_op_id + 1
            /\ latch' = [latch EXCEPT !["IF_LATCH"][lane] =
                            [valid |-> TRUE, op_id |-> last_op_id + 1, trace_rec |-> rec,
                             is_mispred_cbr |-> Mispredicted(rec)]]
            /\ trace' = Append(trace, rec)
            /\ pipe_check_bpred(rec)
    BY <1>8 DEF FetchRecord
  <2>2. NextLane /\ ~ trace_end /\ Len(trace) < MaxInst /\ UNCHANGED <<halt_op_id, halt, trace_end>>
    BY <1>8 DEF FetchRecord, Reads
  <2>3. trace' \in Seq(TraceRecords) /\ Len(trace') = Len(trace) + 1 /\ last_op_id' = Len(trace')
    BY <2>1 DEF TypeInv
  <2>4. Len(trace') <= MaxInst /\ Len(trace') \in Nat
    BY <2>2, <2>3, MaxFacts DEF TypeInv
  <2>5. UNCHANGED options
    BY <2>2, NextLaneType
  <2>6. /\ b_pred' \in BPredType /\ fetch_cbr_stall' \in BOOLEAN
        /\ BPRED_POLICY' = "PERFECT" => b_pred' = BPredNew
        /\ Mispredicted(rec) \in BOOLEAN
    BY <2>1, <2>5, CheckedType
  <2>7. [valid |-> TRUE, op_id |-> last_op_id + 1, trace_rec |-> rec,
         is_mispred_cbr |-> Mispredicted(rec)] \in LatchType
    BY <2>1, <2>3, <2>4, <2>6, MaxFacts DEF LatchType
  <2>8. latch' \in [Latches -> [Lanes -> LatchType]]
    BY <2>1, <2>2, <2>7, NextLaneType DEF TypeInv, Latches
  <2> QED  BY <2>2, <2>3, <2>4, <2>6, <2>8, NextLaneType DEF TypeInv, options
<1>9. CASE FetchEnd
  <2>1. NextLane /\ HaltsAfter /\ UNCHANGED <<last_op_id, trace>> /\ trace_end' \in BOOLEAN
    BY <1>9 DEF FetchEnd, Reads
  <2>2. UNCHANGED options
    BY <2>1, NextLaneType
  <2>3. /\ b_pred' \in BPredType /\ fetch_cbr_stall' \in BOOLEAN
        /\ BPRED_POLICY' = "PERFECT" => b_pred' = BPredNew
    BY <1>9, <2>2, CheckedType DEF FetchEnd
  <2>4. Bubble \in LatchType
    BY MaxFacts DEF Bubble, LatchType
  <2>5. latch' \in [Latches -> [Lanes -> LatchType]]
    BY <1>9, <2>1, <2>4, NextLaneType DEF FetchEnd, TypeInv, Latches
  <2>6. halt_op_id' \in 0 .. NoHaltId /\ halt' \in BOOLEAN
    BY <2>1, MaxFacts DEF HaltsAfter, TypeInv
  <2> QED  BY <2>1, <2>3, <2>5, <2>6, NextLaneType DEF TypeInv, options
<1> QED
  BY <1>1, <1>2, <1>3, <1>4, <1>5, <1>6, <1>7, <1>8, <1>9 DEF Next, IF_

LEMMA InitType == Init => TypeInv
<1> SUFFICES ASSUME Init PROVE TypeInv
  OBVIOUS
<1>1. Bubble \in LatchType
  BY MaxFacts DEF Bubble, LatchType
<1>2. latch \in [Latches -> [Lanes -> LatchType]] /\ stall \in [Lanes -> BOOLEAN]
  BY <1>1 DEF Init
<1>3. trace \in Seq(TraceRecords) /\ last_op_id = Len(trace) /\ Len(trace) <= MaxInst
  BY MaxFacts DEF Init
<1>4. halt_op_id \in 0 .. NoHaltId
  BY MaxFacts DEF Init
<1> QED  BY <1>2, <1>3, <1>4, NewPredictor, LaneFacts DEF Init, TypeInv

LEMMA TypeHolds == Spec => []TypeInv
BY InitType, StepType, PTL DEF Spec

-----------------------------------------------------------------------------
(* The flow of instructions. *)

Same(l, m) == l.op_id = m.op_id /\ l.is_mispred_cbr = m.is_mispred_cbr

(***************************************************************************)
(* A step that retires and fetches nothing moves the live instructions, or *)
(* leaves them: F says where what is in a place after the step has been.   *)
(***************************************************************************)
LEMMA FlowMoves ==
    ASSUME FlowInv, BranchInv, NEW F \in [Places -> Places],
           UNCHANGED <<stat_retired_inst, last_op_id, fetch_cbr_stall, trace_end>>,
           \A p \in Places : Live(p)' => Live(F[p]) /\ Same(At(p)', At(F[p])),
           \A p, q \in Places : Live(p)' /\ Live(q)' /\ F[p] = F[q] => p = q,
           \A q \in Places : Live(q) => \E p \in Places : Live(p)' /\ F[p] = q,
           \A p, q \in Places : Live(p)' /\ Live(q)' /\ Depth(p[1]) > Depth(q[1])
                                    => At(F[p]).op_id < At(F[q]).op_id
    PROVE  FlowInv' /\ BranchInv'
<1>1. ASSUME NEW p \in Places, Live(p)'
      PROVE  At(p)'.op_id \in stat_retired_inst' + 1 .. last_op_id'
  BY <1>1 DEF FlowInv, Same
<1>2. ASSUME NEW n \in stat_retired_inst' + 1 .. last_op_id'
      PROVE  \E p \in Places : Live(p)' /\ At(p)'.op_id = n
  <2>1. PICK q \in Places : Live(q) /\ At(q).op_id = n
    BY <1>2 DEF FlowInv
  <2>2. PICK p \in Places : Live(p)' /\ F[p] = q
    BY <2>1
  <2> QED  BY <2>1, <2>2 DEF Same
<1>3. ASSUME NEW p \in Places, NEW q \in Places, Live(p)', Live(q)'
      PROVE  /\ At(p)'.op_id = At(q)'.op_id => p = q
             /\ Depth(p[1]) > Depth(q[1]) => At(p)'.op_id < At(q)'.op_id
  <2>1. /\ F[p] \in Places /\ F[q] \in Places /\ Live(F[p]) /\ Live(F[q])
        /\ At(p)'.op_id = At(F[p]).op_id /\ At(q)'.op_id = At(F[q]).op_id
    BY <1>3 DEF Same
  <2>2. \A a, b \in Places : Live(a) /\ Live(b) /\ At(a).op_id = At(b).op_id => a = b
    BY DEF FlowInv
  <2>3. At(F[p]).op_id = At(F[q]).op_id => F[p] = F[q]
    BY <2>1, <2>2
  <2> QED  BY <1>3, <2>1, <2>3
<1>4. ASSUME NEW p \in Places, Live(p)', At(p)'.is_mispred_cbr
      PROVE  At(p)'.op_id = last_op_id' /\ fetch_cbr_stall'
  BY <1>4 DEF BranchInv, Same
<1>5. ASSUME fetch_cbr_stall', ~ trace_end'
      PROVE  \E p \in Places : Live(p)' /\ At(p)'.is_mispred_cbr
  <2>1. PICK q \in Places : Live(q) /\ At(q).is_mispred_cbr
    BY <1>5 DEF BranchInv
  <2>2. PICK p \in Places : Live(p)' /\ F[p] = q
    BY <2>1
  <2> QED  BY <2>1, <2>2 DEF Same
<1> QED  BY <1>1, <1>2, <1>3, <1>4, <1>5 DEF FlowInv, BranchInv

LEMMA PlaceFacts ==
    /\ \A p \in Places : p[1] \in Latches /\ p[2] \in Lanes
    /\ \A p, q \in Places : p[1] = q[1] /\ p[2] = q[2] => p = q
    /\ \A t \in Latches, k \in Lanes :
           <<t, k>> \in Places /\ <<t, k>>[1] = t /\ <<t, k>>[2] = k
BY DEF Places

LEMMA DepthFacts ==
    /\ Depth("IF_LATCH") = 1 /\ Depth("ID_LATCH") = 2
    /\ Depth("EX_LATCH") = 3 /\ Depth("MA_LATCH") = 4
BY DEF Depth

\* A stage that empties a latch into the next, which has already been emptied.
LEMMA MoveFlow ==
    ASSUME TypeInv, FlowInv, BranchInv, MA \/ EX
    PROVE  FlowInv' /\ BranchInv'
<1>1. PICK from \in Latches, to \in Latches, here \in {"MA", "EX"}, next \in {"EX", "ID"} :
          /\ Move(from, to, here, next)
          /\ \/ from = "EX_LATCH" /\ to = "MA_LATCH" /\ here = "MA" /\ next = "EX"
             \/ from = "ID_LATCH" /\ to = "EX_LATCH" /\ here = "EX" /\ next = "ID"
  BY DEF MA, EX, Latches
<1> DEFINE F == [p \in Places |-> IF p[1] = to THEN <<from, p[2]>> ELSE p]
<1>2. F \in [Places -> Places]
  BY PlaceFacts
<1>3. \A p \in Places : At(p)' = At(F[p])
  BY <1>1, PlaceFacts DEF Move, At, TypeInv
<1>4. ASSUME NEW p \in Places
      PROVE  Live(p)' => Live(F[p]) /\ p[1] # from
  BY <1>1, <1>3, PlaceFacts DEF Live, Move
<1>5. ASSUME NEW q \in Places, Live(q)
      PROVE  \E p \in Places : Live(p)' /\ F[p] = q
  <2>1. CASE q[1] = from
    <3> DEFINE p == <<to, q[2]>>
    <3>1. p \in Places /\ p[1] = to /\ p[2] = q[2] /\ F[p] = q
      BY <1>1, <2>1, PlaceFacts
    <3>2. Live(p)'
      BY <1>1, <1>3, <1>5, <2>1, <3>1 DEF Live, Move
    <3> QED  BY <3>1, <3>2
  <2>2. CASE q[1] # from
    <3>1. q[1] # to /\ F[q] = q
      BY <1>1, <1>5 DEF Live, Move
    <3>2. Live(q)'
      BY <1>1, <1>3, <1>5, <2>2, <3>1 DEF Live, Move
    <3> QED  BY <3>1, <3>2
  <2> QED  BY <2>1, <2>2
<1>6. \A p \in Places : F[p][1] = IF p[1] = to THEN from ELSE p[1]
  BY PlaceFacts
<1>7. \A p \in Places : F[p][2] = p[2]
  BY PlaceFacts
<1>8. UNCHANGED <<stat_retired_inst, last_op_id, fetch_cbr_stall, trace_end>>
  BY <1>1 DEF Move
<1> HIDE DEF F
<1>9. \A p, q \in Places : Live(p)' /\ Live(q)' /\ F[p] = F[q] => p = q
  BY <1>1, <1>4, <1>6, <1>7, PlaceFacts
<1>10. ASSUME NEW p \in Places, NEW q \in Places, Live(p)', Live(q)',
              Depth(p[1]) > Depth(q[1])
       PROVE  At(F[p]).op_id < At(F[q]).op_id
  <2>1. Depth(F[p][1]) > Depth(F[q][1])
    <3>1. p[1] # from /\ q[1] # from /\ p[1] \in Latches /\ q[1] \in Latches
      BY <1>4, <1>10, PlaceFacts
    <3> QED  BY <1>1, <1>6, <1>10, <3>1, DepthFacts DEF Latches
  <2> QED  BY <1>2, <1>4, <1>10, <2>1 DEF FlowInv
<1> QED  BY <1>2, <1>3, <1>4, <1>5, <1>8, <1>9, <1>10, FlowMoves DEF Same

(***************************************************************************)
(* ID: what stalls stays behind, and is younger than what goes on.         *)
(***************************************************************************)
LEMMA IDFlow ==
    ASSUME TypeInv, FlowInv, BranchInv, ID
    PROVE  FlowInv' /\ BranchInv'
<1> DEFINE F == [p \in Places |-> IF p[1] = "ID_LATCH" THEN <<"IF_LATCH", p[2]>> ELSE p]
<1>1. /\ stage = "ID" /\ stage' = "IF" /\ lane' = 0
      /\ UNCHANGED <<stat_retired_inst, last_op_id, fetch_cbr_stall, trace_end>>
      /\ \A k \in Lanes : stall'[k] = (k \in Stalled)
      /\ \A k \in Lanes, t \in Latches \ {"ID_LATCH"} : latch'[t][k] = latch[t][k]
  BY DEF ID, TypeInv
<1>2. \A k \in Lanes : /\ latch'["ID_LATCH"][k].valid = (In[k].valid /\ k \notin Stalled)
                       /\ Same(latch'["ID_LATCH"][k], In[k])
  <2>1. \A k \in Lanes : In[k] \in LatchType
    BY DEF In, TypeInv, Latches
  <2>2. \A k \in Lanes : latch'["ID_LATCH"][k] = IF k \in Stalled
                                                THEN [In[k] EXCEPT !.valid = FALSE] ELSE In[k]
    BY DEF ID, TypeInv, Latches
  <2> QED  BY <2>1, <2>2 DEF LatchType, Same
<1>3. F \in [Places -> Places]
  BY PlaceFacts DEF Latches
<1>4. /\ \A p \in Places : F[p][1] = IF p[1] = "ID_LATCH" THEN "IF_LATCH" ELSE p[1]
      /\ \A p \in Places : F[p][2] = p[2]
  BY PlaceFacts
<1> HIDE DEF F
<1>5. ASSUME NEW p \in Places, Live(p)'
      PROVE  /\ Live(F[p]) /\ Same(At(p)', At(F[p]))
             /\ p[1] = "ID_LATCH" => p[2] \notin Stalled
             /\ p[1] = "IF_LATCH" => p[2] \in Stalled
  <2>1. p[1] \in Latches /\ p[2] \in Lanes
    BY PlaceFacts
  <2>2. CASE p[1] = "ID_LATCH"
    BY <1>1, <1>2, <1>4, <1>5, <2>1, <2>2 DEF Live, At, In
  <2>3. CASE p[1] # "ID_LATCH"
    <3>1. At(p)' = At(p) /\ F[p] = p
      BY <1>1, <1>3, <1>4, <2>1, <2>3, PlaceFacts DEF At
    <3>2. p[1] = "IF_LATCH" => p[2] \in Stalled
      <4>1. ~ p[2] < lane'
        <5>1. \A k \in Lanes : ~ k < 0
          BY DEF Lanes
        <5> QED  BY <1>1, <2>1, <5>1
      <4> QED  BY <1>1, <1>5, <2>1, <4>1 DEF Live
    <3>3. Live(p)
      BY <1>1, <1>5, <2>3, <3>1 DEF Live
    <3> QED  BY <2>3, <3>1, <3>2, <3>3 DEF Same
  <2> QED  BY <2>2, <2>3
<1>6. \A p, q \in Places : Live(p)' /\ Live(q)' /\ F[p] = F[q] => p = q
  BY <1>4, <1>5, PlaceFacts
<1>7. ASSUME NEW q \in Places, Live(q)
      PROVE  \E p \in Places : Live(p)' /\ F[p] = q
  <2>1. q[1] \in Latches /\ q[2] \in Lanes /\ q[1] # "ID_LATCH"
    BY <1>1, <1>7, PlaceFacts DEF Live
  <2>2. CASE q[1] = "IF_LATCH" /\ q[2] \notin Stalled
    <3> DEFINE p == <<"ID_LATCH", q[2]>>
    <3>1. p \in Places /\ p[1] = "ID_LATCH" /\ p[2] = q[2]
      BY <2>1, PlaceFacts DEF Latches
    <3> HIDE DEF p
    <3>2. F[p] = q
      BY <1>3, <1>4, <2>2, <3>1, PlaceFacts
    <3>3. Live(p)'
      BY <1>1, <1>2, <1>7, <2>1, <2>2, <3>1 DEF Live, At, In
    <3> QED  BY <3>1, <3>2, <3>3
  <2>3. CASE q[1] # "IF_LATCH" \/ q[2] \in Stalled
    <3>1. F[q] = q
      BY <1>3, <1>4, <2>1, PlaceFacts
    <3>2. Live(q)'
      BY <1>1, <1>7, <2>1, <2>3 DEF Live, At
    <3> QED  BY <3>1, <3>2
  <2> QED  BY <2>2, <2>3
<1>8. ASSUME NEW j \in Lanes, NEW k \in Lanes, j \notin Stalled, k \in Stalled,
             In[j].valid, In[k].valid
      PROVE  In[j].op_id < In[k].op_id
  <2>1. /\ Live(<<"IF_LATCH", j>>) /\ Live(<<"IF_LATCH", k>>)
        /\ <<"IF_LATCH", j>> \in Places /\ <<"IF_LATCH", k>> \in Places
        /\ At(<<"IF_LATCH", j>>) = In[j] /\ At(<<"IF_LATCH", k>>) = In[k]
    BY <1>1, <1>8, PlaceFacts DEF Live, At, In, Latches
  <2>2. In[j].op_id # In[k].op_id
    <3>1. <<"IF_LATCH", j>> # <<"IF_LATCH", k>>
      BY <1>8
    <3> QED  BY <2>1, <3>1 DEF FlowInv
  <2>3. \A l \in Lanes : In[l].op_id \in Nat
    BY MaxFacts DEF In, TypeInv, Latches, LatchType
  <2>4. \A l \in StalledAmong \cap Lanes : ~ In[j].op_id > In[l].op_id
    BY <1>8 DEF Stalled
  <2>5. CASE k \in StalledAmong
    BY <2>2, <2>3, <2>4, <2>5
  <2>6. CASE k \notin StalledAmong
    <3>1. PICK l \in StalledAmong \cap Lanes : In[k].op_id > In[l].op_id
      BY <1>8, <2>6 DEF Stalled
    <3> QED  BY <2>3, <2>4, <3>1
  <2> QED  BY <2>5, <2>6
<1>9. ASSUME NEW p \in Places, NEW q \in Places, Live(p)', Live(q)',
              Depth(p[1]) > Depth(q[1])
       PROVE  At(F[p]).op_id < At(F[q]).op_id
  <2>1. /\ p[1] \in Latches /\ q[1] \in Latches /\ p[2] \in Lanes /\ q[2] \in Lanes
        /\ F[p] \in Places /\ F[q] \in Places /\ Live(F[p]) /\ Live(F[q])
    BY <1>3, <1>5, <1>9, PlaceFacts
  <2>2. CASE p[1] = "ID_LATCH"
    <3>1. q[1] = "IF_LATCH" /\ p[2] \notin Stalled /\ q[2] \in Stalled
      BY <1>5, <1>9, <2>1, <2>2, DepthFacts DEF Latches
    <3>2. At(F[p]) = In[p[2]] /\ At(F[q]) = In[q[2]]
      BY <1>4, <2>2, <3>1 DEF At, In
    <3> QED  BY <1>8, <2>1, <3>1, <3>2 DEF Live
  <2>3. CASE p[1] # "ID_LATCH"
    <3>1. Depth(F[p][1]) > Depth(F[q][1])
      BY <1>4, <1>9, <2>1, <2>3, DepthFacts DEF Latches
    <3> QED  BY <2>1, <3>1 DEF FlowInv
  <2> QED  BY <2>2, <2>3
<1> QED  BY <1>1, <1>3, <1>5, <1>6, <1>7, <1>9, FlowMoves

-----------------------------------------------------------------------------
(* Write back retires what is in the MA latch, which is the oldest. *)

LEMMA FirstExists ==
    ASSUME NEW S \in SUBSET Nat, S # {}
    PROVE  \E s \in S : \A t \in S : s <= t
<1>1. PICK s \in S : \A t \in S : <<t, s>> \notin OpToRel(<, Nat)
  BY NatLessThanWellFounded, WFMin
<1>2. \A t \in S : t \in Nat /\ s \in Nat
  OBVIOUS
<1>3. \A t \in S : ~ (t < s)
  BY <1>1, <1>2, Zenon DEF OpToRel
<1> QED  BY <1>2, <1>3

\* A set of numbers from a + 1 on, without gaps, is given by how many they are.
LEMMA InitialSegment ==
    ASSUME NEW a \in Nat, NEW b \in Nat, a <= b, NEW S \in SUBSET (a + 1 .. b),
           \A m \in a + 1 .. b : \A n \in S : m < n => m \in S
    PROVE  IsFiniteSet(S) /\ S = a + 1 .. a + Cardinality(S) /\ a + Cardinality(S) <= b
<1>1. \E c \in a .. b : S = a + 1 .. c
  <2>1. CASE a + 1 .. b \subseteq S
    <3>1. S = a + 1 .. b
      BY <2>1
    <3>2. b \in a .. b
      OBVIOUS
    <3> QED  BY <3>1, <3>2
  <2>2. CASE ~ (a + 1 .. b \subseteq S)
    <3> DEFINE T == (a + 1 .. b) \ S
    <3>1. PICK t \in T : \A u \in T : t <= u
      <4>1. T \in SUBSET Nat /\ T # {}
        BY <2>2
      <4> HIDE DEF T
      <4> QED  BY <4>1, FirstExists
    <3>2. t \in a + 1 .. b /\ t \notin S
      BY <3>1
    <3>3. \A n \in S : n < t
      BY <3>2
    <3>4. \A n \in a + 1 .. b : n < t => n \in S
      BY <3>1, <3>2
    <3> HIDE DEF T
    <3>5. t - 1 \in a .. b
      BY <3>2
    <3>6. ASSUME NEW x \in S PROVE x \in a + 1 .. t - 1
      BY <3>2, <3>3
    <3>7. ASSUME NEW x \in a + 1 .. t - 1 PROVE x \in S
      BY <3>2, <3>4
    <3>8. S = a + 1 .. t - 1
      BY <3>6, <3>7
    <3> QED  BY <3>5, <3>8
  <2> QED  BY <2>1, <2>2
<1>2. PICK c \in a .. b : S = a + 1 .. c
  BY <1>1
<1>3. IsFiniteSet(S) /\ Cardinality(S) = c - a
  <2>1. a + 1 \in Int /\ c \in Int /\ (a + 1 > c => c = a)
    BY <1>2
  <2>2. /\ IsFiniteSet(a + 1 .. c)
        /\ Cardinality(a + 1 .. c) = IF a + 1 > c THEN 0 ELSE c - (a + 1) + 1
    BY <2>1, FS_Interval
  <2> QED  BY <1>2, <2>1, <2>2
<1> QED  BY <1>2, <1>3

LEMMA RetiredAreOldest ==
    ASSUME TypeInv, FlowInv, stage = "WB"
    PROVE  LET n == stat_retired_inst + Cardinality(Valid("MA_LATCH"))
           IN  /\ Ids("MA_LATCH") = stat_retired_inst + 1 .. n
               /\ n \in Nat /\ stat_retired_inst <= n /\ n <= last_op_id
<1> DEFINE r == stat_retired_inst
           V == Valid("MA_LATCH")
           S == Ids("MA_LATCH")
           f == [k \in V |-> latch["MA_LATCH"][k].op_id]
           n == r + Cardinality(V)
<1>1. r \in Nat /\ last_op_id \in Nat /\ r <= last_op_id
  BY DEF TypeInv, FlowInv
<1>2. \A k \in V : LET p == <<"MA_LATCH", k>>
                   IN  /\ p \in Places /\ p[1] = "MA_LATCH" /\ p[2] = k
                       /\ Live(p) /\ At(p) = latch["MA_LATCH"][k]
  BY PlaceFacts DEF Valid, Live, At, Latches
<1>3. \A k \in V : latch["MA_LATCH"][k].op_id \in r + 1 .. last_op_id
  BY <1>2 DEF FlowInv
<1>4. ASSUME NEW j \in V, NEW k \in V,
             latch["MA_LATCH"][j].op_id = latch["MA_LATCH"][k].op_id
      PROVE  j = k
  <2>1. \A p, q \in Places : Live(p) /\ Live(q) /\ At(p).op_id = At(q).op_id => p = q
    BY DEF FlowInv
  <2>2. <<"MA_LATCH", j>> = <<"MA_LATCH", k>>
    BY <1>2, <1>4, <2>1, ZenonT(60)
  <2> QED  BY <2>2
<1>5. S \in SUBSET (r + 1 .. last_op_id)
  BY <1>3 DEF Ids
<1>6. ASSUME NEW m \in r + 1 .. last_op_id, NEW x \in S, m < x
      PROVE  m \in S
  <2>1. PICK k \in V : latch["MA_LATCH"][k].op_id = x
    BY DEF Ids
  <2>2. PICK p \in Places : Live(p) /\ At(p).op_id = m
    BY DEF FlowInv
  <2>3. p[1] \in Latches /\ p[2] \in Lanes
    BY PlaceFacts
  <2>4. CASE p[1] = "MA_LATCH"
    BY <2>2, <2>3, <2>4 DEF Live, At, Ids, Valid
  <2>5. CASE p[1] # "MA_LATCH"
    <3> DEFINE q == <<"MA_LATCH", k>>
    <3>1. q \in Places /\ Live(q) /\ At(q).op_id = x /\ q[1] = "MA_LATCH"
      BY <1>2, <2>1
    <3>2. Depth(q[1]) > Depth(p[1])
      BY <2>3, <2>5, <3>1, DepthFacts DEF Latches
    <3> HIDE DEF q
    <3>3. x < m
      BY <2>2, <3>1, <3>2 DEF FlowInv
    <3> QED  BY <1>1, <1>5, <1>6, <3>3
  <2> QED  BY <2>4, <2>5
<1> HIDE DEF S, V, r
<1>7. IsFiniteSet(S) /\ S = r + 1 .. r + Cardinality(S) /\ r + Cardinality(S) <= last_op_id
  BY <1>1, <1>5, <1>6, InitialSegment
<1>8. IsFiniteSet(V)
  BY LaneFacts, FS_Subset DEF V, Valid
<1>9. Cardinality(S) = Cardinality(V)
  <2>1. f \in Injection(V, S) /\ f \in Surjection(V, S)
    <3>1. f \in [V -> S] /\ \A x \in S : \E k \in V : f[k] = x
      BY DEF S, V, Ids
    <3>2. \A j, k \in V : f[j] = f[k] => j = k
      BY <1>4
    <3> QED  BY <3>1, <3>2 DEF Injection, Surjection, IsInjective
  <2> QED  BY <1>8, <2>1, FS_Surjection
<1>10. Cardinality(V) \in Nat
  BY <1>8, FS_CardinalityType
<1>11. S = r + 1 .. n /\ n \in Nat /\ r <= n /\ n <= last_op_id
  BY <1>1, <1>7, <1>9, <1>10
<1> QED  BY <1>11 DEF S, V, r

LEMMA WBFlow ==
    ASSUME TypeInv, FlowInv, BranchInv, WB
    PROVE  FlowInv' /\ BranchInv'
<1> DEFINE n == stat_retired_inst + Cardinality(Valid("MA_LATCH"))
<1>1. /\ stage = "WB" /\ stage' = "MA" /\ stat_retired_inst' = n
      /\ UNCHANGED <<latch, last_op_id, trace_end>>
      /\ fetch_cbr_stall' = (fetch_cbr_stall /\ \A k \in Valid("MA_LATCH") :
                                                ~ latch["MA_LATCH"][k].is_mispred_cbr)
  BY DEF WB
<1>2. /\ Ids("MA_LATCH") = stat_retired_inst + 1 .. n
      /\ n \in Nat /\ stat_retired_inst <= n /\ n <= last_op_id
      /\ stat_retired_inst \in Nat /\ last_op_id \in Nat
  BY <1>1, RetiredAreOldest DEF TypeInv
<1> HIDE DEF n
<1>3. \A p \in Places : /\ At(p)' = At(p)
                        /\ Live(p)' <=> Live(p) /\ p[1] # "MA_LATCH"
  BY <1>1, PlaceFacts DEF Live, At
<1>4. ASSUME NEW p \in Places, Live(p)
      PROVE  At(p).op_id > n <=> p[1] # "MA_LATCH"
  <2>1. At(p).op_id \in stat_retired_inst + 1 .. last_op_id
    BY <1>4 DEF FlowInv
  <2>2. CASE p[1] = "MA_LATCH"
    <3>1. At(p).op_id \in Ids("MA_LATCH")
      BY <1>4, <2>2, PlaceFacts DEF Live, At, Ids, Valid
    <3> QED  BY <1>2, <2>2, <3>1
  <2>3. CASE p[1] # "MA_LATCH"
    <3>1. ASSUME At(p).op_id <= n PROVE FALSE
      <4>1. At(p).op_id \in Ids("MA_LATCH")
        BY <1>2, <2>1, <3>1
      <4>2. PICK k \in Valid("MA_LATCH") : latch["MA_LATCH"][k].op_id = At(p).op_id
        BY <4>1 DEF Ids
      <4> DEFINE q == <<"MA_LATCH", k>>
      <4>3. q \in Places /\ q[1] = "MA_LATCH" /\ q[2] = k /\ k \in Lanes
        BY PlaceFacts DEF Valid, Latches
      <4> HIDE DEF q
      <4>4. Live(q) /\ At(q).op_id = At(p).op_id
        BY <1>1, <4>2, <4>3 DEF Live, At, Valid
      <4>5. p = q
        BY <1>4, <4>3, <4>4 DEF FlowInv
      <4> QED  BY <2>3, <4>3, <4>5
    <3> QED  BY <1>2, <2>1, <2>3, <3>1
  <2> QED  BY <2>2, <2>3
<1>5. FlowInv'
  <2>1. ASSUME NEW p \in Places, Live(p)'
        PROVE  At(p)'.op_id \in stat_retired_inst' + 1 .. last_op_id'
    BY <1>1, <1>2, <1>3, <1>4, <2>1 DEF FlowInv
  <2>2. ASSUME NEW m \in stat_retired_inst' + 1 .. last_op_id'
        PROVE  \E p \in Places : Live(p)' /\ At(p)'.op_id = m
    <3>1. m \in stat_retired_inst + 1 .. last_op_id /\ m > n
      BY <1>1, <1>2
    <3>2. PICK p \in Places : Live(p) /\ At(p).op_id = m
      BY <3>1 DEF FlowInv
    <3> QED  BY <1>3, <1>4, <3>1, <3>2
  <2> QED  BY <1>1, <1>2, <1>3, <2>1, <2>2 DEF FlowInv
<1>6. CASE \E k \in Valid("MA_LATCH") : latch["MA_LATCH"][k].is_mispred_cbr
  <2>1. PICK k \in Valid("MA_LATCH") : latch["MA_LATCH"][k].is_mispred_cbr
    BY <1>6
  <2> DEFINE q == <<"MA_LATCH", k>>
  <2>2. q \in Places /\ q[1] = "MA_LATCH" /\ q[2] = k /\ k \in Lanes
    BY PlaceFacts DEF Valid, Latches
  <2> HIDE DEF q
  <2>3. Live(q) /\ At(q).is_mispred_cbr /\ At(q).op_id = last_op_id
    BY <1>1, <2>1, <2>2 DEF Live, At, Valid, BranchInv
  <2>4. \A p \in Places : ~ Live(p)'
    BY <1>2, <1>3, <1>4, <2>2, <2>3 DEF FlowInv
  <2>5. ~ fetch_cbr_stall'
    BY <1>1, <1>6
  <2> QED  BY <1>5, <2>4, <2>5 DEF BranchInv
<1>7. CASE \A k \in Valid("MA_LATCH") : ~ latch["MA_LATCH"][k].is_mispred_cbr
  <2>1. fetch_cbr_stall' = fetch_cbr_stall
    BY <1>1, <1>7 DEF TypeInv
  <2>2. \A p \in Places : Live(p) /\ At(p).is_mispred_cbr => p[1] # "MA_LATCH"
    BY <1>7, PlaceFacts DEF Live, At, Valid
  <2> QED  BY <1>1, <1>3, <1>5, <2>1, <2>2 DEF BranchInv
<1> QED  BY <1>6, <1>7

-----------------------------------------------------------------------------
(* Fetch, which deals with one lane of the IF latch at a time. *)

FetchPlace == <<"IF_LATCH", lane>>

LEMMA FetchLive ==
    ASSUME TypeInv, NextLane,
           \A p \in Places \ {FetchPlace} : At(p)' = At(p)
    PROVE  /\ FetchPlace \in Places
           /\ \A p \in Places \ {FetchPlace} : Live(p)' <=> Live(p)
           /\ latch'["IF_LATCH"][lane].valid <=> (\E p \in Places : p = FetchPlace /\ Live(p)')
           /\ Live(FetchPlace) => stall[lane]
<1>1. /\ stage = "IF" /\ stage' \in {"WB", "IF"} /\ lane \in Lanes /\ UNCHANGED stall
      /\ stage' = "WB" => lane + 1 = PIPE_WIDTH
      /\ stage' = "IF" => lane' = lane + 1
  BY NextLaneType, LaneFacts DEF NextLane
<1>2. ASSUME NEW k \in Lanes
      PROVE  (stage' = "IF" => stall'[k] \/ k < lane') <=> (stall[k] \/ k < lane \/ k = lane)
  <2>1. k \in Nat /\ lane \in Nat /\ PIPE_WIDTH \in Nat /\ k < PIPE_WIDTH
    BY <1>1, LaneFacts
  <2>2. k < lane + 1 <=> k < lane \/ k = lane
    BY <2>1
  <2>3. CASE stage' = "IF"
    BY <1>1, <2>2, <2>3
  <2>4. CASE stage' = "WB"
    BY <1>1, <2>1, <2>2, <2>4
  <2> QED  BY <1>1, <2>3, <2>4
<1>3. FetchPlace \in Places /\ FetchPlace[1] = "IF_LATCH" /\ FetchPlace[2] = lane
  BY <1>1, PlaceFacts DEF FetchPlace, Latches
<1>4. ASSUME NEW p \in Places \ {FetchPlace}
      PROVE  Live(p)' <=> Live(p)
  <2>1. /\ p[1] \in Latches /\ p[2] \in Lanes /\ At(p)' = At(p)
        /\ p[1] = "IF_LATCH" => p[2] # lane
    BY <1>3, PlaceFacts
  <2>2. CASE p[1] = "IF_LATCH"
    BY <1>1, <1>2, <2>1, <2>2 DEF Live
  <2>3. CASE p[1] # "IF_LATCH"
    BY <1>1, <2>1, <2>3 DEF Live
  <2> QED  BY <2>2, <2>3
<1>5. ASSUME NEW p \in Places, p = FetchPlace
      PROVE  Live(p)' <=> latch'["IF_LATCH"][lane].valid
  BY <1>1, <1>2, <1>3, <1>5 DEF Live, At
<1>6. Live(FetchPlace) => stall[lane]
  <2>1. ~ lane < lane
    BY <1>1, LaneFacts
  <2> QED  BY <1>1, <1>3, <2>1 DEF Live
<1> QED  BY <1>3, <1>4, <1>5, <1>6

\* A lane that is left alone, or is emptied.
LEMMA FetchKept ==
    ASSUME TypeInv, FlowInv, NextLane, last_op_id' = last_op_id,
           \A p \in Places \ {FetchPlace} : At(p)' = At(p),
           \/ stall[lane] /\ latch' = latch
           \/ ~ stall[lane] /\ ~ latch'["IF_LATCH"][lane].valid
    PROVE  /\ FlowInv'
           /\ \A p \in Places : (Live(p)' <=> Live(p)) /\ (Live(p) => At(p)' = At(p))
<1>1. \A p \in Places : (Live(p)' <=> Live(p)) /\ (Live(p) => At(p)' = At(p))
  <2>1. CASE stall[lane] /\ latch' = latch
    <3>1. \A p \in Places : At(p)' = At(p)
      BY <2>1 DEF At
    <3>2. ASSUME NEW p \in Places, p = FetchPlace
          PROVE  Live(p)' <=> Live(p)
      <4>1. /\ stage = "IF" /\ lane \in Lanes /\ stall[lane]
            /\ p[1] = "IF_LATCH" /\ p[2] = lane
        BY <2>1, <3>2, NextLaneType DEF FetchPlace
      <4>2. Live(p) <=> latch["IF_LATCH"][lane].valid
        BY <4>1 DEF Live, At
      <4> QED  BY <2>1, <3>2, <4>2, FetchLive
    <3> QED  BY <3>1, <3>2, FetchLive
  <2>2. CASE ~ stall[lane] /\ ~ latch'["IF_LATCH"][lane].valid
    BY <2>2, FetchLive
  <2> QED  BY <2>1, <2>2
<1>2. UNCHANGED <<stat_retired_inst, last_op_id>>
  BY NextLaneType
<1> QED  BY <1>1, <1>2 DEF FlowInv

LEMMA FetchFlow ==
    ASSUME TypeInv, FlowInv, BranchInv, IF_
    PROVE  FlowInv' /\ BranchInv'
<1>1. ASSUME NextLane
      PROVE  FetchPlace \in Places /\ FetchPlace[1] = "IF_LATCH" /\ FetchPlace[2] = lane
  BY <1>1, NextLaneType, PlaceFacts DEF FetchPlace, Latches
<1>2. ASSUME NextLane, NEW l, latch' = [latch EXCEPT !["IF_LATCH"][lane] = l]
      PROVE  /\ latch'["IF_LATCH"][lane] = l
             /\ \A p \in Places \ {FetchPlace} : At(p)' = At(p)
  <2>1. lane \in Lanes /\ latch \in [Latches -> [Lanes -> LatchType]] /\ "IF_LATCH" \in Latches
    BY <1>2, NextLaneType DEF TypeInv, Latches
  <2>2. \A t \in Latches, k \in Lanes :
            latch'[t][k] = IF t = "IF_LATCH" /\ k = lane THEN l ELSE latch[t][k]
    BY <1>2, <2>1
  <2>3. ASSUME NEW p \in Places \ {FetchPlace}
        PROVE  p[1] \in Latches /\ p[2] \in Lanes /\ ~ (p[1] = "IF_LATCH" /\ p[2] = lane)
    BY <1>1, <1>2, PlaceFacts
  <2> QED  BY <2>1, <2>2, <2>3 DEF At
<1>3. CASE FetchStalledLane
  <2>1. /\ NextLane /\ stall[lane]
        /\ UNCHANGED <<latch, fetch_cbr_stall, last_op_id, trace_end>>
    BY <1>3 DEF FetchStalledLane
  <2>2. \A p \in Places : At(p)' = At(p)
    BY <2>1 DEF At
  <2>3. FlowInv' /\ \A p \in Places : Live(p)' <=> Live(p)
    BY <2>1, <2>2, FetchKept
  <2> QED  BY <2>1, <2>2, <2>3 DEF BranchInv
<1>4. CASE FetchNothing
  <2> DEFINE l == [latch["IF_LATCH"][lane] EXCEPT !.valid = FALSE]
  <2>1. /\ NextLane /\ ~ stall[lane]
        /\ UNCHANGED <<fetch_cbr_stall, last_op_id, trace_end>>
        /\ latch' = [latch EXCEPT !["IF_LATCH"][lane] = l]
    BY <1>4 DEF FetchNothing
  <2>2. ~ l.valid
    BY <2>1, NextLaneType DEF TypeInv, Latches, LatchType
  <2> HIDE DEF l
  <2>3. /\ FlowInv'
        /\ \A p \in Places : (Live(p)' <=> Live(p)) /\ (Live(p) => At(p)' = At(p))
    BY <1>2, <2>1, <2>2, FetchKept
  <2> QED  BY <2>1, <2>3 DEF BranchInv
<1>5. CASE FetchEnd
  <2>1. PICK rec \in TraceRecords \cup {NoRec} :
            (trace_end' \/ rec = NoRec) /\ pipe_check_bpred(rec)
    BY <1>5 DEF FetchEnd
  <2>2. /\ NextLane /\ ~ stall[lane] /\ ~ fetch_cbr_stall /\ UNCHANGED last_op_id
        /\ latch' = [latch EXCEPT !["IF_LATCH"][lane] = Bubble]
    BY <1>5 DEF FetchEnd, Reads
  <2>3. /\ FlowInv'
        /\ \A p \in Places : (Live(p)' <=> Live(p)) /\ (Live(p) => At(p)' = At(p))
    <3>1. ~ Bubble.valid
      BY DEF Bubble
    <3> QED  BY <1>2, <2>2, <3>1, FetchKept
  <2>4. \A p \in Places : Live(p) => ~ At(p).is_mispred_cbr
    BY <2>2 DEF BranchInv
  <2>5. ~ trace_end' => ~ fetch_cbr_stall'
    <3>1. ~ Mispredicted(NoRec)
      BY DEF Mispredicted, Checked, NoRec
    <3> QED  BY <2>1, <2>2, <3>1 DEF pipe_check_bpred
  <2> QED  BY <2>3, <2>4, <2>5 DEF BranchInv
<1>6. CASE FetchRecord
  <2>1. PICK rec \in TraceRecords :
            /\ last_op_id' = last_op_id + 1
            /\ latch' = [latch EXCEPT !["IF_LATCH"][lane] =
                            [valid |-> TRUE, op_id |-> last_op_id + 1, trace_rec |-> rec,
                             is_mispred_cbr |-> Mispredicted(rec)]]
            /\ pipe_check_bpred(rec)
    BY <1>6 DEF FetchRecord
  <2>2. NextLane /\ ~ stall[lane] /\ ~ fetch_cbr_stall /\ UNCHANGED trace_end
    BY <1>6 DEF FetchRecord, Reads
  <2> DEFINE l == [valid |-> TRUE, op_id |-> last_op_id + 1, trace_rec |-> rec,
                   is_mispred_cbr |-> Mispredicted(rec)]
             m == FetchPlace
  <2>3. /\ l.valid /\ l.op_id = last_op_id + 1 /\ l.is_mispred_cbr = Mispredicted(rec)
        /\ fetch_cbr_stall' = Mispredicted(rec)
    BY <2>1, <2>2 DEF pipe_check_bpred, Mispredicted, Checked
  <2>4. latch'["IF_LATCH"][lane] = l /\ \A p \in Places \ {m} : At(p)' = At(p)
    BY <1>2, <2>1, <2>2
  <2> HIDE DEF l
  <2>5. /\ m \in Places /\ m[1] = "IF_LATCH" /\ m[2] = lane /\ ~ Live(m)
        /\ \A p \in Places \ {m} : Live(p)' <=> Live(p)
        /\ \E p \in Places : p = m /\ Live(p)'
    BY <1>1, <2>2, <2>3, <2>4, FetchLive
  <2>6. UNCHANGED stat_retired_inst /\ stat_retired_inst \in Nat /\ last_op_id \in Nat
    BY <2>2, NextLaneType DEF TypeInv
  <2>7. \A p \in Places : p = m => At(p)' = l
    BY <2>4, <2>5 DEF At
  <2> HIDE DEF m
  <2>8. ASSUME NEW p \in Places, Live(p)'
        PROVE  \/ p = m /\ At(p)'.op_id = last_op_id + 1
                        /\ At(p)'.is_mispred_cbr = Mispredicted(rec)
               \/ p # m /\ Live(p) /\ At(p)' = At(p) /\ At(p).op_id <= last_op_id
                        /\ At(p).op_id \in Nat /\ ~ At(p).is_mispred_cbr
    <3>1. CASE p = m
      BY <2>3, <2>7, <3>1
    <3>2. CASE p # m
      BY <2>2, <2>4, <2>5, <2>6, <2>8, <3>2 DEF FlowInv, BranchInv
    <3> QED  BY <3>1, <3>2
  <2>9. ASSUME NEW p \in Places, Live(p)'
        PROVE  At(p)'.op_id \in stat_retired_inst' + 1 .. last_op_id'
    <3>1. CASE p = m
      BY <2>1, <2>6, <2>8, <2>9, <3>1 DEF FlowInv
    <3>2. CASE p # m
      <4>1. At(p).op_id \in stat_retired_inst + 1 .. last_op_id /\ At(p)' = At(p)
        BY <2>8, <2>9, <3>2 DEF FlowInv
      <4> QED  BY <2>1, <2>6, <4>1
    <3> QED  BY <3>1, <3>2
  <2>10. ASSUME NEW n \in stat_retired_inst' + 1 .. last_op_id'
         PROVE  \E p \in Places : Live(p)' /\ At(p)'.op_id = n
    <3>1. CASE n = last_op_id + 1
      BY <2>3, <2>5, <2>7, <3>1
    <3>2. CASE n # last_op_id + 1
      <4>1. n \in stat_retired_inst + 1 .. last_op_id
        BY <2>1, <2>6, <3>2
      <4>2. PICK p \in Places : Live(p) /\ At(p).op_id = n
        BY <4>1 DEF FlowInv
      <4>3. p # m
        BY <2>5, <4>2
      <4> QED  BY <2>4, <2>5, <4>2, <4>3 DEF m
    <3> QED  BY <3>1, <3>2
  <2>11. ASSUME NEW p \in Places, NEW q \in Places, Live(p)', Live(q)'
         PROVE  /\ At(p)'.op_id = At(q)'.op_id => p = q
                /\ Depth(p[1]) > Depth(q[1]) => At(p)'.op_id < At(q)'.op_id
    <3>1. CASE p = m /\ q = m
      BY <2>5, <3>1, DepthFacts
    <3>2. CASE p = m /\ q # m
      <4>1. At(p)'.op_id = last_op_id + 1 /\ At(q)'.op_id <= last_op_id /\ At(q)'.op_id \in Nat
        BY <2>8, <2>11, <3>2
      <4>2. ~ Depth(p[1]) > Depth(q[1])
        BY <2>5, <3>2, PlaceFacts, DepthFacts DEF Latches
      <4> QED  BY <2>6, <4>1, <4>2
    <3>3. CASE p # m /\ q = m
      <4>1. At(q)'.op_id = last_op_id + 1 /\ At(p)'.op_id <= last_op_id /\ At(p)'.op_id \in Nat
        BY <2>8, <2>11, <3>3
      <4> QED  BY <2>6, <4>1
    <3>4. CASE p # m /\ q # m
      <4>1. Live(p) /\ Live(q) /\ At(p)' = At(p) /\ At(q)' = At(q)
        BY <2>8, <2>11, <3>4
      <4> QED  BY <4>1 DEF FlowInv
    <3> QED  BY <3>1, <3>2, <3>3, <3>4
  <2>12. FlowInv'
    <3>1. stat_retired_inst' <= last_op_id'
      BY <2>1, <2>6 DEF FlowInv
    <3> QED  BY <2>9, <2>10, <2>11, <3>1 DEF FlowInv
  <2>13. BranchInv'
    <3>1. ASSUME NEW p \in Places, Live(p)', At(p)'.is_mispred_cbr
          PROVE  At(p)'.op_id = last_op_id' /\ fetch_cbr_stall'
      BY <2>1, <2>3, <2>8, <3>1
    <3>2. fetch_cbr_stall' => \E p \in Places : Live(p)' /\ At(p)'.is_mispred_cbr
      BY <2>3, <2>5, <2>7
    <3> QED  BY <3>1, <3>2 DEF BranchInv
  <2> QED  BY <2>12, <2>13
<1> QED  BY <1>3, <1>4, <1>5, <1>6 DEF IF_

LEMMA StepFlow == TypeInv /\ FlowInv /\ BranchInv /\ [Next]_vars => FlowInv' /\ BranchInv'
<1> SUFFICES ASSUME TypeInv, FlowInv, BranchInv, [Next]_vars PROVE FlowInv' /\ BranchInv'
  OBVIOUS
<1>1. CASE UNCHANGED vars
  BY <1>1 DEF vars, FlowInv, BranchInv, Live, At
<1> QED  BY <1>1, WBFlow, MoveFlow, IDFlow, FetchFlow DEF Next

LEMMA InitFlow == Init => FlowInv /\ BranchInv
<1> SUFFICES ASSUME Init PROVE FlowInv /\ BranchInv
  OBVIOUS
<1>1. \A p \in Places : ~ Live(p)
  BY PlaceFacts DEF Init, Bubble, Live, At
<1>2. stat_retired_inst = 0 /\ last_op_id = 0 /\ ~ fetch_cbr_stall
  BY DEF Init
<1> QED  BY <1>1, <1>2 DEF FlowInv, BranchInv

LEMMA FlowHolds == Spec => [](TypeInv /\ FlowInv /\ BranchInv)
BY InitFlow, StepFlow, TypeHolds, PTL DEF Spec

-----------------------------------------------------------------------------
(* What InOrderProperties promises. *)

(***************************************************************************)
(* Types: every latch of the pipeline holds a bubble or an instruction of  *)
(* the trace, and no more is retired than was fetched.                     *)
(***************************************************************************)
THEOREM InOrderTypeCorrect == Spec => []InOrderTypeOK
<1>1. TypeInv /\ FlowInv => InOrderTypeOK
  <2> SUFFICES ASSUME TypeInv, FlowInv PROVE InOrderTypeOK
    OBVIOUS
  <2>1. stat_retired_inst \in 0 .. last_op_id
    BY DEF TypeInv, FlowInv
  <2>2. /\ \A k \in Keys :
               b_pred.pattern_history_table[k] \in STRONGLY_NOTTAKEN .. STRONGLY_TAKEN
        /\ b_pred.global_history_register \in Keys
    BY DEF TypeInv, BPredType
  <2> QED  BY <2>1, <2>2 DEF TypeInv, InOrderTypeOK
<1> QED  BY <1>1, FlowHolds, PTL

\* Between two cycles what is valid is live.
LEMMA ValidIsLive ==
    ASSUME stage = "WB"
    PROVE  /\ \A p \in Places : Live(p) <=> At(p).valid
           /\ \A t \in Latches : \A x : x \in Ids(t) <=>
                  \E p \in Places : p[1] = t /\ Live(p) /\ At(p).op_id = x
<1>1. \A p \in Places : Live(p) <=> At(p).valid
  BY DEF Live
<1>2. ASSUME NEW t \in Latches, NEW x, x \in Ids(t)
      PROVE  \E p \in Places : p[1] = t /\ Live(p) /\ At(p).op_id = x
  <2>1. PICK k \in Valid(t) : latch[t][k].op_id = x
    BY <1>2 DEF Ids
  <2>2. <<t, k>> \in Places /\ <<t, k>>[1] = t /\ <<t, k>>[2] = k
    BY PlaceFacts DEF Valid
  <2> QED  BY <1>1, <2>1, <2>2 DEF Valid, At
<1>3. ASSUME NEW t \in Latches, NEW x, NEW p \in Places, p[1] = t, Live(p), At(p).op_id = x
      PROVE  x \in Ids(t)
  BY <1>1, <1>3, PlaceFacts DEF Ids, Valid, At
<1> QED  BY <1>1, <1>2, <1>3

(***************************************************************************)
(* No stall of pipe_cycle_ID, no lane that pipe_cycle_IF passes over and   *)
(* no write back loses an instruction or repeats it, and the later latches *)
(* hold the older instructions, for every width, predictor and trace.      *)
(***************************************************************************)
THEOREM EveryInstructionOnceHolds == Spec => []EveryInstructionOnce
<1> SUFFICES TypeInv /\ FlowInv => EveryInstructionOnce
  BY FlowHolds, PTL
<1> SUFFICES ASSUME TypeInv, FlowInv, stage = "WB" PROVE
        /\ UNION {Ids(t) : t \in Latches} = stat_retired_inst + 1 .. last_op_id
        /\ Cardinality({p \in Latches \X Lanes : latch[p[1]][p[2]].valid})
               = last_op_id - stat_retired_inst
        /\ Older("MA_LATCH", "EX_LATCH") /\ Older("EX_LATCH", "ID_LATCH")
        /\ Older("ID_LATCH", "IF_LATCH")
  BY DEF EveryInstructionOnce
<1> DEFINE S == stat_retired_inst + 1 .. last_op_id
           P == {p \in Latches \X Lanes : latch[p[1]][p[2]].valid}
           f == [p \in P |-> At(p).op_id]
<1>1. UNION {Ids(t) : t \in Latches} = S
  <2>1. ASSUME NEW t \in Latches, NEW x \in Ids(t)
        PROVE  x \in S
    BY ValidIsLive DEF FlowInv
  <2>2. ASSUME NEW x \in S
        PROVE  \E t \in Latches : x \in Ids(t)
    <3>1. PICK p \in Places : Live(p) /\ At(p).op_id = x
      BY DEF FlowInv
    <3> QED  BY <3>1, ValidIsLive, PlaceFacts
  <2> QED  BY <2>1, <2>2
<1>2. \A p \in P : p \in Places /\ Live(p)
  BY ValidIsLive DEF Places, At
<1>3. f \in Injection(P, S) /\ f \in Surjection(P, S)
  <2>1. f \in [P -> S]
    BY <1>2 DEF FlowInv
  <2>2. ASSUME NEW p \in P, NEW q \in P, f[p] = f[q]
        PROVE  p = q
    <3>1. \A a, b \in Places : Live(a) /\ Live(b) /\ At(a).op_id = At(b).op_id => a = b
      BY DEF FlowInv
    <3> QED  BY <1>2, <2>2, <3>1
  <2>3. ASSUME NEW x \in S
        PROVE  \E p \in P : f[p] = x
    <3>1. PICK p \in Places : Live(p) /\ At(p).op_id = x
      BY DEF FlowInv
    <3>2. p \in P
      BY <3>1 DEF Places, Live, At
    <3> QED  BY <3>1, <3>2
  <2> QED  BY <2>1, <2>2, <2>3 DEF Injection, Surjection, IsInjective
<1>4. IsFiniteSet(P)
  <2>1. IsFiniteSet(Latches)
    <3>1. Latches = ((({} \cup {"IF_LATCH"}) \cup {"ID_LATCH"}) \cup {"EX_LATCH"})
                        \cup {"MA_LATCH"}
      BY DEF Latches
    <3> QED  BY <3>1, FS_EmptySet, FS_AddElement
  <2>2. IsFiniteSet(Latches \X Lanes)
    BY <2>1, LaneFacts, FS_Product
  <2> QED  BY <2>2, FS_Subset
<1>5. Cardinality(P) = last_op_id - stat_retired_inst
  <2>1. /\ stat_retired_inst \in Nat /\ last_op_id \in Nat
        /\ stat_retired_inst <= last_op_id
    BY DEF TypeInv, FlowInv
  <2> HIDE DEF P, f
  <2>2. Cardinality(S) = Cardinality(P)
    BY <1>3, <1>4, FS_Surjection
  <2>3. /\ stat_retired_inst + 1 > last_op_id => stat_retired_inst = last_op_id
        /\ stat_retired_inst + 1 \in Int /\ last_op_id \in Int
    BY <2>1
  <2>4. Cardinality(S) = IF stat_retired_inst + 1 > last_op_id THEN 0
                         ELSE last_op_id - (stat_retired_inst + 1) + 1
    BY <2>3, FS_Interval
  <2> QED  BY <2>1, <2>2, <2>3, <2>4
<1>6. ASSUME NEW t \in Latches, NEW u \in Latches, Depth(t) > Depth(u)
      PROVE  Older(t, u)
  <2> SUFFICES ASSUME NEW x \in Ids(t), NEW y \in Ids(u) PROVE x < y
    BY DEF Older
  <2>1. PICK p \in Places : p[1] = t /\ Live(p) /\ At(p).op_id = x
    BY ValidIsLive
  <2>2. PICK q \in Places : q[1] = u /\ Live(q) /\ At(q).op_id = y
    BY ValidIsLive
  <2> QED  BY <1>6, <2>1, <2>2 DEF FlowInv
<1>7. /\ Older("MA_LATCH", "EX_LATCH") /\ Older("EX_LATCH", "ID_LATCH")
      /\ Older("ID_LATCH", "IF_LATCH")
  BY <1>6, DepthFacts DEF Latches
<1> QED  BY <1>1, <1>5, <1>7

(***************************************************************************)
(* pipe_check_bpred and pipe_cycle_WB agree about fetch_cbr_stall: while   *)
(* the trace goes on it is set exactly while a mispredicted branch is in   *)
(* the pipeline, and that branch is the youngest instruction there.        *)
(***************************************************************************)
THEOREM FetchWaitsForTheBranchHolds == Spec => []FetchWaitsForTheBranch
<1> SUFFICES TypeInv /\ FlowInv /\ BranchInv => FetchWaitsForTheBranch
  BY FlowHolds, PTL
<1> SUFFICES ASSUME TypeInv, FlowInv, BranchInv, stage = "WB" PROVE
        /\ Mispredictions \subseteq {last_op_id}
        /\ ~ trace_end => (fetch_cbr_stall <=> Mispredictions # {})
  BY DEF FetchWaitsForTheBranch
<1>1. ASSUME NEW n \in Mispredictions
      PROVE  \E p \in Places : Live(p) /\ At(p).is_mispred_cbr /\ At(p).op_id = n
  <2>1. PICK t \in Latches : \E k \in Valid(t) : /\ latch[t][k].op_id = n
                                                /\ latch[t][k].is_mispred_cbr
    BY DEF Mispredictions
  <2>2. PICK k \in Valid(t) : latch[t][k].op_id = n /\ latch[t][k].is_mispred_cbr
    BY <2>1
  <2>3. <<t, k>> \in Places /\ <<t, k>>[1] = t /\ <<t, k>>[2] = k
    BY PlaceFacts DEF Valid
  <2> QED  BY <2>2, <2>3, ValidIsLive DEF Valid, At
<1>2. ASSUME NEW p \in Places, Live(p), At(p).is_mispred_cbr
      PROVE  At(p).op_id \in Mispredictions
  <2>1. p[1] \in Latches /\ p[2] \in Lanes /\ p[2] \in Valid(p[1])
    BY <1>2, PlaceFacts DEF Valid, Live, At
  <2>2. At(p).op_id \in 1 .. last_op_id
    <3>1. At(p).op_id \in stat_retired_inst + 1 .. last_op_id
      BY <1>2 DEF FlowInv
    <3> QED  BY <3>1 DEF TypeInv
  <2> QED  BY <1>2, <2>1, <2>2 DEF Mispredictions, At
<1>3. ASSUME NEW n \in Mispredictions
      PROVE  n = last_op_id /\ fetch_cbr_stall
  BY <1>1 DEF BranchInv
<1>4. ASSUME ~ trace_end, fetch_cbr_stall
      PROVE  Mispredictions # {}
  BY <1>2, <1>4 DEF BranchInv
<1> QED  BY <1>3, <1>4

(***************************************************************************)
(* The pipeline never halts before the instruction that pipe_get_fetch_op  *)
(* named has retired, although write back looks for any instruction at or  *)
(* beyond it and fetch may go on after a record that is not valid.         *)
(***************************************************************************)
THEOREM HaltsNoEarlierHolds == Spec => HaltsNoEarlier
<1>1. TypeInv /\ FlowInv /\ [Next]_vars
          => [halt' /\ ~ halt => stat_retired_inst' >= halt_op_id']_vars
  <2> SUFFICES ASSUME TypeInv, FlowInv, Next, halt', ~ halt
               PROVE  stat_retired_inst' >= halt_op_id'
    BY DEF vars
  <2>1. CASE WB
    <3> DEFINE n == stat_retired_inst + Cardinality(Valid("MA_LATCH"))
    <3>1. PICK k \in Valid("MA_LATCH") : latch["MA_LATCH"][k].op_id >= halt_op_id
      BY <2>1 DEF WB
    <3>2. Ids("MA_LATCH") = stat_retired_inst + 1 .. n /\ n \in Nat
      BY <2>1, RetiredAreOldest DEF WB
    <3>3. latch["MA_LATCH"][k].op_id \in Ids("MA_LATCH")
      BY DEF Ids
    <3>4. stat_retired_inst' = n /\ halt_op_id' = halt_op_id
      BY <2>1 DEF WB
    <3> HIDE DEF n
    <3>5. stat_retired_inst \in Nat /\ halt_op_id \in Nat
      BY MaxFacts DEF TypeInv
    <3> QED  BY <3>1, <3>2, <3>3, <3>4, <3>5
  <2>2. CASE FetchEnd
    <3>1. last_op_id = 0 /\ halt_op_id' = 0 /\ stat_retired_inst' = stat_retired_inst
      BY <2>2 DEF FetchEnd, HaltsAfter, Reads, NextLane
    <3> QED  BY <3>1 DEF TypeInv
  <2> QED
    BY <2>1, <2>2 DEF Next, MA, EX, Move, ID, IF_, FetchStalledLane, FetchNothing, FetchRecord
<1> QED  BY <1>1, FlowHolds, PTL DEF Spec, HaltsNoEarlier

-----------------------------------------------------------------------------
(***************************************************************************)
(* What gshare knows while the trace is read: the history register has the *)
(* directions of the last branches, and each entry of the table has        *)
(* learned from the branches that used it.                                 *)
(***************************************************************************)
\* n is the greatest of the numbers U.
Greatest(U, n) == n \in U /\ \A m \in U : m <= n

\* What a table entry shows of the branches U of t that used it: of the last
\* one, that it is not at the other end, and of two alike, what it predicts.
Learned(t, U, state) ==
    \A n \in U : Greatest(U, n) =>
        /\ IF t[n].br_dir THEN state > STRONGLY_NOTTAKEN ELSE state < STRONGLY_TAKEN
        /\ \A p \in U : Greatest(U \ {n}, p) /\ t[p].br_dir = t[n].br_dir =>
               (state >= WEAKLY_TAKEN) = t[n].br_dir

GshareKnows(b, t) ==
    /\ b.global_history_register = History(t, Len(t))
    /\ \A key \in Keys : Learned(t, UsesOf(t, key), b.pattern_history_table[key])

GshareInv == BPRED_POLICY = "GSHARE" /\ ~ trace_end => GshareKnows(b_pred, trace)

-----------------------------------------------------------------------------
(* One more record. *)

LEMMA LongerTrace ==
    ASSUME NEW t \in Seq(TraceRecords), NEW r \in TraceRecords
    PROVE  LET u == Append(t, r) IN
           /\ Len(t) \in Nat /\ DOMAIN t = 1 .. Len(t)
           /\ u \in Seq(TraceRecords) /\ Len(u) = Len(t) + 1 /\ DOMAIN u = 1 .. Len(t) + 1
           /\ u[Len(t) + 1] = r /\ \A n \in 1 .. Len(t) : u[n] = t[n]
           /\ Branches(t) \subseteq 1 .. Len(t)
           /\ Branches(u) = Branches(t) \cup {n \in {Len(t) + 1} : r.op_type = "OP_CBR"}
<1> DEFINE u == Append(t, r)
<1>1. /\ Len(t) \in Nat /\ DOMAIN t = 1 .. Len(t)
      /\ u \in Seq(TraceRecords) /\ Len(u) = Len(t) + 1 /\ DOMAIN u = 1 .. Len(t) + 1
      /\ u[Len(t) + 1] = r /\ \A n \in 1 .. Len(t) : u[n] = t[n]
  OBVIOUS
<1>2. 1 .. Len(t) + 1 = (1 .. Len(t)) \cup {Len(t) + 1}
  BY <1>1
<1> HIDE DEF u
<1>3. Branches(t) \subseteq 1 .. Len(t)
  BY <1>1 DEF Branches
<1>4. ASSUME NEW n
      PROVE  n \in Branches(u) <=>
                 n \in Branches(t) \/ (n = Len(t) + 1 /\ r.op_type = "OP_CBR")
  <2>1. n \in Branches(u) <=> n \in (1 .. Len(t)) \cup {Len(t) + 1} /\ u[n].op_type = "OP_CBR"
    BY <1>1, <1>2 DEF Branches
  <2>2. n \in Branches(t) <=> n \in 1 .. Len(t) /\ t[n].op_type = "OP_CBR"
    BY <1>1 DEF Branches
  <2>3. CASE n \in 1 .. Len(t)
    BY <1>1, <2>1, <2>2, <2>3
  <2>4. CASE n \notin 1 .. Len(t)
    BY <1>1, <2>1, <2>2, <2>4
  <2> QED  BY <2>3, <2>4
<1>5. Branches(u) = Branches(t) \cup {n \in {Len(t) + 1} : r.op_type = "OP_CBR"}
  BY <1>4
<1> QED  BY <1>1, <1>3, <1>5 DEF u

LEMMA AfterFinite ==
    ASSUME NEW t \in Seq(TraceRecords), NEW m, NEW n
    PROVE  IsFiniteSet(After(t, m, n)) /\ Cardinality(After(t, m, n)) \in Nat
<1>1. After(t, m, n) \subseteq 1 .. Len(t) /\ Len(t) \in Nat
  BY DEF After, Branches
<1>2. IsFiniteSet(1 .. Len(t))
  BY <1>1, FS_Interval
<1>3. IsFiniteSet(After(t, m, n))
  BY <1>1, <1>2, FS_Subset
<1> QED  BY <1>3, FS_CardinalityType

LEMMA HistoryIs ==
    ASSUME NEW t, NEW n, NEW b
    PROVE  b \in History(t, n) <=>
               /\ b \in 0 .. KEY_BITS - 1
               /\ \E m \in Branches(t) : /\ m <= n /\ t[m].br_dir
                                         /\ Cardinality(After(t, m, n)) = b
BY DEF History

LEMMA HistoryKept ==
    ASSUME NEW t \in Seq(TraceRecords), NEW r \in TraceRecords, NEW n \in 0 .. Len(t)
    PROVE  History(Append(t, r), n) = History(t, n)
<1>1. PICK u : u = Append(t, r)
  OBVIOUS
<1>2. /\ Len(t) \in Nat /\ Branches(t) \subseteq 1 .. Len(t)
      /\ \A k \in 1 .. Len(t) : u[k] = t[k]
      /\ Branches(u) = Branches(t) \cup {k \in {Len(t) + 1} : r.op_type = "OP_CBR"}
  BY <1>1, LongerTrace
<1>3. \A k : k <= n => (k \in Branches(u) <=> k \in Branches(t))
  BY <1>2
<1>4. \A m : After(u, m, n) = After(t, m, n)
  BY <1>3 DEF After
<1>5. \A m \in Branches(t) : u[m] = t[m]
  BY <1>2
<1>6. \A b : b \in History(u, n) <=> b \in History(t, n)
  BY <1>3, <1>4, <1>5, HistoryIs
<1> QED  BY <1>1, <1>6

\* A record that is no branch leaves the history as it was.
LEMMA HistoryRests ==
    ASSUME NEW t \in Seq(TraceRecords), NEW r \in TraceRecords, r.op_type # "OP_CBR"
    PROVE  History(Append(t, r), Len(t) + 1) = History(t, Len(t))
<1>1. PICK u : u = Append(t, r)
  OBVIOUS
<1>2. PICK N \in Nat : N = Len(t)
  OBVIOUS
<1>3. Branches(t) \subseteq 1 .. N /\ Branches(u) = Branches(t) /\ \A k \in 1 .. N : u[k] = t[k]
  <2>1. Branches(u) = Branches(t) \cup {n \in {Len(t) + 1} : r.op_type = "OP_CBR"}
    BY <1>1, LongerTrace
  <2>2. {n \in {Len(t) + 1} : r.op_type = "OP_CBR"} = {}
    OBVIOUS
  <2> QED  BY <1>1, <1>2, <2>1, <2>2, LongerTrace
<1>4. \A m : After(u, m, N + 1) = After(t, m, N)
  BY <1>2, <1>3 DEF After
<1>5. \A m \in Branches(t) : m <= N + 1 /\ m <= N /\ u[m] = t[m]
  BY <1>2, <1>3
<1>6. \A b : b \in History(u, N + 1) <=> b \in History(t, N)
  BY <1>3, <1>4, <1>5, HistoryIs
<1> QED  BY <1>1, <1>2, <1>6

\* A branch is shifted into it.
LEMMA HistoryMoves ==
    ASSUME NEW t \in Seq(TraceRecords), NEW r \in TraceRecords, r.op_type = "OP_CBR"
    PROVE  History(Append(t, r), Len(t) + 1) = Shifted(History(t, Len(t)), r.br_dir)
<1>1. PICK u : u = Append(t, r)
  OBVIOUS
<1>2. PICK N \in Nat : N = Len(t)
  OBVIOUS
<1>3. /\ Branches(t) \subseteq 1 .. N /\ Branches(u) = Branches(t) \cup {N + 1}
      /\ u[N + 1] = r /\ \A k \in 1 .. N : u[k] = t[k]
  BY <1>1, <1>2, LongerTrace
<1>4. PICK K \in Nat \ {0} : K = KEY_BITS
  BY BPredAssumption
<1>5. ASSUME NEW m \in Branches(t)
      PROVE  Cardinality(After(u, m, N + 1)) = Cardinality(After(t, m, N)) + 1
  <2>1. After(u, m, N + 1) = After(t, m, N) \cup {N + 1}
    BY <1>2, <1>3 DEF After
  <2>2. N + 1 \notin After(t, m, N)
    BY <1>2 DEF After
  <2> QED  BY <2>1, <2>2, AfterFinite, FS_AddElement
<1>6. Cardinality(After(u, N + 1, N + 1)) = 0
  <2>1. After(u, N + 1, N + 1) = {}
    BY <1>2, <1>3 DEF After
  <2> QED  BY <2>1, FS_EmptySet
<1>7. ASSUME NEW b
      PROVE  b \in History(u, N + 1) <=>
                 /\ b \in 0 .. K - 1
                 /\ \/ r.br_dir /\ b = 0
                    \/ \E m \in Branches(t) :
                           t[m].br_dir /\ Cardinality(After(t, m, N)) + 1 = b
  <2>1. \A m \in Branches(t) : m <= N + 1 /\ u[m] = t[m]
    BY <1>2, <1>3
  <2>2. b \in History(u, N + 1) <=>
            /\ b \in 0 .. K - 1
            /\ \E m \in Branches(u) : /\ m <= N + 1 /\ u[m].br_dir
                                      /\ Cardinality(After(u, m, N + 1)) = b
    BY <1>4, HistoryIs
  <2>3. (\E m \in Branches(u) : /\ m <= N + 1 /\ u[m].br_dir
                                /\ Cardinality(After(u, m, N + 1)) = b) <=>
            \/ r.br_dir /\ b = 0
            \/ \E m \in Branches(t) : t[m].br_dir /\ Cardinality(After(t, m, N)) + 1 = b
    <3>1. ASSUME NEW m \in Branches(u), m <= N + 1, u[m].br_dir,
                 Cardinality(After(u, m, N + 1)) = b
          PROVE  \/ r.br_dir /\ b = 0
                 \/ \E k \in Branches(t) : t[k].br_dir /\ Cardinality(After(t, k, N)) + 1 = b
      <4>1. CASE m = N + 1
        BY <1>3, <1>6, <3>1, <4>1
      <4>2. CASE m \in Branches(t)
        BY <1>5, <2>1, <3>1, <4>2
      <4> QED  BY <1>3, <4>1, <4>2
    <3>2. ASSUME r.br_dir, b = 0
          PROVE  \E m \in Branches(u) : /\ m <= N + 1 /\ u[m].br_dir
                                        /\ Cardinality(After(u, m, N + 1)) = b
      BY <1>2, <1>3, <1>6, <3>2
    <3>3. ASSUME NEW m \in Branches(t), t[m].br_dir, Cardinality(After(t, m, N)) + 1 = b
          PROVE  \E k \in Branches(u) : /\ k <= N + 1 /\ u[k].br_dir
                                        /\ Cardinality(After(u, k, N + 1)) = b
      BY <1>3, <1>5, <2>1, <3>3
    <3> QED  BY <3>1, <3>2, <3>3
  <2> QED  BY <2>2, <2>3
<1>8. ASSUME NEW b
      PROVE  b \in History(t, N) <=>
                 /\ b \in 0 .. K - 1
                 /\ \E m \in Branches(t) : t[m].br_dir /\ Cardinality(After(t, m, N)) = b
  <2>1. \A m \in Branches(t) : m <= N
    BY <1>2, <1>3
  <2> QED  BY <1>4, <2>1, HistoryIs
<1>9. ASSUME NEW b
      PROVE  b \in Shifted(History(t, N), r.br_dir) <=> b \in History(u, N + 1)
  <2>1. b \in Shifted(History(t, N), r.br_dir) <=>
            \/ b \in 0 .. K - 1 /\ \E a \in History(t, N) : b = a + 1
            \/ r.br_dir /\ b = 0
    BY <1>4 DEF Shifted
  <2>2. (b \in 0 .. K - 1 /\ \E a \in History(t, N) : b = a + 1) <=>
            /\ b \in 0 .. K - 1
            /\ \E m \in Branches(t) : t[m].br_dir /\ Cardinality(After(t, m, N)) + 1 = b
    <3>1. ASSUME b \in 0 .. K - 1, NEW a \in History(t, N), b = a + 1
          PROVE  \E m \in Branches(t) : t[m].br_dir /\ Cardinality(After(t, m, N)) + 1 = b
      BY <1>8, <3>1
    <3>2. ASSUME b \in 0 .. K - 1, NEW m \in Branches(t), t[m].br_dir,
                 Cardinality(After(t, m, N)) + 1 = b
          PROVE  \E a \in History(t, N) : b = a + 1
      <4>1. PICK a \in Nat : a = Cardinality(After(t, m, N))
        BY AfterFinite
      <4>2. a \in 0 .. K - 1 /\ b = a + 1
        BY <1>4, <3>2, <4>1
      <4> QED  BY <1>8, <3>2, <4>1, <4>2
    <3> QED  BY <3>1, <3>2
  <2>3. r.br_dir /\ b = 0 => b \in 0 .. K - 1
    BY <1>4
  <2> QED  BY <1>7, <2>1, <2>2, <2>3
<1>10. Shifted(History(t, N), r.br_dir) = History(u, N + 1)
  BY <1>9
<1> QED  BY <1>1, <1>2, <1>10

\* A branch is one more use of its entry, and of no other.
LEMMA UsesGrow ==
    ASSUME NEW t \in Seq(TraceRecords), NEW r \in TraceRecords, NEW key
    PROVE  UsesOf(Append(t, r), key) =
               UsesOf(t, key) \cup {n \in {Len(t) + 1} :
                                       /\ r.op_type = "OP_CBR"
                                       /\ KeyAfter(t, Len(t), r.inst_addr) = key}
<1>1. PICK u : u = Append(t, r)
  OBVIOUS
<1>2. PICK N \in Nat : N = Len(t)
  OBVIOUS
<1>3. /\ Branches(t) \subseteq 1 .. N
      /\ Branches(u) = Branches(t) \cup {n \in {N + 1} : r.op_type = "OP_CBR"}
      /\ u[N + 1] = r /\ \A k \in 1 .. N : u[k] = t[k]
  BY <1>1, <1>2, LongerTrace
<1>4. \A n \in 1 .. N + 1 : \A pc : KeyAfter(u, n - 1, pc) = KeyAfter(t, n - 1, pc)
  <2>1. \A n \in 1 .. N + 1 : n - 1 \in 0 .. N
    BY <1>2
  <2>2. \A n \in 1 .. N + 1 : History(u, n - 1) = History(t, n - 1)
    BY <1>1, <1>2, <2>1, HistoryKept
  <2> QED  BY <2>2 DEF KeyAfter
<1>5. ASSUME NEW n
      PROVE  n \in UsesOf(u, key) <=>
                 \/ n \in UsesOf(t, key)
                 \/ n = N + 1 /\ r.op_type = "OP_CBR" /\ KeyAfter(t, N, r.inst_addr) = key
  <2>1. CASE n \in Branches(t)
    <3>1. n \in 1 .. N + 1 /\ n # N + 1 /\ u[n] = t[n]
      BY <1>2, <1>3, <2>1
    <3>2. KeyAfter(u, n - 1, u[n].inst_addr) = KeyAfter(t, n - 1, t[n].inst_addr)
      BY <1>4, <3>1
    <3> QED  BY <1>3, <2>1, <3>1, <3>2 DEF UsesOf
  <2>2. CASE n = N + 1
    <3>1. n \in 1 .. N + 1 /\ n - 1 = N /\ n \notin Branches(t)
      BY <1>2, <1>3, <2>2
    <3>2. KeyAfter(u, n - 1, u[n].inst_addr) = KeyAfter(t, N, r.inst_addr)
      BY <1>3, <1>4, <2>2, <3>1
    <3> QED  BY <1>3, <2>2, <3>1, <3>2 DEF UsesOf
  <2>3. CASE n \notin Branches(t) /\ n # N + 1
    BY <1>3, <2>3 DEF UsesOf
  <2> QED  BY <2>1, <2>2, <2>3
<1> QED  BY <1>1, <1>2, <1>5

\* The entry that a branch has used is trained with its direction.
LEMMA LearnedMore ==
    ASSUME NEW t \in Seq(TraceRecords), NEW r \in TraceRecords, NEW key,
           NEW state \in STRONGLY_NOTTAKEN .. STRONGLY_TAKEN, Learned(t, UsesOf(t, key), state),
           r.op_type = "OP_CBR", KeyAfter(t, Len(t), r.inst_addr) = key
    PROVE  Learned(Append(t, r), UsesOf(Append(t, r), key), Trained(state, r.br_dir))
<1>1. PICK u : u = Append(t, r)
  OBVIOUS
<1>2. PICK N \in Nat : N = Len(t)
  OBVIOUS
<1>3. PICK U : U = UsesOf(t, key)
  OBVIOUS
<1>4. UsesOf(u, key) = U \cup {N + 1}
  BY <1>1, <1>2, <1>3, UsesGrow
<1>5. U \subseteq 1 .. N /\ u[N + 1] = r /\ \A k \in 1 .. N : u[k] = t[k]
  <2>1. U \subseteq Branches(t)
    BY <1>3 DEF UsesOf
  <2> QED  BY <1>1, <1>2, <2>1, LongerTrace
<1>6. PICK d \in BOOLEAN : d = r.br_dir
  BY PipelineAssumption
<1>7. PICK s : s = Trained(state, d)
  OBVIOUS
<1>8. IF d THEN s > STRONGLY_NOTTAKEN ELSE s < STRONGLY_TAKEN
  BY <1>7 DEF Trained, STRONGLY_NOTTAKEN, STRONGLY_TAKEN
<1>9. ASSUME NEW p \in U, Greatest(U, p), t[p].br_dir = d
      PROVE  (s >= WEAKLY_TAKEN) = d
  <2>1. IF d THEN state > STRONGLY_NOTTAKEN ELSE state < STRONGLY_TAKEN
    BY <1>3, <1>9 DEF Learned
  <2>2. d => s >= WEAKLY_TAKEN
    BY <1>7, <2>1 DEF Trained, STRONGLY_NOTTAKEN, STRONGLY_TAKEN, WEAKLY_TAKEN
  <2>3. ~ d => ~ (s >= WEAKLY_TAKEN)
    BY <1>7, <2>1 DEF Trained, STRONGLY_NOTTAKEN, STRONGLY_TAKEN, WEAKLY_TAKEN
  <2>4. (s >= WEAKLY_TAKEN) \in BOOLEAN
    OBVIOUS
  <2> QED  BY <1>6, <2>2, <2>3, <2>4
<1>10. ASSUME NEW n \in U \cup {N + 1}, Greatest(U \cup {N + 1}, n)
       PROVE  n = N + 1 /\ (U \cup {N + 1}) \ {n} = U
  <2>1. N + 1 <= n
    BY <1>10 DEF Greatest
  <2>2. \A k \in U : k # N + 1 /\ ~ (N + 1 <= k)
    BY <1>2, <1>5
  <2>3. n = N + 1
    BY <2>1, <2>2
  <2> QED  BY <2>2, <2>3
<1>11. Learned(u, U \cup {N + 1}, s)
  <2> SUFFICES ASSUME NEW n \in U \cup {N + 1}, Greatest(U \cup {N + 1}, n)
               PROVE  /\ IF u[n].br_dir THEN s > STRONGLY_NOTTAKEN ELSE s < STRONGLY_TAKEN
                      /\ \A p \in U \cup {N + 1} :
                             Greatest((U \cup {N + 1}) \ {n}, p) /\ u[p].br_dir = u[n].br_dir =>
                                 (s >= WEAKLY_TAKEN) = u[n].br_dir
    BY DEF Learned
  <2>1. n = N + 1 /\ (U \cup {N + 1}) \ {n} = U /\ u[n].br_dir = d
    BY <1>5, <1>6, <1>10
  <2>2. ASSUME NEW p, Greatest(U, p), u[p].br_dir = d
        PROVE  (s >= WEAKLY_TAKEN) = d
    <3>1. p \in U /\ u[p] = t[p]
      BY <1>5, <2>2 DEF Greatest
    <3> QED  BY <1>9, <2>2, <3>1
  <2> QED  BY <1>8, <2>1, <2>2
<1> QED  BY <1>1, <1>4, <1>6, <1>7, <1>11

\* Any other entry has nothing to learn.
LEMMA LearnedStill ==
    ASSUME NEW t \in Seq(TraceRecords), NEW r \in TraceRecords, NEW key, NEW state,
           Learned(t, UsesOf(t, key), state),
           ~ (r.op_type = "OP_CBR" /\ KeyAfter(t, Len(t), r.inst_addr) = key)
    PROVE  Learned(Append(t, r), UsesOf(Append(t, r), key), state)
<1>1. PICK u : u = Append(t, r)
  OBVIOUS
<1>2. PICK U : U = UsesOf(t, key)
  OBVIOUS
<1>3. UsesOf(u, key) = U
  <2>1. {n \in {Len(t) + 1} : /\ r.op_type = "OP_CBR"
                              /\ KeyAfter(t, Len(t), r.inst_addr) = key} = {}
    OBVIOUS
  <2>2. UsesOf(Append(t, r), key) =
            UsesOf(t, key) \cup {n \in {Len(t) + 1} :
                                    /\ r.op_type = "OP_CBR"
                                    /\ KeyAfter(t, Len(t), r.inst_addr) = key}
    BY UsesGrow
  <2> QED  BY <1>1, <1>2, <2>1, <2>2
<1>4. \A n \in U : u[n] = t[n]
  <2>1. U \subseteq Branches(t)
    BY <1>2 DEF UsesOf
  <2> QED  BY <1>1, <2>1, LongerTrace
<1>5. Learned(u, U, state)
  BY <1>2, <1>4 DEF Learned
<1> QED  BY <1>1, <1>3, <1>5

LEMMA NewKnows == GshareKnows(BPredNew, <<>>)
<1>1. Branches(<<>>) = {}
  BY DEF Branches
<1>2. History(<<>>, 0) = {}
  BY <1>1 DEF History
<1>3. \A key : UsesOf(<<>>, key) = {}
  BY <1>1 DEF UsesOf
<1>4. \A key, state : Learned(<<>>, UsesOf(<<>>, key), state)
  BY <1>3 DEF Learned
<1>5. Len(<<>>) = 0 /\ BPredNew.global_history_register = {}
  BY DEF BPredNew
<1> QED  BY <1>2, <1>4, <1>5 DEF GshareKnows

\* What update does with the two parts of the predictor that gshare uses.
LEMMA UpdateIs ==
    ASSUME NEW b \in BPredType, NEW pc \in Keys, NEW pred, NEW taken \in BOOLEAN
    PROVE  LET c == update("GSHARE", b, pc, pred, taken)
               key == get_pht_key(b, pc) IN
           /\ c.global_history_register = Shifted(b.global_history_register, taken)
           /\ \A k \in Keys : c.pattern_history_table[k] =
                  IF k = key THEN Trained(b.pattern_history_table[k], taken)
                  ELSE b.pattern_history_table[k]
           /\ key \in Keys
<1>1. PICK key : key = get_pht_key(b, pc)
  OBVIOUS
<1>2. key \in Keys
  BY <1>1 DEF get_pht_key, BPredType, Keys
<1>3. PICK counted :
          counted = [b EXCEPT !.stat_num_branches = sat_increment(@),
                              !.stat_num_mispred = IF pred # taken
                                                   THEN sat_increment(@) ELSE @]
  OBVIOUS
<1>4. /\ counted.global_history_register = b.global_history_register
      /\ counted.pattern_history_table = b.pattern_history_table
      /\ counted \in [{"pattern_history_table", "global_history_register",
                       "stat_num_branches", "stat_num_mispred"} ->
                      {counted[f] : f \in {"pattern_history_table", "global_history_register",
                                           "stat_num_branches", "stat_num_mispred"}}]
  BY <1>3 DEF BPredType
<1>5. update("GSHARE", b, pc, pred, taken) =
          [counted EXCEPT !.pattern_history_table[key] = Trained(@, taken),
                          !.global_history_register = Shifted(@, taken)]
  BY <1>1, <1>3 DEF update
<1>6. PICK c : c = update("GSHARE", b, pc, pred, taken)
  OBVIOUS
<1>7. /\ c.global_history_register = Shifted(b.global_history_register, taken)
      /\ c.pattern_history_table =
             [b.pattern_history_table EXCEPT ![key] = Trained(@, taken)]
  BY <1>4, <1>5, <1>6
<1>8. DOMAIN b.pattern_history_table = Keys
  BY DEF BPredType
<1> QED  BY <1>1, <1>2, <1>6, <1>7, <1>8

\* A branch is told to the predictor when its record is appended.
LEMMA KnowsMore ==
    ASSUME NEW t \in Seq(TraceRecords), NEW r \in TraceRecords, NEW b \in BPredType, NEW pred,
           GshareKnows(b, t)
    PROVE  GshareKnows(IF r.op_type = "OP_CBR"
                       THEN update("GSHARE", b, r.inst_addr, pred, r.br_dir) ELSE b,
                       Append(t, r))
<1>1. PICK u : u = Append(t, r)
  OBVIOUS
<1>2. Len(u) = Len(t) + 1
  BY <1>1
<1>3. CASE r.op_type # "OP_CBR"
  <2>1. b.global_history_register = History(u, Len(u))
    BY <1>1, <1>2, <1>3, HistoryRests DEF GshareKnows
  <2>2. \A key \in Keys : Learned(u, UsesOf(u, key), b.pattern_history_table[key])
    BY <1>1, <1>3, LearnedStill DEF GshareKnows
  <2> QED  BY <1>1, <1>3, <2>1, <2>2 DEF GshareKnows
<1>4. CASE r.op_type = "OP_CBR"
  <2>1. r.inst_addr \in Keys /\ r.br_dir \in BOOLEAN
    BY PipelineAssumption
  <2>2. PICK c : c = update("GSHARE", b, r.inst_addr, pred, r.br_dir)
    OBVIOUS
  <2>3. PICK key : key = get_pht_key(b, r.inst_addr)
    OBVIOUS
  <2>4. /\ c.global_history_register = Shifted(b.global_history_register, r.br_dir)
        /\ \A k \in Keys : c.pattern_history_table[k] =
               IF k = key THEN Trained(b.pattern_history_table[k], r.br_dir)
               ELSE b.pattern_history_table[k]
    BY <2>1, <2>2, <2>3, UpdateIs
  <2>5. c.global_history_register = History(u, Len(u))
    BY <1>1, <1>2, <1>4, <2>4, HistoryMoves DEF GshareKnows
  <2>6. key = KeyAfter(t, Len(t), r.inst_addr)
    BY <2>3 DEF get_pht_key, KeyAfter, GshareKnows
  <2>7. ASSUME NEW k \in Keys PROVE Learned(u, UsesOf(u, k), c.pattern_history_table[k])
    <3>1. Learned(t, UsesOf(t, k), b.pattern_history_table[k])
      BY DEF GshareKnows
    <3>2. b.pattern_history_table[k] \in STRONGLY_NOTTAKEN .. STRONGLY_TAKEN
      BY DEF BPredType
    <3>3. CASE k = key
      BY <1>1, <1>4, <2>4, <2>6, <3>1, <3>2, <3>3, LearnedMore
    <3>4. CASE k # key
      BY <1>1, <2>4, <2>6, <3>1, <3>4, LearnedStill
    <3> QED  BY <3>3, <3>4
  <2>8. GshareKnows(c, u)
    BY <2>5, <2>7 DEF GshareKnows
  <2> QED  BY <1>1, <1>4, <2>2, <2>8
<1> QED  BY <1>3, <1>4

LEMMA StepKnows == TypeInv /\ GshareInv /\ [Next]_vars => GshareInv'
<1> SUFFICES ASSUME TypeInv, GshareInv, [Next]_vars, BPRED_POLICY' = "GSHARE", ~ trace_end'
             PROVE  GshareKnows(b_pred', trace')
  BY DEF GshareInv
<1>1. CASE UNCHANGED <<options, b_pred, trace, trace_end>>
  BY <1>1 DEF GshareInv, options
<1>2. CASE FetchRecord
  <2>1. PICK rec \in TraceRecords : trace' = Append(trace, rec) /\ pipe_check_bpred(rec)
    BY <1>2 DEF FetchRecord
  <2>2. BPRED_POLICY = "GSHARE" /\ ~ trace_end
    BY <1>2 DEF FetchRecord, Reads, NextLane, options
  <2>3. b_pred' = IF rec.op_type = "OP_CBR"
                  THEN update("GSHARE", b_pred, rec.inst_addr,
                              predict("GSHARE", b_pred, rec.inst_addr), rec.br_dir)
                  ELSE b_pred
    BY <2>1, <2>2 DEF pipe_check_bpred, Checked
  <2> QED  BY <2>1, <2>2, <2>3, KnowsMore DEF GshareInv, TypeInv
<1>3. CASE FetchEnd
  <2>1. ~ trace_end /\ UNCHANGED <<options, trace>>
    BY <1>3 DEF FetchEnd, Reads, NextLane
  <2>2. PICK rec \in TraceRecords \cup {NoRec} : rec = NoRec /\ pipe_check_bpred(rec)
    BY <1>3 DEF FetchEnd
  <2>3. b_pred' = b_pred
    BY <2>2 DEF pipe_check_bpred, Checked, NoRec
  <2> QED  BY <2>1, <2>3 DEF GshareInv, options
<1>4. CASE UNCHANGED vars
  BY <1>1, <1>4 DEF vars
<1>5. CASE WB \/ MA \/ EX \/ ID
  BY <1>1, <1>5 DEF WB, MA, EX, ID, Move
<1>6. CASE FetchStalledLane \/ FetchNothing
  BY <1>1, <1>6 DEF FetchStalledLane, FetchNothing, NextLane
<1> QED  BY <1>2, <1>3, <1>4, <1>5, <1>6 DEF Next, IF_

\* The two last elements of a set of numbers, as the property names them.
LEMMA GreatestIs ==
    ASSUME NEW N \in Nat, NEW U \in SUBSET (0 .. N), U # {}
    PROVE  Greatest(U, Max(U))
<1>1. PICK z \in {N - n : n \in U} : \A y \in {N - n : n \in U} : z <= y
  <2>1. \A n \in U : N - n \in Nat
    OBVIOUS
  <2>2. {N - n : n \in U} \in SUBSET Nat
    BY <2>1
  <2>3. {N - n : n \in U} # {}
    OBVIOUS
  <2> QED  BY <2>2, <2>3, FirstExists
<1>2. PICK x \in U : z = N - x
  BY <1>1
<1>3. \A y \in U : x >= y
  <2>1. \A y \in U : N - x <= N - y
    BY <1>1, <1>2
  <2> QED  BY <2>1
<1>4. PICK m : m = Max(U)
  OBVIOUS
<1>5. m \in U /\ \A y \in U : m >= y
  BY <1>3, <1>4 DEF Max
<1> QED  BY <1>4, <1>5 DEF Greatest

\* Before the end of the trace gshare predicts for each address the direction of
\* the last two branches that had its key, if that was the same, for every width of
\* the key (BPred::update trains the entry that was used to predict).
THEOREM GshareLearnsHolds == Spec => []GshareLearns
<1>1. Init => GshareInv
  BY NewKnows DEF Init, GshareInv
<1>2. TypeInv /\ GshareInv => GshareLearns
  <2> SUFFICES ASSUME TypeInv, GshareInv, BPRED_POLICY = "GSHARE", ~ trace_end,
                      NEW r \in TraceRecords
               PROVE  LET pc == r.inst_addr
                          uses == UsesOf(trace, KeyAfter(trace, Len(trace), pc))
                          last == Max(uses)
                          prev == Max(uses \ {last})
                      IN  Cardinality(uses) >= 2 /\ trace[last].br_dir = trace[prev].br_dir
                          => predict(BPRED_POLICY, b_pred, pc) = trace[last].br_dir
    BY DEF GshareLearns
  <2>1. PICK key : key = KeyAfter(trace, Len(trace), r.inst_addr)
    OBVIOUS
  <2>2. PICK U : U = UsesOf(trace, key)
    OBVIOUS
  <2>3. PICK last, prev : last = Max(U) /\ prev = Max(U \ {last})
    OBVIOUS
  <2> SUFFICES ASSUME Cardinality(U) >= 2, trace[last].br_dir = trace[prev].br_dir
               PROVE  predict("GSHARE", b_pred, r.inst_addr) = trace[last].br_dir
    BY <2>1, <2>2, <2>3
  <2>4. PICK N \in Nat : N = Len(trace)
    BY DEF TypeInv
  <2>5. U \in SUBSET (0 .. N)
    BY <2>2, <2>4 DEF UsesOf, Branches, TypeInv
  <2>6. U # {} /\ U \ {last} # {}
    <3>1. U # {}
      BY FS_EmptySet
    <3>2. U # {last}
      BY FS_Singleton
    <3> QED  BY <3>1, <3>2
  <2>7. Greatest(U, last) /\ Greatest(U \ {last}, prev)
    <3>1. U \ {last} \in SUBSET (0 .. N)
      BY <2>5
    <3> QED  BY <2>3, <2>5, <2>6, <3>1, GreatestIs
  <2>8. key = get_pht_key(b_pred, r.inst_addr) /\ key \in Keys
    <3>1. key = get_pht_key(b_pred, r.inst_addr)
      BY <2>1 DEF GshareInv, GshareKnows, get_pht_key, KeyAfter
    <3>2. r.inst_addr \in Keys /\ b_pred.global_history_register \in Keys
      BY PipelineAssumption DEF TypeInv, BPredType
    <3> QED  BY <3>1, <3>2 DEF get_pht_key, Keys
  <2>9. Learned(trace, U, b_pred.pattern_history_table[key])
    BY <2>2, <2>8 DEF GshareInv, GshareKnows
  <2>10. (b_pred.pattern_history_table[key] >= WEAKLY_TAKEN) = trace[last].br_dir
    BY <2>7, <2>9 DEF Learned, Greatest
  <2> QED  BY <2>8, <2>10 DEF predict
<1> QED  BY <1>1, <1>2, StepKnows, TypeHolds, PTL DEF Spec

-----------------------------------------------------------------------------
(* The instruction that has to retire next is on its way. *)

\* Which lanes stall for an operand: those that do not see the lanes before them
\* that have become bubbles.
LEMMA StalledAmongIs ==
    ASSUME NEW k \in Lanes
    PROVE  /\ StalledAmong \subseteq Lanes
           /\ \E gone \in SUBSET StalledAmong :
                  k \in StalledAmong <=> In[k].valid /\ ShouldStall(k, gone)
<1> DEFINE Among(n, R) == R \cup {j \in {n - 1} : In[j].valid /\ ShouldStall(j, R)}
           Fits(g, m) == g = [n \in 0 .. m |-> IF n = 0 THEN {} ELSE Among(n, g[n - 1])]
           Bad == {m \in 0 .. PIPE_WIDTH : ~ \E g : Fits(g, m)}
           S == CHOOSE g : Fits(g, PIPE_WIDTH)
<1>1. PIPE_WIDTH \in Nat
  BY PipelineAssumption
<1>2. Bad = {}
  <2> SUFFICES ASSUME Bad # {} PROVE FALSE
    OBVIOUS
  <2>1. PICK t \in Bad : \A u \in Bad : t <= u
    <3>1. Bad \in SUBSET Nat
      BY <1>1
    <3> HIDE DEF Bad
    <3> QED  BY <3>1, FirstExists
  <2>2. t \in 0 .. PIPE_WIDTH /\ \A m \in 0 .. PIPE_WIDTH : m < t => \E g : Fits(g, m)
    <3> HIDE DEF Fits
    <3>1. t \in 0 .. PIPE_WIDTH
      OBVIOUS
    <3>2. ASSUME NEW m \in 0 .. PIPE_WIDTH, m < t PROVE \E g : Fits(g, m)
      <4>1. m \notin Bad
        BY <1>1, <2>1, <3>1, <3>2
      <4> QED  BY <4>1
    <3> QED  BY <3>1, <3>2
  <2> HIDE DEF Among
  <2>3. t # 0
    <3>1. Fits([n \in 0 .. 0 |-> {}], 0)
      OBVIOUS
    <3> QED  BY <2>1, <3>1
  <2>4. t - 1 \in 0 .. PIPE_WIDTH /\ t - 1 < t
    BY <1>1, <2>2, <2>3
  <2>5. PICK g : Fits(g, t - 1)
    BY <2>2, <2>4
  <2> DEFINE h == [n \in 0 .. t |-> IF n = t THEN Among(t, g[t - 1]) ELSE g[n]]
  <2>6. ASSUME NEW n \in 0 .. t
        PROVE  h[n] = IF n = 0 THEN {} ELSE Among(n, h[n - 1])
    <3>1. CASE n = t
      BY <2>2, <2>3, <3>1
    <3>2. CASE n # t
      <4>1. n \in 0 .. t - 1 /\ h[n] = g[n]
        BY <2>2, <3>2
      <4>2. n # 0 => n - 1 \in 0 .. t /\ n - 1 # t /\ h[n - 1] = g[n - 1]
        BY <2>2, <3>2
      <4>3. g[n] = IF n = 0 THEN {} ELSE Among(n, g[n - 1])
        BY <2>5, <4>1
      <4> QED  BY <4>1, <4>2, <4>3
    <3> QED  BY <3>1, <3>2
  <2>7. Fits(h, t)
    BY <2>6
  <2> QED  BY <2>1, <2>7
<1>3. Fits(S, PIPE_WIDTH)
  <2> HIDE DEF Fits
  <2>1. PIPE_WIDTH \in 0 .. PIPE_WIDTH
    BY <1>1
  <2>2. \E g : Fits(g, PIPE_WIDTH)
    BY <1>2, <2>1
  <2> QED  BY <2>2
<1>4. StalledAmong = S[PIPE_WIDTH]
  BY DEF StalledAmong
<1> HIDE DEF S, Bad
<1>5. /\ S[0] = {}
      /\ \A n \in 1 .. PIPE_WIDTH : S[n] = Among(n, S[n - 1])
  <2>1. \A n \in 0 .. PIPE_WIDTH : S[n] = IF n = 0 THEN {} ELSE Among(n, S[n - 1])
    BY <1>3
  <2> HIDE DEF Among
  <2> QED  BY <1>1, <2>1
<1> HIDE DEF Fits, Among
<1>6. ASSUME NEW m \in 0 .. PIPE_WIDTH, NEW n \in 0 .. m
      PROVE  S[n] \subseteq S[m]
  <2> DEFINE Lost == {u \in n .. PIPE_WIDTH : ~ (S[n] \subseteq S[u])}
  <2> SUFFICES ASSUME Lost # {} PROVE FALSE
    BY <1>1
  <2>1. PICK t \in Lost : \A u \in Lost : t <= u
    <3>1. Lost \in SUBSET Nat
      BY <1>1
    <3> HIDE DEF Lost
    <3> QED  BY <3>1, FirstExists
  <2>2. t \in n .. PIPE_WIDTH /\ ~ (S[n] \subseteq S[t]) /\ t # n
    BY <2>1
  <2>3. t \in 1 .. PIPE_WIDTH /\ t - 1 \in n .. PIPE_WIDTH /\ ~ (t <= t - 1)
    BY <1>1, <2>2
  <2>4. S[n] \subseteq S[t - 1]
    BY <2>1, <2>3
  <2> QED  BY <1>5, <2>2, <2>3, <2>4 DEF Among
<1>7. k \in Nat /\ k \in 0 .. PIPE_WIDTH /\ k + 1 \in 1 .. PIPE_WIDTH /\ (k + 1) - 1 = k
  BY <1>1, LaneFacts
<1>8. S[k + 1] = S[k] \cup {j \in {k} : In[j].valid /\ ShouldStall(j, S[k])}
  BY <1>5, <1>7 DEF Among
<1>9. ASSUME k \in S[PIPE_WIDTH]
      PROVE  In[k].valid /\ ShouldStall(k, S[k])
  <2> DEFINE Had == {n \in 0 .. PIPE_WIDTH : k \in S[n]}
  <2>1. PICK t \in Had : \A u \in Had : t <= u
    <3>1. Had \in SUBSET Nat /\ Had # {}
      BY <1>1, <1>9
    <3> HIDE DEF Had
    <3> QED  BY <3>1, FirstExists
  <2>2. t \in 1 .. PIPE_WIDTH /\ k \in S[t]
    BY <1>1, <1>5, <2>1
  <2>3. k \notin S[t - 1]
    BY <1>1, <2>1, <2>2
  <2>4. k = t - 1 /\ In[k].valid /\ ShouldStall(k, S[t - 1])
    BY <1>5, <2>2, <2>3 DEF Among
  <2> QED  BY <2>4
<1>10. ASSUME In[k].valid, ShouldStall(k, S[k])
       PROVE  k \in S[PIPE_WIDTH]
  <2>1. k \in S[k + 1]
    BY <1>8, <1>10
  <2>2. k + 1 \in 0 .. PIPE_WIDTH /\ PIPE_WIDTH \in 0 .. PIPE_WIDTH
    BY <1>1, <1>7
  <2> QED  BY <1>6, <2>1, <2>2
<1>11. S[k] \in SUBSET S[PIPE_WIDTH]
  <2>1. PIPE_WIDTH \in 0 .. PIPE_WIDTH
    BY <1>1
  <2> QED  BY <1>6, <1>7, <2>1
<1>12. S[PIPE_WIDTH] \subseteq Lanes
  <2> DEFINE Out == {n \in 0 .. PIPE_WIDTH : ~ (S[n] \subseteq Lanes)}
  <2> SUFFICES ASSUME Out # {} PROVE FALSE
    BY <1>1
  <2>1. PICK t \in Out : \A u \in Out : t <= u
    <3>1. Out \in SUBSET Nat
      BY <1>1
    <3> HIDE DEF Out
    <3> QED  BY <3>1, FirstExists
  <2>2. t \in 1 .. PIPE_WIDTH /\ t - 1 \in 0 .. PIPE_WIDTH /\ ~ (t <= t - 1)
    BY <1>1, <1>5, <2>1
  <2>3. S[t - 1] \subseteq Lanes /\ t - 1 \in Lanes
    BY <1>1, <2>1, <2>2 DEF Lanes
  <2> QED  BY <1>5, <2>1, <2>2, <2>3 DEF Among
<1> QED  BY <1>4, <1>9, <1>10, <1>11, <1>12

\* A lane that stalls for an operand is valid, and a producer is what it waits for.
LEMMA StalledAmongFacts ==
    ASSUME NEW k \in Lanes, k \in StalledAmong
    PROVE  In[k].valid /\ \E gone : ShouldStall(k, gone)
BY StalledAmongIs

LEMMA StalledAmongType == StalledAmong \subseteq Lanes
<1>1. 0 \in Lanes
  BY PipelineAssumption DEF Lanes
<1> QED  BY <1>1, StalledAmongIs

Oldest(p) == Live(p) /\ At(p).op_id = stat_retired_inst + 1

\* It has nothing to wait for.
LEMMA OldestGoesOn ==
    ASSUME TypeInv, FlowInv, stage = "ID", NEW k \in Lanes, Oldest(<<"IF_LATCH", k>>)
    PROVE  k \notin Stalled
<1> SUFFICES ASSUME k \in Stalled PROVE FALSE
  OBVIOUS
<1>1. /\ \A t \in Latches, j \in Lanes :
             Live(<<t, j>>) <=> latch[t][j].valid /\ t # "ID_LATCH"
      /\ \A t \in Latches, j \in Lanes :
             At(<<t, j>>) = latch[t][j] /\ <<t, j>> \in Places /\ <<t, j>>[1] = t
  BY PlaceFacts DEF Live, At, Latches
<1>2. ASSUME NEW t \in Latches, NEW j \in Lanes, latch[t][j].valid, t # "ID_LATCH"
      PROVE  /\ latch[t][j].op_id >= stat_retired_inst + 1 /\ latch[t][j].op_id \in Nat
             /\ t = "IF_LATCH" \/ latch[t][j].op_id < stat_retired_inst + 1
  <2>1. Live(<<t, j>>) /\ At(<<t, j>>) = latch[t][j] /\ <<t, j>> \in Places /\ <<t, j>>[1] = t
    BY <1>1, <1>2
  <2>2. latch[t][j].op_id \in stat_retired_inst + 1 .. last_op_id
    BY <2>1 DEF FlowInv
  <2>3. CASE t # "IF_LATCH"
    <3>1. <<"IF_LATCH", k>> \in Places /\ <<"IF_LATCH", k>>[1] = "IF_LATCH"
      BY PlaceFacts DEF Latches
    <3>2. Depth(t) > Depth("IF_LATCH")
      BY <1>2, <2>3, DepthFacts DEF Latches
    <3>3. At(<<t, j>>).op_id < At(<<"IF_LATCH", k>>).op_id
      BY <2>1, <3>1, <3>2 DEF FlowInv, Oldest
    <3> QED  BY <2>1, <2>2, <3>3 DEF Oldest, TypeInv
  <2> QED  BY <2>2, <2>3 DEF TypeInv
<1>3. In[k].op_id = stat_retired_inst + 1 /\ In[k].valid /\ stat_retired_inst \in Nat
  BY <1>1 DEF Oldest, In, Latches, TypeInv
<1>4. ASSUME NEW j \in Lanes, In[j].valid
      PROVE  ~ In[k].op_id > In[j].op_id
  BY <1>2, <1>3, <1>4 DEF In, Latches
<1>5. k \in StalledAmong
  <2>1. ASSUME NEW j \in Lanes, j \in StalledAmong
        PROVE  ~ In[k].op_id > In[j].op_id
    BY <1>4, <2>1, StalledAmongFacts
  <2> QED  BY <2>1 DEF Stalled
<1>6. PICK gone : ShouldStall(k, gone)
  BY <1>5, StalledAmongFacts
<1>7. PICK r : Producers(k, r, gone) # {}
  BY <1>6 DEF ShouldStall
<1>8. \A t \in {"MA_LATCH", "EX_LATCH"}, j \in Lanes : ~ latch[t][j].valid
  <2> SUFFICES ASSUME NEW t \in {"MA_LATCH", "EX_LATCH"}, NEW j \in Lanes, latch[t][j].valid
               PROVE  FALSE
    OBVIOUS
  <2>1. t \in Latches /\ t # "ID_LATCH" /\ t # "IF_LATCH"
    BY DEF Latches
  <2> QED  BY <1>2, <1>3, <2>1
<1>9. Producers(k, r, gone) = {}
  <2>1. \A p \in {"MA_LATCH", "EX_LATCH"} \X Lanes : ~ Writes(latch[p[1]][p[2]], r)
    BY <1>8 DEF Writes
  <2>2. \A j \in Lanes : ~ (Writes(In[j], r) /\ In[j].op_id < In[k].op_id)
    <3>1. \A j \in Lanes : In[j].valid => In[j].op_id \in Nat /\ In[j].op_id >= In[k].op_id
      BY <1>2, <1>3 DEF In, Latches
    <3> QED  BY <1>3, <3>1 DEF Writes
  <2> QED  BY <2>1, <2>2 DEF Producers
<1> QED  BY <1>7, <1>9

\* Where what is live after one of the stages before fetch was before it.
LEMMA CameFrom ==
    ASSUME TypeInv, Next, stage # "IF", NEW p \in Places, Live(p)'
    PROVE  \E q \in Places :
               /\ Live(q) /\ At(q).op_id = At(p)'.op_id
               /\ At(q).trace_rec = At(p)'.trace_rec
               /\ At(q).is_mispred_cbr = At(p)'.is_mispred_cbr
               /\ stage = "WB" => q = p
               /\ stage = "MA" => q[1] = (IF p[1] = "MA_LATCH" THEN "EX_LATCH" ELSE p[1])
               /\ stage = "EX" => q[1] = (IF p[1] = "EX_LATCH" THEN "ID_LATCH" ELSE p[1])
               /\ stage = "ID" =>
                      IF p[1] \in {"IF_LATCH", "ID_LATCH"}
                      THEN q = <<"IF_LATCH", p[2]>> /\ (p[1] = "IF_LATCH" => p[2] \in Stalled)
                      ELSE q = p
<1>1. p[1] \in Latches /\ p[2] \in Lanes
  BY PlaceFacts
<1>2. CASE WB
  BY <1>2 DEF WB, Live, At
<1>3. CASE MA
  <2> DEFINE q == IF p[1] = "MA_LATCH" THEN <<"EX_LATCH", p[2]>> ELSE p
  <2>1. /\ stage = "MA" /\ stage' = "EX" /\ p[1] # "EX_LATCH" /\ UNCHANGED <<stall, lane>>
        /\ latch' = [latch EXCEPT !["MA_LATCH"] = latch["EX_LATCH"]]
    BY <1>3 DEF MA, Move, Live
  <2>2. q \in Places /\ q[2] = p[2] /\ q[1] = IF p[1] = "MA_LATCH" THEN "EX_LATCH" ELSE p[1]
    BY <1>1, PlaceFacts DEF Latches
  <2> HIDE DEF q
  <2>3. At(p)' = At(q)
    BY <1>1, <2>1, <2>2 DEF At, TypeInv
  <2>4. Live(q)
    BY <1>1, <2>1, <2>2, <2>3 DEF Live
  <2> QED  BY <2>1, <2>2, <2>3, <2>4
<1>4. CASE EX
  <2> DEFINE q == IF p[1] = "EX_LATCH" THEN <<"ID_LATCH", p[2]>> ELSE p
  <2>1. /\ stage = "EX" /\ stage' = "ID" /\ p[1] # "ID_LATCH" /\ UNCHANGED <<stall, lane>>
        /\ latch' = [latch EXCEPT !["EX_LATCH"] = latch["ID_LATCH"]]
    BY <1>4 DEF EX, Move, Live
  <2>2. q \in Places /\ q[2] = p[2] /\ q[1] = IF p[1] = "EX_LATCH" THEN "ID_LATCH" ELSE p[1]
    BY <1>1, PlaceFacts DEF Latches
  <2> HIDE DEF q
  <2>3. At(p)' = At(q)
    BY <1>1, <2>1, <2>2 DEF At, TypeInv
  <2>4. Live(q)
    BY <1>1, <2>1, <2>2, <2>3 DEF Live
  <2> QED  BY <2>1, <2>2, <2>3, <2>4
<1>5. CASE ID
  <2>1. /\ stage = "ID" /\ stage' = "IF" /\ lane' = 0
        /\ stall' = [k \in Lanes |-> k \in Stalled]
        /\ \A k \in Lanes, t \in Latches \ {"ID_LATCH"} : latch'[t][k] = latch[t][k]
        /\ \A k \in Lanes : latch'["ID_LATCH"][k] = IF k \in Stalled
                                THEN [In[k] EXCEPT !.valid = FALSE] ELSE In[k]
    BY <1>5 DEF ID, TypeInv, Latches
  <2> DEFINE q == <<"IF_LATCH", p[2]>>
  <2>2. q \in Places /\ q[1] = "IF_LATCH" /\ q[2] = p[2]
    BY <1>1, PlaceFacts DEF Latches
  <2> HIDE DEF q
  <2>3. CASE p[1] = "ID_LATCH"
    <3>1. In[p[2]] \in LatchType
      BY <1>1 DEF In, TypeInv, Latches
    <3>2. At(p)' = IF p[2] \in Stalled THEN [In[p[2]] EXCEPT !.valid = FALSE] ELSE In[p[2]]
      BY <1>1, <2>1, <2>3 DEF At
    <3>3. /\ At(p)'.valid => In[p[2]].valid
          /\ At(p)'.op_id = In[p[2]].op_id /\ At(p)'.trace_rec = In[p[2]].trace_rec
          /\ At(p)'.is_mispred_cbr = In[p[2]].is_mispred_cbr
      BY <3>1, <3>2 DEF LatchType
    <3>4. /\ Live(q) /\ At(q).op_id = At(p)'.op_id
          /\ At(q).trace_rec = At(p)'.trace_rec
          /\ At(q).is_mispred_cbr = At(p)'.is_mispred_cbr
      BY <2>1, <2>2, <3>3 DEF Live, At, In
    <3> QED  BY <2>1, <2>2, <2>3, <3>4 DEF q
  <2>4. CASE p[1] = "IF_LATCH"
    <3>1. p = q /\ At(p)' = At(p)
      BY <1>1, <2>1, <2>2, <2>4, PlaceFacts DEF At
    <3>2. p[2] \in Stalled
      <4>1. \A k \in Lanes : ~ k < 0
        BY DEF Lanes
      <4> QED  BY <1>1, <2>1, <2>4, <4>1 DEF Live
    <3>3. Live(q)
      BY <2>1, <2>2, <3>1 DEF Live
    <3> QED  BY <2>1, <2>2, <2>4, <3>1, <3>2, <3>3 DEF q
  <2>5. CASE p[1] \notin {"ID_LATCH", "IF_LATCH"}
    BY <1>1, <2>1, <2>5 DEF Live, At
  <2> QED  BY <2>3, <2>4, <2>5
<1> QED
  BY <1>2, <1>3, <1>4, <1>5
  DEF Next, IF_, FetchStalledLane, FetchNothing, FetchRecord, FetchEnd, Reads, NextLane

\* What a step of fetch does to the instructions.
LEMMA FetchCases ==
    ASSUME TypeInv, FlowInv, IF_
    PROVE  /\ NextLane
           /\ \/ /\ ~ FetchRecord
                 /\ last_op_id' = last_op_id
                 /\ \A p \in Places : (Live(p)' <=> Live(p)) /\ (Live(p) => At(p)' = At(p))
              \/ /\ FetchRecord
                 /\ last_op_id' = last_op_id + 1
                 /\ \A p \in Places : p # FetchPlace =>
                        (Live(p)' <=> Live(p)) /\ (Live(p) => At(p)' = At(p))
                 /\ \A p \in Places : p = FetchPlace =>
                        Live(p)' /\ ~ Live(p) /\ At(p)'.op_id = last_op_id + 1
                 /\ FetchPlace \in Places /\ FetchPlace[1] = "IF_LATCH"
           /\ \A k \in Lanes : stall[k] => latch'["IF_LATCH"][k] = latch["IF_LATCH"][k]
<1>1. NextLane
  BY DEF IF_, FetchStalledLane, FetchNothing, FetchRecord, FetchEnd, Reads
<1>2. FetchPlace \in Places /\ FetchPlace[1] = "IF_LATCH" /\ FetchPlace[2] = lane
  BY <1>1, NextLaneType, PlaceFacts DEF FetchPlace, Latches
<1>3. ASSUME NEW l, latch' = [latch EXCEPT !["IF_LATCH"][lane] = l]
      PROVE  /\ latch'["IF_LATCH"][lane] = l
             /\ \A p \in Places \ {FetchPlace} : At(p)' = At(p)
             /\ \A k \in Lanes : k # lane => latch'["IF_LATCH"][k] = latch["IF_LATCH"][k]
  <2>1. lane \in Lanes /\ latch \in [Latches -> [Lanes -> LatchType]] /\ "IF_LATCH" \in Latches
    BY <1>1, NextLaneType DEF TypeInv, Latches
  <2>2. \A t \in Latches, k \in Lanes :
            latch'[t][k] = IF t = "IF_LATCH" /\ k = lane THEN l ELSE latch[t][k]
    BY <1>3, <2>1
  <2>3. ASSUME NEW p \in Places \ {FetchPlace}
        PROVE  p[1] \in Latches /\ p[2] \in Lanes /\ ~ (p[1] = "IF_LATCH" /\ p[2] = lane)
    BY <1>2, PlaceFacts
  <2> QED  BY <2>1, <2>2, <2>3 DEF At
<1>4. CASE FetchStalledLane
  <2>1. stall[lane] /\ latch' = latch /\ last_op_id' = last_op_id
    BY <1>4 DEF FetchStalledLane
  <2>2. \A p \in Places : At(p)' = At(p)
    BY <2>1 DEF At
  <2>3. \A p \in Places : (Live(p)' <=> Live(p)) /\ (Live(p) => At(p)' = At(p))
    BY <1>1, <2>1, <2>2, FetchKept
  <2>4. ~ FetchRecord
    BY <2>1 DEF FetchRecord, Reads
  <2> QED  BY <1>1, <2>1, <2>3, <2>4
<1>5. CASE FetchNothing
  <2> DEFINE l == [latch["IF_LATCH"][lane] EXCEPT !.valid = FALSE]
  <2>1. /\ ~ stall[lane] /\ last_op_id' = last_op_id /\ fetch_cbr_stall
        /\ latch' = [latch EXCEPT !["IF_LATCH"][lane] = l]
    BY <1>5 DEF FetchNothing
  <2>2. ~ l.valid
    BY <1>1, NextLaneType DEF TypeInv, Latches, LatchType
  <2> HIDE DEF l
  <2>3. \A p \in Places : (Live(p)' <=> Live(p)) /\ (Live(p) => At(p)' = At(p))
    BY <1>1, <1>3, <2>1, <2>2, FetchKept
  <2>4. ~ FetchRecord
    BY <2>1 DEF FetchRecord, Reads
  <2> QED  BY <1>1, <1>3, <2>1, <2>3, <2>4
<1>6. CASE FetchEnd
  <2>1. /\ ~ stall[lane] /\ last_op_id' = last_op_id
        /\ latch' = [latch EXCEPT !["IF_LATCH"][lane] = Bubble]
    BY <1>6 DEF FetchEnd, Reads
  <2>2. ~ Bubble.valid
    BY DEF Bubble
  <2>3. \A p \in Places : (Live(p)' <=> Live(p)) /\ (Live(p) => At(p)' = At(p))
    BY <1>1, <1>3, <2>1, <2>2, FetchKept
  <2>4. ~ FetchRecord
    <3>1. last_op_id \in Nat
      BY DEF TypeInv
    <3>2. ASSUME FetchRecord PROVE last_op_id' = last_op_id + 1
      BY <3>2 DEF FetchRecord
    <3> QED  BY <2>1, <3>1, <3>2
  <2> QED  BY <1>1, <1>3, <2>1, <2>3, <2>4
<1>7. CASE FetchRecord
  <2>1. PICK rec \in TraceRecords :
            /\ last_op_id' = last_op_id + 1
            /\ latch' = [latch EXCEPT !["IF_LATCH"][lane] =
                            [valid |-> TRUE, op_id |-> last_op_id + 1, trace_rec |-> rec,
                             is_mispred_cbr |-> Mispredicted(rec)]]
    BY <1>7 DEF FetchRecord
  <2> DEFINE l == [valid |-> TRUE, op_id |-> last_op_id + 1, trace_rec |-> rec,
                   is_mispred_cbr |-> Mispredicted(rec)]
  <2>2. l.valid /\ l.op_id = last_op_id + 1 /\ ~ stall[lane]
    BY <1>7 DEF FetchRecord, Reads
  <2> HIDE DEF l
  <2>3. latch' = [latch EXCEPT !["IF_LATCH"][lane] = l]
    BY <2>1 DEF l
  <2>4. /\ \A p \in Places \ {FetchPlace} : At(p)' = At(p)
        /\ latch'["IF_LATCH"][lane] = l
        /\ \A k \in Lanes : k # lane => latch'["IF_LATCH"][k] = latch["IF_LATCH"][k]
    BY <1>3, <2>3
  <2>5. \A p \in Places : p # FetchPlace => (Live(p)' <=> Live(p)) /\ (Live(p) => At(p)' = At(p))
    BY <1>1, <2>4, FetchLive
  <2>6. ASSUME NEW p \in Places, p = FetchPlace
        PROVE  Live(p)' /\ ~ Live(p) /\ At(p)'.op_id = last_op_id + 1
    <3>1. Live(p)' /\ ~ Live(p)
      BY <1>1, <2>2, <2>4, <2>6, FetchLive
    <3>2. At(p)' = l
      BY <1>2, <2>4, <2>6 DEF At
    <3> QED  BY <2>2, <3>1, <3>2
  <2> QED  BY <1>1, <1>2, <1>7, <2>1, <2>2, <2>4, <2>5, <2>6
<1> QED  BY <1>4, <1>5, <1>6, <1>7 DEF IF_

-----------------------------------------------------------------------------
(* The loop of main, which ends with the trace and in time. *)

Drained == trace_end /\ stat_retired_inst = last_op_id

\* Cycles since the last heartbeat.
Beats == stat_num_cycle % HEARTBEAT_CYCLES

Moved(p) ==
    \/ stage = "EX" /\ p[1] = "MA_LATCH"
    \/ stage = "ID" /\ p[1] \in {"MA_LATCH", "EX_LATCH"}
    \/ stage = "IF"

HeartInv ==
    /\ stat_num_cycle \in Nat /\ last_hbeat_inst \in Nat /\ status \in {0, 1}
    /\ last_hbeat_inst <= stat_retired_inst
    /\ status = 0 => stat_num_cycle < HEARTBEAT_CYCLES * (last_hbeat_inst + 1)
    /\ status = 1 => stage = "WB"

HaltInv ==
    /\ halt_op_id = IF trace_end THEN last_op_id ELSE NoHaltId
    /\ last_op_id = 0 => \/ halt
                         \/ stat_num_cycle = 0 /\ ~ trace_end /\ (stage = "IF" => lane = 0)
    /\ halt => Drained /\ \/ stat_retired_inst > last_hbeat_inst
                          \/ stat_num_cycle = 0
                          \/ stage = "WB"
    /\ status = 1 => ~ halt

\* Only an instruction holds a lane up.
StallInv == stage = "IF" => \A k \in Lanes : stall[k] => latch["IF_LATCH"][k].valid

ProgressInv ==
    /\ status = 1 => Drained
    /\ status = 0 /\ stat_retired_inst = last_hbeat_inst /\ ~ Drained =>
           /\ \A p \in Places : Oldest(p) => /\ Depth(p[1]) >= Beats
                                             /\ Moved(p) => Depth(p[1]) > Beats
           /\ stat_retired_inst = last_op_id => Beats = 0 /\ (stage = "IF" => lane = 0)

PerfectInv ==
    BPRED_POLICY = "PERFECT" =>
        /\ ~ fetch_cbr_stall
        /\ Drained => halt
        /\ ~ trace_end /\ last_op_id > 0 =>
               \E p \in Places :
                   /\ Live(p) /\ At(p).op_id = last_op_id
                   /\ \/ p[1] = "IF_LATCH"
                      \/ p[1] = "ID_LATCH" /\ stage = "IF" /\ ~ stall[p[2]] /\ lane <= p[2]

\* The trace has no record that is not valid, and no instruction takes a heartbeat to retire.
Paced == ~ BadRecords /\ HEARTBEAT_CYCLES \in Nat /\ HEARTBEAT_CYCLES >= 5

LEMMA Retiring ==
    ASSUME TypeInv, FlowInv, Next
    PROVE  /\ stat_retired_inst \in Nat /\ last_op_id \in Nat /\ stat_retired_inst <= last_op_id
           /\ stat_retired_inst' \in Nat /\ stat_retired_inst <= stat_retired_inst'
           /\ stage = "WB" => WB /\ stat_retired_inst' <= last_op_id
           /\ stage # "WB" => UNCHANGED stat_retired_inst
           /\ stage = "IF" => IF_
           /\ stage # "IF" => UNCHANGED last_op_id /\ stage' # "WB"
           /\ UNCHANGED options
<1>1. stat_retired_inst \in Nat /\ last_op_id \in Nat /\ stat_retired_inst <= last_op_id
  BY DEF TypeInv, FlowInv
<1>2. CASE WB
  BY <1>1, <1>2, RetiredAreOldest DEF WB
<1>3. CASE MA \/ EX \/ ID
  BY <1>1, <1>3 DEF MA, EX, Move, ID
<1>4. CASE IF_
  <2>1. NextLane
    BY <1>4 DEF IF_, FetchStalledLane, FetchNothing, FetchRecord, FetchEnd, Reads
  <2> QED  BY <1>1, <1>4, <2>1, NextLaneType
<1> QED  BY <1>2, <1>3, <1>4 DEF Next

LEMMA Heartbeat ==
    ASSUME TypeInv, MainStep
    PROVE  /\ Next /\ status = 0
           /\ ~ (stage = "IF" /\ stage' = "WB") => UNCHANGED heart_vars
           /\ stage = "IF" /\ stage' = "WB" =>
                  /\ stat_num_cycle' = stat_num_cycle + 1
                  /\ \/ /\ stat_num_cycle' % HEARTBEAT_CYCLES # 0
                        /\ UNCHANGED <<last_hbeat_inst, status>>
                     \/ /\ stat_num_cycle' % HEARTBEAT_CYCLES = 0
                        /\ \/ /\ stat_retired_inst' = last_hbeat_inst
                              /\ status' = 1 /\ UNCHANGED last_hbeat_inst
                           \/ /\ stat_retired_inst' # last_hbeat_inst
                              /\ last_hbeat_inst' = stat_retired_inst' /\ UNCHANGED status
BY DEF MainStep, CycleEnds, check_heartbeat

LEMMA Multiple ==
    ASSUME NEW h \in Nat \ {0}, NEW m \in Nat
    PROVE  (h * (m + 1)) % h = 0
OBVIOUS

LEMMA SameBeat ==
    ASSUME NEW h \in Nat \ {0}, NEW m \in Nat, NEW c \in Nat, c < h * (m + 1), (c + 1) % h # 0
    PROVE  c + 1 < h * (m + 1)
<1>1. (h * (m + 1)) % h = 0
  BY Multiple
<1> QED  BY <1>1

LEMMA NextBeat ==
    ASSUME NEW h \in Nat \ {0}, NEW m \in Nat, NEW c \in Nat, c < h * (m + 1),
           NEW n \in Nat, m < n
    PROVE  c + 1 < h * (n + 1)
OBVIOUS

LEMMA BeatFacts ==
    ASSUME NEW h \in Nat, h >= 5, NEW c \in Nat
    PROVE  /\ c % h \in Nat /\ (c + 1) % h \in Nat /\ (c + 1) % h <= (c % h) + 1
           /\ (c + 1) % h = 0 => c % h = h - 1
           /\ c = 0 => c % h = 0 /\ (c + 1) % h = 1
OBVIOUS

LEMMA StepHeart == TypeInv /\ FlowInv /\ HeartInv /\ MainStep => HeartInv'
<1> SUFFICES ASSUME TypeInv, FlowInv, HeartInv, MainStep PROVE HeartInv'
  OBVIOUS
<1> DEFINE H == HEARTBEAT_CYCLES
<1>1. /\ stat_retired_inst \in Nat /\ stat_retired_inst' \in Nat
      /\ stat_retired_inst <= stat_retired_inst'
  BY Heartbeat, Retiring
<1>2. H \in Nat \ {0}
  BY HeartbeatAssumption
<1> HIDE DEF H
<1>3. /\ stat_num_cycle \in Nat /\ last_hbeat_inst \in Nat /\ status = 0
      /\ last_hbeat_inst <= stat_retired_inst
      /\ stat_num_cycle < H * (last_hbeat_inst + 1)
  BY Heartbeat DEF HeartInv, H
<1>4. CASE ~ (stage = "IF" /\ stage' = "WB")
  BY <1>1, <1>3, <1>4, Heartbeat DEF HeartInv, heart_vars, H
<1>5. CASE stage = "IF" /\ stage' = "WB"
  <2>1. stat_num_cycle' = stat_num_cycle + 1
    BY <1>5, Heartbeat
  <2>2. CASE stat_num_cycle' % H # 0 /\ UNCHANGED <<last_hbeat_inst, status>>
    <3>1. stat_num_cycle + 1 < H * (last_hbeat_inst + 1)
      BY <1>2, <1>3, <2>1, <2>2, SameBeat
    <3> QED  BY <1>1, <1>3, <1>5, <2>1, <2>2, <3>1 DEF HeartInv, H
  <2>3. CASE status' = 1 /\ UNCHANGED last_hbeat_inst
    BY <1>1, <1>3, <1>5, <2>1, <2>3 DEF HeartInv
  <2>4. CASE /\ stat_retired_inst' # last_hbeat_inst
             /\ last_hbeat_inst' = stat_retired_inst' /\ UNCHANGED status
    <3>1. last_hbeat_inst < stat_retired_inst'
      BY <1>1, <1>3, <2>4
    <3>2. stat_num_cycle + 1 < H * (stat_retired_inst' + 1)
      BY <1>1, <1>2, <1>3, <3>1, NextBeat
    <3> QED  BY <1>1, <1>3, <1>5, <2>1, <2>4, <3>2 DEF HeartInv, H
  <2> QED  BY <1>5, <2>2, <2>3, <2>4, Heartbeat DEF H
<1> QED  BY <1>4, <1>5

LEMMA MainFlow == MainSpec => [](TypeInv /\ FlowInv /\ BranchInv /\ HeartInv)
<1>1. MainInit => TypeInv /\ FlowInv /\ BranchInv
  BY InitType, InitFlow DEF MainInit
<1>2. MainInit => HeartInv
  <2> SUFFICES ASSUME MainInit PROVE HeartInv
    OBVIOUS
  <2>1. stat_num_cycle = 0 /\ last_hbeat_inst = 0 /\ status = 0 /\ stat_retired_inst = 0
    BY DEF MainInit, Init
  <2>2. 0 < HEARTBEAT_CYCLES * (0 + 1)
    BY HeartbeatAssumption
  <2> QED  BY <2>1, <2>2 DEF HeartInv
<1>3. TypeInv /\ FlowInv /\ BranchInv /\ HeartInv /\ [MainStep]_<<vars, heart_vars>>
          => (TypeInv /\ FlowInv /\ BranchInv /\ HeartInv)'
  <2> SUFFICES ASSUME TypeInv, FlowInv, BranchInv, HeartInv, [MainStep]_<<vars, heart_vars>>
               PROVE  (TypeInv /\ FlowInv /\ BranchInv /\ HeartInv)'
    OBVIOUS
  <2>1. [Next]_vars
    BY Heartbeat
  <2>2. TypeInv' /\ FlowInv' /\ BranchInv'
    BY <2>1, StepType, StepFlow
  <2>3. HeartInv'
    <3>1. CASE UNCHANGED <<vars, heart_vars>>
      BY <3>1 DEF HeartInv, vars, heart_vars
    <3> QED  BY <3>1, StepHeart
  <2> QED  BY <2>2, <2>3
<1> QED  BY <1>1, <1>2, <1>3, PTL DEF MainSpec

(***************************************************************************)
(* check_heartbeat bounds the loop of main: where the pipeline never halts *)
(* the run is over after at most one heartbeat for each instruction that   *)
(* was retired and one more.                                               *)
(***************************************************************************)
THEOREM EndsInTimeHolds == MainSpec => []EndsInTime
<1>1. TypeInv /\ HeartInv => EndsInTime
  <2> SUFFICES ASSUME TypeInv, HeartInv, status = 0
               PROVE  stat_num_cycle < HEARTBEAT_CYCLES * (stat_retired_inst + 1)
    BY DEF EndsInTime
  <2> DEFINE H == HEARTBEAT_CYCLES
  <2>1. H \in Nat \ {0}
    BY HeartbeatAssumption
  <2> HIDE DEF H
  <2>2. /\ stat_num_cycle \in Nat /\ last_hbeat_inst \in Nat /\ stat_retired_inst \in Nat
        /\ last_hbeat_inst <= stat_retired_inst
        /\ stat_num_cycle < H * (last_hbeat_inst + 1)
    BY DEF TypeInv, HeartInv, H
  <2>3. stat_num_cycle < H * (stat_retired_inst + 1)
    BY <2>1, <2>2
  <2> QED  BY <2>3 DEF H
<1> QED  BY <1>1, MainFlow, PTL

LEMMA StepStall == TypeInv /\ FlowInv /\ StallInv /\ Next => StallInv'
<1> SUFFICES ASSUME TypeInv, FlowInv, StallInv, Next, stage' = "IF"
             PROVE  \A k \in Lanes : stall'[k] => latch'["IF_LATCH"][k].valid
  BY DEF StallInv
<1>1. CASE ID
  <2>1. ASSUME NEW k \in Lanes, k \in Stalled
        PROVE  In[k].valid
    BY <2>1, StalledAmongFacts DEF Stalled
  <2>2. \A k \in Lanes : stall'[k] = (k \in Stalled) /\ latch'["IF_LATCH"][k] = In[k]
    BY <1>1 DEF ID, In, TypeInv, Latches
  <2> QED  BY <2>1, <2>2
<1>2. CASE IF_
  <2>1. stage = "IF" /\ UNCHANGED stall
    BY <1>2, FetchCases, NextLaneType
  <2> QED  BY <1>2, <2>1, FetchCases DEF StallInv
<1> QED  BY <1>1, <1>2 DEF Next, WB, MA, EX, Move

\* Where nothing is in the pipeline and the trace goes on, fetch reads it.
LEMMA FetchReads ==
    ASSUME TypeInv, FlowInv, BranchInv, StallInv, IF_, ~ trace_end,
           stat_retired_inst = last_op_id
    PROVE  FetchRecord \/ FetchEnd
<1>1. \A p \in Places : ~ Live(p)
  BY DEF FlowInv, TypeInv
<1>2. ~ fetch_cbr_stall
  BY <1>1 DEF BranchInv
<1>3. stage = "IF" /\ lane \in Lanes
  BY FetchCases, NextLaneType
<1>4. ~ stall[lane]
  <2>1. FetchPlace \in Places /\ FetchPlace[1] = "IF_LATCH" /\ FetchPlace[2] = lane
    BY <1>3, PlaceFacts DEF FetchPlace, Latches
  <2>2. ASSUME stall[lane] PROVE Live(FetchPlace)
    BY <1>3, <2>1, <2>2 DEF StallInv, Live, At
  <2> QED  BY <1>1, <2>1, <2>2
<1> QED  BY <1>2, <1>4 DEF IF_, FetchStalledLane, FetchNothing

LEMMA StepHalt ==
    ASSUME Paced
    PROVE  TypeInv /\ FlowInv /\ BranchInv /\ HeartInv /\ StallInv /\ HaltInv /\ MainStep
               => HaltInv'
<1> SUFFICES ASSUME TypeInv, FlowInv, BranchInv, HeartInv, StallInv, HaltInv, MainStep
             PROVE  HaltInv'
  OBVIOUS
<1>1. /\ Next /\ status = 0
      /\ stat_retired_inst \in Nat /\ last_op_id \in Nat /\ stat_retired_inst <= last_op_id
      /\ last_op_id <= MaxInst /\ stat_num_cycle \in Nat /\ last_hbeat_inst \in Nat
      /\ last_hbeat_inst <= stat_retired_inst
  BY Heartbeat, Retiring DEF TypeInv, HeartInv
<1>2. ASSUME stage # "IF" PROVE UNCHANGED heart_vars
  BY <1>2, Heartbeat
<1>3. CASE WB
  <2> DEFINE n == stat_retired_inst + Cardinality(Valid("MA_LATCH"))
  <2>1. /\ stage = "WB" /\ stage' = "MA" /\ ~ halt /\ stat_retired_inst' = n
        /\ UNCHANGED <<halt_op_id, trace_end, last_op_id>> /\ UNCHANGED heart_vars
        /\ halt' = \E k \in Valid("MA_LATCH") : latch["MA_LATCH"][k].op_id >= halt_op_id
    BY <1>2, <1>3 DEF WB
  <2>2. Ids("MA_LATCH") = stat_retired_inst + 1 .. n /\ n \in Nat /\ n <= last_op_id
    BY <2>1, RetiredAreOldest
  <2> HIDE DEF n
  <2>3. ASSUME halt'
        PROVE  trace_end /\ n = last_op_id /\ n > last_hbeat_inst
    <3>1. PICK k \in Valid("MA_LATCH") : latch["MA_LATCH"][k].op_id >= halt_op_id
      BY <2>1, <2>3
    <3>2. latch["MA_LATCH"][k].op_id \in stat_retired_inst + 1 .. n
      BY <2>2 DEF Ids
    <3>3. trace_end /\ halt_op_id = last_op_id
      BY <1>1, <2>2, <3>1, <3>2, MaxFacts DEF HaltInv
    <3> QED  BY <1>1, <2>2, <3>1, <3>2, <3>3
  <2>4. last_op_id' = 0 => stat_num_cycle' = 0 /\ ~ trace_end'
    BY <2>1 DEF HaltInv, heart_vars
  <2>5. status' = 0 /\ last_hbeat_inst' = last_hbeat_inst
    BY <1>1, <2>1 DEF heart_vars
  <2> QED  BY <2>1, <2>3, <2>4, <2>5 DEF HaltInv, Drained
<1>4. CASE MA \/ EX \/ ID
  <2>1. /\ stage \in {"MA", "EX", "ID"} /\ stage' \in {"EX", "ID", "IF"}
        /\ stage' = "IF" => lane' = 0
        /\ UNCHANGED <<halt, halt_op_id, trace_end, last_op_id, stat_retired_inst>>
    BY <1>4 DEF MA, EX, Move, ID
  <2>2. UNCHANGED heart_vars
    BY <1>2, <2>1
  <2> QED  BY <1>1, <2>1, <2>2 DEF HaltInv, Drained, heart_vars
<1>5. CASE IF_
  <2>1. stage = "IF" /\ stage' \in {"WB", "IF"} /\ UNCHANGED stat_retired_inst /\ NextLane
    BY <1>5, FetchCases, NextLaneType
  <2>2. /\ last_hbeat_inst' = last_hbeat_inst \/ stage' = "WB"
        /\ stat_num_cycle' = stat_num_cycle \/ stage' = "WB"
        /\ status' = 1 => stat_retired_inst = last_hbeat_inst /\ stat_num_cycle # 0
    <3>1. CASE stage' = "IF"
      BY <1>1, <2>1, <3>1, Heartbeat DEF heart_vars
    <3>2. CASE stage' = "WB"
      <4>1. ASSUME status' = 1
            PROVE  /\ stat_retired_inst = last_hbeat_inst
                   /\ (stat_num_cycle + 1) % HEARTBEAT_CYCLES = 0
        BY <1>1, <2>1, <3>2, <4>1, Heartbeat
      <4>2. stat_num_cycle = 0 => (stat_num_cycle + 1) % HEARTBEAT_CYCLES = 1
        BY <1>1, BeatFacts DEF Paced
      <4> QED  BY <3>2, <4>1, <4>2
    <3> QED  BY <2>1, <3>1, <3>2
  <2>3. status' \in {0, 1}
    BY StepHeart DEF HeartInv
  <2>4. CASE FetchRecord
    <3>1. ~ trace_end /\ UNCHANGED <<halt_op_id, halt, trace_end>> /\ last_op_id' = last_op_id + 1
      BY <2>4 DEF FetchRecord
    <3>2. ~ halt
      BY <3>1 DEF HaltInv, Drained
    <3> QED  BY <1>1, <3>1, <3>2 DEF HaltInv
  <2>5. CASE FetchEnd
    <3>1. /\ trace_end' /\ halt_op_id' = last_op_id /\ halt' = (halt \/ last_op_id = 0)
          /\ UNCHANGED last_op_id
      BY <2>5 DEF FetchEnd, HaltsAfter, Paced
    <3>2. ASSUME halt'
          PROVE  /\ stat_retired_inst = last_op_id
                 /\ \/ stat_retired_inst > last_hbeat_inst
                    \/ stat_num_cycle = 0
      <4>1. CASE halt
        BY <2>1, <4>1 DEF HaltInv, Drained
      <4>2. CASE ~ halt
        <5>1. last_op_id = 0
          BY <3>1, <3>2, <4>2
        <5> QED  BY <1>1, <4>2, <5>1 DEF HaltInv
      <4> QED  BY <4>1, <4>2
    <3>3. status' = 1 => ~ halt'
      BY <1>1, <2>2, <3>2
    <3>4. halt' => \/ stat_retired_inst' > last_hbeat_inst'
                   \/ stat_num_cycle' = 0
                   \/ stage' = "WB"
      BY <2>1, <2>2, <3>2
    <3> QED  BY <2>1, <3>1, <3>2, <3>3, <3>4 DEF HaltInv, Drained
  <2>6. CASE FetchStalledLane \/ FetchNothing
    <3>1. UNCHANGED <<halt_op_id, halt, trace_end, last_op_id>>
      BY <2>6 DEF FetchStalledLane, FetchNothing
    <3>2. last_op_id = 0 => halt
      <4> SUFFICES ASSUME last_op_id = 0, ~ halt PROVE FALSE
        OBVIOUS
      <4>1. ~ trace_end /\ stat_retired_inst = last_op_id
        BY <1>1 DEF HaltInv
      <4>2. FetchRecord \/ FetchEnd
        BY <1>5, <4>1, FetchReads
      <4>3. ~ stall[lane] /\ ~ fetch_cbr_stall
        BY <4>2 DEF FetchRecord, FetchEnd, Reads
      <4> QED  BY <2>6, <4>3 DEF FetchStalledLane, FetchNothing
    <3>3. status' = 1 => ~ halt
      BY <1>1, <2>1, <2>2 DEF HaltInv
    <3>4. halt => \/ stat_retired_inst' > last_hbeat_inst'
                  \/ stat_num_cycle' = 0
                  \/ stage' = "WB"
      BY <2>1, <2>2 DEF HaltInv
    <3> QED  BY <2>1, <3>1, <3>2, <3>3, <3>4 DEF HaltInv, Drained
  <2> QED  BY <1>5, <2>4, <2>5, <2>6 DEF IF_
<1> QED  BY <1>1, <1>3, <1>4, <1>5 DEF Next

LEMMA DrainedStays ==
    ASSUME Paced, TypeInv, FlowInv, Next, Drained
    PROVE  Drained'
<1>1. /\ stat_retired_inst \in Nat /\ last_op_id \in Nat
      /\ stat_retired_inst' \in Nat /\ stat_retired_inst <= stat_retired_inst'
      /\ stage = "WB" => stat_retired_inst' <= last_op_id
      /\ stage # "WB" => UNCHANGED stat_retired_inst
      /\ trace_end /\ stat_retired_inst = last_op_id
  BY Retiring DEF Drained
<1>2. trace_end' /\ last_op_id' = last_op_id
  <2>1. ~ FetchRecord
    BY <1>1 DEF FetchRecord
  <2> QED
    BY <1>1, <2>1 DEF Paced, Next, WB, MA, EX, Move, ID, IF_, FetchStalledLane, FetchNothing,
                      FetchEnd
<1> QED  BY <1>1, <1>2 DEF Drained

\* In the other stages the oldest instruction keeps its pace, or advances.
LEMMA AdvancesBeforeFetch ==
    ASSUME TypeInv, FlowInv, Next, stage # "IF", stat_retired_inst' = stat_retired_inst,
           NEW b \in Nat,
           \A p \in Places : Oldest(p) => Depth(p[1]) >= b /\ (Moved(p) => Depth(p[1]) > b)
    PROVE  \A p \in Places : Oldest(p)' => Depth(p[1]) >= b /\ (Moved(p)' => Depth(p[1]) > b)
<1> SUFFICES ASSUME NEW p \in Places, Oldest(p)'
             PROVE  Depth(p[1]) >= b /\ (Moved(p)' => Depth(p[1]) > b)
  OBVIOUS
<1>1. p[1] \in Latches /\ p[2] \in Lanes /\ Live(p)' /\ At(p)'.op_id = stat_retired_inst + 1
  BY PlaceFacts DEF Oldest
<1>2. PICK q \in Places :
          /\ Live(q) /\ At(q).op_id = At(p)'.op_id
          /\ stage = "WB" => q = p
          /\ stage = "MA" => q[1] = (IF p[1] = "MA_LATCH" THEN "EX_LATCH" ELSE p[1])
          /\ stage = "EX" => q[1] = (IF p[1] = "EX_LATCH" THEN "ID_LATCH" ELSE p[1])
          /\ stage = "ID" =>
                 IF p[1] \in {"IF_LATCH", "ID_LATCH"}
                 THEN q = <<"IF_LATCH", p[2]>> /\ (p[1] = "IF_LATCH" => p[2] \in Stalled)
                 ELSE q = p
  BY <1>1, CameFrom
<1>3. /\ Oldest(q) /\ q[1] \in Latches
      /\ Depth(q[1]) >= b /\ (Moved(q) => Depth(q[1]) > b)
  BY <1>1, <1>2, PlaceFacts DEF Oldest
<1>4. \/ stage = "WB" /\ stage' = "MA"
      \/ stage = "MA" /\ stage' = "EX"
      \/ stage = "EX" /\ stage' = "ID"
      \/ stage = "ID" /\ stage' = "IF"
  BY DEF Next, WB, MA, EX, Move, ID, IF_, FetchStalledLane, FetchNothing, FetchRecord, FetchEnd,
         Reads, NextLane
<1>5. CASE stage = "WB"
  BY <1>2, <1>3, <1>4, <1>5 DEF Moved
<1>6. CASE stage = "MA"
  BY <1>1, <1>2, <1>3, <1>4, <1>6, DepthFacts DEF Moved, Latches
<1>7. CASE stage = "EX"
  BY <1>1, <1>2, <1>3, <1>4, <1>7, DepthFacts DEF Moved, Latches
<1>8. CASE stage = "ID"
  <2>1. CASE p[1] = "IF_LATCH"
    <3>1. p[2] \in Stalled /\ Oldest(<<"IF_LATCH", p[2]>>)
      BY <1>2, <1>3, <1>8, <2>1
    <3> QED  BY <1>1, <1>8, <3>1, OldestGoesOn
  <2>2. CASE p[1] = "ID_LATCH"
    <3>1. q[1] = "IF_LATCH"
      BY <1>2, <1>8, <2>2
    <3> QED  BY <1>3, <2>2, <3>1, DepthFacts
  <2>3. CASE p[1] \notin {"IF_LATCH", "ID_LATCH"}
    <3>1. q = p
      BY <1>2, <1>8, <2>3
    <3> QED  BY <1>1, <1>3, <1>8, <2>3, <3>1 DEF Moved, Latches
  <2> QED  BY <2>1, <2>2, <2>3
<1> QED  BY <1>4, <1>5, <1>6, <1>7, <1>8

LEMMA StepProgress ==
    ASSUME Paced
    PROVE  TypeInv /\ FlowInv /\ BranchInv /\ HeartInv /\ StallInv /\ ProgressInv /\ MainStep
               => ProgressInv'
<1> SUFFICES ASSUME TypeInv, FlowInv, BranchInv, HeartInv, StallInv, ProgressInv, MainStep
             PROVE  ProgressInv'
  OBVIOUS
<1> DEFINE Step == /\ \A p \in Places : Oldest(p) => /\ Depth(p[1]) >= Beats
                                                     /\ Moved(p) => Depth(p[1]) > Beats
                   /\ stat_retired_inst = last_op_id =>
                          Beats = 0 /\ (stage = "IF" => lane = 0)
<1>1. /\ Next /\ status = 0 /\ status' \in {0, 1}
      /\ stat_retired_inst \in Nat /\ last_op_id \in Nat /\ stat_retired_inst <= last_op_id
      /\ stat_retired_inst' \in Nat /\ stat_retired_inst <= stat_retired_inst'
      /\ stat_num_cycle \in Nat /\ last_hbeat_inst \in Nat
      /\ last_hbeat_inst <= stat_retired_inst /\ Beats \in Nat
  BY Heartbeat, Retiring, StepHeart, BeatFacts DEF HeartInv, Paced, Beats
<1>2. ~ Drained' => ~ Drained
  BY <1>1, DrainedStays
<1>3. stat_retired_inst = last_hbeat_inst /\ ~ Drained => Step
  BY <1>1 DEF ProgressInv
<1>4. CASE stage # "IF"
  <2>1. /\ UNCHANGED heart_vars /\ Beats' = Beats
        /\ last_op_id' = last_op_id /\ (stage' = "IF" => lane' = 0)
    <3>1. UNCHANGED heart_vars /\ last_op_id' = last_op_id
      BY <1>1, <1>4, Heartbeat, Retiring
    <3>2. stage' = "IF" => lane' = 0
      BY <1>1, <1>4 DEF Next, WB, MA, EX, Move, ID, IF_, FetchStalledLane, FetchNothing,
                        FetchRecord, FetchEnd, Reads, NextLane
    <3> QED  BY <3>1, <3>2 DEF heart_vars, Beats
  <2>2. ASSUME stat_retired_inst' = last_hbeat_inst', ~ Drained'
        PROVE  Step'
    <3>1. stat_retired_inst' = stat_retired_inst /\ stat_retired_inst = last_hbeat_inst
      BY <1>1, <2>1, <2>2 DEF heart_vars
    <3>2. Step
      BY <1>2, <1>3, <2>2, <3>1
    <3>3. \A p \in Places : Oldest(p)' => Depth(p[1]) >= Beats /\ (Moved(p)' => Depth(p[1]) > Beats)
      BY <1>1, <1>4, <3>1, <3>2, AdvancesBeforeFetch
    <3> QED  BY <2>1, <3>1, <3>2, <3>3
  <2> QED  BY <1>1, <2>1, <2>2 DEF ProgressInv, heart_vars
<1>5. CASE stage = "IF"
  <2>1. /\ IF_ /\ NextLane /\ stage' \in {"WB", "IF"} /\ UNCHANGED stat_retired_inst
    BY <1>1, <1>5, Retiring, FetchCases, NextLaneType
  <2>2. Step => \A p \in Places : Oldest(p) => Depth(p[1]) > Beats
    BY <1>5 DEF Moved
  <2>3. ASSUME stat_retired_inst = last_hbeat_inst, ~ Drained'
        PROVE  /\ \A p \in Places : Oldest(p)' => Depth(p[1]) > Beats
               /\ stat_retired_inst' < last_op_id'
    <3>1. Step
      BY <1>2, <1>3, <2>3
    <3>2. CASE ~ FetchRecord
      <4>1. /\ last_op_id' = last_op_id
            /\ \A p \in Places : (Live(p)' <=> Live(p)) /\ (Live(p) => At(p)' = At(p))
        BY <2>1, <3>2, FetchCases
      <4>2. \A p \in Places : Oldest(p)' => Depth(p[1]) > Beats
        BY <2>1, <2>2, <3>1, <4>1 DEF Oldest
      <4>3. stat_retired_inst # last_op_id
        <5> SUFFICES ASSUME stat_retired_inst = last_op_id PROVE FALSE
          OBVIOUS
        <5>1. ~ trace_end
          BY <1>2, <2>3 DEF Drained
        <5>2. FetchEnd
          BY <2>1, <3>2, <5>1, FetchReads
        <5>3. trace_end'
          BY <5>2 DEF FetchEnd, Paced
        <5> QED  BY <2>1, <2>3, <4>1, <5>3 DEF Drained
      <4> QED  BY <1>1, <2>1, <4>1, <4>2, <4>3
    <3>3. CASE FetchRecord
      <4>1. /\ last_op_id' = last_op_id + 1
            /\ \A p \in Places : p # FetchPlace =>
                   (Live(p)' <=> Live(p)) /\ (Live(p) => At(p)' = At(p))
            /\ \A p \in Places : p = FetchPlace => At(p)'.op_id = last_op_id + 1
            /\ FetchPlace[1] = "IF_LATCH"
        BY <2>1, <3>3, FetchCases
      <4>2. ASSUME NEW p \in Places, Oldest(p)'
            PROVE  Depth(p[1]) > Beats
        <5>1. CASE p # FetchPlace
          BY <2>1, <2>2, <3>1, <4>1, <4>2, <5>1 DEF Oldest
        <5>2. CASE p = FetchPlace
          <6>1. last_op_id + 1 = stat_retired_inst + 1
            BY <2>1, <4>1, <4>2, <5>2 DEF Oldest
          <6>2. Beats = 0
            BY <1>1, <3>1, <6>1
          <6> QED  BY <4>1, <5>2, <6>2, DepthFacts
        <5> QED  BY <5>1, <5>2
      <4> QED  BY <1>1, <2>1, <4>1, <4>2
    <3> QED  BY <3>2, <3>3
  <2>4. CASE stage' = "IF"
    <3>1. UNCHANGED heart_vars /\ Beats' = Beats
      BY <1>1, <2>4, Heartbeat DEF heart_vars, Beats
    <3>2. ASSUME stat_retired_inst' = last_hbeat_inst', ~ Drained'
          PROVE  Step'
      <4>1. /\ \A p \in Places : Oldest(p)' => Depth(p[1]) > Beats
            /\ stat_retired_inst' < last_op_id'
        BY <2>1, <2>3, <3>1, <3>2 DEF heart_vars
      <4>2. \A p \in Places : Depth(p[1]) \in Nat
        BY PlaceFacts, DepthFacts DEF Latches
      <4>3. stat_retired_inst' # last_op_id'
        BY <1>1, <2>1, <4>1
      <4> QED  BY <1>1, <3>1, <4>1, <4>2, <4>3
    <3> QED  BY <1>1, <3>1, <3>2 DEF ProgressInv, heart_vars
  <2>5. CASE stage' = "WB"
    <3>1. /\ stat_num_cycle' = stat_num_cycle + 1
          /\ Beats' \in Nat /\ Beats' <= Beats + 1
          /\ Beats' = 0 => Beats = HEARTBEAT_CYCLES - 1
      BY <1>1, <1>5, <2>5, Heartbeat, BeatFacts DEF Paced, Beats
    <3>2. \/ Beats' # 0 /\ UNCHANGED <<last_hbeat_inst, status>>
          \/ Beats' = 0 /\ stat_retired_inst = last_hbeat_inst /\ status' = 1
          \/ Beats' = 0 /\ status' = 0
      BY <1>1, <1>5, <2>1, <2>5, Heartbeat DEF Beats
    <3>3. \A p \in Places : Depth(p[1]) \in 1 .. 4
      BY PlaceFacts, DepthFacts DEF Latches
    <3>4. ASSUME status' = 1
          PROVE  Drained'
      <4> SUFFICES ASSUME ~ Drained' PROVE FALSE
        OBVIOUS
      <4>1. Beats' = 0 /\ stat_retired_inst = last_hbeat_inst
        BY <1>1, <3>2, <3>4
      <4>2. Beats = HEARTBEAT_CYCLES - 1 /\ Beats >= 4
        BY <3>1, <4>1 DEF Paced
      <4>3. /\ \A p \in Places : Oldest(p)' => Depth(p[1]) > Beats
            /\ stat_retired_inst' < last_op_id'
        BY <2>3, <4>1
      <4>4. FlowInv' /\ last_op_id' \in Nat
        BY <1>1, StepFlow, StepType DEF TypeInv
      <4>5. \E p \in Places : Oldest(p)'
        <5>1. stat_retired_inst' \in Nat /\ last_op_id' \in Nat
              /\ stat_retired_inst' < last_op_id'
          BY <1>1, <4>3, <4>4
        <5>2. stat_retired_inst' + 1 \in (stat_retired_inst' + 1) .. last_op_id'
          <6>1. \A a, b \in Nat : a < b => a + 1 \in (a + 1) .. b
            OBVIOUS
          <6> QED  BY <5>1, <6>1
        <5> QED  BY <4>4, <5>2 DEF FlowInv, Oldest
      <4> QED  BY <3>3, <4>2, <4>3, <4>5
    <3>5. \A p \in Places : ~ Moved(p)'
      BY <2>5 DEF Moved
    <3>6. ASSUME status' = 0, stat_retired_inst' = last_hbeat_inst', ~ Drained'
          PROVE  Step'
      <4>1. CASE Beats' = 0
        BY <2>5, <3>3, <3>5, <4>1
      <4>2. CASE Beats' # 0
        <5>1. stat_retired_inst = last_hbeat_inst
          BY <2>1, <3>2, <3>6, <4>2
        <5>2. /\ \A p \in Places : Oldest(p)' => Depth(p[1]) > Beats
              /\ stat_retired_inst' < last_op_id'
          BY <2>3, <3>6, <5>1
        <5>3. \A p \in Places : Oldest(p)' => Depth(p[1]) >= Beats'
          BY <1>1, <3>1, <3>3, <5>2
        <5>4. stat_retired_inst' # last_op_id'
          BY <1>1, <5>2
        <5> QED  BY <3>5, <5>3, <5>4
      <4> QED  BY <4>1, <4>2
    <3> QED  BY <3>4, <3>6 DEF ProgressInv
  <2> QED  BY <2>1, <2>4, <2>5
<1> QED  BY <1>4, <1>5

LEMMA StepPerfect ==
    ASSUME Paced
    PROVE  TypeInv /\ FlowInv /\ HaltInv /\ PerfectInv /\ Next => PerfectInv'
<1> SUFFICES ASSUME TypeInv, FlowInv, HaltInv, PerfectInv, Next, BPRED_POLICY' = "PERFECT"
             PROVE  PerfectInv'
  BY DEF PerfectInv
<1> DEFINE Near(p) == \/ p[1] = "IF_LATCH"
                      \/ p[1] = "ID_LATCH" /\ stage = "IF" /\ ~ stall[p[2]] /\ lane <= p[2]
           Last(p) == Live(p) /\ At(p).op_id = last_op_id /\ Near(p)
<1>1. /\ BPRED_POLICY = "PERFECT"
      /\ stat_retired_inst \in Nat /\ last_op_id \in Nat /\ stat_retired_inst <= last_op_id
  BY Retiring DEF options
<1>2. /\ ~ fetch_cbr_stall
      /\ Drained => halt
      /\ ~ trace_end /\ last_op_id > 0 => \E p \in Places : Last(p)
  BY <1>1 DEF PerfectInv
<1>3. \A rec : ~ Mispredicted(rec)
  BY <1>1 DEF Mispredicted, Checked
<1>4. SUFFICES /\ ~ fetch_cbr_stall'
               /\ Drained' => halt'
               /\ ~ trace_end' /\ last_op_id' > 0 => \E p \in Places : Last(p)'
  BY DEF PerfectInv
<1>5. CASE WB
  <2> DEFINE n == stat_retired_inst + Cardinality(Valid("MA_LATCH"))
  <2>1. /\ stage = "WB" /\ stage' = "MA" /\ ~ halt /\ stat_retired_inst' = n
        /\ UNCHANGED <<latch, halt_op_id, trace_end, last_op_id>>
        /\ fetch_cbr_stall' = (fetch_cbr_stall /\ \A k \in Valid("MA_LATCH") :
                                                     ~ latch["MA_LATCH"][k].is_mispred_cbr)
        /\ halt' = \E k \in Valid("MA_LATCH") : latch["MA_LATCH"][k].op_id >= halt_op_id
    BY <1>5 DEF WB
  <2>2. Ids("MA_LATCH") = stat_retired_inst + 1 .. n /\ n \in Nat /\ stat_retired_inst <= n
    BY <2>1, RetiredAreOldest
  <2> HIDE DEF n
  <2>3. ASSUME Drained'
        PROVE  halt'
    <3>1. trace_end /\ n = last_op_id /\ stat_retired_inst # last_op_id
      BY <1>2, <2>1, <2>3 DEF Drained
    <3>2. last_op_id \in Ids("MA_LATCH") /\ halt_op_id = last_op_id
      BY <1>1, <2>2, <3>1 DEF HaltInv
    <3>3. PICK k \in Valid("MA_LATCH") : latch["MA_LATCH"][k].op_id = last_op_id
      BY <3>2 DEF Ids
    <3> QED  BY <1>1, <2>1, <3>2, <3>3
  <2>4. ASSUME NEW p \in Places, Last(p)
        PROVE  Last(p)'
    BY <2>1, <2>4 DEF Live, At
  <2>5. last_op_id' = last_op_id /\ trace_end' = trace_end /\ ~ fetch_cbr_stall'
    BY <1>2, <2>1
  <2> HIDE DEF Last
  <2> QED  BY <1>2, <2>3, <2>4, <2>5
<1>6. CASE MA \/ EX \/ ID
  <2>1. /\ stage \in {"MA", "EX", "ID"} /\ stage' # "WB"
        /\ UNCHANGED <<fetch_cbr_stall, halt, trace_end, last_op_id, stat_retired_inst>>
        /\ \A k \in Lanes : latch'["IF_LATCH"][k] = latch["IF_LATCH"][k]
    BY <1>6 DEF MA, EX, Move, ID, TypeInv, Latches
  <2>2. ASSUME NEW p \in Places, Last(p)
        PROVE  \E q \in Places : Last(q)'
    <3>1. p[1] = "IF_LATCH" /\ p[2] \in Lanes /\ At(p)' = At(p)
      BY <2>1, <2>2, PlaceFacts DEF At
    <3>2. CASE MA \/ EX
      <4>1. stage' # "IF"
        BY <3>2 DEF MA, EX, Move
      <4> QED  BY <2>1, <2>2, <3>1, <4>1 DEF Live
    <3>3. CASE ID
      <4>1. /\ stage' = "IF" /\ lane' = 0 /\ stall'[p[2]] = (p[2] \in Stalled)
            /\ latch'["ID_LATCH"][p[2]] = IF p[2] \in Stalled
                    THEN [In[p[2]] EXCEPT !.valid = FALSE] ELSE In[p[2]]
        BY <3>1, <3>3 DEF ID, TypeInv, Latches
      <4>2. CASE p[2] \in Stalled
        BY <2>1, <2>2, <3>1, <4>1, <4>2 DEF Live
      <4>3. CASE p[2] \notin Stalled
        <5> DEFINE q == <<"ID_LATCH", p[2]>>
        <5>1. q \in Places /\ q[1] = "ID_LATCH" /\ q[2] = p[2]
          BY <3>1, PlaceFacts DEF Latches
        <5> HIDE DEF q
        <5>2. At(q)' = At(p)
          BY <3>1, <4>1, <4>3, <5>1 DEF At, In
        <5>3. lane' <= p[2]
          BY <3>1, <4>1 DEF Lanes
        <5> QED  BY <2>1, <2>2, <4>1, <4>3, <5>1, <5>2, <5>3 DEF Live
      <4> QED  BY <4>2, <4>3
    <3> QED  BY <1>6, <3>2, <3>3
  <2>3. Drained' => Drained
    BY <2>1 DEF Drained
  <2> HIDE DEF Last
  <2> QED  BY <1>2, <2>1, <2>2, <2>3
<1>7. CASE IF_
  <2>1. /\ NextLane /\ stage = "IF" /\ UNCHANGED <<stat_retired_inst, stall>> /\ lane \in Lanes
    BY <1>7, FetchCases, NextLaneType
  <2>2. CASE FetchRecord
    <3>1. /\ last_op_id' = last_op_id + 1 /\ ~ trace_end /\ trace_end' = trace_end
          /\ FetchPlace \in Places /\ FetchPlace[1] = "IF_LATCH"
          /\ \A p \in Places : p = FetchPlace => Live(p)' /\ At(p)'.op_id = last_op_id + 1
      BY <1>7, <2>2, FetchCases DEF FetchRecord
    <3>2. ~ fetch_cbr_stall'
      BY <1>2, <1>3, <2>2 DEF FetchRecord, pipe_check_bpred
    <3>3. ASSUME NEW p \in Places, p = FetchPlace
          PROVE  Last(p)'
      BY <3>1, <3>3
    <3>4. \E p \in Places : Last(p)'
      <4> HIDE DEF Last
      <4> QED  BY <3>1, <3>3
    <3> QED  BY <3>1, <3>2, <3>4 DEF Drained
  <2>3. CASE FetchEnd
    <3>1. /\ trace_end' /\ halt' = (halt \/ last_op_id = 0) /\ last_op_id' = last_op_id
      BY <2>3 DEF FetchEnd, HaltsAfter, Paced
    <3>2. ~ fetch_cbr_stall'
      BY <1>2, <1>3, <2>3 DEF FetchEnd, pipe_check_bpred
    <3>3. ASSUME Drained'
          PROVE  halt'
      <4>1. stat_retired_inst = last_op_id
        BY <2>1, <3>1, <3>3 DEF Drained
      <4>2. CASE trace_end
        BY <1>2, <3>1, <4>1, <4>2 DEF Drained
      <4>3. CASE last_op_id = 0
        BY <3>1, <4>3
      <4>4. CASE ~ trace_end /\ last_op_id > 0
        <5>1. PICK p \in Places : Last(p)
          BY <1>2, <4>4
        <5>2. At(p).op_id \in stat_retired_inst + 1 .. last_op_id
          BY <5>1 DEF FlowInv
        <5> QED  BY <1>1, <4>1, <5>2
      <4> QED  BY <1>1, <4>2, <4>3, <4>4
    <3> QED  BY <3>1, <3>2, <3>3
  <2>4. CASE FetchNothing
    BY <1>2, <2>4 DEF FetchNothing
  <2>5. CASE FetchStalledLane
    <3>1. /\ stall[lane]
          /\ UNCHANGED <<latch, fetch_cbr_stall, last_op_id, halt, trace_end>>
      BY <2>5 DEF FetchStalledLane
    <3>2. ASSUME NEW p \in Places, Last(p)
          PROVE  Last(p)'
      <4>1. Live(p)' /\ At(p)' = At(p)
        <5>1. ~ FetchRecord
          BY <3>1 DEF FetchRecord, Reads
        <5> QED  BY <1>7, <3>2, <5>1, FetchCases
      <4>2. CASE p[1] = "IF_LATCH"
        BY <3>1, <3>2, <4>1, <4>2
      <4>3. CASE p[1] = "ID_LATCH" /\ ~ stall[p[2]] /\ lane <= p[2]
        <5>1. lane \in Nat /\ p[2] \in Nat /\ p[2] < PIPE_WIDTH /\ PIPE_WIDTH \in Nat
          BY <2>1, PlaceFacts, LaneFacts
        <5>2. lane + 1 <= p[2] /\ lane + 1 # PIPE_WIDTH
          BY <3>1, <4>3, <5>1
        <5>3. stage' = "IF" /\ lane' = lane + 1
          BY <2>1, <5>2, LaneFacts DEF NextLane
        <5> QED  BY <2>1, <3>1, <3>2, <4>1, <4>3, <5>2, <5>3
      <4> QED  BY <3>2, <4>2, <4>3
    <3>3. Drained' => Drained
      BY <2>1, <3>1 DEF Drained
    <3> HIDE DEF Last
    <3> QED  BY <1>2, <3>1, <3>2, <3>3
  <2> QED  BY <1>7, <2>2, <2>3, <2>4, <2>5 DEF IF_
<1> QED  BY <1>5, <1>6, <1>7 DEF Next

(***************************************************************************)
(* When the loop of main ends, whether the pipeline has halted or          *)
(* check_heartbeat has given the run up, the whole trace has been read and *)
(* every instruction of it retired; the heartbeat does not give up a       *)
(* pipeline that has halted, and none whose branches are predicted         *)
(* perfectly.  For this to hold no instruction may take a whole heartbeat, *)
(* so that five cycles are enough for one: four latches and write back.    *)
(***************************************************************************)
THEOREM EndsWithTheTraceHolds == Paced => (MainSpec => []EndsWithTheTrace)
<1> SUFFICES ASSUME Paced PROVE MainSpec => []EndsWithTheTrace
  OBVIOUS
<1> DEFINE Inv == StallInv /\ HaltInv /\ ProgressInv /\ PerfectInv
           Known == TypeInv /\ FlowInv /\ BranchInv /\ HeartInv
<1>1. MainInit => Inv
  <2> SUFFICES ASSUME MainInit PROVE Inv
    OBVIOUS
  <2>1. /\ stage = "WB" /\ ~ fetch_cbr_stall /\ last_op_id = 0 /\ halt_op_id = NoHaltId
        /\ ~ halt /\ stat_retired_inst = 0 /\ ~ trace_end
        /\ stat_num_cycle = 0 /\ last_hbeat_inst = 0 /\ status = 0
    BY DEF MainInit, Init
  <2>2. \A p \in Places : ~ Live(p)
    BY PlaceFacts DEF MainInit, Init, Bubble, Live, At
  <2>3. Beats = 0
    BY <2>1, BeatFacts DEF Beats, Paced
  <2> QED  BY <2>1, <2>2, <2>3 DEF StallInv, HaltInv, ProgressInv, PerfectInv, Drained, Oldest
<1>2. Known /\ Inv /\ [MainStep]_<<vars, heart_vars>> => Inv'
  <2> SUFFICES ASSUME Known, Inv, [MainStep]_<<vars, heart_vars>> PROVE Inv'
    OBVIOUS
  <2>1. CASE MainStep
    <3>1. Next
      BY <2>1, Heartbeat
    <3> QED  BY <2>1, <3>1, StepStall, StepHalt, StepProgress, StepPerfect
  <2>2. CASE UNCHANGED <<vars, heart_vars>>
    BY <2>2 DEF vars, options, heart_vars, StallInv, HaltInv, ProgressInv, PerfectInv, Drained,
                Oldest, Live, At, Moved, Beats
  <2> QED  BY <2>1, <2>2
<1>3. Known /\ Inv => EndsWithTheTrace
  <2> SUFFICES ASSUME Known, Inv PROVE EndsWithTheTrace
    OBVIOUS
  <2>1. halt => Drained
    BY DEF HaltInv
  <2>2. status = 1 => Drained /\ ~ halt
    BY DEF HaltInv, ProgressInv
  <2>3. status = 1 => BPRED_POLICY # "PERFECT"
    BY <2>2 DEF PerfectInv
  <2> QED  BY <2>1, <2>2, <2>3 DEF EndsWithTheTrace, Drained
<1>4. MainSpec => []Known
  BY MainFlow
<1> HIDE DEF Inv, Known
<1> QED  BY <1>1, <1>2, <1>3, <1>4, PTL DEF MainSpec

-----------------------------------------------------------------------------
(***************************************************************************)
(* The times of the instructions.  First the recurrence alone: it has a    *)
(* solution, of numbers that go up, and a longer trace does not change it. *)
(* Then TimeInv: where each instruction is at any point of a cycle follows *)
(* from its issue cycle.  Last, each stage keeps it; for pipe_cycle_ID     *)
(* that is IssuesInTime, for pipe_cycle_IF FetchIsDue and FetchIsBehind.   *)
(***************************************************************************)

\* The last instruction before n that writes r, if there is one.
LEMMA LastWriterIs ==
    ASSUME TypeInv, NEW n \in 1 .. Len(trace), NEW r
    PROVE  LET m == LastWriter(n, r) IN
           /\ m \in 0 .. n - 1
           /\ m # 0 => m \in 1 .. n - 1 /\ r \in trace[m].writes
           /\ \A k \in 1 .. n - 1 : r \in trace[k].writes => m # 0 /\ k <= m
<1>1. PICK W : W = {m \in 1 .. n - 1 : r \in trace[m].writes}
  OBVIOUS
<1>2. n \in Nat /\ n - 1 \in Nat /\ W \in SUBSET (0 .. n - 1)
  BY <1>1 DEF TypeInv
<1>3. PICK m : m = LastWriter(n, r)
  OBVIOUS
<1>4. CASE W = {}
  <2>1. m = 0
    BY <1>1, <1>3, <1>4 DEF LastWriter
  <2> QED  BY <1>1, <1>2, <1>3, <1>4, <2>1
<1>5. CASE W # {}
  <2>1. m = Max(W)
    BY <1>1, <1>3, <1>5 DEF LastWriter
  <2>2. m \in W /\ \A k \in W : k <= m
    BY <1>2, <1>5, <2>1, GreatestIs DEF Greatest
  <2> QED  BY <1>1, <1>2, <1>3, <2>2
<1> QED  BY <1>4, <1>5

Entry(T, n) == LET f == FetchCycle(T, n) IN [fetch |-> f, issue |-> IssueCycle(T, n, f)]

\* The recurrence for n looks at those before n only.
LEMMA FetchLooksBack ==
    ASSUME NEW n \in Nat, NEW T, NEW U, \A m \in 1 .. n - 1 : T[m] = U[m]
    PROVE  FetchCycle(T, n) = FetchCycle(U, n)
<1>1. PICK w \in Nat \ {0} : w = PIPE_WIDTH
  BY PipelineAssumption
<1>2. n > 1 => n - 1 \in 1 .. n - 1
  OBVIOUS
<1>3. n > w => n - w \in 1 .. n - 1
  BY <1>1
<1>4. (n > 1 => T[n - 1] = U[n - 1]) /\ (n > w => T[n - w] = U[n - w])
  BY <1>2, <1>3
<1>5. /\ (IF n > 1 THEN {T[n - 1].fetch} ELSE {}) = (IF n > 1 THEN {U[n - 1].fetch} ELSE {})
      /\ (IF n > w THEN {T[n - w].issue} ELSE {}) = (IF n > w THEN {U[n - w].issue} ELSE {})
      /\ (IF n > 1 /\ Surprising(n - 1) THEN {T[n - 1].issue + 3} ELSE {})
             = (IF n > 1 /\ Surprising(n - 1) THEN {U[n - 1].issue + 3} ELSE {})
  BY <1>4
<1> QED  BY <1>1, <1>5, Zenon DEF FetchCycle

LEMMA EntryLooksBack ==
    ASSUME TypeInv, NEW n \in 1 .. Len(trace), NEW T, NEW U, \A m \in 1 .. n - 1 : T[m] = U[m]
    PROVE  Entry(T, n) = Entry(U, n)
<1>1. n \in Nat /\ FetchCycle(T, n) = FetchCycle(U, n)
  BY FetchLooksBack DEF TypeInv
<1>2. PICK f : f = FetchCycle(T, n)
  OBVIOUS
<1>3. n > 1 => T[n - 1] = U[n - 1]
  <2>1. n > 1 => n - 1 \in 1 .. n - 1
    BY <1>1
  <2> QED  BY <2>1
<1>4. ASSUME NEW c, NEW r
      PROVE  LET m == LastWriter(n, r) IN
             (m = 0 \/ Available(m, T[m].issue, c)) <=> (m = 0 \/ Available(m, U[m].issue, c))
  <2>1. PICK m : m = LastWriter(n, r)
    OBVIOUS
  <2>2. m # 0 => T[m] = U[m]
    BY <2>1, LastWriterIs
  <2> QED  BY <2>1, <2>2
<1>5. PICK a : a = IF n > 1 THEN Max({f + 1, T[n - 1].issue}) ELSE f + 1
  OBVIOUS
<1>6. a = IF n > 1 THEN Max({f + 1, U[n - 1].issue}) ELSE f + 1
  BY <1>3, <1>5
<1>7. {c \in a .. a + 3 : \A r \in trace[n].reads :
           LET m == LastWriter(n, r) IN m = 0 \/ Available(m, T[m].issue, c)}
          = {c \in a .. a + 3 : \A r \in trace[n].reads :
                 LET m == LastWriter(n, r) IN m = 0 \/ Available(m, U[m].issue, c)}
  BY <1>4
<1>8. IssueCycle(T, n, f) = IssueCycle(U, n, f)
  BY <1>5, <1>6, <1>7, Zenon DEF IssueCycle
<1> QED  BY <1>1, <1>2, <1>8, Zenon DEF Entry

\* So there is one solution.
LEMMA TimesSolve == TypeInv => \A n \in 1 .. Len(trace) : Times[n] = Entry(Times, n)
<1> SUFFICES ASSUME TypeInv PROVE \A n \in 1 .. Len(trace) : Times[n] = Entry(Times, n)
  OBVIOUS
<1> DEFINE Fits(g, m) == g = [n \in 1 .. m |-> LET f == FetchCycle(g, n) IN
                                  [fetch |-> f, issue |-> IssueCycle(g, n, f)]]
           Bad == {m \in 0 .. Len(trace) : ~ \E g : Fits(g, m)}
<1>1. PICK N \in Nat : N = Len(trace)
  BY DEF TypeInv
<1>2. \A g, m : Fits(g, m) <=> g = [n \in 1 .. m |-> Entry(g, n)]
  BY DEF Entry
<1>3. Times = CHOOSE g : Fits(g, Len(trace))
  BY DEF Times
<1> HIDE DEF Fits
<1>4. Bad = {}
  <2> SUFFICES ASSUME Bad # {} PROVE FALSE
    OBVIOUS
  <2>1. PICK t \in Bad : \A u \in Bad : t <= u
    <3>1. Bad \in SUBSET Nat
      BY <1>1
    <3> HIDE DEF Bad
    <3> QED  BY <3>1, FirstExists
  <2>2. t \in 0 .. N /\ \A g : ~ Fits(g, t)
    BY <1>1
  <2>3. t # 0
    <3>1. 1 .. 0 = {}
      OBVIOUS
    <3>2. [n \in 1 .. 0 |-> 0] = [n \in 1 .. 0 |-> Entry([m \in 1 .. 0 |-> 0], n)]
      BY <3>1
    <3>3. Fits([n \in 1 .. 0 |-> 0], 0)
      BY <1>2, <3>2
    <3> QED  BY <2>2, <3>3
  <2>4. t - 1 \in 0 .. N /\ ~ (t <= t - 1) /\ t \in 1 .. N
    BY <1>1, <2>2, <2>3
  <2>5. PICK g : Fits(g, t - 1)
    <3>1. t - 1 \notin Bad
      BY <2>1, <2>4
    <3> QED  BY <1>1, <2>4, <3>1
  <2>6. \A n \in 1 .. t - 1 : g[n] = Entry(g, n)
    BY <1>2, <2>5
  <2>7. PICK h : h = [n \in 1 .. t |-> IF n = t THEN Entry(g, t) ELSE g[n]]
    OBVIOUS
  <2>8. ASSUME NEW n \in 1 .. t
        PROVE  h[n] = Entry(h, n)
    <3>1. n \in 1 .. Len(trace)
      BY <1>1, <2>4
    <3>2. \A m \in 1 .. n - 1 : g[m] = h[m]
      BY <2>2, <2>7
    <3>3. Entry(g, n) = Entry(h, n)
      BY <3>1, <3>2, EntryLooksBack
    <3>4. n # t => n \in 1 .. t - 1
      BY <2>2
    <3> QED  BY <2>6, <2>7, <3>3, <3>4
  <2>9. h = [n \in 1 .. t |-> Entry(h, n)]
    BY <2>7, <2>8
  <2> QED  BY <1>2, <2>2, <2>9
<1>5. Fits(Times, Len(trace))
  <2>1. Len(trace) \in 0 .. Len(trace)
    BY <1>1
  <2>2. \E g : Fits(g, Len(trace))
    BY <1>4, <2>1
  <2> QED  BY <1>3, <2>2
<1>6. Times = [n \in 1 .. Len(trace) |-> Entry(Times, n)]
  BY <1>2, <1>5
<1> QED  BY <1>6

LEMMA FetchIs ==
    ASSUME TypeInv, NEW n \in 1 .. Len(trace) + 1, NEW T,
           \A m \in 1 .. n - 1 : T[m].fetch \in Nat /\ T[m].issue \in Nat
    PROVE  /\ FetchCycle(T, n) \in Nat
           /\ \A x \in Nat : FetchCycle(T, n) <= x <=>
                  /\ 1 <= x
                  /\ n > 1 => T[n - 1].fetch <= x
                  /\ n > PIPE_WIDTH => T[n - PIPE_WIDTH].issue <= x
                  /\ n > 1 /\ Surprising(n - 1) => T[n - 1].issue + 3 <= x
<1>1. PICK w \in Nat \ {0} : w = PIPE_WIDTH
  BY PipelineAssumption
<1>2. n \in Nat /\ (n > 1 => n - 1 \in 1 .. n - 1) /\ (n > w => n - w \in 1 .. n - 1)
  BY <1>1 DEF TypeInv
<1>3. PICK A : A = IF n > 1 THEN {T[n - 1].fetch} ELSE {}
  OBVIOUS
<1>4. PICK B : B = IF n > w THEN {T[n - w].issue} ELSE {}
  OBVIOUS
<1>5. PICK C : C = IF n > 1 /\ Surprising(n - 1) THEN {T[n - 1].issue + 3} ELSE {}
  OBVIOUS
<1>6. FetchCycle(T, n) = Max({1} \cup A \cup B \cup C)
  BY <1>1, <1>3, <1>4, <1>5, Zenon DEF FetchCycle
<1>7. PICK a \in Nat : A \in SUBSET {a}
  BY <1>2, <1>3
<1>8. PICK b \in Nat : B \in SUBSET {b}
  BY <1>2, <1>4
<1>9. PICK c \in Nat : C \in SUBSET {c}
  <2>1. CASE n > 1 /\ Surprising(n - 1)
    <3>1. T[n - 1].issue + 3 \in Nat
      BY <1>2, <2>1
    <3> QED  BY <1>5, <2>1, <3>1
  <2>2. CASE ~ (n > 1 /\ Surprising(n - 1))
    BY <1>5, <2>2
  <2> QED  BY <2>1, <2>2
<1>10. PICK U : U = {1} \cup A \cup B \cup C
  OBVIOUS
<1>11. U \in SUBSET (0 .. 1 + a + b + c) /\ U # {} /\ 1 + a + b + c \in Nat
  BY <1>7, <1>8, <1>9, <1>10
<1>12. Greatest(U, Max(U))
  BY <1>11, GreatestIs
<1>13. PICK f : f = FetchCycle(T, n)
  OBVIOUS
<1>14. f \in U /\ f \in Nat /\ \A m \in U : m <= f
  <2>1. f = Max(U)
    BY <1>6, <1>10, <1>13
  <2>2. \A m \in U : m \in Nat
    BY <1>11
  <2> QED  BY <1>12, <2>1, <2>2 DEF Greatest
<1>15. ASSUME NEW x \in Nat
       PROVE  f <= x <=> \A m \in U : m <= x
  <2>1. \A m \in U : m \in Nat
    BY <1>11
  <2> QED  BY <1>14, <2>1
<1>16. ASSUME NEW x \in Nat
       PROVE  /\ (\A m \in A : m <= x) <=> (n > 1 => T[n - 1].fetch <= x)
              /\ (\A m \in B : m <= x) <=> (n > w => T[n - w].issue <= x)
              /\ (\A m \in C : m <= x) <=>
                     (n > 1 /\ Surprising(n - 1) => T[n - 1].issue + 3 <= x)
  BY <1>3, <1>4, <1>5
<1>17. ASSUME NEW x \in Nat
       PROVE  (\A m \in U : m <= x) <=>
                  /\ 1 <= x
                  /\ n > 1 => T[n - 1].fetch <= x
                  /\ n > w => T[n - w].issue <= x
                  /\ n > 1 /\ Surprising(n - 1) => T[n - 1].issue + 3 <= x
  <2>1. (\A m \in U : m <= x) <=>
            /\ 1 <= x /\ (\A m \in A : m <= x) /\ (\A m \in B : m <= x)
            /\ \A m \in C : m <= x
    BY <1>10
  <2> QED  BY <1>16, <2>1
<1> QED  BY <1>1, <1>13, <1>14, <1>15, <1>17

\* Whether all that n reads can be had by an instruction that issues in cycle c.
HasAll(T, n, c) ==
    \A r \in trace[n].reads :
        LET m == LastWriter(n, r) IN m = 0 \/ Available(m, T[m].issue, c)

LEMMA IssueIs ==
    ASSUME TypeInv, NEW n \in 1 .. Len(trace), NEW T, NEW f \in Nat,
           \A m \in 1 .. n - 1 : T[m].issue \in Nat /\ T[m].issue <= T[n - 1].issue
    PROVE  LET i == IssueCycle(T, n, f) IN
           /\ i \in Nat /\ f < i /\ (n > 1 => T[n - 1].issue <= i)
           /\ \A d \in Nat : d < i =>
                  (i = d + 1 <=> /\ f <= d /\ (n > 1 => T[n - 1].issue <= d + 1)
                                 /\ HasAll(T, n, d + 1))
<1>1. n \in Nat /\ (n > 1 => T[n - 1].issue \in Nat)
  <2>1. n \in Nat /\ (n > 1 => n - 1 \in 1 .. n - 1)
    BY DEF TypeInv
  <2> QED  BY <2>1
<1>2. PICK a : a = IF n > 1 THEN Max({f + 1, T[n - 1].issue}) ELSE f + 1
  OBVIOUS
<1>3. /\ a \in Nat /\ f + 1 <= a /\ (n > 1 => T[n - 1].issue <= a)
      /\ \A x \in Nat : a <= x <=> f + 1 <= x /\ (n > 1 => T[n - 1].issue <= x)
  <2>1. CASE n > 1
    <3>1. PICK t \in Nat : t = T[n - 1].issue
      BY <1>1, <2>1
    <3>2. PICK U : U = {f + 1, t}
      OBVIOUS
    <3>3. U \in SUBSET (0 .. f + 1 + t) /\ U # {} /\ f + 1 + t \in Nat
      BY <3>1, <3>2
    <3>4. Greatest(U, a)
      BY <1>2, <2>1, <3>1, <3>2, <3>3, GreatestIs
    <3>5. (a = f + 1 \/ a = t) /\ f + 1 <= a /\ t <= a
      BY <3>2, <3>4 DEF Greatest
    <3> QED  BY <2>1, <3>1, <3>5
  <2>2. CASE ~ (n > 1)
    BY <1>2, <2>2
  <2> QED  BY <2>1, <2>2
<1>4. PICK S : S = {c \in a .. a + 3 : HasAll(T, n, c)}
  OBVIOUS
<1>5. IssueCycle(T, n, f) = Min(S)
  BY <1>2, <1>4, Zenon DEF IssueCycle, HasAll
<1>6. HasAll(T, n, a + 3)
  <2> SUFFICES ASSUME NEW r \in trace[n].reads, NEW m, m = LastWriter(n, r), m # 0
               PROVE  Available(m, T[m].issue, a + 3)
    BY DEF HasAll
  <2>1. m \in 1 .. n - 1
    BY LastWriterIs
  <2>2. T[m].issue \in Nat /\ T[m].issue <= T[n - 1].issue /\ n > 1
    BY <1>1, <2>1
  <2>3. T[m].issue <= a
    BY <1>1, <1>3, <2>2
  <2> QED  BY <1>3, <2>2, <2>3 DEF Available
<1>7. a + 3 \in S /\ S \in SUBSET Nat
  BY <1>3, <1>4, <1>6
<1>8. PICK s \in S : \A t \in S : s <= t
  BY <1>7, FirstExists
<1>9. PICK i : i = IssueCycle(T, n, f)
  OBVIOUS
<1>10. i \in S /\ \A t \in S : i <= t
  BY <1>5, <1>8, <1>9 DEF Min
<1>11. i \in Nat /\ a <= i /\ i <= a + 3 /\ HasAll(T, n, i)
  BY <1>3, <1>4, <1>10
<1>12. f < i /\ (n > 1 => T[n - 1].issue <= i)
  BY <1>1, <1>3, <1>11
<1>13. ASSUME NEW d \in Nat, d < i
       PROVE  i = d + 1 <=> a <= d + 1 /\ HasAll(T, n, d + 1)
  <2>1. ASSUME a <= d + 1, HasAll(T, n, d + 1)
        PROVE  i = d + 1
    <3>1. d + 1 \in a .. a + 3
      BY <1>3, <1>11, <1>13, <2>1
    <3>2. i <= d + 1
      BY <1>4, <1>10, <2>1, <3>1
    <3> QED  BY <1>11, <1>13, <3>2
  <2> QED  BY <1>11, <2>1
<1>14. ASSUME NEW d \in Nat
       PROVE  a <= d + 1 <=> f <= d /\ (n > 1 => T[n - 1].issue <= d + 1)
  BY <1>3
<1> QED  BY <1>9, <1>11, <1>12, <1>13, <1>14

\* The times are numbers, and the issue cycles go up.
Clocked ==
    \A n \in 1 .. Len(trace) :
        /\ Times[n].fetch \in Nat /\ Times[n].issue \in Nat
        /\ Times[n].fetch < Times[n].issue
        /\ \A m \in 1 .. n : Times[m].issue <= Times[n].issue

LEMMA TimesAreClocked == TypeInv => Clocked
<1> SUFFICES ASSUME TypeInv PROVE Clocked
  OBVIOUS
<1>1. PICK N \in Nat : N = Len(trace)
  BY DEF TypeInv
<1>2. PICK T : T = Times
  OBVIOUS
<1> DEFINE Good(n) == /\ T[n].fetch \in Nat /\ T[n].issue \in Nat /\ T[n].fetch < T[n].issue
                      /\ \A m \in 1 .. n : T[m].issue <= T[n].issue
           Bad == {n \in 1 .. N : ~ Good(n)}
<1>3. Bad = {}
  <2> SUFFICES ASSUME Bad # {} PROVE FALSE
    OBVIOUS
  <2>1. PICK n \in Bad : \A u \in Bad : n <= u
    <3>1. Bad \in SUBSET Nat
      BY <1>1
    <3> HIDE DEF Bad
    <3> QED  BY <3>1, FirstExists
  <2>2. n \in 1 .. N /\ n \in Nat /\ ~ Good(n)
    BY <1>1
  <2>3. \A m \in 1 .. n - 1 : Good(m)
    <3> HIDE DEF Good
    <3>1. \A m \in 1 .. n - 1 : m \in 1 .. N /\ ~ (n <= m)
      BY <1>1, <2>2
    <3> QED  BY <2>1, <3>1
  <2>4. \A m \in 1 .. n - 1 : T[m].fetch \in Nat /\ T[m].issue \in Nat
    BY <2>3
  <2>5. n > 1 => n - 1 \in 1 .. n - 1 /\ Good(n - 1)
    <3> HIDE DEF Good
    <3>1. n > 1 => n - 1 \in 1 .. n - 1
      BY <2>2
    <3> QED  BY <2>3, <3>1
  <2>6. \A m \in 1 .. n - 1 : T[m].issue <= T[n - 1].issue
    <3>1. \A m \in 1 .. n - 1 : n > 1 /\ m \in 1 .. n - 1
      BY <2>2
    <3> QED  BY <2>5, <3>1
  <2>7. T[n] = Entry(T, n)
    BY <1>1, <1>2, <2>2, TimesSolve
  <2>8. PICK f : f = FetchCycle(T, n)
    OBVIOUS
  <2>9. f \in Nat
    <3>1. n \in 1 .. Len(trace) + 1
      BY <1>1, <2>2
    <3> QED  BY <2>4, <2>8, <3>1, FetchIs
  <2>10. PICK i : i = IssueCycle(T, n, f)
    OBVIOUS
  <2>11. T[n].fetch = f /\ T[n].issue = i
    BY <2>7, <2>8, <2>10 DEF Entry
  <2>12. i \in Nat /\ f < i /\ (n > 1 => T[n - 1].issue <= i)
    BY <1>1, <2>2, <2>4, <2>6, <2>9, <2>10, IssueIs
  <2>13. \A m \in 1 .. n : T[m].issue <= i
    <3>1. ASSUME NEW m \in 1 .. n - 1 PROVE T[m].issue <= i
      <4>1. n > 1 /\ T[m].issue \in Nat /\ T[n - 1].issue \in Nat
        BY <2>2, <2>4, <2>5
      <4> QED  BY <2>6, <2>12, <4>1
    <3>2. \A m \in 1 .. n : m = n \/ m \in 1 .. n - 1
      BY <2>2
    <3> QED  BY <2>11, <2>12, <3>1, <3>2
  <2>14. Good(n)
    BY <2>9, <2>11, <2>12, <2>13
  <2> HIDE DEF Good
  <2> QED  BY <2>2, <2>14
<1> QED  BY <1>1, <1>2, <1>3 DEF Clocked

\* What the recurrence says of one instruction.
LEMMA TimeOf ==
    ASSUME TypeInv, NEW n \in 1 .. Len(trace)
    PROVE  /\ Times[n].fetch = FetchCycle(Times, n)
           /\ \A d \in Nat : d < Times[n].issue =>
                  (Times[n].issue = d + 1 <=>
                       /\ Times[n].fetch <= d /\ (n > 1 => Times[n - 1].issue <= d + 1)
                       /\ HasAll(Times, n, d + 1))
<1>1. PICK T : T = Times
  OBVIOUS
<1>2. Clocked /\ n \in Nat
  BY TimesAreClocked DEF TypeInv
<1>3. \A m \in 1 .. n - 1 : m \in 1 .. Len(trace) /\ n > 1
  BY <1>2 DEF TypeInv
<1>4. n > 1 => n - 1 \in 1 .. Len(trace)
  BY <1>2 DEF TypeInv
<1>5. \A m \in 1 .. n - 1 : T[m].issue \in Nat /\ T[m].issue <= T[n - 1].issue
  <2>1. \A m \in 1 .. n - 1 : m \in 1 .. n - 1 /\ n > 1 /\ n - 1 \in 1 .. Len(trace)
    BY <1>3, <1>4
  <2> QED  BY <1>1, <1>2, <1>3, <2>1 DEF Clocked
<1>6. PICK f : f = T[n].fetch
  OBVIOUS
<1>7. f \in Nat
  BY <1>1, <1>2, <1>6 DEF Clocked
<1>8. T[n] = Entry(T, n)
  BY <1>1, TimesSolve
<1>9. f = FetchCycle(T, n)
  BY <1>6, <1>8 DEF Entry
<1>10. T[n].issue = IssueCycle(T, n, f)
  BY <1>8, <1>9 DEF Entry
<1> QED  BY <1>1, <1>5, <1>6, <1>7, <1>9, <1>10, IssueIs

\* The times of the instructions do not depend on what is read after them.
LEMMA TimesStay ==
    ASSUME TypeInv, TypeInv', UNCHANGED options, Len(trace) <= Len(trace'),
           \A k \in 1 .. Len(trace) : trace'[k] = trace[k]
    PROVE  /\ \A n \in 1 .. Len(trace) : Times'[n] = Times[n]
           /\ \A n \in 1 .. Len(trace) + 1 : FetchCycle(Times, n)' = FetchCycle(Times, n)
<1>1. PICK T : T = Times
  OBVIOUS
<1>2. PICK U : U = Times'
  OBVIOUS
<1>3. PICK N \in Nat : N = Len(trace)
  BY DEF TypeInv
<1>4. PICK M \in Nat : M = Len(trace')
  BY DEF TypeInv
<1>5. ASSUME NEW k \in 1 .. N
      PROVE  Surprising(k)' <=> Surprising(k)
  BY <1>3, <1>5 DEF Surprising, options
<1>6. ASSUME NEW n \in 1 .. N + 1
      PROVE  FetchCycle(Times, n)' = FetchCycle(U, n)
  <2>1. n > 1 => n - 1 \in 1 .. N
    BY <1>3
  <2>2. PICK s \in BOOLEAN : s = (n > 1 /\ Surprising(n - 1))
    OBVIOUS
  <2>3. s = (n > 1 /\ Surprising(n - 1)')
    BY <1>5, <2>1, <2>2
  <2>4. FetchCycle(U, n) =
            Max({1} \cup (IF n > 1 THEN {U[n - 1].fetch} ELSE {})
                    \cup (IF n > PIPE_WIDTH THEN {U[n - PIPE_WIDTH].issue} ELSE {})
                    \cup (IF s THEN {U[n - 1].issue + 3} ELSE {}))
    BY <2>2, Zenon DEF FetchCycle
  <2>5. FetchCycle(Times, n)' =
            Max({1} \cup (IF n > 1 THEN {Times'[n - 1].fetch} ELSE {})
                    \cup (IF n > PIPE_WIDTH THEN {Times'[n - PIPE_WIDTH].issue} ELSE {})
                    \cup (IF s THEN {Times'[n - 1].issue + 3} ELSE {}))
    BY <2>3, Zenon DEF FetchCycle
  <2> QED  BY <1>2, <2>4, <2>5, Zenon
<1>7. ASSUME NEW n \in 1 .. N, NEW r
      PROVE  LastWriter(n, r)' = LastWriter(n, r)
  <2>1. {m \in 1 .. n - 1 : r \in trace'[m].writes} = {m \in 1 .. n - 1 : r \in trace[m].writes}
    BY <1>3
  <2> QED  BY <2>1, Zenon DEF LastWriter
<1>8. ASSUME NEW n \in 1 .. N, NEW c
      PROVE  HasAll(Times, n, c)' <=> HasAll(U, n, c)
  <2>1. trace'[n] = trace[n]
    BY <1>3
  <2>2. ASSUME NEW r, NEW m, m = LastWriter(n, r)
        PROVE  (m = 0 \/ Available(m, Times[m].issue, c))' <=>
                   (m = 0 \/ Available(m, U[m].issue, c))
    <3>1. n \in 1 .. Len(trace)
      BY <1>3
    <3>2. m \in 0 .. n - 1
      BY <2>2, <3>1, LastWriterIs
    <3>3. m # 0 => trace'[m] = trace[m]
      BY <1>3, <3>2
    <3>4. m # 0 => (Available(m, Times[m].issue, c)' <=> Available(m, U[m].issue, c))
      BY <1>2, <3>3 DEF Available, options
    <3> QED  BY <3>4
  <2> QED  BY <1>7, <2>1, <2>2 DEF HasAll
<1>9. ASSUME NEW n \in 1 .. N
      PROVE  Entry(Times, n)' = Entry(U, n)
  <2>1. PICK f : f = FetchCycle(U, n)
    OBVIOUS
  <2>2. FetchCycle(Times, n)' = f
    <3>1. n \in 1 .. N + 1
      BY <1>3
    <3> QED  BY <1>6, <2>1, <3>1
  <2>3. PICK a : a = IF n > 1 THEN Max({f + 1, U[n - 1].issue}) ELSE f + 1
    OBVIOUS
  <2>4. PICK S : S = {c \in a .. a + 3 : HasAll(U, n, c)}
    OBVIOUS
  <2>5. IssueCycle(U, n, f) = Min(S)
    BY <2>3, <2>4, Zenon DEF IssueCycle, HasAll
  <2>6. S = {c \in a .. a + 3 : HasAll(Times, n, c)'}
    BY <1>8, <2>4
  <2>7. IssueCycle(Times, n, f)' = Min(S)
    BY <1>2, <2>3, <2>6, Zenon DEF IssueCycle, HasAll
  <2>8. Entry(Times, n)' = [fetch |-> f, issue |-> IssueCycle(Times, n, f)']
    BY <2>2, Zenon DEF Entry
  <2>9. Entry(U, n) = [fetch |-> f, issue |-> IssueCycle(U, n, f)]
    BY <2>1, Zenon DEF Entry
  <2> QED  BY <2>5, <2>7, <2>8, <2>9
<1>10. \A n \in 1 .. N : T[n] = Entry(T, n)
  BY <1>1, <1>3, TimesSolve
<1>11. \A n \in 1 .. N : U[n] = Entry(U, n)
  <2>1. (TypeInv => \A n \in 1 .. Len(trace) : Times[n] = Entry(Times, n))'
    BY TimesSolve, PTL
  <2>2. \A n \in 1 .. N : n \in 1 .. M
    BY <1>3, <1>4
  <2>3. \A n \in 1 .. M : Times'[n] = Entry(Times, n)'
    BY <1>4, <2>1
  <2> QED  BY <1>2, <1>9, <2>2, <2>3
<1> DEFINE Bad == {n \in 1 .. N : U[n] # T[n]}
<1>12. Bad = {}
  <2> SUFFICES ASSUME Bad # {} PROVE FALSE
    OBVIOUS
  <2>1. PICK n \in Bad : \A u \in Bad : n <= u
    <3>1. Bad \in SUBSET Nat
      BY <1>3
    <3> HIDE DEF Bad
    <3> QED  BY <3>1, FirstExists
  <2>2. n \in 1 .. N /\ n \in 1 .. Len(trace)
    BY <1>3
  <2>3. \A m \in 1 .. n - 1 : U[m] = T[m]
    <3>1. \A m \in 1 .. n - 1 : m \in 1 .. N /\ ~ (n <= m)
      BY <1>3, <2>2
    <3> QED  BY <2>1, <3>1
  <2>4. Entry(U, n) = Entry(T, n)
    BY <2>2, <2>3, EntryLooksBack
  <2> QED  BY <1>10, <1>11, <2>1, <2>2, <2>4
<1>13. \A n \in 1 .. N : U[n] = T[n]
  BY <1>12
<1>14. ASSUME NEW n \in 1 .. N + 1
       PROVE  FetchCycle(U, n) = FetchCycle(T, n)
  <2>1. n \in Nat /\ \A m \in 1 .. n - 1 : U[m] = T[m]
    BY <1>3, <1>13
  <2> QED  BY <2>1, FetchLooksBack
<1> QED  BY <1>1, <1>2, <1>3, <1>6, <1>13, <1>14

-----------------------------------------------------------------------------
(***************************************************************************)
(* Where an instruction is at any point of a cycle follows from the cycle  *)
(* of its issue.  Decoded is the last cycle whose pipe_cycle_ID is over.   *)
(***************************************************************************)
Decoded == IF stage = "IF" THEN stat_num_cycle + 1 ELSE stat_num_cycle

InTime(t, i) ==
    CASE t = "IF_LATCH" -> i > Decoded
      [] t = "ID_LATCH" -> i = Decoded
      [] t = "EX_LATCH" -> i = IF stage = "ID" THEN Decoded ELSE Decoded - 1
      [] t = "MA_LATCH" -> i = IF stage \in {"EX", "ID"} THEN Decoded - 1 ELSE Decoded - 2

\* How long ago what has been retired has been issued at least.
RetiredBy == IF stage \in {"MA", "EX", "ID"} THEN Decoded - 2 ELSE Decoded - 3

\* What is in a latch is the instruction of the trace with that number.
CopyInv ==
    \A p \in Places : Live(p) =>
        LET n == At(p).op_id IN
        /\ At(p).trace_rec = trace[n]
        /\ BPRED_POLICY # "GSHARE" => (At(p).is_mispred_cbr <=> Surprising(n))

PlaceInv ==
    /\ \A p \in Places : Live(p) => InTime(p[1], Times[At(p).op_id].issue)
    /\ \A n \in 1 .. stat_retired_inst : Times[n].issue <= RetiredBy

\* Fetch has read all that it could: in the lanes that it has done there is an
\* instruction, if nothing is waited for.
FetchInv ==
    /\ \A n \in 1 .. Len(trace) : Times[n].fetch <= Decoded
    /\ ~ trace_end => FetchCycle(Times, Len(trace) + 1) > stat_num_cycle
    /\ stage = "IF" /\ ~ trace_end /\ ~ fetch_cbr_stall =>
           \A p \in Places : p[1] = "IF_LATCH" /\ p[2] < lane => Live(p)

EndInv ==
    /\ halt_op_id = IF trace_end THEN last_op_id ELSE NoHaltId
    /\ trace_end /\ last_op_id = 0 => halt
    /\ halt => /\ trace_end
               /\ LastRetires(Times) = IF stage = "WB" THEN stat_num_cycle ELSE stat_num_cycle + 1

TimeInv == CopyInv /\ (BPRED_POLICY # "GSHARE" => PlaceInv /\ FetchInv /\ EndInv)

-----------------------------------------------------------------------------
(* Which instructions pipe_cycle_ID lets go. *)

\* The latches that ID sees: what is in MA, EX and IF, in that order of age.
LEMMA DecodeSees ==
    ASSUME TypeInv, FlowInv, CopyInv, PlaceInv, BPRED_POLICY # "GSHARE", stage = "ID",
           stat_num_cycle \in Nat
    PROVE  /\ Decoded = stat_num_cycle /\ RetiredBy = Decoded - 2
           /\ \A t \in {"MA_LATCH", "EX_LATCH", "IF_LATCH"}, j \in Lanes : latch[t][j].valid =>
                  LET n == latch[t][j].op_id IN
                  /\ n \in stat_retired_inst + 1 .. last_op_id /\ n \in 1 .. Len(trace)
                  /\ latch[t][j].trace_rec = trace[n]
                  /\ t = "MA_LATCH" => Times[n].issue = Decoded - 1
                  /\ t = "EX_LATCH" => Times[n].issue = Decoded
                  /\ t = "IF_LATCH" => Times[n].issue > Decoded
                  /\ t # "IF_LATCH" => \A k \in Lanes : In[k].valid => n < In[k].op_id
           /\ \A j, k \in Lanes : In[j].valid /\ In[k].valid /\ In[j].op_id = In[k].op_id => j = k
           /\ \A n \in stat_retired_inst + 1 .. last_op_id :
                  \E t \in {"MA_LATCH", "EX_LATCH", "IF_LATCH"}, j \in Lanes :
                      latch[t][j].valid /\ latch[t][j].op_id = n
<1>1. Decoded = stat_num_cycle /\ RetiredBy = Decoded - 2
  BY DEF Decoded, RetiredBy
<1>2. \A t \in Latches, j \in Lanes :
          /\ <<t, j>> \in Places /\ <<t, j>>[1] = t /\ <<t, j>>[2] = j
          /\ At(<<t, j>>) = latch[t][j]
          /\ Live(<<t, j>>) <=> latch[t][j].valid /\ t # "ID_LATCH"
  BY PlaceFacts DEF Live, At, Latches
<1>3. {"MA_LATCH", "EX_LATCH", "IF_LATCH"} \subseteq Latches
  BY DEF Latches
<1>4. ASSUME NEW t \in {"MA_LATCH", "EX_LATCH", "IF_LATCH"}, NEW j \in Lanes, latch[t][j].valid
      PROVE  LET n == latch[t][j].op_id IN
             /\ n \in stat_retired_inst + 1 .. last_op_id /\ n \in 1 .. Len(trace)
             /\ latch[t][j].trace_rec = trace[n]
             /\ t = "MA_LATCH" => Times[n].issue = Decoded - 1
             /\ t = "EX_LATCH" => Times[n].issue = Decoded
             /\ t = "IF_LATCH" => Times[n].issue > Decoded
             /\ t # "IF_LATCH" => \A k \in Lanes : In[k].valid => n < In[k].op_id
  <2>1. PICK p : p = <<t, j>>
    OBVIOUS
  <2>2. /\ p \in Places /\ p[1] = t /\ p[2] = j /\ Live(p) /\ At(p) = latch[t][j]
    BY <1>2, <1>3, <1>4, <2>1
  <2>3. PICK n : n = latch[t][j].op_id
    OBVIOUS
  <2>4. n \in stat_retired_inst + 1 .. last_op_id
    BY <2>2, <2>3 DEF FlowInv
  <2>5. n \in 1 .. Len(trace)
    BY <2>4 DEF TypeInv
  <2>6. latch[t][j].trace_rec = trace[n] /\ InTime(t, Times[n].issue)
    BY <2>2, <2>3 DEF CopyInv, PlaceInv
  <2>7. /\ t = "MA_LATCH" => Times[n].issue = Decoded - 1
        /\ t = "EX_LATCH" => Times[n].issue = Decoded
        /\ t = "IF_LATCH" => Times[n].issue > Decoded
    BY <2>6 DEF InTime
  <2>8. ASSUME t # "IF_LATCH", NEW k \in Lanes, In[k].valid
        PROVE  n < In[k].op_id
    <3>1. PICK q : q = <<"IF_LATCH", k>>
      OBVIOUS
    <3>2. q \in Places /\ q[1] = "IF_LATCH" /\ Live(q) /\ At(q) = In[k]
      BY <1>2, <1>3, <2>8, <3>1 DEF In
    <3>3. Depth(p[1]) > Depth(q[1])
      BY <2>2, <2>8, <3>2, DepthFacts
    <3> QED  BY <2>2, <2>3, <3>2, <3>3 DEF FlowInv
  <2> QED  BY <2>3, <2>4, <2>5, <2>6, <2>7, <2>8
<1>5. ASSUME NEW j \in Lanes, NEW k \in Lanes, In[j].valid, In[k].valid,
             In[j].op_id = In[k].op_id
      PROVE  j = k
  <2>1. PICK p, q : p = <<"IF_LATCH", j>> /\ q = <<"IF_LATCH", k>>
    OBVIOUS
  <2>2. /\ p \in Places /\ p[2] = j /\ Live(p) /\ At(p) = In[j]
        /\ q \in Places /\ q[2] = k /\ Live(q) /\ At(q) = In[k]
    BY <1>2, <1>3, <1>5, <2>1 DEF In
  <2>3. p = q
    BY <1>5, <2>2 DEF FlowInv
  <2> QED  BY <2>2, <2>3
<1>6. ASSUME NEW n \in stat_retired_inst + 1 .. last_op_id
      PROVE  \E t \in {"MA_LATCH", "EX_LATCH", "IF_LATCH"}, j \in Lanes :
                 latch[t][j].valid /\ latch[t][j].op_id = n
  <2>1. PICK p \in Places : Live(p) /\ At(p).op_id = n
    BY DEF FlowInv
  <2>2. p[1] \in Latches /\ p[2] \in Lanes /\ p[1] # "ID_LATCH" /\ latch[p[1]][p[2]].valid
    BY <2>1, PlaceFacts DEF Live, At
  <2>3. p[1] \in {"MA_LATCH", "EX_LATCH", "IF_LATCH"}
    BY <2>2 DEF Latches
  <2> QED  BY <2>1, <2>2, <2>3 DEF At
<1> QED  BY <1>1, <1>4, <1>5, <1>6

\* The producer that a lane waits for is the last writer of what it reads, if that
\* has not retired, and whether it must is a matter of its issue cycle.
LEMMA WaitsForLastWriter ==
    ASSUME TypeInv, FlowInv, CopyInv, PlaceInv, BPRED_POLICY # "GSHARE", stage = "ID",
           stat_num_cycle \in Nat, NEW k \in Lanes, In[k].valid, NEW gone,
           \A j \in gone : In[j].valid /\ ~ (In[j].op_id < In[k].op_id), NEW r
    PROVE  LET P == Producers(k, r, gone)
               m == LastWriter(In[k].op_id, r) IN
           (P # {} /\ MustWaitFor(Youngest(P))) <=>
               ~ (m = 0 \/ Available(m, Times[m].issue, Decoded + 1))
<1>1. PICK d \in Nat : d = Decoded
  BY DecodeSees
<1>2. PICK P : P = Producers(k, r, gone)
  OBVIOUS
<1>3. PICK n : n = In[k].op_id
  OBVIOUS
<1>4. PICK m : m = LastWriter(n, r)
  OBVIOUS
<1>5. In = latch["IF_LATCH"]
  BY DEF In
<1>6. n \in stat_retired_inst + 1 .. last_op_id /\ n \in 1 .. Len(trace) /\ n \in Nat
  BY <1>3, <1>5, DecodeSees DEF TypeInv
<1>7. /\ m \in 0 .. n - 1
      /\ m # 0 => m \in 1 .. n - 1 /\ r \in trace[m].writes
      /\ \A j \in 1 .. n - 1 : r \in trace[j].writes => m # 0 /\ j <= m
  BY <1>4, <1>6, LastWriterIs
<1>8. stat_retired_inst \in Nat /\ last_op_id \in Nat
  BY DEF TypeInv
<1>9. ASSUME NEW p
      PROVE  p \in P <=>
                 \/ /\ \E t \in {"MA_LATCH", "EX_LATCH"}, j \in Lanes :
                           p = <<t, j>> /\ latch[t][j].valid /\ r \in latch[t][j].trace_rec.writes
                 \/ \E j \in Lanes : /\ p = <<"ID_LATCH", j>> /\ j \notin gone
                                     /\ In[j].valid /\ r \in In[j].trace_rec.writes
                                     /\ In[j].op_id < n
  <2>1. p \in P <=>
            \/ /\ p \in {"MA_LATCH", "EX_LATCH"} \X Lanes
               /\ Writes(latch[p[1]][p[2]], r)
            \/ \E j \in {i \in Lanes \ gone : Writes(In[i], r) /\ In[i].op_id < n} :
                   p = <<"ID_LATCH", j>>
    BY <1>2, <1>3 DEF Producers
  <2>2. p \in {"MA_LATCH", "EX_LATCH"} \X Lanes <=>
            \E t \in {"MA_LATCH", "EX_LATCH"}, j \in Lanes : p = <<t, j>>
    OBVIOUS
  <2>3. \A t, j : <<t, j>>[1] = t /\ <<t, j>>[2] = j
    OBVIOUS
  <2> QED  BY <2>1, <2>2, <2>3 DEF Writes
<1>10. ASSUME NEW p \in P
       PROVE  LET x == Producer(p) IN
              /\ x.op_id \in stat_retired_inst + 1 .. n - 1 /\ x.op_id \in 1 .. n - 1
              /\ x.trace_rec = trace[x.op_id] /\ r \in trace[x.op_id].writes
              /\ p[1] \in {"MA_LATCH", "EX_LATCH", "ID_LATCH"}
              /\ p[1] = "MA_LATCH" => Times[x.op_id].issue = d - 1
              /\ p[1] = "EX_LATCH" => Times[x.op_id].issue = d
              /\ p[1] = "ID_LATCH" => Times[x.op_id].issue > d
  <2>1. CASE \E t \in {"MA_LATCH", "EX_LATCH"}, j \in Lanes :
                 p = <<t, j>> /\ latch[t][j].valid /\ r \in latch[t][j].trace_rec.writes
    <3>1. PICK t \in {"MA_LATCH", "EX_LATCH"}, j \in Lanes :
              p = <<t, j>> /\ latch[t][j].valid /\ r \in latch[t][j].trace_rec.writes
      BY <2>1
    <3>2. Producer(p) = latch[t][j] /\ p[1] = t
      BY <3>1 DEF Producer
    <3>3. PICK x : x = latch[t][j].op_id
      OBVIOUS
    <3>4. /\ x \in stat_retired_inst + 1 .. last_op_id /\ latch[t][j].trace_rec = trace[x]
          /\ t = "MA_LATCH" => Times[x].issue = d - 1
          /\ t = "EX_LATCH" => Times[x].issue = d
          /\ x < n
      BY <1>1, <1>3, <3>1, <3>3, DecodeSees
    <3>5. x \in stat_retired_inst + 1 .. n - 1 /\ x \in 1 .. n - 1
      BY <1>6, <1>8, <3>4
    <3> QED  BY <3>1, <3>2, <3>3, <3>4, <3>5
  <2>2. CASE \E j \in Lanes : /\ p = <<"ID_LATCH", j>> /\ j \notin gone
                              /\ In[j].valid /\ r \in In[j].trace_rec.writes
                              /\ In[j].op_id < n
    <3>1. PICK j \in Lanes : /\ p = <<"ID_LATCH", j>>
                             /\ In[j].valid /\ r \in In[j].trace_rec.writes
                             /\ In[j].op_id < n
      BY <2>2
    <3>2. Producer(p) = In[j] /\ p[1] = "ID_LATCH"
      BY <3>1 DEF Producer
    <3>3. PICK x : x = In[j].op_id
      OBVIOUS
    <3>4. /\ x \in stat_retired_inst + 1 .. last_op_id /\ In[j].trace_rec = trace[x]
          /\ Times[x].issue > d /\ x < n
      BY <1>1, <1>5, <3>1, <3>3, DecodeSees
    <3>5. x \in stat_retired_inst + 1 .. n - 1 /\ x \in 1 .. n - 1
      BY <1>6, <1>8, <3>4
    <3> QED  BY <3>1, <3>2, <3>3, <3>4, <3>5
  <2> QED  BY <1>9, <2>1, <2>2
<1>11. ASSUME m # 0, m > stat_retired_inst
       PROVE  \E p \in P : Producer(p).op_id = m
  <2>1. m \in stat_retired_inst + 1 .. last_op_id /\ m < n
    <3>1. m \in Nat /\ m <= n - 1 /\ n <= last_op_id
      BY <1>6, <1>7
    <3> QED  BY <1>6, <1>8, <1>11, <3>1
  <2>2. PICK t \in {"MA_LATCH", "EX_LATCH", "IF_LATCH"}, j \in Lanes :
            latch[t][j].valid /\ latch[t][j].op_id = m
    BY <2>1, DecodeSees
  <2>3. r \in latch[t][j].trace_rec.writes
    BY <1>7, <1>11, <2>2, DecodeSees
  <2>4. CASE t # "IF_LATCH"
    <3>1. <<t, j>> \in P
      BY <1>9, <2>2, <2>3, <2>4
    <3>2. Producer(<<t, j>>) = latch[t][j]
      BY <2>4 DEF Producer
    <3> QED  BY <2>2, <3>1, <3>2
  <2>5. CASE t = "IF_LATCH"
    <3>1. j \notin gone
      BY <1>3, <1>5, <2>1, <2>2, <2>5
    <3>2. <<"ID_LATCH", j>> \in P
      BY <1>5, <1>9, <2>1, <2>2, <2>3, <2>5, <3>1
    <3>3. Producer(<<"ID_LATCH", j>>) = In[j]
      BY DEF Producer
    <3> QED  BY <1>5, <2>2, <2>5, <3>2, <3>3
  <2> QED  BY <2>4, <2>5
<1>12. CASE P = {}
  <2>1. m # 0 => m \in 1 .. stat_retired_inst
    BY <1>6, <1>7, <1>8, <1>11, <1>12
  <2>2. m # 0 => Times[m].issue <= d - 2 /\ Times[m].issue \in Nat
    <3>1. m # 0 => m \in 1 .. Len(trace)
      BY <1>6, <1>7 DEF TypeInv
    <3> QED  BY <1>1, <2>1, <3>1, DecodeSees, TimesAreClocked DEF PlaceInv, Clocked
  <2>3. m # 0 => Available(m, Times[m].issue, d + 1)
    BY <2>2 DEF Available
  <2> QED  BY <1>1, <1>2, <1>3, <1>4, <1>12, <2>3
<1>13. CASE P # {}
  <2>1. PICK y : y = Youngest(P)
    OBVIOUS
  <2>2. m # 0 /\ m > stat_retired_inst
    <3>1. PICK p \in P : TRUE
      BY <1>13
    <3>2. PICK x : x = Producer(p).op_id
      OBVIOUS
    <3>3. x \in stat_retired_inst + 1 .. n - 1 /\ x \in 1 .. n - 1 /\ r \in trace[x].writes
      BY <1>10, <3>2
    <3> QED  BY <1>7, <1>8, <3>3
  <2>3. PICK p \in P : Producer(p).op_id = m
    BY <1>11, <2>2
  <2>4. \A q \in P : Producer(q).op_id <= m
    BY <1>7, <1>10
  <2>5. y \in P /\ \A q \in P : Producer(q).op_id <= Producer(y).op_id
    BY <2>1, <2>3, <2>4 DEF Youngest
  <2>6. Producer(y).op_id = m
    <3>1. m <= Producer(y).op_id /\ Producer(y).op_id <= m
      BY <2>3, <2>4, <2>5
    <3>2. m \in Nat /\ Producer(y).op_id \in Nat
      BY <1>6, <1>7, <1>10, <2>5
    <3> QED  BY <3>1, <3>2
  <2>7. /\ Producer(y).trace_rec = trace[m]
        /\ y[1] \in {"MA_LATCH", "EX_LATCH", "ID_LATCH"}
        /\ y[1] = "MA_LATCH" => Times[m].issue = d - 1
        /\ y[1] = "EX_LATCH" => Times[m].issue = d
        /\ y[1] = "ID_LATCH" => Times[m].issue > d
    BY <1>10, <2>5, <2>6
  <2>8. PICK i \in Nat : i = Times[m].issue
    <3>1. m \in 1 .. Len(trace)
      BY <1>6, <1>7, <2>2 DEF TypeInv
    <3> QED  BY <3>1, TimesAreClocked DEF Clocked
  <2>9. MustWaitFor(y) <=> ~ Available(m, i, d + 1)
    <3>1. CASE y[1] = "MA_LATCH"
      BY <2>7, <2>8, <3>1 DEF MustWaitFor, Available
    <3>2. CASE y[1] = "EX_LATCH"
      BY <2>7, <2>8, <3>2 DEF MustWaitFor, Available
    <3>3. CASE y[1] = "ID_LATCH"
      BY <2>7, <2>8, <3>3 DEF MustWaitFor, Available
    <3> QED  BY <2>7, <3>1, <3>2, <3>3
  <2> QED  BY <1>1, <1>2, <1>3, <1>4, <1>13, <2>1, <2>2, <2>8, <2>9
<1> QED  BY <1>12, <1>13

\* A lane that the lanes before it do not hold up stalls if it must wait for something.
LEMMA StallsByItself ==
    ASSUME TypeInv, FlowInv, CopyInv, PlaceInv, BPRED_POLICY # "GSHARE", stage = "ID",
           stat_num_cycle \in Nat, NEW k \in Lanes, In[k].valid,
           \A j \in StalledAmong : ~ (In[j].op_id < In[k].op_id)
    PROVE  k \in StalledAmong <=> ~ HasAll(Times, In[k].op_id, Decoded + 1)
<1>1. PICK gone \in SUBSET StalledAmong :
          k \in StalledAmong <=> In[k].valid /\ ShouldStall(k, gone)
  BY StalledAmongIs
<1>2. StalledAmong \subseteq Lanes
  BY StalledAmongType
<1>3. \A j \in gone : In[j].valid /\ ~ (In[j].op_id < In[k].op_id)
  BY <1>1, <1>2, StalledAmongFacts
<1>4. In[k].trace_rec.reads = trace[In[k].op_id].reads
  BY DecodeSees DEF In
<1>5. PICK n : n = In[k].op_id
  OBVIOUS
<1>6. ASSUME NEW r
      PROVE  LET P == Producers(k, r, gone) IN
             (P # {} /\ MustWaitFor(Youngest(P))) <=>
                 LET m == LastWriter(n, r) IN
                 ~ (m = 0 \/ Available(m, Times[m].issue, Decoded + 1))
  BY <1>3, <1>5, WaitsForLastWriter
<1>7. ShouldStall(k, gone) <=> ~ HasAll(Times, n, Decoded + 1)
  BY <1>4, <1>5, <1>6 DEF ShouldStall, HasAll
<1> QED  BY <1>1, <1>5, <1>7

\* An instruction leaves the IF latch in the cycle that the recurrence gives.
LEMMA IssuesInTime ==
    ASSUME TypeInv, FlowInv, CopyInv, PlaceInv, BPRED_POLICY # "GSHARE", stage = "ID",
           stat_num_cycle \in Nat, \A n \in 1 .. Len(trace) : Times[n].fetch <= Decoded
    PROVE  \A k \in Lanes : In[k].valid =>
               (k \notin Stalled <=> Times[In[k].op_id].issue = Decoded + 1)
<1>1. PICK T : T = Times
  OBVIOUS
<1>2. PICK d \in Nat : d = Decoded
  BY DecodeSees
<1>3. PICK N \in Nat : N = Len(trace) /\ N = last_op_id
  BY DEF TypeInv
<1> DEFINE Right(k) == k \notin Stalled <=> T[In[k].op_id].issue = d + 1
           Bad == {n \in 1 .. N : \E k \in Lanes : In[k].valid /\ In[k].op_id = n /\ ~ Right(k)}
<1>4. ASSUME NEW k \in Lanes, In[k].valid
      PROVE  LET n == In[k].op_id IN
             /\ n \in stat_retired_inst + 1 .. N /\ n \in 1 .. N /\ n \in Nat
             /\ T[n].issue \in Nat /\ T[n].issue > d /\ T[n].fetch <= d
  <2>1. PICK n : n = In[k].op_id
    OBVIOUS
  <2>2. n \in stat_retired_inst + 1 .. N /\ n \in 1 .. N /\ T[n].issue > d
    BY <1>1, <1>2, <1>3, <1>4, <2>1, DecodeSees DEF In
  <2>3. T[n].issue \in Nat
    BY <1>1, <1>3, <2>2, TimesAreClocked DEF Clocked
  <2> QED  BY <1>1, <1>2, <1>3, <2>1, <2>2, <2>3
<1>5. \A j \in StalledAmong : j \in Lanes /\ In[j].valid
  BY StalledAmongType, StalledAmongFacts
<1>6. ASSUME NEW k \in Lanes, In[k].valid,
             \A j \in Lanes : In[j].valid /\ In[j].op_id < In[k].op_id => Right(j)
      PROVE  Right(k)
  <2>1. PICK n \in Nat : n = In[k].op_id
    BY <1>4, <1>6
  <2>2. /\ n \in stat_retired_inst + 1 .. N /\ n \in 1 .. N
        /\ T[n].issue \in Nat /\ T[n].issue > d /\ T[n].fetch <= d
    BY <1>4, <1>6, <2>1
  <2>3. CASE \E j \in StalledAmong : In[j].op_id < n
    <3>1. PICK j \in StalledAmong : In[j].op_id < n
      BY <2>3
    <3>2. PICK m \in Nat : m = In[j].op_id
      BY <1>4, <1>5, <3>1
    <3>3. m \in 1 .. n /\ T[m].issue \in Nat /\ T[m].issue > d
      BY <1>4, <1>5, <2>1, <3>1, <3>2
    <3>4. Right(j) /\ j \in Stalled
      BY <1>5, <1>6, <2>1, <3>1 DEF Stalled
    <3>5. T[m].issue # d + 1
      BY <3>2, <3>4
    <3>6. T[m].issue <= T[n].issue
      BY <1>1, <1>3, <2>2, <3>3, TimesAreClocked DEF Clocked
    <3>7. T[n].issue # d + 1
      BY <1>2, <2>2, <3>3, <3>5, <3>6
    <3>8. k \in Stalled
      <4>1. In[k].op_id > In[j].op_id
        BY <2>1, <3>1, <3>2
      <4> QED  BY <1>5, <1>6, <4>1 DEF Stalled
    <3> QED  BY <2>1, <3>7, <3>8
  <2>4. CASE ~ \E j \in StalledAmong : In[j].op_id < n
    <3>1. k \in StalledAmong <=> ~ HasAll(T, n, d + 1)
      BY <1>1, <1>2, <1>6, <2>1, <2>4, StallsByItself
    <3>2. k \in Stalled <=> k \in StalledAmong
      <4>1. \A j \in StalledAmong : ~ (In[k].op_id > In[j].op_id)
        BY <1>4, <1>5, <2>1, <2>4
      <4> QED  BY <4>1 DEF Stalled
    <3>3. n > 1 => T[n - 1].issue <= d + 1
      <4> SUFFICES ASSUME n > 1 PROVE T[n - 1].issue <= d + 1
        OBVIOUS
      <4>1. n - 1 \in 1 .. N /\ n - 1 \in Nat
        BY <2>2
      <4>2. CASE n - 1 <= stat_retired_inst
        <5>1. n - 1 \in 1 .. stat_retired_inst /\ T[n - 1].issue \in Nat
          BY <1>1, <1>3, <4>1, <4>2, TimesAreClocked DEF Clocked, TypeInv
        <5>2. T[n - 1].issue <= d - 2
          BY <1>1, <1>2, <5>1, DecodeSees DEF PlaceInv
        <5> QED  BY <1>2, <5>1, <5>2
      <4>3. CASE n - 1 > stat_retired_inst
        <5>1. n - 1 \in stat_retired_inst + 1 .. last_op_id
          BY <1>3, <4>1, <4>3 DEF TypeInv
        <5>2. PICK t \in {"MA_LATCH", "EX_LATCH", "IF_LATCH"}, j \in Lanes :
                  latch[t][j].valid /\ latch[t][j].op_id = n - 1
          BY <5>1, DecodeSees
        <5>3. CASE t # "IF_LATCH"
          <6>1. T[n - 1].issue = d \/ T[n - 1].issue = d - 1
            BY <1>1, <1>2, <5>2, <5>3, DecodeSees
          <6> QED  BY <1>2, <6>1
        <5>4. CASE t = "IF_LATCH"
          <6>1. In[j].valid /\ In[j].op_id = n - 1 /\ In[j].op_id < n
            BY <5>2, <5>4 DEF In
          <6>2. Right(j) /\ j \notin StalledAmong
            BY <1>6, <2>1, <2>4, <6>1
          <6>3. \A i \in StalledAmong : ~ (In[j].op_id > In[i].op_id)
            <7>1. \A i \in StalledAmong : In[i].op_id \in Nat /\ ~ (In[i].op_id < n)
              BY <1>4, <1>5, <2>4
            <7> QED  BY <4>1, <6>1, <7>1
          <6>4. j \notin Stalled
            BY <6>2, <6>3 DEF Stalled
          <6>5. T[n - 1].issue = d + 1
            BY <6>1, <6>2, <6>4
          <6> QED  BY <1>2, <6>5
        <5> QED  BY <5>3, <5>4
      <4> QED  BY <4>1, <4>2, <4>3 DEF TypeInv
    <3>4. T[n].issue = d + 1 <=> HasAll(T, n, d + 1)
      <4>1. T[n].issue = d + 1 <=>
                /\ T[n].fetch <= d /\ (n > 1 => T[n - 1].issue <= d + 1)
                /\ HasAll(T, n, d + 1)
        <5>1. n \in 1 .. Len(trace) /\ d < T[n].issue
          BY <1>3, <2>2
        <5> QED  BY <1>1, <5>1, TimeOf
      <4> QED  BY <2>2, <3>3, <4>1
    <3> QED  BY <2>1, <3>1, <3>2, <3>4
  <2> QED  BY <2>3, <2>4
<1>7. Bad = {}
  <2> SUFFICES ASSUME Bad # {} PROVE FALSE
    OBVIOUS
  <2>1. PICK n \in Bad : \A u \in Bad : n <= u
    <3>1. Bad \in SUBSET Nat
      BY <1>3
    <3> HIDE DEF Bad
    <3> QED  BY <3>1, FirstExists
  <2>2. PICK k \in Lanes : In[k].valid /\ In[k].op_id = n /\ ~ Right(k)
    BY <2>1
  <2>3. ASSUME NEW j \in Lanes, In[j].valid, In[j].op_id < n
        PROVE  Right(j)
    <3> HIDE DEF Right
    <3>1. In[j].op_id \in 1 .. N /\ In[j].op_id \notin Bad
      <4>1. In[j].op_id \in 1 .. N /\ n \in 1 .. N
        BY <1>4, <2>3
      <4>2. ~ (n <= In[j].op_id)
        BY <1>3, <2>3, <4>1
      <4> QED  BY <2>1, <4>1, <4>2
    <3> QED  BY <2>3, <3>1
  <2> HIDE DEF Right, Bad
  <2>4. Right(k)
    BY <1>6, <2>2, <2>3
  <2> QED  BY <2>2, <2>4
<1>8. ASSUME NEW k \in Lanes, In[k].valid
      PROVE  Right(k)
  <2> HIDE DEF Right
  <2>1. In[k].op_id \in 1 .. N
    BY <1>4, <1>8
  <2> QED  BY <1>7, <1>8, <2>1
<1> QED  BY <1>1, <1>2, <1>8

-----------------------------------------------------------------------------
(* The trace grows, and what is in a latch stays a copy of it. *)

\* What pipe_get_fetch_op puts into its lane.
LEMMA FetchedRecord ==
    ASSUME TypeInv, FetchRecord, NEW n, n = Len(trace) + 1
    PROVE  /\ trace' \in Seq(TraceRecords) /\ Len(trace') = n
           /\ \A m \in 1 .. Len(trace) : trace'[m] = trace[m]
           /\ BPRED_POLICY # "GSHARE" => (fetch_cbr_stall' <=> Surprising(n)')
           /\ \A p \in Places : p = FetchPlace =>
                  /\ At(p)'.trace_rec = trace'[n]
                  /\ BPRED_POLICY # "GSHARE" => (At(p)'.is_mispred_cbr <=> Surprising(n)')
           /\ UNCHANGED options
<1>1. PICK rec \in TraceRecords :
          /\ latch' = [latch EXCEPT !["IF_LATCH"][lane] =
                          [valid |-> TRUE, op_id |-> last_op_id + 1, trace_rec |-> rec,
                           is_mispred_cbr |-> Mispredicted(rec)]]
          /\ trace' = Append(trace, rec)
          /\ pipe_check_bpred(rec)
  BY DEF FetchRecord
<1>2. NextLane /\ ~ fetch_cbr_stall
  BY DEF FetchRecord, Reads
<1>3. PICK l : l = [valid |-> TRUE, op_id |-> last_op_id + 1, trace_rec |-> rec,
                    is_mispred_cbr |-> Mispredicted(rec)]
  OBVIOUS
<1>4. l.trace_rec = rec /\ l.is_mispred_cbr = Mispredicted(rec)
  BY <1>3
<1>5. latch' = [latch EXCEPT !["IF_LATCH"][lane] = l]
  BY <1>1, <1>3
<1>6. ASSUME NEW p \in Places, p = FetchPlace
      PROVE  At(p)' = l
  <2>1. lane \in Lanes /\ latch \in [Latches -> [Lanes -> LatchType]] /\ "IF_LATCH" \in Latches
    BY <1>2, NextLaneType DEF TypeInv, Latches
  <2>2. latch'["IF_LATCH"][lane] = l
    BY <1>5, <2>1
  <2>3. p[1] = "IF_LATCH" /\ p[2] = lane
    BY <1>6 DEF FetchPlace
  <2> QED  BY <2>2, <2>3 DEF At
<1>7. /\ Len(trace) \in Nat /\ trace' \in Seq(TraceRecords) /\ Len(trace') = n
      /\ trace'[n] = rec
      /\ \A m \in 1 .. Len(trace) : trace'[m] = trace[m]
  BY <1>1, LongerTrace DEF TypeInv
<1>8. UNCHANGED options
  BY <1>2, NextLaneType
<1>9. ASSUME BPRED_POLICY # "GSHARE"
      PROVE  Mispredicted(rec) <=> Surprising(n)'
  <2>1. BPRED_POLICY \in {"PERFECT", "ALWAYS_TAKEN"} /\ BPRED_POLICY' = BPRED_POLICY
    BY <1>8, <1>9, PipelineAssumption DEF TypeInv, BPredPolicies, options
  <2>2. predict(BPRED_POLICY, b_pred, rec.inst_addr) = TRUE
    BY <1>9 DEF predict
  <2>3. rec.br_dir \in BOOLEAN
    BY PipelineAssumption
  <2>4. Mispredicted(rec) <=> /\ BPRED_POLICY # "PERFECT" /\ rec.op_type = "OP_CBR"
                              /\ ~ rec.br_dir
    BY <2>2, <2>3 DEF Mispredicted, Checked
  <2> QED  BY <1>7, <2>1, <2>4 DEF Surprising
<1>10. fetch_cbr_stall' <=> Mispredicted(rec)
  BY <1>1, <1>2 DEF pipe_check_bpred, Mispredicted, Checked
<1> QED  BY <1>4, <1>6, <1>7, <1>8, <1>9, <1>10

LEMMA TraceStays ==
    ASSUME Next, ~ FetchRecord
    PROVE  UNCHANGED <<trace, last_op_id, options>>
<1>1. CASE WB
  BY <1>1 DEF WB, options
<1>2. CASE MA \/ EX \/ ID
  BY <1>2 DEF MA, EX, Move, ID, options
<1>3. CASE FetchStalledLane \/ FetchNothing \/ FetchEnd
  BY <1>3 DEF FetchStalledLane, FetchNothing, FetchEnd, Reads, NextLane, options
<1> QED  BY <1>1, <1>2, <1>3 DEF Next, IF_

\* The times of what has been fetched are settled.
LEMMA TimesSettled ==
    ASSUME TypeInv, FlowInv, Next
    PROVE  /\ Len(trace) \in Nat /\ Len(trace') \in Nat
           /\ Len(trace') = IF FetchRecord THEN Len(trace) + 1 ELSE Len(trace)
           /\ \A n \in 1 .. Len(trace) : trace'[n] = trace[n] /\ Times'[n] = Times[n]
           /\ \A n \in 1 .. Len(trace) + 1 : FetchCycle(Times, n)' = FetchCycle(Times, n)
           /\ UNCHANGED options
<1>1. TypeInv'
  BY StepType
<1>2. Len(trace) \in Nat /\ Len(trace') \in Nat
  BY <1>1 DEF TypeInv
<1>3. /\ Len(trace') = IF FetchRecord THEN Len(trace) + 1 ELSE Len(trace)
      /\ \A n \in 1 .. Len(trace) : trace'[n] = trace[n]
      /\ UNCHANGED options
  BY FetchedRecord, TraceStays
<1>4. Len(trace) <= Len(trace')
  BY <1>2, <1>3
<1> QED  BY <1>1, <1>2, <1>3, <1>4, TimesStay

LEMMA StepCopy == TypeInv /\ FlowInv /\ CopyInv /\ Next => CopyInv'
<1> SUFFICES ASSUME TypeInv, FlowInv, CopyInv, Next, NEW p \in Places, Live(p)',
                    NEW n, n = At(p)'.op_id
             PROVE  /\ At(p)'.trace_rec = trace'[n]
                    /\ BPRED_POLICY' # "GSHARE" =>
                           (At(p)'.is_mispred_cbr <=> Surprising(n)')
  BY DEF CopyInv
<1>1. PICK N \in Nat : N = Len(trace) /\ N = last_op_id
  BY DEF TypeInv
<1>2. \A m \in 1 .. N : trace'[m] = trace[m] /\ (Surprising(m)' <=> Surprising(m))
  BY <1>1, TimesSettled DEF Surprising, options
<1>3. BPRED_POLICY' = BPRED_POLICY
  BY TimesSettled DEF options
<1>4. ASSUME NEW q \in Places, Live(q), At(q).op_id = At(p)'.op_id,
             At(q).trace_rec = At(p)'.trace_rec,
             At(q).is_mispred_cbr = At(p)'.is_mispred_cbr
      PROVE  /\ At(p)'.trace_rec = trace'[n]
             /\ BPRED_POLICY' # "GSHARE" => (At(p)'.is_mispred_cbr <=> Surprising(n)')
  <2>1. n = At(q).op_id
    BY <1>4
  <2>2. n \in 1 .. N
    <3>1. n \in stat_retired_inst + 1 .. last_op_id /\ stat_retired_inst \in Nat
      BY <1>4, <2>1 DEF FlowInv, TypeInv
    <3> QED  BY <1>1, <3>1
  <2>3. /\ At(q).trace_rec = trace[n]
        /\ BPRED_POLICY # "GSHARE" => (At(q).is_mispred_cbr <=> Surprising(n))
    BY <1>4, <2>1 DEF CopyInv
  <2> QED  BY <1>2, <1>3, <1>4, <2>1, <2>2, <2>3
<1>5. CASE stage # "IF"
  BY <1>4, <1>5, CameFrom
<1>6. CASE stage = "IF"
  <2>1. IF_
    BY <1>6, Retiring
  <2>2. CASE Live(p) /\ At(p)' = At(p)
    BY <1>4, <2>2
  <2>3. CASE ~ (Live(p) /\ At(p)' = At(p))
    <3>1. FetchRecord /\ p = FetchPlace /\ At(p)'.op_id = last_op_id + 1
      BY <2>1, <2>3, FetchCases
    <3>2. n = Len(trace) + 1
      BY <1>1, <3>1
    <3> QED  BY <1>1, <1>3, <3>1, <3>2, FetchedRecord
  <2> QED  BY <2>2, <2>3
<1> QED  BY <1>5, <1>6

-----------------------------------------------------------------------------
(* The instructions move through the latches in time. *)

LEMMA DecodedMoves ==
    ASSUME TypeInv, HeartInv, MainStep
    PROVE  /\ Next /\ stat_num_cycle \in Nat /\ Decoded \in Nat
           /\ Decoded = IF stage = "IF" THEN stat_num_cycle + 1 ELSE stat_num_cycle
           /\ Decoded' = IF stage = "ID" THEN Decoded + 1 ELSE Decoded
           /\ stage # "IF" => stage' # "WB" /\ UNCHANGED heart_vars
           /\ stage = "WB" => WB /\ stage' = "MA"
           /\ stage = "MA" => MA /\ stage' = "EX"
           /\ stage = "EX" => EX /\ stage' = "ID"
           /\ stage = "ID" => ID /\ stage' = "IF"
           /\ stage = "IF" => NextLane /\ IF_ /\ stage' \in {"WB", "IF"}
<1>1. Next /\ stat_num_cycle \in Nat
  BY Heartbeat DEF HeartInv
<1>2. Decoded \in Nat
  BY <1>1 DEF Decoded
<1>3. IF_ => NextLane
  BY DEF IF_, FetchStalledLane, FetchNothing, FetchRecord, FetchEnd, Reads
<1>4. /\ stage = "WB" => WB /\ stage' = "MA"
      /\ stage = "MA" => MA /\ stage' = "EX"
      /\ stage = "EX" => EX /\ stage' = "ID"
      /\ stage = "ID" => ID /\ stage' = "IF"
      /\ stage = "IF" => NextLane /\ IF_ /\ stage' \in {"WB", "IF"}
  BY <1>1, <1>3 DEF Next, WB, MA, EX, ID, Move, NextLane
<1>5. stage # "IF" => stage' # "WB" /\ UNCHANGED heart_vars
  <2>1. stage \in {"WB", "MA", "EX", "ID", "IF"}
    BY DEF TypeInv
  <2> QED  BY <1>4, <2>1, Heartbeat
<1>6. Decoded' = IF stage = "ID" THEN Decoded + 1 ELSE Decoded
  <2>1. CASE stage # "IF"
    <3>1. stat_num_cycle' = stat_num_cycle /\ stage \in {"WB", "MA", "EX", "ID"}
      BY <1>5, <2>1 DEF heart_vars, TypeInv
    <3> QED  BY <1>4, <2>1, <3>1 DEF Decoded
  <2>2. CASE stage = "IF"
    <3>1. stage' \in {"WB", "IF"}
      BY <1>4, <2>2
    <3>2. stage' = "WB" => stat_num_cycle' = stat_num_cycle + 1
      BY <2>2, Heartbeat
    <3>3. stage' = "IF" => stat_num_cycle' = stat_num_cycle
      BY <2>2, Heartbeat DEF heart_vars
    <3> QED  BY <2>2, <3>1, <3>2, <3>3 DEF Decoded
  <2> QED  BY <2>1, <2>2
<1> QED  BY <1>1, <1>2, <1>4, <1>5, <1>6 DEF Decoded

TimedInv == Clocked /\ \A n \in 1 .. Len(trace) : Times[n].fetch = FetchCycle(Times, n)

LEMMA TimesAreFetched == TypeInv => TimedInv
BY TimesAreClocked, TimeOf DEF TimedInv

LEMMA StepPlace ==
    TypeInv /\ FlowInv /\ HeartInv /\ CopyInv /\ PlaceInv /\ FetchInv /\ BPRED_POLICY # "GSHARE"
        /\ MainStep => PlaceInv'
<1> SUFFICES ASSUME TypeInv, FlowInv, HeartInv, CopyInv, PlaceInv, FetchInv,
                    BPRED_POLICY # "GSHARE", MainStep
             PROVE  PlaceInv'
  OBVIOUS
<1>1. PICK N \in Nat : N = Len(trace) /\ N = last_op_id
  BY DEF TypeInv
<1>2. PICK d \in Nat : d = Decoded
  BY DecodedMoves
<1>3. PICK T : T = Times
  OBVIOUS
<1>4. PICK U : U = Times'
  OBVIOUS
<1>5. Next /\ \A n \in 1 .. N : U[n] = T[n] /\ T[n].issue \in Nat
  BY <1>1, <1>3, <1>4, DecodedMoves, TimesSettled, TimesAreClocked DEF Clocked
<1>6. ASSUME NEW q \in Places, Live(q)
      PROVE  /\ At(q).op_id \in 1 .. N
             /\ InTime(q[1], T[At(q).op_id].issue)
  <2>1. PICK n : n = At(q).op_id
    OBVIOUS
  <2>2. n \in stat_retired_inst + 1 .. last_op_id /\ stat_retired_inst \in Nat
    BY <1>6, <2>1 DEF FlowInv, TypeInv
  <2>3. InTime(q[1], T[n].issue)
    BY <1>3, <1>6, <2>1 DEF PlaceInv
  <2> QED  BY <1>1, <2>1, <2>2, <2>3
<1>7. stage \in {"WB", "MA", "EX", "ID", "IF"}
  BY DEF TypeInv
<1>8. ASSUME NEW p \in Places, Live(p)', NEW i, i = U[At(p)'.op_id].issue
      PROVE  InTime(p[1], i)'
  <2>1. p[1] \in {"IF_LATCH", "ID_LATCH", "EX_LATCH", "MA_LATCH"} /\ p[2] \in Lanes
    BY PlaceFacts DEF Latches
  <2>2. CASE stage # "IF"
    <3>1. PICK q \in Places :
              /\ Live(q) /\ At(q).op_id = At(p)'.op_id
              /\ stage = "WB" => q = p
              /\ stage = "MA" => q[1] = (IF p[1] = "MA_LATCH" THEN "EX_LATCH" ELSE p[1])
              /\ stage = "EX" => q[1] = (IF p[1] = "EX_LATCH" THEN "ID_LATCH" ELSE p[1])
              /\ stage = "ID" =>
                     IF p[1] \in {"IF_LATCH", "ID_LATCH"}
                     THEN q = <<"IF_LATCH", p[2]>> /\ (p[1] = "IF_LATCH" => p[2] \in Stalled)
                     ELSE q = p
      BY <1>5, <1>8, <2>2, CameFrom
    <3>2. InTime(q[1], i) /\ i \in Nat
      BY <1>5, <1>6, <1>8, <3>1
    <3>3. CASE stage = "WB"
      <4>1. stage' = "MA" /\ Decoded' = d /\ q = p /\ p[1] # "MA_LATCH"
        BY <1>2, <1>8, <3>1, <3>3, DecodedMoves DEF Live
      <4> QED  BY <1>2, <2>1, <3>2, <3>3, <4>1 DEF InTime
    <3>4. CASE stage = "MA"
      <4>1. stage' = "EX" /\ Decoded' = d /\ p[1] # "EX_LATCH"
        BY <1>2, <1>8, <3>4, DecodedMoves DEF Live
      <4> QED  BY <1>2, <2>1, <3>1, <3>2, <3>4, <4>1 DEF InTime
    <3>5. CASE stage = "EX"
      <4>1. stage' = "ID" /\ Decoded' = d /\ p[1] # "ID_LATCH"
        BY <1>2, <1>8, <3>5, DecodedMoves DEF Live
      <4> QED  BY <1>2, <2>1, <3>1, <3>2, <3>5, <4>1 DEF InTime
    <3>6. CASE stage = "ID"
      <4>1. stage' = "IF" /\ Decoded' = d + 1 /\ ID
        BY <1>2, <3>6, DecodedMoves
      <4>2. CASE p[1] \in {"IF_LATCH", "ID_LATCH"}
        <5>1. PICK k \in Lanes : k = p[2]
          BY <2>1
        <5>2. q = <<"IF_LATCH", k>> /\ q[1] = "IF_LATCH" /\ (p[1] = "IF_LATCH" => k \in Stalled)
          BY <3>1, <3>6, <4>2, <5>1
        <5>3. In[k].valid /\ In[k].op_id = At(q).op_id
          BY <3>1, <5>2 DEF Live, At, In
        <5>4. k \notin Stalled <=> i = d + 1
          <6>1. stat_num_cycle \in Nat /\ \A n \in 1 .. Len(trace) : Times[n].fetch <= Decoded
            BY DecodedMoves DEF FetchInv
          <6>2. k \notin Stalled <=> Times[In[k].op_id].issue = Decoded + 1
            BY <3>6, <5>3, <6>1, IssuesInTime
          <6>3. Times[In[k].op_id].issue = i
            BY <1>3, <1>5, <1>6, <1>8, <3>1, <5>3
          <6> QED  BY <1>2, <6>2, <6>3
        <5>5. i > d
          BY <1>2, <3>2, <5>2 DEF InTime
        <5>6. CASE p[1] = "IF_LATCH"
          BY <3>2, <4>1, <5>2, <5>4, <5>5, <5>6 DEF InTime
        <5>7. CASE p[1] = "ID_LATCH"
          <6>1. latch' = [latch EXCEPT !["ID_LATCH"] =
                              [j \in Lanes |-> IF j \in Stalled THEN [In[j] EXCEPT !.valid = FALSE]
                                               ELSE In[j]]]
            BY <4>1 DEF ID
          <6>2. latch'["ID_LATCH"][k] = IF k \in Stalled THEN [In[k] EXCEPT !.valid = FALSE]
                                        ELSE In[k]
            BY <6>1 DEF TypeInv, Latches
          <6>3. In[k] \in LatchType
            BY DEF In, TypeInv, Latches
          <6>4. k \notin Stalled
            BY <1>8, <5>1, <5>7, <6>2, <6>3 DEF Live, At, LatchType
          <6> QED  BY <4>1, <5>4, <5>7, <6>4 DEF InTime
        <5> QED  BY <4>2, <5>6, <5>7
      <4>3. CASE p[1] \in {"EX_LATCH", "MA_LATCH"}
        <5>1. q = p
          BY <3>1, <3>6, <4>3
        <5>2. Decoded = d /\ stage = "ID" /\ stage' = "IF" /\ Decoded' = d + 1
              /\ InTime(p[1], i) /\ i \in Nat
          BY <1>2, <3>2, <3>6, <4>1, <5>1
        <5>3. p[1] = "EX_LATCH" => InTime(p[1], i)'
          BY <5>2 DEF InTime
        <5>4. p[1] = "MA_LATCH" => InTime(p[1], i)'
          BY <5>2 DEF InTime
        <5> QED  BY <4>3, <5>3, <5>4
      <4> QED  BY <2>1, <4>2, <4>3
    <3> QED  BY <1>7, <2>2, <3>3, <3>4, <3>5, <3>6
  <2>3. CASE stage = "IF"
    <3>1. stage' \in {"WB", "IF"} /\ Decoded' = d /\ IF_
      BY <1>2, <2>3, DecodedMoves
    <3>2. CASE Live(p) /\ At(p)' = At(p)
      <4>1. InTime(p[1], i) /\ i \in Nat
        BY <1>5, <1>6, <1>8, <3>2
      <4>2. Decoded = d /\ stage = "IF"
        BY <1>2, <2>3
      <4>3. stage' # "EX" /\ stage' # "ID"
        BY <3>1
      <4>4. p[1] = "IF_LATCH" => InTime(p[1], i)'
        BY <3>1, <4>1, <4>2, <4>3 DEF InTime
      <4>5. p[1] = "ID_LATCH" => InTime(p[1], i)'
        BY <3>1, <4>1, <4>2, <4>3 DEF InTime
      <4>6. p[1] = "EX_LATCH" => InTime(p[1], i)'
        BY <3>1, <4>1, <4>2, <4>3 DEF InTime
      <4>7. p[1] = "MA_LATCH" => InTime(p[1], i)'
        BY <3>1, <4>1, <4>2, <4>3 DEF InTime
      <4> QED  BY <2>1, <4>4, <4>5, <4>6, <4>7
    <3>3. CASE ~ (Live(p) /\ At(p)' = At(p))
      <4>1. FetchRecord /\ p[1] = "IF_LATCH" /\ At(p)'.op_id = N + 1
        BY <1>1, <1>8, <3>1, <3>3, FetchCases
      <4>2. FetchCycle(Times, N + 1) >= d
        <5>1. ~ trace_end
          BY <4>1 DEF FetchRecord
        <5>2. \A n \in 1 .. N : T[n].fetch \in Nat /\ T[n].issue \in Nat
          BY <1>1, <1>3, TimesAreClocked DEF Clocked
        <5>3. FetchCycle(Times, N + 1) \in Nat
          <6>1. N + 1 \in 1 .. Len(trace) + 1 /\ \A m \in 1 .. (N + 1) - 1 : m \in 1 .. N
            BY <1>1
          <6> QED  BY <1>3, <5>2, <6>1, FetchIs
        <5> QED  BY <1>1, <1>2, <2>3, <5>1, <5>3, DecodedMoves DEF FetchInv
      <4>3. /\ U[N + 1].fetch = FetchCycle(Times, N + 1)
            /\ U[N + 1].fetch \in Nat /\ U[N + 1].issue \in Nat
            /\ U[N + 1].fetch < U[N + 1].issue
        <5>1. PICK n : n = N + 1
          OBVIOUS
        <5>2. n \in 1 .. Len(trace') /\ n \in 1 .. Len(trace) + 1
          BY <1>1, <1>5, <4>1, <5>1, TimesSettled
        <5>3. TypeInv'
          BY <1>5, StepType
        <5>4. \A m \in 1 .. Len(trace') : /\ Times'[m].fetch = FetchCycle(Times, m)'
                                          /\ Times'[m].fetch \in Nat /\ Times'[m].issue \in Nat
                                          /\ Times'[m].fetch < Times'[m].issue
          <6>1. (TypeInv => TimedInv)'
            BY TimesAreFetched, PTL
          <6> QED  BY <5>3, <6>1 DEF TimedInv, Clocked
        <5>5. FetchCycle(Times, n)' = FetchCycle(Times, n)
          BY <1>5, <5>2, TimesSettled
        <5> QED  BY <1>4, <5>1, <5>2, <5>4, <5>5
      <4>4. i > d
        BY <1>8, <4>1, <4>2, <4>3
      <4> QED  BY <3>1, <4>1, <4>4 DEF InTime
    <3> QED  BY <3>2, <3>3
  <2> QED  BY <2>2, <2>3
<1>9. \A n \in 1 .. stat_retired_inst' : U[n].issue <= RetiredBy'
  <2>1. stat_retired_inst \in Nat /\ last_op_id \in Nat /\ stat_retired_inst <= last_op_id
    BY <1>5, Retiring
  <2>2. \A n \in 1 .. stat_retired_inst : n \in 1 .. N /\ T[n].issue <= RetiredBy
    BY <1>1, <1>3, <2>1 DEF PlaceInv
  <2>3. CASE stage = "WB"
    <3>1. PICK m : m = stat_retired_inst + Cardinality(Valid("MA_LATCH"))
      OBVIOUS
    <3>2. stat_retired_inst' = m /\ stage' = "MA" /\ Decoded' = d
      BY <1>2, <2>3, <3>1, DecodedMoves DEF WB
    <3>3. Ids("MA_LATCH") = stat_retired_inst + 1 .. m /\ m \in Nat /\ m <= last_op_id
      BY <2>3, <3>1, RetiredAreOldest
    <3>4. ASSUME NEW n \in stat_retired_inst + 1 .. m
          PROVE  n \in 1 .. N /\ T[n].issue = d - 2
      <4>1. PICK k \in Valid("MA_LATCH") : latch["MA_LATCH"][k].op_id = n
        BY <3>3 DEF Ids
      <4>2. PICK p : p = <<"MA_LATCH", k>>
        OBVIOUS
      <4>3. p \in Places /\ p[1] = "MA_LATCH" /\ p[2] = k
        BY <4>1, <4>2, PlaceFacts DEF Valid, Latches
      <4>4. Live(p) /\ At(p).op_id = n
        BY <2>3, <4>1, <4>3 DEF Live, At, Valid
      <4>5. n \in 1 .. N /\ InTime("MA_LATCH", T[n].issue)
        BY <1>6, <4>3, <4>4
      <4> QED  BY <1>2, <2>3, <4>5 DEF InTime
    <3>5. ASSUME NEW n \in 1 .. m
          PROVE  U[n].issue <= d - 2
      <4>1. CASE n <= stat_retired_inst
        <5>1. T[n].issue <= d - 3 /\ T[n].issue \in Nat /\ U[n] = T[n]
          BY <1>2, <1>5, <2>1, <2>2, <2>3, <4>1 DEF RetiredBy
        <5> QED  BY <1>2, <5>1
      <4>2. CASE n > stat_retired_inst
        <5>1. n \in stat_retired_inst + 1 .. m
          BY <2>1, <3>3, <4>2
        <5>2. T[n].issue = d - 2 /\ U[n] = T[n]
          BY <1>5, <3>4, <5>1
        <5> QED  BY <5>2
      <4> QED  BY <2>1, <3>3, <4>1, <4>2
    <3>6. RetiredBy' = d - 2
      BY <3>2 DEF RetiredBy
    <3> QED  BY <3>2, <3>5, <3>6
  <2>4. CASE stage # "WB"
    <3>1. stat_retired_inst' = stat_retired_inst
      BY <1>5, <2>4, Retiring
    <3>2. RetiredBy' = RetiredBy
      <4>1. CASE stage = "IF"
        <5>1. stage' \in {"WB", "IF"} /\ Decoded' = d
          BY <1>2, <4>1, DecodedMoves
        <5> QED  BY <1>2, <4>1, <5>1 DEF RetiredBy
      <4>2. CASE stage = "ID"
        <5>1. stage' = "IF" /\ Decoded' = d + 1
          BY <1>2, <4>2, DecodedMoves
        <5> QED  BY <1>2, <4>2, <5>1 DEF RetiredBy
      <4>3. CASE stage \in {"MA", "EX"}
        <5>1. stage' \in {"EX", "ID"} /\ Decoded' = d
          BY <1>2, <4>3, DecodedMoves
        <5> QED  BY <1>2, <4>3, <5>1 DEF RetiredBy
      <4> QED  BY <1>7, <2>4, <4>1, <4>2, <4>3
    <3> QED  BY <1>5, <2>2, <3>1, <3>2
  <2> QED  BY <2>3, <2>4
<1> QED  BY <1>4, <1>8, <1>9 DEF PlaceInv, InTime

-----------------------------------------------------------------------------
(* Fetch reads what it can, and no more. *)

\* What is not retired is in the latches, at a time that InTime gives.
LEMMA InFlight ==
    ASSUME TypeInv, FlowInv, PlaceInv, NEW n \in 1 .. Len(trace), n > stat_retired_inst
    PROVE  \E p \in Places : /\ Live(p) /\ At(p).op_id = n /\ InTime(p[1], Times[n].issue)
                             /\ p[1] \in {"IF_LATCH", "ID_LATCH", "EX_LATCH", "MA_LATCH"}
<1>1. n \in stat_retired_inst + 1 .. last_op_id
  BY DEF TypeInv
<1>2. PICK p \in Places : Live(p) /\ At(p).op_id = n
  BY <1>1 DEF FlowInv
<1> QED  BY <1>2, PlaceFacts DEF PlaceInv, Latches

\* There are no more than w numbers in w lanes.
LEMMA LanesAreFew ==
    ASSUME NEW a \in Nat, NEW b \in Nat, NEW L \in SUBSET Lanes, NEW f \in [a + 1 .. b -> L],
           \A m, n \in a + 1 .. b : f[m] = f[n] => m = n, L # Lanes
    PROVE  b < a + PIPE_WIDTH
<1>1. PICK w \in Nat \ {0} : w = PIPE_WIDTH
  BY LaneFacts
<1>2. IsFiniteSet(Lanes) /\ Cardinality(Lanes) = w
  <2>1. 0 \in Int /\ w - 1 \in Int /\ ~ (0 > w - 1) /\ (w - 1) - 0 + 1 = w
    BY <1>1
  <2>2. Cardinality(0 .. w - 1) = (w - 1) - 0 + 1
    BY <2>1, FS_Interval
  <2> QED  BY <1>1, <2>1, <2>2, LaneFacts DEF Lanes
<1>3. IsFiniteSet(L) /\ Cardinality(L) < w /\ Cardinality(L) \in Nat
  BY <1>2, FS_Subset, FS_CardinalityType
<1> SUFFICES ASSUME ~ (b < a + w) PROVE FALSE
  BY <1>1
<1>4. IsFiniteSet(a + 1 .. b) /\ Cardinality(a + 1 .. b) >= w
  <2>1. a + 1 \in Int /\ b \in Int /\ ~ (a + 1 > b) /\ b - (a + 1) + 1 >= w
    BY <1>1
  <2> QED  BY <2>1, FS_Interval
<1>5. Cardinality(L) < Cardinality(a + 1 .. b)
  <2>1. Cardinality(a + 1 .. b) \in Nat
    BY <1>4, FS_CardinalityType
  <2> QED  BY <1>1, <1>3, <1>4, <2>1
<1>6. \E m, n \in a + 1 .. b : m # n /\ f[m] = f[n]
  BY <1>3, <1>4, <1>5, FS_PigeonHole
<1> QED  BY <1>6

\* When pipe_get_fetch_op reads, it is time to.
LEMMA FetchIsDue ==
    ASSUME TypeInv, FlowInv, BranchInv, HeartInv, CopyInv, PlaceInv, FetchInv,
           BPRED_POLICY # "GSHARE", stage = "IF", ~ fetch_cbr_stall,
           \A p \in Places : p = FetchPlace => ~ Live(p)
    PROVE  FetchCycle(Times, Len(trace) + 1) <= Decoded
<1>1. PICK N \in Nat : N = Len(trace) /\ N = last_op_id
  BY DEF TypeInv
<1>2. PICK d \in Nat : d = Decoded /\ d >= 1
  BY DEF Decoded, HeartInv
<1>3. PICK w \in Nat \ {0} : w = PIPE_WIDTH
  BY LaneFacts
<1>4. PICK T : T = Times
  OBVIOUS
<1>5. \A n \in 1 .. N : T[n].fetch \in Nat /\ T[n].issue \in Nat
  BY <1>1, <1>4, TimesAreClocked DEF Clocked
<1>6. stat_retired_inst \in Nat /\ \A n \in 1 .. stat_retired_inst : T[n].issue <= d - 3
  BY <1>2, <1>4 DEF TypeInv, PlaceInv, RetiredBy
<1>7. N > 0 => T[N].fetch <= d
  <2>1. N > 0 => N \in 1 .. Len(trace)
    BY <1>1
  <2> QED  BY <1>2, <1>4, <2>1 DEF FetchInv
<1>8. N + 1 > w => T[N + 1 - w].issue <= d
  <2> SUFFICES ASSUME N + 1 > w, ~ (T[N + 1 - w].issue <= d) PROVE FALSE
    OBVIOUS
  <2>1. PICK a \in Nat : a = N - w
    BY <1>1, <1>3
  <2>2. a + 1 \in 1 .. N /\ N + 1 - w = a + 1 /\ T[a + 1].issue \in Nat /\ T[a + 1].issue > d
    BY <1>2, <1>3, <1>5, <2>1
  <2>3. a + 1 > stat_retired_inst
    <3>1. ~ (a + 1 \in 1 .. stat_retired_inst)
      BY <1>2, <1>6, <2>2
    <3> QED  BY <1>6, <2>1, <3>1
  <2>4. PICK p \in Places : /\ Live(p) /\ At(p).op_id = a + 1 /\ InTime(p[1], T[a + 1].issue)
                            /\ p[1] \in {"IF_LATCH", "ID_LATCH", "EX_LATCH", "MA_LATCH"}
    BY <1>1, <1>4, <2>2, <2>3, InFlight
  <2>5. p[1] = "IF_LATCH"
    <3>1. CASE p[1] = "ID_LATCH"
      BY <1>2, <2>2, <2>4, <3>1 DEF InTime
    <3>2. CASE p[1] = "EX_LATCH"
      BY <1>2, <2>2, <2>4, <3>2 DEF InTime
    <3>3. CASE p[1] = "MA_LATCH"
      BY <1>2, <2>2, <2>4, <3>3 DEF InTime
    <3> QED  BY <2>4, <3>1, <3>2, <3>3
  <2>6. ASSUME NEW m \in a + 1 .. N
        PROVE  \E k \in Lanes \ {lane} :
                   \E q \in Places : /\ q[1] = "IF_LATCH" /\ q[2] = k
                                     /\ Live(q) /\ At(q).op_id = m
    <3>1. m \in stat_retired_inst + 1 .. last_op_id
      BY <1>1, <1>6, <2>3
    <3>2. PICK q \in Places : Live(q) /\ At(q).op_id = m
      BY <3>1 DEF FlowInv
    <3>3. q[1] \in {"IF_LATCH", "ID_LATCH", "EX_LATCH", "MA_LATCH"} /\ q[2] \in Lanes
      BY PlaceFacts DEF Latches
    <3>4. q[1] = "IF_LATCH"
      <4> SUFFICES ASSUME q[1] # "IF_LATCH" PROVE FALSE
        OBVIOUS
      <4>1. Depth(q[1]) > Depth(p[1])
        BY <2>5, <3>3, DepthFacts
      <4>2. m < a + 1
        BY <2>4, <3>2, <4>1 DEF FlowInv
      <4> QED  BY <2>1, <4>2
    <3>5. q[2] # lane
      <4> SUFFICES ASSUME q[2] = lane PROVE FALSE
        OBVIOUS
      <4>1. <<"IF_LATCH", lane>> \in Places /\ <<"IF_LATCH", lane>>[1] = "IF_LATCH"
            /\ <<"IF_LATCH", lane>>[2] = lane
        BY <3>3, PlaceFacts DEF Latches
      <4>2. q = FetchPlace
        BY <3>4, <4>1, PlaceFacts DEF FetchPlace
      <4> QED  BY <3>2, <4>2
    <3> QED  BY <3>2, <3>3, <3>4, <3>5
  <2>7. PICK f : f = [m \in a + 1 .. N |->
                          CHOOSE k \in Lanes \ {lane} :
                              \E q \in Places : /\ q[1] = "IF_LATCH" /\ q[2] = k
                                                /\ Live(q) /\ At(q).op_id = m]
    OBVIOUS
  <2>8. \A m \in a + 1 .. N :
            /\ f[m] \in Lanes \ {lane}
            /\ \E q \in Places : /\ q[1] = "IF_LATCH" /\ q[2] = f[m]
                                 /\ Live(q) /\ At(q).op_id = m
    BY <2>6, <2>7
  <2>9. f \in [a + 1 .. N -> Lanes \ {lane}]
    BY <2>7, <2>8
  <2>10. \A m, n \in a + 1 .. N : f[m] = f[n] => m = n
    <3> SUFFICES ASSUME NEW m \in a + 1 .. N, NEW n \in a + 1 .. N, f[m] = f[n]
                 PROVE  m = n
      OBVIOUS
    <3>1. PICK q \in Places : q[1] = "IF_LATCH" /\ q[2] = f[m] /\ At(q).op_id = m
      BY <2>8
    <3>2. PICK s \in Places : s[1] = "IF_LATCH" /\ s[2] = f[n] /\ At(s).op_id = n
      BY <2>8
    <3>3. q = s
      BY <3>1, <3>2, PlaceFacts
    <3> QED  BY <3>1, <3>2, <3>3
  <2>11. Lanes \ {lane} # Lanes /\ Lanes \ {lane} \in SUBSET Lanes
    BY DEF TypeInv
  <2>12. N < a + PIPE_WIDTH
    BY <1>1, <2>1, <2>9, <2>10, <2>11, LanesAreFew
  <2> QED  BY <1>1, <1>3, <2>1, <2>12
<1>9. N > 0 /\ Surprising(N) => T[N].issue + 3 <= d
  <2> SUFFICES ASSUME N > 0, Surprising(N) PROVE T[N].issue + 3 <= d
    OBVIOUS
  <2>1. CASE N > stat_retired_inst
    <3>1. N \in 1 .. Len(trace)
      BY <1>1
    <3>2. PICK p \in Places : Live(p) /\ At(p).op_id = N
      BY <1>1, <2>1, <3>1, InFlight
    <3>3. At(p).is_mispred_cbr
      BY <3>2 DEF CopyInv
    <3> QED  BY <3>2, <3>3 DEF BranchInv
  <2>2. CASE ~ (N > stat_retired_inst)
    <3>1. N \in 1 .. stat_retired_inst /\ N \in 1 .. N
      BY <1>1, <1>6, <2>2
    <3> QED  BY <1>2, <1>5, <1>6, <3>1
  <2> QED  BY <2>1, <2>2
<1>10. PICK n : n = N + 1
  OBVIOUS
<1>11. n \in 1 .. Len(trace) + 1 /\ n - 1 = N /\ n \in Nat /\ (n > 1 <=> N > 0)
       /\ \A m \in 1 .. n - 1 : T[m].fetch \in Nat /\ T[m].issue \in Nat
  BY <1>1, <1>5, <1>10
<1>12. FetchCycle(T, n) <= d <=>
           /\ 1 <= d
           /\ n > 1 => T[n - 1].fetch <= d
           /\ n > PIPE_WIDTH => T[n - PIPE_WIDTH].issue <= d
           /\ n > 1 /\ Surprising(n - 1) => T[n - 1].issue + 3 <= d
  BY <1>11, FetchIs
<1>13. FetchCycle(T, n) <= d
  BY <1>2, <1>3, <1>7, <1>8, <1>9, <1>10, <1>11, <1>12
<1> QED  BY <1>1, <1>2, <1>4, <1>10, <1>13

\* When a cycle has been fetched, nothing more could have been.
FetchDone ==
    ~ trace_end /\ ~ fetch_cbr_stall =>
        \A p \in Places : p[1] = "IF_LATCH" => Live(p)

LEMMA FetchIsBehind ==
    TypeInv /\ FlowInv /\ BranchInv /\ HeartInv /\ CopyInv /\ PlaceInv /\ FetchDone
        /\ BPRED_POLICY # "GSHARE" /\ stage = "WB" /\ ~ trace_end
        => FetchCycle(Times, Len(trace) + 1) > stat_num_cycle
<1> SUFFICES ASSUME TypeInv, FlowInv, BranchInv, HeartInv, CopyInv, PlaceInv, FetchDone,
                    BPRED_POLICY # "GSHARE", stage = "WB", ~ trace_end
             PROVE  FetchCycle(Times, Len(trace) + 1) > stat_num_cycle
  OBVIOUS
<1>1. PICK N \in Nat : N = Len(trace) /\ N = last_op_id
  BY DEF TypeInv
<1>2. PICK c \in Nat : c = stat_num_cycle /\ c = Decoded
  BY DEF Decoded, HeartInv
<1>3. PICK w \in Nat \ {0} : w = PIPE_WIDTH
  BY LaneFacts
<1>4. PICK T : T = Times
  OBVIOUS
<1>5. \A n \in 1 .. N : /\ T[n].fetch \in Nat /\ T[n].issue \in Nat
                        /\ \A m \in 1 .. n : T[m].issue <= T[n].issue
  BY <1>1, <1>4, TimesAreClocked DEF Clocked
<1>6. \A p \in Places : Live(p) => At(p).op_id \in 1 .. N
                                   /\ InTime(p[1], T[At(p).op_id].issue)
  <2> SUFFICES ASSUME NEW p \in Places, Live(p)
               PROVE  At(p).op_id \in 1 .. N /\ InTime(p[1], T[At(p).op_id].issue)
    OBVIOUS
  <2>1. At(p).op_id \in stat_retired_inst + 1 .. last_op_id /\ stat_retired_inst \in Nat
    BY DEF FlowInv, TypeInv
  <2> QED  BY <1>1, <1>4, <2>1 DEF PlaceInv
<1>7. PICK n : n = N + 1
  OBVIOUS
<1>8. n \in 1 .. Len(trace) + 1 /\ n - 1 = N /\ n \in Nat /\ (n > 1 <=> N > 0)
      /\ \A m \in 1 .. n - 1 : T[m].fetch \in Nat /\ T[m].issue \in Nat
  BY <1>1, <1>5, <1>7
<1>9. FetchCycle(T, n) \in Nat
      /\ (FetchCycle(T, n) <= c <=>
              /\ 1 <= c
              /\ n > 1 => T[n - 1].fetch <= c
              /\ n > PIPE_WIDTH => T[n - PIPE_WIDTH].issue <= c
              /\ n > 1 /\ Surprising(n - 1) => T[n - 1].issue + 3 <= c)
  BY <1>2, <1>8, FetchIs
<1>10. CASE fetch_cbr_stall
  <2>1. PICK p \in Places : Live(p) /\ At(p).is_mispred_cbr
    BY <1>10 DEF BranchInv
  <2>2. At(p).op_id = N /\ N > 0 /\ Surprising(N) /\ InTime(p[1], T[N].issue) /\ N \in 1 .. N
    <3>1. At(p).op_id = N
      BY <1>1, <2>1 DEF BranchInv
    <3>2. N \in 1 .. N /\ InTime(p[1], T[N].issue)
      BY <1>6, <2>1, <3>1
    <3>3. Surprising(N)
      BY <2>1, <3>1 DEF CopyInv
    <3> QED  BY <1>1, <3>1, <3>2, <3>3
  <2>3. p[1] \in {"IF_LATCH", "ID_LATCH", "EX_LATCH", "MA_LATCH"}
    BY PlaceFacts DEF Latches
  <2>4. T[N].issue \in Nat /\ T[N].issue + 3 > c
    <3>1. T[N].issue \in Nat
      BY <1>5, <2>2
    <3>2. CASE p[1] = "IF_LATCH"
      BY <1>2, <2>2, <3>1, <3>2 DEF InTime
    <3>3. CASE p[1] = "ID_LATCH"
      BY <1>2, <2>2, <3>1, <3>3 DEF InTime
    <3>4. CASE p[1] = "EX_LATCH"
      BY <1>2, <2>2, <3>1, <3>4 DEF InTime
    <3>5. CASE p[1] = "MA_LATCH"
      BY <1>2, <2>2, <3>1, <3>5 DEF InTime
    <3> QED  BY <2>3, <3>1, <3>2, <3>3, <3>4, <3>5
  <2>5. ~ (FetchCycle(T, n) <= c)
    BY <1>2, <1>8, <1>9, <2>2, <2>4
  <2> QED  BY <1>1, <1>2, <1>4, <1>7, <1>9, <2>5
<1>11. CASE ~ fetch_cbr_stall
  <2>1. \A k \in Lanes : \E p \in Places : p[1] = "IF_LATCH" /\ p[2] = k /\ Live(p)
    <3> SUFFICES ASSUME NEW k \in Lanes
                 PROVE  \E p \in Places : p[1] = "IF_LATCH" /\ p[2] = k /\ Live(p)
      OBVIOUS
    <3>1. <<"IF_LATCH", k>> \in Places /\ <<"IF_LATCH", k>>[1] = "IF_LATCH"
          /\ <<"IF_LATCH", k>>[2] = k
      BY PlaceFacts DEF Latches
    <3> QED  BY <1>11, <3>1 DEF FetchDone
  <2>2. \A k \in Lanes : /\ In[k].op_id \in 1 .. N /\ T[In[k].op_id].issue > c
                         /\ \A j \in Lanes : In[j].op_id = In[k].op_id => j = k
    <3> SUFFICES ASSUME NEW k \in Lanes
                 PROVE  /\ In[k].op_id \in 1 .. N /\ T[In[k].op_id].issue > c
                        /\ \A j \in Lanes : In[j].op_id = In[k].op_id => j = k
      OBVIOUS
    <3>1. PICK p \in Places : p[1] = "IF_LATCH" /\ p[2] = k /\ Live(p)
      BY <2>1
    <3>2. At(p) = In[k]
      BY <3>1 DEF At, In
    <3>3. In[k].op_id \in 1 .. N /\ InTime("IF_LATCH", T[In[k].op_id].issue)
      BY <1>6, <3>1, <3>2
    <3>4. ASSUME NEW j \in Lanes, In[j].op_id = In[k].op_id
          PROVE  j = k
      <4>1. PICK q \in Places : q[1] = "IF_LATCH" /\ q[2] = j /\ Live(q)
        BY <2>1
      <4>2. At(q) = In[j]
        BY <4>1 DEF At, In
      <4>3. p = q
        BY <3>1, <3>2, <3>4, <4>1, <4>2 DEF FlowInv
      <4> QED  BY <3>1, <4>1, <4>3
    <3> QED  BY <1>2, <3>3, <3>4 DEF InTime
  <2>3. \E k \in Lanes : In[k].op_id <= N + 1 - w
    <3> SUFFICES ASSUME \A k \in Lanes : ~ (In[k].op_id <= N + 1 - w) PROVE FALSE
      OBVIOUS
    <3>1. PICK f : f = [k \in Lanes |-> In[k].op_id]
      OBVIOUS
    <3>2. PICK R : R = N + 2 - w .. N
      OBVIOUS
    <3>3. f \in [Lanes -> R]
      <4>1. \A k \in Lanes : In[k].op_id \in R
        BY <1>1, <1>3, <2>2, <3>2
      <4> QED  BY <3>1, <4>1
    <3>4. IsFiniteSet(Lanes) /\ Cardinality(Lanes) = w
      <4>1. 0 \in Int /\ w - 1 \in Int /\ ~ (0 > w - 1) /\ (w - 1) - 0 + 1 = w
        BY <1>3
      <4>2. Cardinality(0 .. w - 1) = (w - 1) - 0 + 1
        BY <4>1, FS_Interval
      <4> QED  BY <1>3, <4>1, <4>2, LaneFacts DEF Lanes
    <3>5. IsFiniteSet(R) /\ Cardinality(R) < w
      <4>1. PICK b : b = N + 2 - w
        OBVIOUS
      <4>2. b \in Int /\ N \in Int
        BY <1>1, <1>3, <4>1
      <4>3. IsFiniteSet(b .. N) /\ Cardinality(b .. N) = IF b > N THEN 0 ELSE N - b + 1
        BY <4>2, FS_Interval
      <4>4. 0 < w /\ N - b + 1 < w
        BY <1>1, <1>3, <4>1
      <4> QED  BY <3>2, <4>1, <4>3, <4>4
    <3>6. \E j, k \in Lanes : j # k /\ f[j] = f[k]
      BY <3>3, <3>4, <3>5, FS_PigeonHole
    <3> QED  BY <2>2, <3>1, <3>6
  <2>4. PICK k \in Lanes : In[k].op_id <= N + 1 - w
    BY <2>3
  <2>5. PICK m : m = In[k].op_id
    OBVIOUS
  <2>6. m \in 1 .. N /\ m <= N + 1 - w /\ T[m].issue > c /\ T[m].issue \in Nat
    BY <1>5, <2>2, <2>4, <2>5
  <2>7. PICK a \in Nat : a = N + 1 - w
    BY <1>1, <1>3, <2>6
  <2>8. a \in 1 .. N /\ m \in 1 .. a /\ n > w /\ n - w = a
    BY <1>1, <1>3, <1>7, <2>6, <2>7
  <2>9. T[m].issue <= T[a].issue /\ T[a].issue \in Nat
    BY <1>5, <2>8
  <2>10. T[n - w].issue > c
    BY <1>2, <2>6, <2>8, <2>9
  <2>11. ~ (FetchCycle(T, n) <= c)
    BY <1>2, <1>3, <1>9, <2>8, <2>9, <2>10
  <2> QED  BY <1>1, <1>2, <1>4, <1>7, <1>9, <2>11
<1> QED  BY <1>10, <1>11

\* A lane that fetch has done has an instruction, or nothing is fetched for a while.
LEMMA LanesFilled ==
    ASSUME ~ BadRecords, TypeInv, FlowInv, StallInv, FetchInv, IF_,
           ~ trace_end', ~ fetch_cbr_stall'
    PROVE  /\ \A p \in Places : p[1] = "IF_LATCH" /\ p[2] <= lane => Live(p)'
           /\ stage' = "IF" => lane' = lane + 1
           /\ stage' = "WB" => \A k \in Lanes : k <= lane
<1>1. NextLane /\ lane \in Lanes /\ stage = "IF"
  BY FetchCases, NextLaneType
<1>2. /\ stage' = "IF" => lane' = lane + 1
      /\ stage' = "WB" => \A k \in Lanes : k <= lane
  BY <1>1, LaneFacts DEF NextLane
<1>3. FetchStalledLane \/ FetchRecord
  <2>1. ~ FetchNothing
    BY DEF FetchNothing
  <2>2. ~ FetchEnd
    BY DEF FetchEnd
  <2> QED  BY <2>1, <2>2 DEF IF_
<1>4. ~ trace_end /\ ~ fetch_cbr_stall
  BY <1>3 DEF FetchStalledLane, FetchRecord, Reads
<1>5. ASSUME NEW p \in Places, p[1] = "IF_LATCH", p[2] <= lane
      PROVE  Live(p)'
  <2>1. p[2] \in Lanes
    BY PlaceFacts
  <2>2. <<"IF_LATCH", p[2]>> \in Places /\ <<"IF_LATCH", p[2]>>[1] = "IF_LATCH"
        /\ <<"IF_LATCH", p[2]>>[2] = p[2]
    BY <2>1, PlaceFacts DEF Latches
  <2>3. p = <<"IF_LATCH", p[2]>>
    BY <1>5, <2>2, PlaceFacts
  <2>4. CASE p[2] < lane
    <3>1. Live(p)
      BY <1>1, <1>4, <1>5, <2>4 DEF FetchInv
    <3>2. lane \in Nat
      BY <1>1, LaneFacts
    <3>3. p # FetchPlace
      <4>1. ~ (lane < lane)
        BY <3>2
      <4> QED  BY <2>2, <2>3, <2>4, <4>1 DEF FetchPlace
    <3> QED  BY <3>1, <3>3, FetchCases
  <2>5. CASE p[2] = lane
    <3>1. p = FetchPlace
      BY <2>3, <2>5 DEF FetchPlace
    <3>2. CASE FetchRecord
      <4>1. last_op_id' # last_op_id
        BY <3>2 DEF FetchRecord, TypeInv
      <4> QED  BY <3>1, <4>1, FetchCases
    <3>3. CASE FetchStalledLane
      <4>1. stall[lane] /\ latch["IF_LATCH"][lane].valid
        BY <1>1, <3>3 DEF FetchStalledLane, StallInv
      <4>2. Live(p)
        BY <1>1, <1>5, <2>5, <4>1 DEF Live, At
      <4>3. ~ FetchRecord
        BY <3>3 DEF FetchStalledLane, FetchRecord, Reads
      <4> QED  BY <4>2, <4>3, FetchCases
    <3> QED  BY <1>3, <3>2, <3>3
  <2>6. p[2] \in Nat /\ lane \in Nat
    BY <1>1, <2>1, LaneFacts
  <2> QED  BY <1>5, <2>4, <2>5, <2>6
<1> QED  BY <1>2, <1>5

\* Fetch reads in the order of the trace.
LEMMA FetchGoesUp ==
    TypeInv /\ trace # <<>> => /\ FetchCycle(Times, Len(trace) + 1) \in Nat
                              /\ Times[Len(trace)].fetch <= FetchCycle(Times, Len(trace) + 1)
<1> SUFFICES ASSUME TypeInv, trace # <<>>
             PROVE  /\ FetchCycle(Times, Len(trace) + 1) \in Nat
                    /\ Times[Len(trace)].fetch <= FetchCycle(Times, Len(trace) + 1)
  OBVIOUS
<1>1. PICK N \in Nat : N = Len(trace)
  BY DEF TypeInv
<1>2. N > 0
  BY <1>1 DEF TypeInv
<1>3. PICK T : T = Times
  OBVIOUS
<1>4. \A n \in 1 .. N : T[n].fetch \in Nat /\ T[n].issue \in Nat
  BY <1>1, <1>3, TimesAreClocked DEF Clocked
<1>5. PICK n : n = N + 1
  OBVIOUS
<1>6. n \in 1 .. Len(trace) + 1 /\ n - 1 = N /\ n > 1
      /\ \A m \in 1 .. n - 1 : T[m].fetch \in Nat /\ T[m].issue \in Nat
  BY <1>1, <1>2, <1>4, <1>5
<1>7. PICK f \in Nat : f = FetchCycle(T, n)
  BY <1>6, FetchIs
<1>8. T[n - 1].fetch <= f
  <2>1. f <= f
    OBVIOUS
  <2> QED  BY <1>6, <1>7, <2>1, FetchIs
<1> QED  BY <1>1, <1>3, <1>5, <1>6, <1>7, <1>8

LEMMA StepFetch ==
    ASSUME ~ BadRecords
    PROVE  TypeInv /\ FlowInv /\ BranchInv /\ HeartInv /\ StallInv /\ CopyInv /\ PlaceInv
               /\ FetchInv /\ BPRED_POLICY # "GSHARE" /\ MainStep => FetchInv'
<1> SUFFICES ASSUME TypeInv, FlowInv, BranchInv, HeartInv, StallInv, CopyInv, PlaceInv,
                    FetchInv, BPRED_POLICY # "GSHARE", MainStep
             PROVE  FetchInv'
  OBVIOUS
<1>1. PICK N \in Nat : N = Len(trace) /\ N = last_op_id
  BY DEF TypeInv
<1>2. PICK d \in Nat : d = Decoded
  BY DecodedMoves
<1>3. PICK M \in Nat : M = Len(trace')
  BY DecodedMoves, TimesSettled
<1>4. Next /\ TypeInv' /\ d <= Decoded' /\ Decoded' \in Nat
  <2>1. Decoded' = d \/ Decoded' = d + 1
    BY <1>2, DecodedMoves
  <2> QED  BY <1>2, <2>1, DecodedMoves, StepType
<1>5. /\ M = IF FetchRecord THEN N + 1 ELSE N
      /\ \A n \in 1 .. N : Times'[n] = Times[n]
      /\ \A n \in 1 .. N + 1 : FetchCycle(Times, n)' = FetchCycle(Times, n)
      /\ UNCHANGED options
  BY <1>1, <1>3, <1>4, TimesSettled
<1>6. (TypeInv => TimedInv)'
  BY TimesAreFetched, PTL
<1>7. \A n \in 1 .. N : Times[n].fetch \in Nat /\ Times[n].issue \in Nat
  BY <1>1, TimesAreClocked DEF Clocked
<1>8. \A n \in 1 .. Len(trace') : Times'[n].fetch <= Decoded'
  <2> SUFFICES ASSUME NEW n \in 1 .. M PROVE Times'[n].fetch <= Decoded'
    BY <1>3
  <2>1. CASE n \in 1 .. N
    <3>1. Times[n].fetch <= d /\ Times[n].fetch \in Nat
      BY <1>1, <1>2, <1>7, <2>1 DEF FetchInv
    <3> QED  BY <1>4, <1>5, <2>1, <3>1
  <2>2. CASE n \notin 1 .. N
    <3>1. FetchRecord /\ n = N + 1
      BY <1>1, <1>5, <2>2
    <3>2. /\ stage = "IF" /\ ~ fetch_cbr_stall /\ ~ trace_end
          /\ \A p \in Places : p = FetchPlace => ~ Live(p)
      <4>1. stage = "IF" /\ ~ fetch_cbr_stall /\ ~ trace_end /\ IF_
        BY <3>1 DEF FetchRecord, Reads, NextLane, IF_
      <4> QED  BY <3>1, <4>1, FetchCases
    <3>3. FetchCycle(Times, Len(trace) + 1) <= Decoded
      BY <3>2, FetchIsDue
    <3>4. FetchCycle(Times, n) <= d
      BY <1>1, <1>2, <3>1, <3>3
    <3>5. Times'[n].fetch = FetchCycle(Times, n)'
      BY <1>3, <1>4, <1>6 DEF TimedInv
    <3>6. n \in 1 .. N + 1
      BY <1>1, <3>1
    <3>7. Times'[n].fetch = FetchCycle(Times, n) /\ Times'[n].fetch \in Nat
      BY <1>3, <1>4, <1>5, <1>6, <3>5, <3>6 DEF TimedInv, Clocked
    <3> QED  BY <1>4, <3>4, <3>7
  <2> QED  BY <2>1, <2>2
<1>9. ASSUME stage = "IF", ~ trace_end', ~ fetch_cbr_stall'
      PROVE  /\ \A p \in Places : p[1] = "IF_LATCH" /\ p[2] <= lane => Live(p)'
             /\ stage' = "IF" => lane' = lane + 1
             /\ stage' = "WB" => \A k \in Lanes : k <= lane
  BY <1>4, <1>9, LanesFilled, Retiring
<1>10. ~ trace_end' => ~ trace_end
  <2>1. CASE FetchEnd
    BY <2>1 DEF FetchEnd
  <2>2. CASE ~ FetchEnd
    BY <1>4, <2>2 DEF Next, WB, MA, EX, ID, Move, IF_, FetchStalledLane, FetchNothing, FetchRecord
  <2> QED  BY <2>1, <2>2
<1>11. ASSUME ~ trace_end', NEW n, n = Len(trace') + 1
       PROVE  FetchCycle(Times, n)' > stat_num_cycle'
  <2>1. CASE stage = "IF" /\ stage' = "WB"
    <3>1. FetchDone'
      <4> SUFFICES ASSUME ~ fetch_cbr_stall', NEW p \in Places, p[1] = "IF_LATCH"
                   PROVE  Live(p)'
        BY DEF FetchDone
      <4> QED  BY <1>9, <1>11, <2>1, PlaceFacts
    <3>2. FlowInv' /\ BranchInv' /\ HeartInv' /\ CopyInv' /\ PlaceInv'
      BY <1>4, StepFlow, StepHeart, StepCopy, StepPlace
    <3>3. BPRED_POLICY' # "GSHARE"
      BY <1>5 DEF options
    <3>4. (TypeInv /\ FlowInv /\ BranchInv /\ HeartInv /\ CopyInv /\ PlaceInv /\ FetchDone
               /\ BPRED_POLICY # "GSHARE" /\ stage = "WB" /\ ~ trace_end
               => FetchCycle(Times, Len(trace) + 1) > stat_num_cycle)'
      BY FetchIsBehind, PTL
    <3>5. (FetchCycle(Times, Len(trace) + 1) > stat_num_cycle)'
      BY <1>4, <1>11, <2>1, <3>1, <3>2, <3>3, <3>4
    <3> QED  BY <1>11, <3>5 DEF FetchCycle
  <2>2. CASE ~ (stage = "IF" /\ stage' = "WB")
    <3>1. stat_num_cycle' = stat_num_cycle
      BY <2>2, Heartbeat DEF heart_vars
    <3>2. CASE ~ FetchRecord
      <4>1. M = N
        BY <1>5, <3>2
      <4>2. n = N + 1 /\ n \in 1 .. N + 1
        BY <1>1, <1>3, <1>11, <4>1
      <4>3. FetchCycle(Times, Len(trace) + 1) > stat_num_cycle
        BY <1>10, <1>11 DEF FetchInv
      <4> QED  BY <1>1, <1>5, <3>1, <4>2, <4>3
    <3>3. CASE FetchRecord
      <4>1. M = N + 1 /\ N + 1 \in 1 .. M /\ N + 1 \in 1 .. N + 1 /\ trace' # <<>>
        <5>1. M = N + 1
          BY <1>1, <1>5, <3>3
        <5>2. ASSUME trace' = <<>> PROVE FALSE
          <6>1. M = 0
            BY <1>3, <5>2
          <6> QED  BY <1>1, <5>1, <6>1
        <5> QED  BY <1>1, <5>1, <5>2
      <4>2. (TypeInv /\ trace # <<>> => /\ FetchCycle(Times, Len(trace) + 1) \in Nat
                 /\ Times[Len(trace)].fetch <= FetchCycle(Times, Len(trace) + 1))'
        BY FetchGoesUp, PTL
      <4>3. FetchCycle(Times, n)' \in Nat /\ Times'[N + 1].fetch <= FetchCycle(Times, n)'
        BY <1>3, <1>4, <1>11, <4>1, <4>2
      <4>4. Times'[N + 1].fetch = FetchCycle(Times, N + 1) /\ Times'[N + 1].fetch \in Nat
        BY <1>3, <1>4, <1>5, <1>6, <4>1 DEF TimedInv, Clocked
      <4>5. FetchCycle(Times, N + 1) > stat_num_cycle /\ stat_num_cycle \in Nat
        BY <1>1, <1>10, <1>11 DEF FetchInv, HeartInv
      <4> QED  BY <3>1, <4>3, <4>4, <4>5
    <3> QED  BY <3>2, <3>3
  <2> QED  BY <2>1, <2>2
<1>12. ASSUME stage' = "IF", ~ trace_end', ~ fetch_cbr_stall',
              NEW p \in Places, p[1] = "IF_LATCH", p[2] < lane'
       PROVE  Live(p)'
  <2>1. p[2] \in Nat
    BY PlaceFacts, LaneFacts
  <2>2. CASE stage = "IF"
    <3>1. lane' = lane + 1 /\ lane \in Nat
      BY <1>9, <1>12, <2>2, LaneFacts DEF TypeInv
    <3>2. p[2] <= lane
      BY <1>12, <2>1, <3>1
    <3> QED  BY <1>9, <1>12, <2>2, <3>2
  <2>3. CASE stage # "IF"
    <3>1. lane' = 0
      BY <1>12, <2>3, DecodedMoves DEF ID, TypeInv
    <3> QED  BY <1>12, <2>1, <3>1
  <2> QED  BY <2>2, <2>3
<1> QED  BY <1>8, <1>11, <1>12 DEF FetchInv

-----------------------------------------------------------------------------
(* The pipeline halts when the last instruction retires. *)

LEMMA LastStays ==
    ASSUME TypeInv, FlowInv, Next, ~ FetchRecord
    PROVE  LastRetires(Times)' = LastRetires(Times)
<1>1. PICK N \in Nat : N = Len(trace)
  BY DEF TypeInv
<1>2. trace' = trace /\ \A n \in 1 .. N : Times'[n] = Times[n]
  BY <1>1, TraceStays, TimesSettled
<1>3. CASE trace = <<>>
  BY <1>2, <1>3 DEF LastRetires
<1>4. CASE trace # <<>>
  <2>1. N \in 1 .. N
    BY <1>1, <1>4 DEF TypeInv
  <2> QED  BY <1>1, <1>2, <1>4, <2>1 DEF LastRetires
<1> QED  BY <1>3, <1>4

LEMMA StepEnd ==
    ASSUME ~ BadRecords
    PROVE  TypeInv /\ FlowInv /\ HeartInv /\ PlaceInv /\ FetchInv /\ EndInv
               /\ MainStep => EndInv'
<1> SUFFICES ASSUME TypeInv, FlowInv, HeartInv, PlaceInv, FetchInv, EndInv, MainStep
             PROVE  EndInv'
  OBVIOUS
<1>1. Next /\ stat_num_cycle \in Nat /\ stage \in {"WB", "MA", "EX", "ID", "IF"}
  BY DecodedMoves DEF TypeInv
<1>2. PICK N \in Nat : N = Len(trace) /\ N = last_op_id /\ N <= MaxInst
  BY DEF TypeInv
<1>3. ~ FetchRecord => LastRetires(Times)' = LastRetires(Times)
  BY <1>1, LastStays
<1>4. /\ stage = "IF" /\ stage' = "WB" => stat_num_cycle' = stat_num_cycle + 1
      /\ ~ (stage = "IF" /\ stage' = "WB") => stat_num_cycle' = stat_num_cycle
  BY Heartbeat DEF heart_vars
<1>5. CASE stage = "WB"
  <2>1. WB /\ stage' = "MA" /\ ~ FetchRecord /\ stat_num_cycle' = stat_num_cycle
    BY <1>4, <1>5, DecodedMoves DEF FetchRecord, Reads, NextLane
  <2>2. /\ ~ halt /\ UNCHANGED <<halt_op_id, trace_end, last_op_id>>
        /\ halt' = \E k \in Valid("MA_LATCH") : latch["MA_LATCH"][k].op_id >= halt_op_id
    BY <2>1 DEF WB
  <2>3. ASSUME halt'
        PROVE  trace_end /\ LastRetires(Times) = stat_num_cycle + 1
    <3>1. PICK k \in Valid("MA_LATCH") : latch["MA_LATCH"][k].op_id >= halt_op_id
      BY <2>2, <2>3
    <3>2. PICK p : p = <<"MA_LATCH", k>>
      OBVIOUS
    <3>3. p \in Places /\ p[1] = "MA_LATCH" /\ p[2] = k
      BY <3>1, <3>2, PlaceFacts DEF Valid, Latches
    <3>4. PICK n : n = At(p).op_id
      OBVIOUS
    <3>5. Live(p) /\ n >= halt_op_id
      BY <1>5, <3>1, <3>3, <3>4 DEF Live, At, Valid
    <3>6. n \in 1 .. N
      <4>1. n \in stat_retired_inst + 1 .. last_op_id /\ stat_retired_inst \in Nat
        BY <3>3, <3>4, <3>5 DEF FlowInv, TypeInv
      <4> QED  BY <1>2, <4>1
    <3>7. trace_end
      <4> SUFFICES ASSUME ~ trace_end PROVE FALSE
        OBVIOUS
      <4>1. halt_op_id = MaxInst + 1 /\ MaxInst \in Nat
        BY MaxFacts DEF EndInv
      <4> QED  BY <1>2, <3>5, <3>6, <4>1
    <3>8. n = N
      <4>1. halt_op_id = N
        BY <1>2, <3>7 DEF EndInv
      <4> QED  BY <1>2, <3>5, <3>6, <4>1
    <3>9. Times[N].issue = stat_num_cycle - 2
      <4>1. InTime("MA_LATCH", Times[N].issue)
        BY <3>3, <3>4, <3>5, <3>8 DEF PlaceInv
      <4> QED  BY <1>5, <4>1 DEF InTime, Decoded
    <3>10. trace # <<>>
      <4> SUFFICES ASSUME trace = <<>> PROVE FALSE
        OBVIOUS
      <4>1. N = 0
        BY <1>2
      <4> QED  BY <3>6, <4>1
    <3> QED  BY <1>1, <1>2, <3>7, <3>9, <3>10 DEF LastRetires
  <2>4. ~ (trace_end /\ last_op_id = 0)
    BY <2>2 DEF EndInv
  <2>5. halt' => LastRetires(Times)' = stat_num_cycle' + 1
    BY <1>3, <2>1, <2>3
  <2> QED  BY <2>1, <2>2, <2>3, <2>4, <2>5 DEF EndInv
<1>6. CASE stage \in {"MA", "EX", "ID"}
  <2>1. /\ MA \/ EX \/ ID
        /\ stage' \in {"EX", "ID", "IF"} /\ stat_num_cycle' = stat_num_cycle
    BY <1>4, <1>6, DecodedMoves
  <2>2. UNCHANGED <<halt, halt_op_id, trace_end, last_op_id>>
    BY <2>1 DEF MA, EX, ID, Move
  <2>3. ~ FetchRecord
    BY <1>6 DEF FetchRecord, Reads, NextLane
  <2>4. LastRetires(Times)' = LastRetires(Times)
    BY <1>3, <2>3
  <2> QED  BY <1>6, <2>1, <2>2, <2>4 DEF EndInv
<1>7. CASE stage = "IF"
  <2>1. stage' \in {"WB", "IF"} /\ IF_
    BY <1>7, DecodedMoves
  <2>2. (IF stage' = "WB" THEN stat_num_cycle' ELSE stat_num_cycle' + 1) = stat_num_cycle + 1
    BY <1>1, <1>4, <1>7, <2>1
  <2>3. CASE FetchRecord
    <3>1. ~ trace_end /\ UNCHANGED <<halt_op_id, halt, trace_end>>
      BY <2>3 DEF FetchRecord
    <3> QED  BY <3>1 DEF EndInv
  <2>4. CASE FetchStalledLane \/ FetchNothing
    <3>1. UNCHANGED <<halt_op_id, halt, trace_end, last_op_id>>
      BY <2>4 DEF FetchStalledLane, FetchNothing
    <3>2. ~ FetchRecord
      BY <2>4 DEF FetchStalledLane, FetchNothing, FetchRecord, Reads
    <3>3. LastRetires(Times)' = LastRetires(Times)
      BY <1>3, <3>2
    <3> QED  BY <1>7, <2>2, <3>1, <3>3 DEF EndInv
  <2>5. CASE FetchEnd
    <3>1. /\ trace_end' /\ halt_op_id' = last_op_id /\ halt' = (halt \/ last_op_id = 0)
          /\ UNCHANGED last_op_id
      BY <2>5 DEF FetchEnd, HaltsAfter
    <3>2. ~ FetchRecord
      <4>1. ASSUME FetchRecord PROVE last_op_id' = last_op_id + 1
        BY <4>1 DEF FetchRecord
      <4> QED  BY <1>2, <3>1, <4>1
    <3>3. LastRetires(Times)' = LastRetires(Times)
      BY <1>3, <3>2
    <3>4. ASSUME halt'
          PROVE  LastRetires(Times) = stat_num_cycle + 1
      <4>1. CASE halt
        BY <1>7, <4>1 DEF EndInv
      <4>2. CASE ~ halt
        <5>1. N = 0 /\ trace = <<>>
          BY <1>2, <3>1, <3>4, <4>2 DEF TypeInv
        <5>2. ~ trace_end
          BY <1>2, <4>2, <5>1 DEF EndInv
        <5>3. FetchCycle(Times, Len(trace) + 1) > stat_num_cycle
          BY <5>2 DEF FetchInv
        <5>4. FetchCycle(Times, 1) <= 1 /\ FetchCycle(Times, 1) \in Nat
          <6>1. 1 \in 1 .. Len(trace) + 1 /\ \A m \in 1 .. 1 - 1 :
                    Times[m].fetch \in Nat /\ Times[m].issue \in Nat
            BY <1>2, <5>1
          <6>2. PIPE_WIDTH \in Nat \ {0}
            BY PipelineAssumption
          <6> QED  BY <6>1, <6>2, FetchIs
        <5>5. stat_num_cycle = 0
          BY <1>1, <1>2, <5>1, <5>3, <5>4
        <5> QED  BY <5>1, <5>5 DEF LastRetires
      <4> QED  BY <4>1, <4>2
    <3> QED  BY <2>2, <3>1, <3>3, <3>4 DEF EndInv
  <2> QED  BY <2>1, <2>3, <2>4, <2>5 DEF IF_
<1> QED  BY <1>1, <1>5, <1>6, <1>7

-----------------------------------------------------------------------------
(* All of it holds in every state. *)

LEMMA InitTime == MainInit => TimeInv /\ StallInv
<1> SUFFICES ASSUME MainInit PROVE TimeInv /\ StallInv
  OBVIOUS
<1>1. /\ stage = "WB" /\ trace = <<>> /\ stat_retired_inst = 0 /\ stat_num_cycle = 0
      /\ halt_op_id = NoHaltId /\ halt = FALSE /\ trace_end = FALSE
      /\ latch = [t \in Latches |-> [k \in Lanes |-> Bubble]]
      /\ Init
  BY DEF MainInit, Init
<1>2. \A p \in Places : ~ Live(p)
  BY <1>1, PlaceFacts DEF Live, At, Bubble
<1>3. TypeInv /\ Len(trace) = 0
  BY <1>1, InitType
<1>4. FetchCycle(Times, 1) > 0
  <2>1. 1 \in 1 .. Len(trace) + 1 /\ \A m \in 1 .. 1 - 1 :
            Times[m].fetch \in Nat /\ Times[m].issue \in Nat
    BY <1>3
  <2>2. 0 \in Nat /\ ~ (1 <= 0)
    OBVIOUS
  <2>3. FetchCycle(Times, 1) \in Nat /\ ~ (FetchCycle(Times, 1) <= 0)
    BY <1>3, <2>1, <2>2, FetchIs
  <2> QED  BY <2>3
<1>5. CopyInv /\ PlaceInv
  BY <1>1, <1>2 DEF CopyInv, PlaceInv
<1>6. FetchInv
  <2>1. FetchCycle(Times, Len(trace) + 1) > stat_num_cycle
    BY <1>1, <1>3, <1>4
  <2> QED  BY <1>1, <1>3, <2>1 DEF FetchInv
<1>7. EndInv /\ StallInv
  BY <1>1 DEF EndInv, StallInv
<1> QED  BY <1>5, <1>6, <1>7 DEF TimeInv

LEMMA RestTime ==
    ASSUME TypeInv, FlowInv, UNCHANGED <<vars, heart_vars>>, TimeInv, StallInv
    PROVE  TimeInv' /\ StallInv'
<1>1. /\ UNCHANGED <<options, stage, lane, latch, stall, fetch_cbr_stall, last_op_id,
                     halt_op_id, halt, stat_retired_inst, trace_end, trace>>
      /\ UNCHANGED stat_num_cycle
  BY DEF vars, heart_vars
<1>2. Len(trace) \in Nat /\ TypeInv'
  BY StepType DEF TypeInv
<1>3. /\ \A n \in 1 .. Len(trace) : Times'[n] = Times[n]
      /\ \A n \in 1 .. Len(trace) + 1 : FetchCycle(Times, n)' = FetchCycle(Times, n)
  BY <1>1, <1>2, TimesStay
<1>4. ASSUME NEW p \in Places
      PROVE  (Live(p)' <=> Live(p)) /\ At(p)' = At(p)
  BY <1>1 DEF Live, At
<1>5. \A n : Surprising(n)' <=> Surprising(n)
  BY <1>1 DEF Surprising, options
<1>6. BPRED_POLICY' = BPRED_POLICY /\ Decoded' = Decoded
  BY <1>1 DEF options, Decoded
<1>7. CopyInv'
  <2> SUFFICES ASSUME NEW p \in Places, Live(p)', NEW n, n = At(p)'.op_id
               PROVE  /\ At(p)'.trace_rec = trace'[n]
                      /\ BPRED_POLICY' # "GSHARE" => (At(p)'.is_mispred_cbr <=> Surprising(n)')
    BY DEF CopyInv
  <2> QED  BY <1>1, <1>4, <1>5, <1>6 DEF TimeInv, CopyInv
<1>8. ASSUME BPRED_POLICY # "GSHARE"
      PROVE  PlaceInv' /\ FetchInv' /\ EndInv'
  <2>1. PlaceInv /\ FetchInv /\ EndInv
    BY <1>8 DEF TimeInv
  <2>2. PlaceInv'
    <3>1. ASSUME NEW p \in Places, Live(p)', NEW i, i = Times'[At(p)'.op_id].issue
          PROVE  InTime(p[1], i)'
      <4>1. Live(p) /\ At(p).op_id \in 1 .. Len(trace)
        <5>1. Live(p)
          BY <1>4, <3>1
        <5>2. At(p).op_id \in stat_retired_inst + 1 .. last_op_id /\ stat_retired_inst \in Nat
          BY <5>1 DEF FlowInv, TypeInv
        <5> QED  BY <1>2, <5>1, <5>2 DEF TypeInv
      <4>2. i = Times[At(p).op_id].issue
        BY <1>3, <1>4, <3>1, <4>1
      <4>3. InTime(p[1], i)
        BY <2>1, <4>1, <4>2 DEF PlaceInv
      <4> QED  BY <1>1, <1>6, <4>3 DEF InTime
    <3>2. \A n \in 1 .. stat_retired_inst' : Times'[n].issue <= RetiredBy'
      <4>1. RetiredBy' = RetiredBy
        BY <1>1, <1>6 DEF RetiredBy
      <4>2. \A n \in 1 .. stat_retired_inst : n \in 1 .. Len(trace)
        BY <1>2 DEF FlowInv, TypeInv
      <4> QED  BY <1>1, <1>3, <2>1, <4>1, <4>2 DEF PlaceInv
    <3> QED  BY <3>1, <3>2 DEF PlaceInv, InTime
  <2>3. FetchInv'
    <3>1. \A n \in 1 .. Len(trace') : Times'[n].fetch <= Decoded'
      BY <1>1, <1>3, <1>6, <2>1 DEF FetchInv
    <3>2. ASSUME ~ trace_end', NEW n, n = Len(trace') + 1
          PROVE  FetchCycle(Times, n)' > stat_num_cycle'
      <4>1. n = Len(trace) + 1 /\ n \in 1 .. Len(trace) + 1
        BY <1>1, <1>2, <3>2
      <4> QED  BY <1>1, <1>3, <2>1, <3>2, <4>1 DEF FetchInv
    <3>3. ASSUME stage' = "IF", ~ trace_end', ~ fetch_cbr_stall',
                 NEW p \in Places, p[1] = "IF_LATCH", p[2] < lane'
          PROVE  Live(p)'
      BY <1>1, <1>4, <2>1, <3>3 DEF FetchInv
    <3> QED  BY <3>1, <3>2, <3>3 DEF FetchInv
  <2>4. EndInv'
    <3>1. LastRetires(Times)' = LastRetires(Times)
      <4>1. CASE trace = <<>>
        BY <1>1, <4>1 DEF LastRetires
      <4>2. CASE trace # <<>>
        <5>1. Len(trace) \in 1 .. Len(trace)
          BY <1>2, <4>2 DEF TypeInv
        <5> QED  BY <1>1, <1>3, <4>2, <5>1 DEF LastRetires
      <4> QED  BY <4>1, <4>2
    <3> QED  BY <1>1, <2>1, <3>1 DEF EndInv
  <2> QED  BY <2>2, <2>3, <2>4
<1>9. StallInv'
  BY <1>1 DEF StallInv
<1> QED  BY <1>6, <1>7, <1>8, <1>9 DEF TimeInv

LEMMA TimeHolds == ~ BadRecords => (MainSpec => []TimeInv)
<1> SUFFICES ASSUME ~ BadRecords PROVE MainSpec => []TimeInv
  OBVIOUS
<1>1. TypeInv /\ FlowInv /\ BranchInv /\ HeartInv /\ TimeInv /\ StallInv
          /\ [MainStep]_<<vars, heart_vars>> => (TimeInv /\ StallInv)'
  <2> SUFFICES ASSUME TypeInv, FlowInv, BranchInv, HeartInv, TimeInv, StallInv,
                      [MainStep]_<<vars, heart_vars>>
               PROVE  TimeInv' /\ StallInv'
    OBVIOUS
  <2>1. CASE UNCHANGED <<vars, heart_vars>>
    BY <2>1, RestTime
  <2>2. CASE MainStep
    <3>1. Next /\ CopyInv' /\ StallInv'
      BY <2>2, Heartbeat, StepCopy, StepStall DEF TimeInv
    <3>2. ASSUME BPRED_POLICY' # "GSHARE"
          PROVE  PlaceInv' /\ FetchInv' /\ EndInv'
      <4>1. BPRED_POLICY # "GSHARE"
        BY <3>1, <3>2, TimesSettled DEF options
      <4> QED  BY <2>2, <4>1, StepPlace, StepFetch, StepEnd DEF TimeInv
    <3> QED  BY <3>1, <3>2 DEF TimeInv
  <2> QED  BY <2>1, <2>2
<1> QED  BY <1>1, InitTime, MainFlow, PTL DEF MainSpec

(***************************************************************************)
(* Every instruction is fetched, leaves the IF latch and retires in the    *)
(* cycle that the trace, the width and the forwarding options give it, so  *)
(* the number of cycles that main prints is the one of those rules.  A     *)
(* record that is not valid takes a lane and is no instruction; the        *)
(* recurrence knows the trace without those.                               *)
(***************************************************************************)
THEOREM KeepsTimeHolds == ~ BadRecords => (MainSpec => []KeepsTime)
<1>1. TypeInv /\ FlowInv /\ HeartInv /\ TimeInv => KeepsTime
  <2> SUFFICES ASSUME TypeInv, FlowInv, HeartInv, TimeInv, stage = "WB",
                      BPRED_POLICY # "GSHARE", NEW T, T = Times
               PROVE  /\ Ids("ID_LATCH") = {n \in 1 .. Len(trace) : T[n].issue = stat_num_cycle}
                      /\ \A n \in 1 .. Len(trace) : T[n].fetch <= stat_num_cycle
                      /\ ~ trace_end => FetchCycle(T, Len(trace) + 1) > stat_num_cycle
                      /\ halt => stat_num_cycle = LastRetires(T)
    BY DEF KeepsTime
  <2>1. PICK c \in Nat : c = stat_num_cycle /\ c = Decoded
    BY DEF Decoded, HeartInv
  <2>2. PlaceInv /\ FetchInv /\ EndInv
    BY DEF TimeInv
  <2>3. \A n \in 1 .. Len(trace) : T[n].issue \in Nat
    BY TimesAreClocked DEF Clocked
  <2>4. ASSUME NEW n \in Ids("ID_LATCH")
        PROVE  n \in 1 .. Len(trace) /\ T[n].issue = c
    <3>1. PICK k \in Valid("ID_LATCH") : latch["ID_LATCH"][k].op_id = n
      BY DEF Ids
    <3>2. PICK p : p = <<"ID_LATCH", k>>
      OBVIOUS
    <3>3. p \in Places /\ p[1] = "ID_LATCH" /\ p[2] = k
      BY <3>1, <3>2, PlaceFacts DEF Valid, Latches
    <3>4. Live(p) /\ At(p).op_id = n
      BY <3>1, <3>3 DEF Live, At, Valid
    <3>5. n \in 1 .. Len(trace)
      <4>1. n \in stat_retired_inst + 1 .. last_op_id /\ stat_retired_inst \in Nat
        BY <3>3, <3>4 DEF FlowInv, TypeInv
      <4> QED  BY <4>1 DEF TypeInv
    <3>6. InTime("ID_LATCH", T[n].issue)
      BY <2>2, <3>3, <3>4 DEF PlaceInv
    <3> QED  BY <2>1, <3>5, <3>6 DEF InTime
  <2>5. ASSUME NEW n \in 1 .. Len(trace), T[n].issue = c
        PROVE  n \in Ids("ID_LATCH")
    <3>1. n > stat_retired_inst
      <4> SUFFICES ASSUME ~ (n > stat_retired_inst) PROVE FALSE
        OBVIOUS
      <4>1. n \in 1 .. stat_retired_inst
        BY <2>5 DEF TypeInv
      <4>2. T[n].issue <= c - 3
        BY <2>1, <2>2, <4>1 DEF PlaceInv, RetiredBy
      <4> QED  BY <2>1, <2>5, <4>2
    <3>2. PICK p \in Places : /\ Live(p) /\ At(p).op_id = n /\ InTime(p[1], T[n].issue)
                              /\ p[1] \in {"IF_LATCH", "ID_LATCH", "EX_LATCH", "MA_LATCH"}
      BY <2>2, <3>1, InFlight
    <3>3. InTime(p[1], c) /\ Decoded = c /\ stage = "WB"
      BY <2>1, <2>5, <3>2
    <3>4. ~ InTime("IF_LATCH", c) /\ ~ InTime("EX_LATCH", c) /\ ~ InTime("MA_LATCH", c)
      BY <3>3 DEF InTime
    <3>5. p[1] # "IF_LATCH" /\ p[1] # "EX_LATCH" /\ p[1] # "MA_LATCH"
      BY <3>3, <3>4
    <3>6. p[1] = "ID_LATCH"
      BY <3>2, <3>5
    <3> QED  BY <3>2, <3>6, PlaceFacts DEF Live, At, Ids, Valid
  <2>6. Ids("ID_LATCH") = {n \in 1 .. Len(trace) : T[n].issue = stat_num_cycle}
    BY <2>1, <2>4, <2>5
  <2>7. \A n \in 1 .. Len(trace) : T[n].fetch <= stat_num_cycle
    BY <2>1, <2>2 DEF FetchInv
  <2> QED  BY <2>2, <2>6, <2>7 DEF FetchInv, EndInv
<1> SUFFICES ASSUME ~ BadRecords PROVE MainSpec => []KeepsTime
  OBVIOUS
<1>2. MainSpec => []TimeInv
  BY TimeHolds
<1> QED  BY <1>1, <1>2, MainFlow, PTL
=============================================================================
