--------------------------- MODULE OoOTypeProofs ----------------------------
(***************************************************************************)
(* Every variable of the out-of-order pipeline keeps its type, for all     *)
(* widths, sizes, latencies and traces.  What makes the proof more than a  *)
(* restatement is that each array is indexed by something computed: the    *)
(* lane of a loop, a permutation of the lanes, a pointer that wraps, a tag *)
(* read from the alias table, the first slot found by a search.            *)
(***************************************************************************)
EXTENDS OoOProperties, WellFoundedInduction, TLAPS

USE DEF Lanes, ExLanes, RobIds, ExeqSlots, Src, ArfRegs, NoReg, NoTag

\* The loop counter is within the array its stage runs over.
LaneInRange ==
    /\ stage \in {"writeback", "exe_done"} => lane \in ExLanes
    /\ stage \notin {"writeback", "exe_done"} => lane \in Lanes

LoopOK == LaneInRange /\ stage \in Stages /\ lane \in Nat

TypeInv == TypeOK /\ LaneInRange

-----------------------------------------------------------------------------
(* A non-empty set of numbers has a first element, so the searches of      *)
(* exeq.cpp and find_rob_inst, when they succeed, find one of what they    *)
(* look for.                                                               *)
LEMMA FirstExists ==
    ASSUME NEW S \in SUBSET Nat, S # {}
    PROVE  \E s \in S : \A t \in S : s <= t
<1>1. PICK s \in S : \A t \in S : <<t, s>> \notin OpToRel(<, Nat)
  BY NatLessThanWellFounded, WFMin
<1>2. \A t \in S : t \in Nat /\ s \in Nat
  OBVIOUS
<1>3. \A t \in S : ~(t < s)
  BY <1>1, <1>2, Zenon DEF OpToRel
<1> QED  BY <1>2, <1>3

LEMMA FirstSlotInSet ==
    ASSUME NEW S \in SUBSET Nat, S # {}
    PROVE  FirstSlot(S) \in S
BY FirstExists DEF FirstSlot

-----------------------------------------------------------------------------
(* The operators of the component modules keep the components' types.      *)

LEMMA ZeroInstType == ZeroInst \in InstInfo
BY ArfAssumption DEF ZeroInst, InstInfo, OpTypes

LEMMA NewInstType ==
    ASSUME NEW n \in Nat, NEW rec \in TraceRec
    PROVE  NewInst(n, rec) \in InstInfo
BY DEF NewInst, InstInfo, TraceRec, OpTypes

LEMMA NextIdType ==
    ASSUME NEW i \in RobIds
    PROVE  NextId(i) \in RobIds
BY RobAssumption DEF NextId

LEMMA RobInitType == rob_init \in ROBType
BY ZeroInstType, RobAssumption DEF rob_init, ROBType, ROBEntry

LEMMA RobInsertType ==
    ASSUME NEW r \in ROBType, NEW inst \in InstInfo
    PROVE  rob_insert(r, inst) \in ROBType
BY NextIdType DEF rob_insert, ROBType, ROBEntry

LEMMA SetExecType ==
    ASSUME NEW r \in ROBType, NEW i
    PROVE  SetExec(r, i) \in ROBType
BY DEF SetExec, ROBType, ROBEntry

LEMMA SetReadyType ==
    ASSUME NEW r \in ROBType, NEW i
    PROVE  SetReady(r, i) \in ROBType
BY DEF SetReady, ROBType, ROBEntry

LEMMA RemoveHeadType ==
    ASSUME NEW r \in ROBType
    PROVE  rob_remove_head(r) \in ROBType
BY NextIdType, ZenonT(60) DEF rob_remove_head, ROBType, ROBEntry

LEMMA WakeInstType ==
    ASSUME NEW inst \in InstInfo, NEW wakes \in [Src -> BOOLEAN]
    PROVE  WakeInst(inst, wakes) \in InstInfo
BY DEF WakeInst, InstInfo

LEMMA WakeupType ==
    ASSUME NEW r \in ROBType, NEW tag
    PROVE  rob_wakeup(r, tag) \in ROBType
<1> DEFINE wakes(i) == [k \in Src |-> WaitsFor(r, tag, i, k)]
<1>1. \A i \in RobIds : wakes(i) \in [Src -> BOOLEAN]
  BY DEF WaitsFor
<1>2. \A i \in RobIds : WakeInst(r.entries[i].inst, wakes(i)) \in InstInfo
  BY <1>1, WakeInstType DEF ROBType, ROBEntry
<1> QED  BY <1>2 DEF rob_wakeup, WakeOperands, ROBType, ROBEntry

LEMMA FirstHolder ==
    ASSUME NEW r \in ROBType, NEW n, find_rob_inst(r, n) # -1
    PROVE  find_rob_inst(r, n) \in RobIds
<1>1. Holders(r, n) \in SUBSET Nat /\ Holders(r, n) \subseteq RobIds
  BY RobAssumption DEF Holders
<1>2. Holders(r, n) # {}
  BY DEF find_rob_inst
<1> QED  BY <1>1, <1>2, FirstExists DEF find_rob_inst

LEMMA RatResetType ==
    ASSUME NEW t \in RATType, NEW r
    PROVE  rat_reset_entry(t, r) \in RATType
BY DEF rat_reset_entry, RATType

LEMMA RatSetType ==
    ASSUME NEW t \in RATType, NEW r, NEW id \in Nat
    PROVE  rat_set_remap(t, r, id) \in RATType
BY DEF rat_set_remap, RATType

LEMMA ExeqInsertType ==
    ASSUME NEW q \in EXEQType, NEW inst \in InstInfo
    PROVE  exeq_insert(q, inst) \in EXEQType
<1>1. [inst EXCEPT !.exe_wait_cycles = IF inst.op_type = "OP_LD"
                                       THEN LOAD_EXE_CYCLES ELSE 1] \in InstInfo
  BY ExeqAssumption DEF InstInfo
<1> QED  BY <1>1 DEF exeq_insert, EXEQType

LEMMA ExeqCycleType ==
    ASSUME NEW q \in EXEQType
    PROVE  exeq_cycle(q) \in EXEQType
<1>1. ASSUME NEW s \in ExeqSlots
      PROVE  [q[s] EXCEPT !.inst.exe_wait_cycles = @ - 1]
                \in [valid : BOOLEAN, inst : InstInfo]
  BY DEF EXEQType, InstInfo
<1> QED  BY <1>1 DEF exeq_cycle, EXEQType

LEMMA ExeqRemoveType ==
    ASSUME NEW q \in EXEQType
    PROVE  exeq_remove(q) \in EXEQType
BY DEF exeq_remove, EXEQType

LEMMA DoneInstType ==
    ASSUME NEW q \in EXEQType, exeq_check_done(q)
    PROVE  DoneInst(q) \in InstInfo
<1>1. DoneSlots(q) \in SUBSET Nat /\ DoneSlots(q) \subseteq ExeqSlots
  BY ExeqAssumption DEF DoneSlots
<1>2. FirstSlot(DoneSlots(q)) \in ExeqSlots
  BY <1>1, FirstSlotInSet DEF exeq_check_done
<1> QED  BY <1>2 DEF DoneInst, EXEQType

\* Renaming reads tags from the alias table and flags from the entries they
\* name, so its result is typed when no tag is wild.
LEMMA RenameType ==
    ASSUME TypeOK, NEW inst \in InstInfo, ~WildTag(inst)
    PROVE  Rename(inst) \in InstInfo
<1>1. ASSUME NEW k \in Src
      PROVE  OperandTag(inst, k) \in Int
  BY DEF OperandTag, Renamed, rat_get_remap, TypeOK, RATType, InstInfo
<1>2. ASSUME NEW k \in Src
      PROVE  OperandReady(inst, k) \in BOOLEAN
  BY DEF OperandReady
<1>3. rob.tail_ptr \in Int
  BY DEF TypeOK, ROBType
<1> QED  BY <1>1, <1>2, <1>3 DEF Rename, InstInfo

-----------------------------------------------------------------------------
LEMMA InitTypeInv == Init => TypeInv
<1> SUFFICES ASSUME Init PROVE TypeInv
  OBVIOUS
<1>1. EmptyLatch \in Latch
  BY ZeroInstType DEF EmptyLatch, Latch
<1>2. rat_init \in RATType
  BY DEF rat_init, RATType
<1>3. exeq_init \in EXEQType
  BY ZeroInstType DEF exeq_init, EXEQType
<1>4. UnknownEnd \in Nat
  BY PipelineAssumption DEF UnknownEnd
<1>5. LaneInRange
  BY PipelineAssumption DEF Init, LaneInRange
<1> QED
  BY <1>1, <1>2, <1>3, <1>4, <1>5, RobInitType, PipelineAssumption, SMTT(30)
     DEF Init, TypeInv, TypeOK, Stages, LaneOrder

-----------------------------------------------------------------------------
(* The loops stay within their arrays.                                     *)

LEMMA AdvanceLane ==
    ASSUME LaneInRange, stage \in Stages \ {"writeback", "exe_done"},
           NEW s \in Stages, Advance(PIPE_WIDTH, s)
    PROVE  LoopOK'
<1>1. lane \in Lanes
  BY DEF LaneInRange
<1>2. CASE lane + 1 < PIPE_WIDTH
  BY <1>1, <1>2, PipelineAssumption DEF Advance, LoopOK, LaneInRange
<1>3. CASE ~(lane + 1 < PIPE_WIDTH)
  BY <1>3, PipelineAssumption DEF Advance, Goto, LoopOK, LaneInRange
<1> QED  BY <1>2, <1>3

LEMMA AdvanceExLane ==
    ASSUME LaneInRange, stage \in {"writeback", "exe_done"},
           NEW s \in Stages, Advance(MAX_WRITEBACKS, s)
    PROVE  LoopOK'
<1>1. lane \in ExLanes /\ stage \in Stages
  BY DEF LaneInRange, Stages
<1>2. CASE lane + 1 < MAX_WRITEBACKS
  BY <1>1, <1>2, PipelineAssumption DEF Advance, LoopOK, LaneInRange
<1>3. CASE ~(lane + 1 < MAX_WRITEBACKS)
  BY <1>3, PipelineAssumption DEF Advance, Goto, LoopOK, LaneInRange
<1> QED  BY <1>2, <1>3

LEMMA GotoLane ==
    ASSUME NEW s \in Stages, Goto(s)
    PROVE  LoopOK'
BY PipelineAssumption DEF Goto, LoopOK, LaneInRange

-----------------------------------------------------------------------------
(* One lemma for each stage; each action keeps the types and the lane.     *)

LEMMA CommitTypeInv == TypeInv /\ Commit => TypeInv'
<1> SUFFICES ASSUME TypeInv, Commit PROVE TypeInv'
  OBVIOUS
<1> USE PipelineAssumption DEF TypeInv
<1>1. CASE CommitInst
  <2>1. HeadInst(rob) \in InstInfo
    BY DEF HeadInst, TypeOK, ROBType, ROBEntry
  <2>2. rob' \in ROBType
    BY <1>1, RemoveHeadType DEF CommitInst, TypeOK
  <2>3. rat' \in RATType
    BY <1>1, RatResetType DEF CommitInst, RatAfterCommit, TypeOK
  <2>4. halt' \in BOOLEAN /\ stat_retired_inst' \in Nat
    BY <1>1 DEF CommitInst, TypeOK
  <2>5. LoopOK'
    BY <1>1, AdvanceLane DEF CommitInst, CommitDone, TypeOK, Stages
  <2> QED
    BY <1>1, <2>2, <2>3, <2>4, <2>5
       DEF LoopOK, CommitInst, TypeOK, feVars, schedVars, issueVars
<1>2. CASE CommitNothing
  <2>1. LoopOK'
    BY <1>2, AdvanceLane DEF CommitNothing, CommitDone, TypeOK, Stages
  <2> QED
    BY <1>2, <2>1 DEF LoopOK, CommitNothing, TypeOK, feVars, schedVars, issueVars, haltVars
<1> QED  BY <1>1, <1>2 DEF Commit

LEMMA WritebackTypeInv == TypeInv /\ Writeback => TypeInv'
<1> SUFFICES ASSUME TypeInv, WritebackLane PROVE TypeInv'
  BY DEF Writeback
<1> USE PipelineAssumption DEF TypeInv
<1>1. lane \in ExLanes
  BY DEF WritebackLane, LaneInRange
<1>2. Woken \in ROBType
  BY WakeupType DEF Woken, TypeOK
<1>3. rob' \in ROBType
  BY <1>2, SetReadyType DEF WritebackLane, rob_mark_ready
<1>4. \A n \in Nat : SmashByte(n) \in Nat
  BY DEF SmashByte, OobByte
<1>5. rat' \in RATType
  <2>1. rat \in RATType /\ rat[OobReg].prf_id \in Nat
    BY DEF TypeOK, RATType
  <2>2. [rat EXCEPT ![OobReg].prf_id = SmashByte(@)] \in RATType
    BY <1>4, <2>1 DEF RATType
  <2> QED  BY <2>1, <2>2 DEF WritebackLane
<1>6. EX_latch' \in [ExLanes -> Latch]
  BY DEF WritebackLane, TypeOK, Latch
<1>7. LoopOK'
  BY AdvanceExLane DEF WritebackLane, Stages
<1>8. UNCHANGED <<ID_latch, exeq, next_inst_num,
                  feVars, schedVars, issueVars, haltVars>>
  BY DEF WritebackLane
<1> QED
  BY <1>3, <1>5, <1>6, <1>7, <1>8
     DEF LoopOK, TypeOK, feVars, schedVars, issueVars, haltVars

LEMMA ExeTypeInv == TypeInv /\ Exe => TypeInv'
<1> SUFFICES ASSUME TypeInv, Exe PROVE TypeInv'
  OBVIOUS
<1> USE PipelineAssumption DEF TypeInv, exeFrame, feVars, issueVars
<1>1. CASE ExeEmpty
  <2>1. LoopOK'
    BY <1>1, AdvanceLane DEF ExeEmpty, ExeDone, TypeOK, Stages
  <2> QED  BY <1>1, <2>1 DEF LoopOK, ExeEmpty, TypeOK
<1>2. CASE ExeCopy
  <2>1. LoopOK'
    BY <1>2, AdvanceLane DEF ExeCopy, ExeDone, TypeOK, Stages
  <2>2. EX_latch' \in [ExLanes -> Latch] /\ SC_latch' \in [Lanes -> Latch]
    BY <1>2 DEF ExeCopy, LaneInRange, TypeOK, Latch
  <2> QED  BY <1>2, <2>1, <2>2 DEF LoopOK, ExeCopy, TypeOK
<1>3. CASE ExeInsert
  <2>1. LoopOK'
    BY <1>3, AdvanceLane DEF ExeInsert, ExeDone, TypeOK, Stages
  <2>2. SC_latch' \in [Lanes -> Latch] /\ SC_latch[lane].inst \in InstInfo
    BY <1>3 DEF ExeInsert, LaneInRange, TypeOK, Latch
  <2>3. exeq' \in EXEQType
    BY <1>3, <2>2, ExeqInsertType DEF ExeInsert, TypeOK
  <2> QED  BY <1>3, <2>1, <2>2, <2>3 DEF LoopOK, ExeInsert, TypeOK
<1>4. CASE ExeFull
  <2>1. LoopOK'
    BY <1>4, GotoLane DEF ExeFull, Stages
  <2> QED  BY <1>4, <2>1 DEF LoopOK, ExeFull, TypeOK
<1>5. CASE ExeqCycle
  <2>1. LoopOK'
    BY <1>5, GotoLane DEF ExeqCycle, Stages
  <2> QED  BY <1>5, <2>1, ExeqCycleType DEF LoopOK, ExeqCycle, TypeOK
<1>6. CASE ExeTransfer
  <2>1. LoopOK'
    BY <1>6, AdvanceExLane DEF ExeTransfer, TransferNext, Stages
  <2>2. EX_latch' \in [ExLanes -> Latch]
    BY <1>6, DoneInstType DEF ExeTransfer, Full, TypeOK, Latch
  <2> QED  BY <1>6, <2>1, <2>2, ExeqRemoveType DEF LoopOK, ExeTransfer, TypeOK
<1>7. CASE ExeNoneLeft
  <2>1. LoopOK'
    BY <1>7, GotoLane DEF ExeNoneLeft, Stages
  <2> QED  BY <1>7, <2>1 DEF LoopOK, ExeNoneLeft, TypeOK
<1> QED  BY <1>1, <1>2, <1>3, <1>4, <1>5, <1>6, <1>7 DEF Exe


LEMMA ScheduleTypeInv == TypeInv /\ Schedule => TypeInv'
<1> SUFFICES ASSUME TypeInv, Schedule PROVE TypeInv'
  OBVIOUS
<1> USE PipelineAssumption DEF TypeInv
<1>1. /\ LoopOK'
      /\ continueScheduling' \in BOOLEAN
  <2>1. stage = "schedule" /\ lane \in Lanes
    BY DEF Schedule, ScheduleInst, ScheduleNothing, ScheduleOccupied,
           ScheduleReturn, LaneInRange
  <2>2. ASSUME NEW c \in BOOLEAN, ScheduleNext(c)
        PROVE  LoopOK' /\ continueScheduling' \in BOOLEAN
    <3>1. Advance(PIPE_WIDTH, "sort")
      BY <2>2 DEF ScheduleNext, ScheduleEnds, Advance
    <3>2. LoopOK'
      BY <2>1, <3>1, AdvanceLane DEF Stages
    <3> QED  BY <2>2, <3>2 DEF ScheduleNext, ScheduleEnds
  <2>3. ASSUME ScheduleEnds
        PROVE  LoopOK' /\ continueScheduling' \in BOOLEAN
    BY <2>3, GotoLane DEF ScheduleEnds, Stages
  <2>4. continueScheduling \in BOOLEAN
    BY DEF TypeOK
  <2> QED
    BY <2>2, <2>3, <2>4
       DEF Schedule, ScheduleInst, ScheduleNothing, ScheduleOccupied, ScheduleReturn
<1>2. rob' \in ROBType /\ SC_latch' \in [Lanes -> Latch]
  <2>1. CASE ScheduleInst
    <3>1. PICK i \in Schedulable :
              /\ rob' = rob_mark_exec(rob, rob.entries[i].inst)
              /\ SC_latch' = [SC_latch EXCEPT ![lane] = Full(rob.entries[i].inst)]
      BY <2>1 DEF ScheduleInst
    <3>2. i \in RobIds
      BY DEF Schedulable, Oldest, ReadyToExec, Waiting
    <3>3. rob.entries[i].inst \in InstInfo
      BY <3>2 DEF TypeOK, ROBType, ROBEntry
    <3>4. rob' \in ROBType
      BY <3>1, SetExecType DEF rob_mark_exec, TypeOK
    <3> QED  BY <3>1, <3>3, <3>4 DEF Full, TypeOK, Latch
  <2>2. CASE ~ScheduleInst
    BY <2>2 DEF Schedule, ScheduleNothing, ScheduleOccupied, ScheduleReturn, TypeOK
  <2> QED  BY <2>1, <2>2
<1>3. UNCHANGED schedFrame
  BY DEF Schedule, ScheduleInst, ScheduleNothing, ScheduleOccupied, ScheduleReturn
<1> QED
  BY <1>1, <1>2, <1>3
     DEF LoopOK, schedFrame, feVars, issueVars, haltVars, TypeOK

\* The sort permutes the lanes and nothing else.
LEMMA SortTypeInv == TypeInv /\ (IssueCompare \/ IssueNextPass) => TypeInv'
<1> SUFFICES ASSUME TypeInv, IssueCompare \/ IssueNextPass PROVE TypeInv'
  OBVIOUS
<1> USE PipelineAssumption DEF TypeInv
<1>1. lane \in Lanes /\ pass \in Lanes /\ pipeIndex \in [Lanes -> Lanes]
  BY DEF IssueCompare, IssueNextPass, LaneInRange, TypeOK
<1>2. CASE IssueCompare
  <2>1. lane + 1 \in Lanes
    BY <1>1, <1>2 DEF IssueCompare
  <2>2. pipeIndex' \in [Lanes -> Lanes]
    BY <1>1, <1>2, <2>1 DEF IssueCompare
  <2>3. LoopOK'
    BY <1>2, <2>1 DEF IssueCompare, LoopOK, LaneInRange, Stages
  <2> QED
    BY <1>2, <2>2, <2>3
       DEF LoopOK, IssueCompare, sortFrame, feVars, schedVars, haltVars, TypeOK
<1>3. CASE IssueNextPass
  <2>1. LoopOK' /\ pass' \in Lanes
    BY <1>1, <1>3 DEF IssueNextPass, LoopOK, LaneInRange, Stages
  <2> QED
    BY <1>3, <2>1
       DEF LoopOK, IssueNextPass, sortFrame, feVars, schedVars, haltVars, TypeOK
<1> QED  BY <1>2, <1>3

LEMMA IssueTypeInv == TypeInv /\ (Issue \/ IssueNothing \/ IssueCrash) => TypeInv'
<1> SUFFICES ASSUME TypeInv, Issue \/ IssueNothing \/ IssueCrash PROVE TypeInv'
  OBVIOUS
<1> USE PipelineAssumption DEF TypeInv
<1>1. LaneOrder \in [Lanes -> Lanes]
  BY DEF LaneOrder
<1>2. IssueLane \in Lanes
  BY DEF Issue, IssueNothing, IssueCrash, IssueLane, LaneInRange, TypeOK
<1>3. IssueInst \in InstInfo
  BY <1>2 DEF IssueInst, TypeOK, Latch
<1>4. CASE Issue
  <2>1. Rename(IssueInst) \in InstInfo
    BY <1>3, <1>4, RenameType DEF Issue
  <2>2. rob' \in ROBType
    BY <1>4, <2>1, RobInsertType DEF Issue, TypeOK
  <2>3. Rename(IssueInst).dest_reg # NoReg => Rename(IssueInst).dr_tag \in Nat
    BY <1>3, RobAssumption DEF Rename, InstInfo, TypeOK, ROBType
  <2>4. rat' \in RATType
    BY <1>4, <2>3, RatSetType DEF Issue, TypeOK
  <2>5. ID_latch' \in [Lanes -> Latch]
    BY <1>4 DEF Issue, TypeOK, Latch
  <2>6. LoopOK' /\ pipeIndex' \in [Lanes -> Lanes]
    BY <1>1, <1>4, AdvanceLane DEF Issue, IssueDone, TypeOK, Stages
  <2>7. UNCHANGED issueFrame
    BY <1>4 DEF Issue
  <2> QED
    BY <2>2, <2>4, <2>5, <2>6, <2>7
       DEF LoopOK, issueFrame, feVars, schedVars, haltVars, TypeOK
<1>5. CASE IssueNothing
  <2>1. LoopOK' /\ pipeIndex' \in [Lanes -> Lanes]
    BY <1>1, <1>5, AdvanceLane DEF IssueNothing, IssueDone, TypeOK, Stages
  <2> QED
    BY <1>5, <2>1
       DEF LoopOK, IssueNothing, issueFrame, feVars, schedVars, haltVars, TypeOK
<1>6. CASE IssueCrash
  <2>1. LoopOK'
    BY <1>6 DEF IssueCrash, LoopOK, LaneInRange, TypeOK, Stages
  <2> QED
    BY <1>6, <2>1
       DEF LoopOK, IssueCrash, issueFrame, feVars, schedVars, haltVars, TypeOK
<1> QED  BY <1>4, <1>5, <1>6


LEMMA DecodeTypeInv == TypeInv /\ DecodeStage => TypeInv'
<1> SUFFICES ASSUME TypeInv, DecodeStage PROVE TypeInv'
  OBVIOUS
<1> USE PipelineAssumption DEF TypeInv
<1>1. LoopOK'
  BY AdvanceLane DEF DecodeStage, Decode, DecodeNothing, DecodeDone, TypeOK, Stages
<1>2. /\ FE_latch' \in [Lanes -> Latch]
      /\ ID_latch' \in [Lanes -> Latch]
      /\ next_inst_num' \in Nat
  <2>1. CASE Decode
    <3>1. PICK j \in NextDecoded :
              /\ ID_latch' = [ID_latch EXCEPT ![lane] = FE_latch[j]]
              /\ FE_latch' = [FE_latch EXCEPT ![j].valid = FALSE]
      BY <2>1 DEF Decode
    <3>2. FE_latch[j] \in Latch
      BY DEF NextDecoded, TypeOK
    <3>3. ID_latch' \in [Lanes -> Latch]
      BY <3>1, <3>2 DEF TypeOK
    <3>4. FE_latch' \in [Lanes -> Latch]
      BY <3>1 DEF TypeOK, Latch
    <3>5. next_inst_num' \in Nat
      BY <2>1 DEF Decode, TypeOK
    <3> QED  BY <3>3, <3>4, <3>5
  <2>2. CASE DecodeNothing
    BY <2>2 DEF DecodeNothing, TypeOK
  <2> QED  BY <2>1, <2>2 DEF DecodeStage
<1>3. UNCHANGED decodeFrame
  BY DEF DecodeStage, Decode, DecodeNothing
<1> QED
  BY <1>1, <1>2, <1>3
     DEF LoopOK, decodeFrame, schedVars, issueVars, haltVars, TypeOK

LEMMA FetchTypeInv == TypeInv /\ FetchStage => TypeInv'
<1> SUFFICES ASSUME TypeInv, FetchStage PROVE TypeInv'
  OBVIOUS
<1> USE PipelineAssumption DEF TypeInv
<1>1. LoopOK'
  BY AdvanceLane
     DEF FetchStage, FetchInst, FetchEnd, FetchOccupied, FetchDone, TypeOK, Stages
<1>2. last_inst_num \in Nat
  BY DEF last_inst_num, TypeOK
<1>3. /\ FE_latch' \in [Lanes -> Latch]
      /\ fetched' \in Seq(TraceRecords)
      /\ eof' \in BOOLEAN
      /\ halt_inst_num' \in Nat
      /\ halt' \in BOOLEAN
  <2>1. CASE FetchInst
    <3>1. PICK rec \in TraceRecords :
              /\ fetched' = Append(fetched, rec)
              /\ FE_latch' = [FE_latch EXCEPT
                                ![lane] = Full(NewInst(last_inst_num + 1, rec))]
      BY <2>1 DEF FetchInst
    <3>2. NewInst(last_inst_num + 1, rec) \in InstInfo
      BY <1>2, NewInstType
    <3>3. FE_latch' \in [Lanes -> Latch]
      BY <3>1, <3>2 DEF Full, TypeOK, Latch
    <3>4. fetched' \in Seq(TraceRecords)
      BY <3>1 DEF TypeOK
    <3> QED  BY <2>1, <3>3, <3>4 DEF FetchInst, TypeOK
  <2>2. CASE FetchEnd
    BY <1>2, <2>2 DEF FetchEnd, TypeOK
  <2>3. CASE FetchOccupied
    BY <2>3 DEF FetchOccupied, TypeOK
  <2> QED  BY <2>1, <2>2, <2>3 DEF FetchStage
<1>4. UNCHANGED fetchFrame
  BY DEF FetchStage, FetchInst, FetchEnd, FetchOccupied
<1> QED
  BY <1>1, <1>3, <1>4 DEF LoopOK, fetchFrame, schedVars, issueVars, TypeOK

-----------------------------------------------------------------------------
LEMMA StepTypeInv == TypeInv /\ [Next]_vars => TypeInv'
<1> SUFFICES ASSUME TypeInv, [Next]_vars PROVE TypeInv'
  OBVIOUS
<1>1. CASE UNCHANGED vars
  BY <1>1 DEF vars, TypeInv, TypeOK, LaneInRange
<1>2. CASE Step
  BY <1>2, CommitTypeInv, WritebackTypeInv, ExeTypeInv, ScheduleTypeInv,
     SortTypeInv, IssueTypeInv, DecodeTypeInv, FetchTypeInv
     DEF Step, IssueStage
<1> QED  BY <1>1, <1>2 DEF Next, Over

(***************************************************************************)
(* Type correctness, with every array index in range, for every pipeline   *)
(* width, buffer size, latency, policy and trace.                          *)
(***************************************************************************)
THEOREM TypeCorrect == Spec => []TypeInv
<1>1. Init => TypeInv
  BY InitTypeInv
<1>2. TypeInv /\ [Next]_vars => TypeInv'
  BY StepTypeInv
<1> QED  BY <1>1, <1>2, PTL DEF Spec

\* The same, for the property the runs check.
THEOREM TypeOKHolds == Spec => []TypeOK
<1>1. TypeInv => TypeOK
  BY DEF TypeInv
<1> QED  BY <1>1, TypeCorrect, PTL

=============================================================================
