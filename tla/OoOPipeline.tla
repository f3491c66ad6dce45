---------------------------- MODULE OoOPipeline -----------------------------
(***************************************************************************)
(* The out-of-order superscalar pipeline of Lab 3 (pipeline.cpp, sim.cpp). *)
(*                                                                         *)
(* One thread runs the stages of a cycle from commit back to fetch, and    *)
(* each stage loops over its lanes.  The pair (stage, lane) is that        *)
(* thread's place: every action is one iteration of one of those loops.    *)
(* The program is deterministic; the only input is the trace, which        *)
(* pipe_fetch_inst reads record by record.                                 *)
(***************************************************************************)
EXTENDS ROB, RAT, EXEQ, Sequences

CONSTANTS
    PIPE_WIDTH,         \* -pipewidth, 1..8
    SCHED_POLICY,       \* -schedpolicy
    MAX_WRITEBACKS,     \* pipeline.h: 256
    TraceRecords,       \* the records a trace may hold
    MaxInst,            \* bound: the number of records of a trace
    BadRecords,         \* may a trace hold a record with an invalid op_type?
    OobReg              \* the register whose RAT entry rob->entries[-1] overlays

ASSUME PipelineAssumption ==
    /\ PIPE_WIDTH \in Nat \ {0}
    /\ SCHED_POLICY \in {"SCHED_IN_ORDER", "SCHED_OUT_OF_ORDER"}
    /\ MAX_WRITEBACKS \in Nat \ {0}
    /\ PIPE_WIDTH <= MAX_WRITEBACKS /\ MAX_EXEQ_ENTRIES <= MAX_WRITEBACKS
    /\ TraceRecords \subseteq TraceRec
    /\ MaxInst \in Nat
    /\ BadRecords \in BOOLEAN
    /\ OobReg \in ArfRegs

Lanes == 0 .. PIPE_WIDTH - 1
ExLanes == 0 .. MAX_WRITEBACKS - 1
Latch == [valid : BOOLEAN, inst : InstInfo]

VARIABLES
    stage, lane,        \* the loop iteration that runs next
    pass,               \* the outer loop of issue's sort
    FE_latch, ID_latch, SC_latch, EX_latch,
    rob, rat, exeq,
    pipeIndex,          \* issue's order of lanes
    continueScheduling,
    next_inst_num,      \* the static counter of pipe_cycle_decode
    halt_inst_num, stat_retired_inst, halt,
    fetched,            \* the valid records read so far
    eof                 \* the trace has no record left

feVars    == <<FE_latch, fetched, eof>>
schedVars == <<SC_latch, continueScheduling>>
issueVars == <<pass, pipeIndex>>
haltVars  == <<halt_inst_num, stat_retired_inst, halt>>
vars == <<stage, lane, pass, FE_latch, ID_latch, SC_latch, EX_latch, rob, rat,
          exeq, pipeIndex, continueScheduling, next_inst_num, halt_inst_num,
          stat_retired_inst, halt, fetched, eof>>

\* last_inst_num counts the valid records.
last_inst_num == Len(fetched)

\* Stands for (uint64_t)(-1) - 3, which no instruction number reaches.
UnknownEnd == MaxInst + 1

EmptyLatch == [valid |-> FALSE, inst |-> ZeroInst]
Full(inst) == [valid |-> TRUE, inst |-> inst]
LaneOrder == [i \in Lanes |-> i]

Stages == { "commit", "writeback", "exe", "exeq_cycle", "exe_done", "schedule",
            "sort", "issue", "decode", "fetch", "halted", "crashed" }

Init ==
    /\ stage = "commit" /\ lane = 0 /\ pass = 0
    /\ FE_latch = [i \in Lanes |-> EmptyLatch]
    /\ ID_latch = [i \in Lanes |-> EmptyLatch]
    /\ SC_latch = [i \in Lanes |-> EmptyLatch]
    /\ EX_latch = [i \in ExLanes |-> EmptyLatch]
    /\ rob = rob_init
    /\ rat = rat_init
    /\ exeq = exeq_init
    /\ pipeIndex = LaneOrder
    /\ continueScheduling = TRUE
    /\ next_inst_num = 1
    /\ halt_inst_num = UnknownEnd
    /\ stat_retired_inst = 0
    /\ halt = FALSE
    /\ fetched = <<>>
    /\ eof = FALSE

-----------------------------------------------------------------------------
(* The loops. *)

Goto(s) == stage' = s /\ lane' = 0

\* The next of n iterations of this stage, or stage s after the last.
Advance(n, s) ==
    IF lane + 1 < n THEN stage' = stage /\ lane' = lane + 1 ELSE Goto(s)

-----------------------------------------------------------------------------
(* pipe_cycle_commit: up to PIPE_WIDTH instructions leave the head. *)

CommitDone == Advance(PIPE_WIDTH, "writeback")

\* Slip: the alias is dropped though a younger writer may hold it.
RatAfterCommit_Always(inst) ==
    IF inst.dest_reg # NoReg THEN rat_reset_entry(rat, inst.dest_reg) ELSE rat

\* The comparison does not look at the alias's valid bit.
RatAfterCommit(inst) ==
    IF inst.dest_reg # NoReg /\ rat[inst.dest_reg].prf_id = inst.dr_tag
    THEN rat_reset_entry(rat, inst.dest_reg)
    ELSE rat

CommitInst ==
    /\ stage = "commit"
    /\ rob_check_head(rob)
    /\ LET toCommit == HeadInst(rob) IN
        /\ rob' = rob_remove_head(rob)
        /\ stat_retired_inst' = stat_retired_inst + 1
        /\ halt' = (halt \/ toCommit.inst_num >= halt_inst_num)
        /\ rat' = RatAfterCommit(toCommit)
    /\ CommitDone
    /\ UNCHANGED <<ID_latch, EX_latch, exeq, next_inst_num, halt_inst_num,
                   feVars, schedVars, issueVars>>

CommitNothing ==
    /\ stage = "commit"
    /\ ~rob_check_head(rob)
    /\ CommitDone
    /\ UNCHANGED <<ID_latch, EX_latch, rob, rat, exeq, next_inst_num,
                   feVars, schedVars, issueVars, haltVars>>

-----------------------------------------------------------------------------
(***************************************************************************)
(* pipe_cycle_writeback runs over all MAX_WRITEBACKS latches and calls     *)
(* rob_mark_ready for every one of them, valid or not.  A latch that was   *)
(* never used holds number 0, so once every reorder-buffer entry has been  *)
(* used find_rob_inst answers -1 and the code writes 1 to                  *)
(* entries[-1].ready.  In the build (glibc, x86-64: the ROB is allocated   *)
(* right after the RAT) that byte is the third byte of the prf_id of       *)
(* register OobReg, which is 29.                                           *)
(***************************************************************************)
OobByte == 65536
SmashByte(prf_id) == OobByte + (prf_id % OobByte)

Woken == IF EX_latch[lane].valid /\ EX_latch[lane].inst.dest_reg # NoReg
         THEN rob_wakeup(rob, EX_latch[lane].inst.dr_tag)
         ELSE rob

WritebackLane ==
    /\ stage = "writeback"
    /\ IF find_rob_inst(rob, EX_latch[lane].inst.inst_num) # -1
       THEN /\ rob' = rob_mark_ready(Woken, EX_latch[lane].inst)
            /\ UNCHANGED rat
       ELSE /\ rob' = Woken
            /\ rat' = [rat EXCEPT ![OobReg].prf_id = SmashByte(@)]
    /\ EX_latch' = [EX_latch EXCEPT ![lane].valid = FALSE]
    /\ Advance(MAX_WRITEBACKS, "exe")
    /\ UNCHANGED <<ID_latch, exeq, next_inst_num,
                   feVars, schedVars, issueVars, haltVars>>

-----------------------------------------------------------------------------
(* pipe_cycle_exe *)

exeFrame == <<ID_latch, rob, rat, next_inst_num, continueScheduling,
              halt_inst_num, stat_retired_inst, feVars, issueVars>>

ExeDone == Advance(PIPE_WIDTH, IF LOAD_EXE_CYCLES = 1 THEN "schedule"
                                                      ELSE "exeq_cycle")
ExeEmpty ==
    /\ stage = "exe"
    /\ ~SC_latch[lane].valid
    /\ ExeDone
    /\ UNCHANGED <<SC_latch, EX_latch, exeq, halt, exeFrame>>

\* Every operation takes one cycle: the lane is copied across.
ExeCopy ==
    /\ stage = "exe"
    /\ LOAD_EXE_CYCLES = 1
    /\ SC_latch[lane].valid
    /\ EX_latch' = [EX_latch EXCEPT ![lane] = SC_latch[lane]]
    /\ SC_latch' = [SC_latch EXCEPT ![lane].valid = FALSE]
    /\ ExeDone
    /\ UNCHANGED <<exeq, halt, exeFrame>>

ExeInsert ==
    /\ stage = "exe"
    /\ LOAD_EXE_CYCLES # 1
    /\ SC_latch[lane].valid
    /\ ~exeq_full(exeq)
    /\ exeq' = exeq_insert(exeq, SC_latch[lane].inst)
    /\ SC_latch' = [SC_latch EXCEPT ![lane].valid = FALSE]
    /\ ExeDone
    /\ UNCHANGED <<EX_latch, halt, exeFrame>>

\* "EXEQ full": the stage returns early and the simulation will stop.
ExeFull ==
    /\ stage = "exe"
    /\ LOAD_EXE_CYCLES # 1
    /\ SC_latch[lane].valid
    /\ exeq_full(exeq)
    /\ halt' = TRUE
    /\ Goto("schedule")
    /\ UNCHANGED <<SC_latch, EX_latch, exeq, exeFrame>>

ExeqCycle ==
    /\ stage = "exeq_cycle"
    /\ exeq' = exeq_cycle(exeq)
    /\ Goto("exe_done")
    /\ UNCHANGED <<SC_latch, EX_latch, halt, exeFrame>>

\* Slip: one transfer in a cycle.
TransferNext_Once == Goto("schedule")

TransferNext == Advance(MAX_WRITEBACKS, "schedule")

\* The finished instructions fill the EX latches from the first.
ExeTransfer ==
    /\ stage = "exe_done"
    /\ exeq_check_done(exeq)
    /\ EX_latch' = [EX_latch EXCEPT ![lane] = Full(DoneInst(exeq))]
    /\ exeq' = exeq_remove(exeq)
    /\ TransferNext
    /\ UNCHANGED <<SC_latch, halt, exeFrame>>

ExeNoneLeft ==
    /\ stage = "exe_done"
    /\ ~exeq_check_done(exeq)
    /\ Goto("schedule")
    /\ UNCHANGED <<SC_latch, EX_latch, exeq, halt, exeFrame>>

-----------------------------------------------------------------------------
(* pipe_cycle_schedule *)

schedFrame == <<ID_latch, EX_latch, rat, exeq, next_inst_num,
                feVars, issueVars, haltVars>>

Waiting == {i \in RobIds : rob.entries[i].valid /\ ~rob.entries[i].exec}
ReadyToExec == {i \in Waiting : rob_check_inputs_ready(rob, i)}
Oldest(S) == {i \in S : \A j \in S : Age(rob, i) <= Age(rob, j)}

\* Slip: the policy makes no difference.
Schedulable_AnyPolicy == Oldest(ReadyToExec)

\* The search from head_ptr: in order it ends at the first instruction that
\* is not executing, out of order at the first one that is ready.
Schedulable == IF SCHED_POLICY = "SCHED_IN_ORDER"
               THEN Oldest(Waiting) \cap ReadyToExec
               ELSE Oldest(ReadyToExec)

\* The sort of the next stage starts from pipeIndex[i] = i.
ScheduleEnds == Goto("sort") /\ continueScheduling' = TRUE
ScheduleNext(continue) ==
    IF lane + 1 < PIPE_WIDTH
    THEN /\ stage' = stage /\ lane' = lane + 1
         /\ continueScheduling' = continue
    ELSE ScheduleEnds

ScheduleInst ==
    /\ stage = "schedule"
    /\ ~SC_latch[lane].valid
    /\ continueScheduling
    /\ \E i \in Schedulable :
        /\ rob' = rob_mark_exec(rob, rob.entries[i].inst)
        /\ SC_latch' = [SC_latch EXCEPT ![lane] = Full(rob.entries[i].inst)]
    /\ ScheduleNext(TRUE)
    /\ UNCHANGED schedFrame

ScheduleNothing ==
    /\ stage = "schedule"
    /\ ~SC_latch[lane].valid
    /\ continueScheduling
    /\ Schedulable = {}
    /\ ScheduleNext(SCHED_POLICY # "SCHED_IN_ORDER")
    /\ UNCHANGED <<rob, SC_latch, schedFrame>>

\* A lane that is still occupied is passed over.
ScheduleOccupied ==
    /\ stage = "schedule"
    /\ SC_latch[lane].valid
    /\ ScheduleNext(continueScheduling)
    /\ UNCHANGED <<rob, SC_latch, schedFrame>>

ScheduleReturn ==
    /\ stage = "schedule"
    /\ ~SC_latch[lane].valid
    /\ ~continueScheduling
    /\ ScheduleEnds
    /\ UNCHANGED <<rob, SC_latch, schedFrame>>

-----------------------------------------------------------------------------
(***************************************************************************)
(* pipe_cycle_issue first sorts the lanes.  Comparison j looks at the      *)
(* latches j and j+1 themselves, not at the ones pipeIndex[j] and          *)
(* pipeIndex[j+1] have come to name, and at invalid latches too.           *)
(***************************************************************************)
sortFrame == <<ID_latch, EX_latch, rob, rat, exeq, next_inst_num,
               feVars, schedVars, haltVars>>

\* Slip: the lanes are taken as they come.
Swap_Never == FALSE

Swap == ID_latch[lane + 1].inst.inst_num < ID_latch[lane].inst.inst_num

IssueCompare ==
    /\ stage = "sort"
    /\ lane < PIPE_WIDTH - pass - 1
    /\ pipeIndex' =
        IF Swap
        THEN [ pipeIndex EXCEPT ![lane] = pipeIndex[lane + 1],
                                ![lane + 1] = pipeIndex[lane] ]
        ELSE pipeIndex
    /\ lane' = lane + 1
    /\ UNCHANGED <<stage, pass, sortFrame>>

IssueNextPass ==
    /\ stage = "sort"
    /\ lane >= PIPE_WIDTH - pass - 1
    /\ lane' = 0
    /\ IF pass + 1 < PIPE_WIDTH
       THEN pass' = pass + 1 /\ stage' = stage
       ELSE pass' = 0 /\ stage' = "issue"
    /\ UNCHANGED <<pipeIndex, sortFrame>>

-----------------------------------------------------------------------------
(* The rest of pipe_cycle_issue: rename and insert in the reorder buffer. *)

issueFrame == <<pass, EX_latch, exeq, next_inst_num,
                feVars, schedVars, haltVars>>

IssueLane == pipeIndex[lane]
IssueInst == ID_latch[IssueLane].inst
CanIssue == ID_latch[IssueLane].valid /\ rob_check_space(rob)

\* pipeIndex is a local of the stage: it dies with the last iteration.
IssueDone ==
    /\ Advance(PIPE_WIDTH, "decode")
    /\ pipeIndex' = IF lane + 1 < PIPE_WIDTH THEN pipeIndex ELSE LaneOrder

\* Operand k is renamed when its register has an alias.
Renamed(inst, k) == inst.src_reg[k] # NoReg /\ rat[inst.src_reg[k]].valid
OperandTag(inst, k) == IF Renamed(inst, k)
                       THEN rat_get_remap(rat, inst.src_reg[k])
                       ELSE inst.src_tag[k]

\* Slip: a producer that has already broadcast is waited for.
OperandReady_Unrenamed(inst, k) == ~Renamed(inst, k)

OperandReady(inst, k) == Renamed(inst, k) =>
                             rob_check_ready(rob, OperandTag(inst, k))

Rename(inst) ==
    [ inst EXCEPT
        !.src_tag   = [k \in Src |-> OperandTag(inst, k)],
        !.src_ready = [k \in Src |-> OperandReady(inst, k)],
        !.dr_tag    = IF inst.dest_reg # NoReg THEN rob.tail_ptr ELSE @ ]

\* A tag spoilt by SmashByte indexes past the ROB's allocation.
WildTag(inst) ==
    \E k \in Src : Renamed(inst, k) /\ OperandTag(inst, k) \notin RobIds

Issue ==
    /\ stage = "issue"
    /\ CanIssue
    /\ ~WildTag(IssueInst)
    /\ LET inst == Rename(IssueInst) IN
        /\ rob' = rob_insert(rob, inst)
        /\ rat' = IF inst.dest_reg # NoReg
                  THEN rat_set_remap(rat, inst.dest_reg, inst.dr_tag)
                  ELSE rat
    /\ ID_latch' = [ID_latch EXCEPT ![IssueLane].valid = FALSE]
    /\ IssueDone
    /\ UNCHANGED issueFrame

IssueNothing ==
    /\ stage = "issue"
    /\ ~CanIssue
    /\ IssueDone
    /\ UNCHANGED <<ID_latch, rob, rat, issueFrame>>

\* rob_check_ready of a wild tag faults; the process is gone.
IssueCrash ==
    /\ stage = "issue"
    /\ CanIssue
    /\ WildTag(IssueInst)
    /\ stage' = "crashed"
    /\ UNCHANGED <<lane, ID_latch, rob, rat, pipeIndex, issueFrame>>

-----------------------------------------------------------------------------
(* pipe_cycle_decode: an empty ID lane takes the next instruction in order. *)

decodeFrame == <<EX_latch, rob, rat, exeq, fetched, eof,
                 schedVars, issueVars, haltVars>>

NextDecoded == {j \in Lanes : /\ FE_latch[j].valid
                              /\ FE_latch[j].inst.inst_num = next_inst_num}
DecodeDone == Advance(PIPE_WIDTH, "fetch")

Decode ==
    /\ stage = "decode"
    /\ ~ID_latch[lane].valid
    /\ \E j \in NextDecoded :
        /\ ID_latch' = [ID_latch EXCEPT ![lane] = FE_latch[j]]
        /\ FE_latch' = [FE_latch EXCEPT ![j].valid = FALSE]
    /\ next_inst_num' = next_inst_num + 1
    /\ DecodeDone
    /\ UNCHANGED decodeFrame

DecodeNothing ==
    /\ stage = "decode"
    /\ ID_latch[lane].valid \/ NextDecoded = {}
    /\ DecodeDone
    /\ UNCHANGED <<ID_latch, FE_latch, next_inst_num, decodeFrame>>

-----------------------------------------------------------------------------
(* pipe_cycle_fetch, pipe_fetch_inst, and the loop of main around a cycle. *)

fetchFrame == <<ID_latch, EX_latch, rob, rat, exeq, next_inst_num,
                stat_retired_inst, schedVars, issueVars>>

\* main looks at halt only between two cycles.
FetchDone == Advance(PIPE_WIDTH, IF halt' THEN "halted" ELSE "commit")

FetchInst ==
    /\ stage = "fetch"
    /\ ~FE_latch[lane].valid
    /\ ~eof /\ last_inst_num < MaxInst
    /\ \E rec \in TraceRecords :
        /\ fetched' = Append(fetched, rec)
        /\ FE_latch' = [FE_latch EXCEPT
                            ![lane] = Full(NewInst(last_inst_num + 1, rec))]
    /\ UNCHANGED <<eof, halt_inst_num, halt>>
    /\ FetchDone
    /\ UNCHANGED fetchFrame

\* Slip: only pipe_commit_inst tests for the end.
AllRetired_Never == FALSE

AllRetired == stat_retired_inst >= last_inst_num

\* No record: the trace is at its end, or this record is not a valid one.
FetchEnd ==
    /\ stage = "fetch"
    /\ ~FE_latch[lane].valid
    /\ eof' \in (IF eof \/ ~BadRecords THEN {TRUE} ELSE BOOLEAN)
    /\ halt_inst_num' = last_inst_num
    /\ halt' = (halt \/ AllRetired)
    /\ UNCHANGED <<fetched, FE_latch>>
    /\ FetchDone
    /\ UNCHANGED fetchFrame

FetchOccupied ==
    /\ stage = "fetch"
    /\ FE_latch[lane].valid
    /\ UNCHANGED <<eof, halt_inst_num, halt, fetched, FE_latch>>
    /\ FetchDone
    /\ UNCHANGED fetchFrame

-----------------------------------------------------------------------------
Commit    == CommitInst \/ CommitNothing
Writeback == WritebackLane
Exe       == \/ ExeEmpty \/ ExeCopy \/ ExeInsert \/ ExeFull
             \/ ExeqCycle \/ ExeTransfer \/ ExeNoneLeft
Schedule  == ScheduleInst \/ ScheduleNothing \/ ScheduleOccupied \/ ScheduleReturn
IssueStage == IssueCompare \/ IssueNextPass \/ Issue \/ IssueNothing \/ IssueCrash
DecodeStage == Decode \/ DecodeNothing
FetchStage  == FetchInst \/ FetchEnd \/ FetchOccupied

Step == \/ Commit \/ Writeback \/ Exe \/ Schedule
        \/ IssueStage \/ DecodeStage \/ FetchStage

\* The simulation is over; main prints its statistics.
Over == stage \in {"halted", "crashed"} /\ UNCHANGED vars

Next == Step \/ Over

\* The one thread keeps running: no stage waits for anything.
Spec == Init /\ [][Next]_vars /\ WF_vars(Step)

=============================================================================
