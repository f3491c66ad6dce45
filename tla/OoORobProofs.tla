---------------------------- MODULE OoORobProofs ----------------------------
(***************************************************************************)
(* Lab 3's out-of-order pipeline, for every width, size, latency, policy   *)
(* and trace: the reorder buffer's window, then in this order and each     *)
(* from the ones before it, the room in the EX latches, where every        *)
(* instruction is, what is being executed, renaming, the wakeups that      *)
(* operands wait for, (with one lane or two) program order and that the    *)
(* pipeline implements Dataflow, and last how soon an instruction retires. *)
(*                                                                         *)
(* The window comes first since rob_check_space and rob_check_head look at *)
(* the pointers and one valid bit only: equal pointers mean empty or full, *)
(* and the proof turns on that bit telling which.                          *)
(***************************************************************************)
EXTENDS OoOTypeProofs, OoOMain, FiniteSetTheorems

USE DEF RobIds

\* RobWindow for an arbitrary buffer r, with its occupancy.
Used(r) == IF rob_check_space(r)
           THEN (r.tail_ptr - r.head_ptr) % NUM_ROB_ENTRIES
           ELSE NUM_ROB_ENTRIES
Window(r) == \A i \in RobIds : r.entries[i].valid <=> Age(r, i) < Used(r)

LEMMA WindowIsRobWindow == RobWindow <=> Window(rob)
BY DEF RobWindow, Window, Entry, Occupancy, Used

-----------------------------------------------------------------------------
(* Arithmetic on the circle of NUM_ROB_ENTRIES places.                     *)

LEMMA CircleDistance ==
    ASSUME NEW a \in RobIds, NEW b \in RobIds
    PROVE  (b - a) % NUM_ROB_ENTRIES =
              IF b >= a THEN b - a ELSE b - a + NUM_ROB_ENTRIES
BY RobAssumption

LEMMA CircleNext ==
    ASSUME NEW a \in RobIds
    PROVE  NextId(a) = IF a + 1 = NUM_ROB_ENTRIES THEN 0 ELSE a + 1
BY RobAssumption DEF NextId

-----------------------------------------------------------------------------
(* Nothing but the valid bits and the pointers matters.                    *)
LEMMA WindowFrame ==
    ASSUME NEW r, NEW q, Window(r),
           q.head_ptr = r.head_ptr, q.tail_ptr = r.tail_ptr, r.tail_ptr \in RobIds,
           \A i \in RobIds : q.entries[i].valid = r.entries[i].valid
    PROVE  Window(q)
BY DEF Window, Used, rob_check_space, Age

LEMMA MarkExecKeepsWindow ==
    ASSUME NEW r \in ROBType, Window(r), NEW i
    PROVE  Window(SetExec(r, i))
<1>1. \A j \in RobIds : SetExec(r, i).entries[j].valid = r.entries[j].valid
  BY DEF SetExec, ROBType, ROBEntry
<1>2. /\ SetExec(r, i).head_ptr = r.head_ptr
      /\ SetExec(r, i).tail_ptr = r.tail_ptr
      /\ r.tail_ptr \in RobIds
  BY DEF SetExec, ROBType
<1> QED  BY <1>1, <1>2, WindowFrame

LEMMA MarkReadyKeepsWindow ==
    ASSUME NEW r \in ROBType, Window(r), NEW i
    PROVE  Window(SetReady(r, i))
<1>1. \A j \in RobIds : SetReady(r, i).entries[j].valid = r.entries[j].valid
  BY DEF SetReady, ROBType, ROBEntry
<1>2. /\ SetReady(r, i).head_ptr = r.head_ptr
      /\ SetReady(r, i).tail_ptr = r.tail_ptr
      /\ r.tail_ptr \in RobIds
  BY DEF SetReady, ROBType
<1> QED  BY <1>1, <1>2, WindowFrame

LEMMA WakeupKeepsWindow ==
    ASSUME NEW r \in ROBType, Window(r), NEW tag
    PROVE  Window(rob_wakeup(r, tag))
<1>1. \A j \in RobIds : rob_wakeup(r, tag).entries[j].valid = r.entries[j].valid
  BY DEF rob_wakeup, WakeOperands, ROBType, ROBEntry
<1>2. /\ rob_wakeup(r, tag).head_ptr = r.head_ptr
      /\ rob_wakeup(r, tag).tail_ptr = r.tail_ptr
      /\ r.tail_ptr \in RobIds
  BY DEF rob_wakeup, WakeOperands, ROBType
<1> QED  BY <1>1, <1>2, WindowFrame

-----------------------------------------------------------------------------
LEMMA InitWindow == Window(rob_init)
<1>1. rob_check_space(rob_init)
  BY RobAssumption DEF rob_init, rob_check_space
<1>2. Used(rob_init) = 0
  BY <1>1, RobAssumption, CircleDistance DEF Used, rob_init
<1>3. \A i \in RobIds : Age(rob_init, i) = i
  BY RobAssumption, CircleDistance DEF Age, rob_init
<1>4. \A i \in RobIds : ~rob_init.entries[i].valid /\ ~(i < 0)
  BY RobAssumption DEF rob_init
<1> QED  BY <1>2, <1>3, <1>4 DEF Window

(***************************************************************************)
(* Inserting: the new entry has the age that was the occupancy.  If the    *)
(* tail now meets the head, the head entry is valid, so the buffer counts  *)
(* as full.                                                                *)
(***************************************************************************)
LEMMA InsertKeepsWindow ==
    ASSUME NEW r \in ROBType, Window(r), rob_check_space(r), NEW inst
    PROVE  Window(rob_insert(r, inst)) /\ Used(rob_insert(r, inst)) = Used(r) + 1
<1> DEFINE q == rob_insert(r, inst)
           n == NUM_ROB_ENTRIES
           h == r.head_ptr
           t == r.tail_ptr
<1>1. h \in RobIds /\ t \in RobIds /\ n \in Nat \ {0}
  BY RobAssumption DEF ROBType
<1>2. /\ q.head_ptr = h
      /\ q.tail_ptr = NextId(t)
      /\ q.entries[t].valid = TRUE
      /\ \A i \in RobIds \ {t} : q.entries[i].valid = r.entries[i].valid
  BY <1>1 DEF rob_insert, ROBType, ROBEntry
<1>3. \A i \in RobIds : Age(q, i) = Age(r, i)
  BY <1>2 DEF Age
<1>4. Used(r) = IF t >= h THEN t - h ELSE t - h + n
  BY <1>1, CircleDistance DEF Used
<1>5. Used(r) \in Nat /\ Used(r) < n
  BY <1>1, <1>4
<1>6. \A i \in RobIds : Age(r, i) = IF i >= h THEN i - h ELSE i - h + n
  BY <1>1, CircleDistance DEF Age
<1>7. Used(q) = Used(r) + 1
  <2>1. NextId(t) \in RobIds /\ NextId(t) = IF t + 1 = n THEN 0 ELSE t + 1
    BY <1>1, NextIdType, CircleNext
  <2>2. CASE NextId(t) = h
    <3>1. Used(r) = n - 1
      BY <1>1, <1>4, <2>1, <2>2
    <3>2. q.entries[h].valid
      <4>1. CASE h = t
        BY <1>2, <4>1
      <4>2. CASE h # t
        <5>1. Age(r, h) < Used(r)
          BY <1>1, <1>4, <1>6, <4>2
        <5> QED  BY <1>1, <1>2, <4>2, <5>1 DEF Window
      <4> QED  BY <4>1, <4>2
    <3>3. ~rob_check_space(q)
      BY <1>2, <2>2, <3>2 DEF rob_check_space
    <3> QED  BY <1>1, <3>1, <3>3 DEF Used
  <2>3. CASE NextId(t) # h
    <3>1. Used(q) = (NextId(t) - h) % n
      BY <1>2, <2>3 DEF Used, rob_check_space
    <3>2. Used(q) = IF NextId(t) >= h THEN NextId(t) - h ELSE NextId(t) - h + n
      BY <1>1, <2>1, <3>1, CircleDistance
    <3> QED  BY <1>1, <1>4, <2>1, <2>3, <3>2
  <2> QED  BY <2>2, <2>3
<1>8. \A i \in RobIds : Age(r, i) = Used(r) <=> i = t
  BY <1>1, <1>4, <1>6
<1>9. ASSUME NEW i \in RobIds
      PROVE  q.entries[i].valid <=> Age(q, i) < Used(q)
  <2>1. Age(r, i) \in Nat
    BY <1>1, <1>6
  <2>2. CASE i = t
    BY <1>2, <1>3, <1>5, <1>7, <1>8, <2>1, <2>2
  <2>3. CASE i # t
    <3>1. q.entries[i].valid <=> Age(r, i) < Used(r)
      BY <1>2, <2>3 DEF Window
    <3>2. Age(r, i) # Used(r)
      BY <1>8, <2>3
    <3> QED  BY <1>3, <1>5, <1>7, <2>1, <3>1, <3>2
  <2> QED  BY <2>2, <2>3
<1> QED  BY <1>7, <1>9 DEF Window

(***************************************************************************)
(* Removing: every age and the occupancy go down by one.  If the head now  *)
(* meets the tail, the entry there is not valid, so the buffer counts as   *)
(* empty.                                                                  *)
(***************************************************************************)
LEMMA RemoveKeepsWindow ==
    ASSUME NEW r \in ROBType, Window(r), rob_check_head(r)
    PROVE  Window(rob_remove_head(r)) /\ Used(rob_remove_head(r)) = Used(r) - 1
<1> DEFINE q == rob_remove_head(r)
           n == NUM_ROB_ENTRIES
           h == r.head_ptr
           t == r.tail_ptr
           g == NextId(h)
<1>1. h \in RobIds /\ t \in RobIds /\ n \in Nat \ {0}
  BY RobAssumption DEF ROBType
<1>2. /\ q.head_ptr = g
      /\ q.tail_ptr = t
      /\ q.entries[h].valid = FALSE
      /\ \A i \in RobIds \ {h} : q.entries[i].valid = r.entries[i].valid
  BY <1>1 DEF rob_remove_head, ROBType, ROBEntry
<1>3. g \in RobIds /\ g = IF h + 1 = n THEN 0 ELSE h + 1
  BY <1>1, NextIdType, CircleNext
<1>4. \A i \in RobIds : Age(r, i) = IF i >= h THEN i - h ELSE i - h + n
  BY <1>1, CircleDistance DEF Age
<1>5. \A i \in RobIds : Age(q, i) = IF i >= g THEN i - g ELSE i - g + n
  BY <1>2, <1>3, CircleDistance DEF Age
<1>6. r.entries[h].valid
  BY DEF rob_check_head, rob_check_ready
<1>7. Used(r) \in Nat /\ Used(r) > 0
  <2>1. Used(r) \in Nat
    BY <1>1, CircleDistance DEF Used
  <2>2. Age(r, h) = 0
    BY <1>1, <1>4
  <2> QED  BY <1>1, <1>6, <2>1, <2>2 DEF Window
<1>8. Used(q) = Used(r) - 1
  <2>1. CASE h = t
    <3>1. Used(r) = n
      BY <1>6, <2>1 DEF Used, rob_check_space
    <3>2. rob_check_space(q)
      BY <1>2, <2>1 DEF rob_check_space
    <3>3. Used(q) = (t - g) % n
      BY <1>2, <3>2 DEF Used
    <3> QED  BY <1>1, <1>3, <2>1, <3>1, <3>3, CircleDistance
  <2>2. CASE h # t
    <3>1. Used(r) = IF t >= h THEN t - h ELSE t - h + n
      BY <1>1, <2>2, CircleDistance DEF Used, rob_check_space
    <3>2. rob_check_space(q)
      <4>1. CASE g # t
        BY <1>2, <4>1 DEF rob_check_space
      <4>2. CASE g = t
        <5>1. Used(r) = 1 /\ Age(r, t) = 1
          BY <1>1, <1>3, <1>4, <2>2, <3>1, <4>2
        <5>2. ~r.entries[t].valid
          BY <1>1, <5>1 DEF Window
        <5> QED  BY <1>1, <1>2, <2>2, <5>2 DEF rob_check_space
      <4> QED  BY <4>1, <4>2
    <3>3. Used(q) = (t - g) % n
      BY <1>2, <3>2 DEF Used
    <3>4. Used(q) = IF t >= g THEN t - g ELSE t - g + n
      BY <1>1, <1>3, <3>3, CircleDistance
    <3> QED  BY <1>1, <1>3, <2>2, <3>1, <3>4
  <2> QED  BY <2>1, <2>2
<1>9. ASSUME NEW i \in RobIds
      PROVE  q.entries[i].valid <=> Age(q, i) < Used(q)
  <2>1. CASE i = h
    <3>1. Age(q, i) = n - 1 /\ Used(r) <= n
      BY <1>1, <1>3, <1>5, <2>1, CircleDistance DEF Used
    <3> QED  BY <1>1, <1>2, <1>7, <1>8, <2>1, <3>1
  <2>2. CASE i # h
    <3>1. Age(q, i) = Age(r, i) - 1 /\ Age(r, i) \in Nat
      BY <1>1, <1>3, <1>4, <1>5, <2>2
    <3> QED  BY <1>2, <1>7, <1>8, <2>2, <3>1 DEF Window
  <2> QED  BY <2>1, <2>2
<1> QED  BY <1>8, <1>9 DEF Window

-----------------------------------------------------------------------------
LEMMA StepWindow == TypeInv /\ Window(rob) /\ [Next]_vars => Window(rob')
<1> SUFFICES ASSUME TypeInv, Window(rob), [Next]_vars PROVE Window(rob')
  OBVIOUS
<1> rob \in ROBType
  BY DEF TypeInv, TypeOK
<1>1. CASE CommitInst
  BY <1>1, RemoveKeepsWindow DEF CommitInst
<1>2. CASE WritebackLane
  <2>1. Woken \in ROBType /\ Window(Woken)
    BY WakeupType, WakeupKeepsWindow DEF Woken
  <2> QED  BY <1>2, <2>1, MarkReadyKeepsWindow DEF WritebackLane, rob_mark_ready
<1>3. CASE ScheduleInst
  BY <1>3, MarkExecKeepsWindow DEF ScheduleInst, rob_mark_exec
<1>4. CASE Issue
  BY <1>4, InsertKeepsWindow DEF Issue, CanIssue
<1>5. CASE UNCHANGED rob
  BY <1>5 DEF Window, Used, rob_check_space, Age
<1>6. CASE UNCHANGED vars
  BY <1>5, <1>6 DEF vars
<1>7. CASE CommitNothing \/ Exe
  BY <1>5, <1>7 DEF CommitNothing, Exe, ExeEmpty, ExeCopy, ExeInsert, ExeFull,
                    ExeqCycle, ExeTransfer, ExeNoneLeft, exeFrame
<1>8. CASE ScheduleNothing \/ ScheduleOccupied \/ ScheduleReturn
  BY <1>5, <1>8 DEF ScheduleNothing, ScheduleOccupied, ScheduleReturn
<1>9. CASE IssueCompare \/ IssueNextPass \/ IssueNothing \/ IssueCrash
  BY <1>5, <1>9 DEF IssueCompare, IssueNextPass, IssueNothing, IssueCrash, sortFrame
<1>10. CASE DecodeStage \/ FetchStage
  BY <1>5, <1>10 DEF DecodeStage, Decode, DecodeNothing, decodeFrame,
                     FetchStage, FetchInst, FetchEnd, FetchOccupied, fetchFrame
<1> QED
  BY <1>1, <1>2, <1>3, <1>4, <1>6, <1>7, <1>8, <1>9, <1>10
     DEF Next, Step, Over, Commit, Writeback, Schedule, IssueStage

(***************************************************************************)
(* The buffer is never holed and never overfull: the valid entries are the *)
(* window from head_ptr to tail_ptr, whatever its size, the width of the   *)
(* pipeline and the trace.                                                 *)
(***************************************************************************)
THEOREM RobWindowHolds == Spec => []RobWindow
<1>1. Init => Window(rob)
  BY InitWindow DEF Init
<1>2. TypeInv /\ Window(rob) /\ [Next]_vars => Window(rob)'
  <2>1. Window(rob)' <=> Window(rob')
    BY DEF Window, Used, rob_check_space, Age
  <2> QED  BY <2>1, StepWindow
<1>3. Window(rob) => RobWindow
  BY WindowIsRobWindow
<1> QED  BY <1>1, <1>2, <1>3, TypeCorrect, PTL DEF Spec

-----------------------------------------------------------------------------
(***************************************************************************)
(* The instructions in a latch, a queue or a buffer: an array of places    *)
(* that are valid or not and hold an instruction.                          *)
(***************************************************************************)
NumAt(latch, l) == latch[l].inst.inst_num
NumsIn(latch) == {NumAt(latch, l) : l \in {l \in DOMAIN latch : latch[l].valid}}
Single(latch) == \A a, b \in DOMAIN latch :
    latch[a].valid /\ latch[b].valid /\ NumAt(latch, a) = NumAt(latch, b) => a = b

InFlight == NumsIn(FE_latch) \cup NumsIn(ID_latch) \cup NumsIn(rob.entries)

(***************************************************************************)
(* An instruction in flight is in one place, and the retired ones are as   *)
(* many as the others.  No entry that is not valid holds the number of an  *)
(* instruction in flight, for find_rob_inst does not look at valid.        *)
(***************************************************************************)
FlightInv ==
    /\ Single(FE_latch) /\ Single(ID_latch) /\ Single(rob.entries)
    /\ NumsIn(FE_latch) \cap NumsIn(ID_latch) = {}
    /\ NumsIn(FE_latch) \cap NumsIn(rob.entries) = {}
    /\ NumsIn(ID_latch) \cap NumsIn(rob.entries) = {}
    /\ InFlight \subseteq 1 .. last_inst_num
    /\ stat_retired_inst + Cardinality(InFlight) = last_inst_num
    /\ \A i \in RobIds : /\ Num(i) <= last_inst_num
                         /\ ~ Entry(i).valid => Num(i) \notin InFlight

(***************************************************************************)
(* An instruction between schedule and writeback is in one place.  The     *)
(* number that an EX latch keeps once it is not valid, for which writeback *)
(* calls rob_mark_ready again, is that of an instruction already marked or *)
(* gone, or 0.                                                             *)
(***************************************************************************)
ExecInv ==
    /\ Single(SC_latch) /\ Single(exeq) /\ Single(EX_latch)
    /\ NumsIn(SC_latch) \cap NumsIn(exeq) = {}
    /\ NumsIn(SC_latch) \cap NumsIn(EX_latch) = {}
    /\ NumsIn(exeq) \cap NumsIn(EX_latch) = {}
    /\ NumsIn(SC_latch) \cup NumsIn(exeq) \cup NumsIn(EX_latch) = ExecutingNums
    /\ \A i \in ValidIds : Entry(i).ready => Entry(i).exec
    /\ \A l \in ExLanes :
          /\ NumAt(EX_latch, l) <= last_inst_num
          /\ NumAt(EX_latch, l) \notin NumsIn(FE_latch) \cup NumsIn(ID_latch)
          /\ ~ EX_latch[l].valid =>
                \A i \in ValidIds : Num(i) = NumAt(EX_latch, l) => Entry(i).ready

\* Writeback empties the EX latches before execute fills them from the first.
EmptyFrom ==
    {l \in ExLanes : \/ stage = "writeback" /\ l < lane
                     \/ stage = "exe" /\ (LOAD_EXE_CYCLES = 1 => l >= lane)
                     \/ stage = "exeq_cycle"
                     \/ stage = "exe_done" /\ l >= lane}

ExEmptyInv == \A l \in EmptyFrom : ~ EX_latch[l].valid

(***************************************************************************)
(* The count of a slot is positive until exeq_cycle, and what exeq_cycle   *)
(* takes to zero fits in the EX latches that are left.                     *)
(***************************************************************************)
ExeqInv ==
    /\ ExeqDrainsInTime
    /\ stage = "exe_done" => Cardinality(DoneSlots(exeq)) <= MAX_WRITEBACKS - lane

-----------------------------------------------------------------------------
(* The execution queue. *)

LEMMA DoneSlotsFinite ==
    ASSUME NEW q
    PROVE  /\ IsFiniteSet(DoneSlots(q)) /\ Cardinality(DoneSlots(q)) \in Nat
           /\ Cardinality(DoneSlots(q)) <= MAX_EXEQ_ENTRIES
           /\ Cardinality(DoneSlots(q)) = 0 <=> DoneSlots(q) = {}
<1>1. IsFiniteSet(ExeqSlots) /\ Cardinality(ExeqSlots) = MAX_EXEQ_ENTRIES
  BY FS_Interval, ExeqAssumption DEF ExeqSlots
<1>2. DoneSlots(q) \subseteq ExeqSlots
  BY DEF DoneSlots
<1> QED  BY <1>1, <1>2, FS_Subset, FS_CardinalityType, FS_EmptySet

\* An instruction goes into a slot that is free, with one cycle at least to go.
LEMMA InsertDrains ==
    ASSUME NEW q \in EXEQType, NEW inst \in InstInfo, ~ exeq_full(q), DoneSlots(q) = {},
           \A s \in ExeqSlots : q[s].valid => q[s].inst.exe_wait_cycles \in 0 .. LOAD_EXE_CYCLES
    PROVE  /\ DoneSlots(exeq_insert(q, inst)) = {}
           /\ \A s \in ExeqSlots : exeq_insert(q, inst)[s].valid =>
                  exeq_insert(q, inst)[s].inst.exe_wait_cycles \in 0 .. LOAD_EXE_CYCLES
<1> DEFINE free == FirstSlot(FreeSlots(q))
           new  == [inst EXCEPT !.exe_wait_cycles =
                        IF inst.op_type = "OP_LD" THEN LOAD_EXE_CYCLES ELSE 1]
<1>1. free \in ExeqSlots
  <2>1. FreeSlots(q) \in SUBSET Nat /\ FreeSlots(q) \subseteq ExeqSlots
    BY ExeqAssumption DEF FreeSlots, ExeqSlots
  <2> QED  BY <2>1, FirstSlotInSet DEF exeq_full
<1>2. new.exe_wait_cycles \in 1 .. LOAD_EXE_CYCLES
  BY ExeqAssumption DEF InstInfo
<1>3. \A s \in ExeqSlots : exeq_insert(q, inst)[s] = IF s = free THEN [valid |-> TRUE, inst |-> new]
                                                     ELSE q[s]
  BY <1>1 DEF exeq_insert, EXEQType
<1> HIDE DEF free, new
<1>4. \A s \in ExeqSlots : exeq_insert(q, inst)[s].valid =>
          exeq_insert(q, inst)[s].inst.exe_wait_cycles \in 1 .. LOAD_EXE_CYCLES
  <2> SUFFICES ASSUME NEW s \in ExeqSlots, exeq_insert(q, inst)[s].valid
               PROVE  exeq_insert(q, inst)[s].inst.exe_wait_cycles \in 1 .. LOAD_EXE_CYCLES
    OBVIOUS
  <2>1. CASE s = free
    BY <1>2, <1>3, <2>1
  <2>2. CASE s # free
    <3>1. q[s].inst.exe_wait_cycles \in 0 .. LOAD_EXE_CYCLES /\ s \notin DoneSlots(q) /\ q[s].valid
      BY <1>3, <2>2
    <3>2. q[s].inst.exe_wait_cycles # 0
      BY <3>1 DEF DoneSlots
    <3> QED  BY <1>3, <2>2, <3>1, <3>2, ExeqAssumption
  <2> QED  BY <2>1, <2>2
<1> QED  BY <1>4, ExeqAssumption DEF DoneSlots

LEMMA CycleDrains ==
    ASSUME NEW q \in EXEQType, DoneSlots(q) = {},
           \A s \in ExeqSlots : q[s].valid => q[s].inst.exe_wait_cycles \in 0 .. LOAD_EXE_CYCLES
    PROVE  \A s \in ExeqSlots : exeq_cycle(q)[s].valid =>
               exeq_cycle(q)[s].inst.exe_wait_cycles \in 0 .. LOAD_EXE_CYCLES
<1> SUFFICES ASSUME NEW s \in ExeqSlots, exeq_cycle(q)[s].valid
             PROVE  exeq_cycle(q)[s].inst.exe_wait_cycles \in 0 .. LOAD_EXE_CYCLES
  OBVIOUS
<1>1. q[s].valid /\ q[s] \in [valid : BOOLEAN, inst : InstInfo]
  BY DEF exeq_cycle, EXEQType
<1>2. exeq_cycle(q)[s].inst.exe_wait_cycles = q[s].inst.exe_wait_cycles - 1
  BY <1>1 DEF exeq_cycle, InstInfo
<1>3. q[s].inst.exe_wait_cycles \in 1 .. LOAD_EXE_CYCLES
  BY <1>1, ExeqAssumption DEF DoneSlots
<1> QED  BY <1>2, <1>3, ExeqAssumption

\* A transfer takes one of the slots that are done.
LEMMA RemoveDrains ==
    ASSUME NEW q \in EXEQType, exeq_check_done(q)
    PROVE  /\ Cardinality(DoneSlots(exeq_remove(q))) = Cardinality(DoneSlots(q)) - 1
           /\ \A s \in ExeqSlots : exeq_remove(q)[s].inst = q[s].inst
                                   /\ (exeq_remove(q)[s].valid => q[s].valid)
<1> DEFINE first == FirstSlot(DoneSlots(q))
<1>1. first \in DoneSlots(q) /\ first \in ExeqSlots
  <2>1. DoneSlots(q) \in SUBSET Nat /\ DoneSlots(q) \subseteq ExeqSlots
    BY ExeqAssumption DEF DoneSlots, ExeqSlots
  <2> QED  BY <2>1, FirstSlotInSet DEF exeq_check_done
<1> HIDE DEF first
<1>2. \A s \in ExeqSlots : /\ exeq_remove(q)[s].inst = q[s].inst
                           /\ exeq_remove(q)[s].valid = (q[s].valid /\ s # first)
  BY <1>1 DEF exeq_remove, EXEQType, first
<1>3. DoneSlots(exeq_remove(q)) = DoneSlots(q) \ {first}
  BY <1>2 DEF DoneSlots
<1> QED  BY <1>1, <1>2, <1>3, DoneSlotsFinite, FS_RemoveElement

\* Only execute touches the queue, and only it goes to the stages that empty it.
LEMMA ExeqElsewhere ==
    ASSUME Commit \/ Writeback \/ Schedule \/ IssueStage \/ DecodeStage \/ FetchStage
    PROVE  exeq' = exeq /\ stage' \notin {"exeq_cycle", "exe_done"} /\ stage # "exe_done"
<1> USE DEF Advance, Goto
<1>1. CASE Commit \/ Writeback
  BY <1>1 DEF Commit, CommitInst, CommitNothing, CommitDone, Writeback, WritebackLane
<1>2. CASE Schedule
  BY <1>2 DEF Schedule, ScheduleInst, ScheduleNothing, ScheduleOccupied, ScheduleReturn,
     ScheduleNext, ScheduleEnds, schedFrame
<1>3. CASE IssueStage
  BY <1>3 DEF IssueStage, IssueCompare, IssueNextPass, Issue, IssueNothing, IssueCrash,
     IssueDone, sortFrame, issueFrame
<1>4. CASE DecodeStage \/ FetchStage
  BY <1>4 DEF DecodeStage, Decode, DecodeNothing, DecodeDone, decodeFrame, FetchStage,
     FetchInst, FetchEnd, FetchOccupied, FetchDone, fetchFrame
<1> QED  BY <1>1, <1>2, <1>3, <1>4

LEMMA ExeKeepsExeq ==
    ASSUME TypeInv, ExeqInv, Exe
    PROVE  ExeqInv'
<1> USE DEF Advance, Goto, exeFrame
<1>1. exeq \in EXEQType /\ SC_latch \in [Lanes -> Latch] /\ stage \in Stages
  BY DEF TypeInv, TypeOK
<1>2. ASSUME exeq' = exeq, stage # "exe_done", stage' # "exe_done" PROVE ExeqInv'
  BY <1>2 DEF ExeqInv, ExeqDrainsInTime
<1>3. CASE ExeEmpty \/ ExeCopy \/ ExeFull
  BY <1>2, <1>3 DEF ExeEmpty, ExeCopy, ExeFull, ExeDone
<1>4. CASE ExeInsert
  <2>1. SC_latch[lane].inst \in InstInfo /\ stage = "exe" /\ stage' # "exe_done"
    BY <1>1, <1>4 DEF ExeInsert, ExeDone, TypeInv, LaneInRange, Latch
  <2>2. DoneSlots(exeq) = {}
    BY <2>1 DEF ExeqInv, ExeqDrainsInTime
  <2>3. /\ DoneSlots(exeq') = {}
        /\ \A s \in ExeqSlots : exeq'[s].valid =>
               exeq'[s].inst.exe_wait_cycles \in 0 .. LOAD_EXE_CYCLES
    BY <1>1, <1>4, <2>1, <2>2, InsertDrains DEF ExeInsert, ExeqInv, ExeqDrainsInTime
  <2> QED  BY <2>1, <2>3 DEF ExeqInv, ExeqDrainsInTime, DoneSlots
<1>5. CASE ExeqCycle
  <2>1. /\ exeq' = exeq_cycle(exeq) /\ stage = "exeq_cycle"
        /\ stage' = "exe_done" /\ lane' = 0
    BY <1>5 DEF ExeqCycle
  <2>2. \A s \in ExeqSlots : exeq'[s].valid =>
            exeq'[s].inst.exe_wait_cycles \in 0 .. LOAD_EXE_CYCLES
    BY <1>1, <2>1, CycleDrains DEF ExeqInv, ExeqDrainsInTime
  <2>3. Cardinality(DoneSlots(exeq')) <= MAX_WRITEBACKS - lane'
    BY <2>1, DoneSlotsFinite, PipelineAssumption, ExeqAssumption
  <2> QED  BY <2>1, <2>2, <2>3 DEF ExeqInv, ExeqDrainsInTime, DoneSlots
<1>6. CASE ExeTransfer
  <2>1. exeq' = exeq_remove(exeq) /\ stage = "exe_done" /\ exeq_check_done(exeq)
    BY <1>6 DEF ExeTransfer
  <2>2. lane \in ExLanes
    BY <2>1 DEF TypeInv, LaneInRange
  <2>3. /\ Cardinality(DoneSlots(exeq')) = Cardinality(DoneSlots(exeq)) - 1
        /\ \A s \in ExeqSlots : exeq'[s].valid =>
               exeq'[s].inst.exe_wait_cycles \in 0 .. LOAD_EXE_CYCLES
    BY <1>1, <2>1, RemoveDrains DEF ExeqInv, ExeqDrainsInTime
  <2>4. CASE lane + 1 < MAX_WRITEBACKS
    <3>1. stage' = "exe_done" /\ lane' = lane + 1
      BY <1>6, <2>1, <2>4 DEF ExeTransfer, TransferNext
    <3>2. Cardinality(DoneSlots(exeq')) <= MAX_WRITEBACKS - lane'
      BY <2>1, <2>2, <2>3, <3>1, DoneSlotsFinite, PipelineAssumption DEF ExLanes, ExeqInv
    <3> QED  BY <2>3, <3>1, <3>2 DEF ExeqInv, ExeqDrainsInTime, DoneSlots
  <2>5. CASE ~ (lane + 1 < MAX_WRITEBACKS)
    <3>1. stage' = "schedule"
      BY <1>6, <2>5 DEF ExeTransfer, TransferNext
    <3>2. Cardinality(DoneSlots(exeq')) = 0
      BY <2>1, <2>2, <2>3, <2>5, DoneSlotsFinite, PipelineAssumption DEF ExLanes, ExeqInv
    <3>3. DoneSlots(exeq') = {}
      BY <3>2, DoneSlotsFinite
    <3> QED  BY <2>3, <3>1, <3>3 DEF ExeqInv, ExeqDrainsInTime, DoneSlots
  <2> QED  BY <2>4, <2>5
<1>7. CASE ExeNoneLeft
  BY <1>7 DEF ExeNoneLeft, exeq_check_done, ExeqInv, ExeqDrainsInTime, DoneSlots
<1> QED  BY <1>3, <1>4, <1>5, <1>6, <1>7 DEF Exe

LEMMA StepExeq == TypeInv /\ ExeqInv /\ [Next]_vars => ExeqInv'
<1> SUFFICES ASSUME TypeInv, ExeqInv, [Next]_vars PROVE ExeqInv'
  OBVIOUS
<1>1. CASE UNCHANGED vars
  BY <1>1 DEF vars, ExeqInv, ExeqDrainsInTime, DoneSlots
<1>2. CASE Commit \/ Writeback \/ Schedule \/ IssueStage \/ DecodeStage \/ FetchStage
  BY <1>2, ExeqElsewhere DEF ExeqInv, ExeqDrainsInTime, DoneSlots
<1> QED  BY <1>1, <1>2, ExeKeepsExeq DEF Next, Step, Over

(***************************************************************************)
(* No instruction stays in the execution queue once its count is zero: the *)
(* EX latches have room for all that finish in one cycle, so exeq_cycle    *)
(* never counts below zero.                                                *)
(***************************************************************************)
THEOREM ExeqDrainsInTimeHolds == Spec => []ExeqDrainsInTime
<1>1. Init => ExeqInv
  BY DEF Init, exeq_init, ExeqInv, ExeqDrainsInTime, DoneSlots
<1>2. TypeInv /\ ExeqInv /\ [Next]_vars => ExeqInv'
  BY StepExeq
<1>3. ExeqInv => ExeqDrainsInTime
  BY DEF ExeqInv
<1> QED  BY <1>1, <1>2, <1>3, TypeCorrect, PTL DEF Spec

-----------------------------------------------------------------------------
(* An array of places gains an instruction, loses one, or only changes what is not its number. *)

SameAt(L, M, l) == M[l].valid = L[l].valid /\ NumAt(M, l) = NumAt(L, l)

LEMMA Gained ==
    ASSUME NEW L, NEW M, DOMAIN M = DOMAIN L, NEW l \in DOMAIN L, Single(L),
           \A k \in DOMAIN L \ {l} : SameAt(L, M, k),
           ~ L[l].valid, M[l].valid, NumAt(M, l) \notin NumsIn(L)
    PROVE  Single(M) /\ NumsIn(M) = NumsIn(L) \cup {NumAt(M, l)}
BY DEF Single, NumsIn, SameAt

LEMMA Lost ==
    ASSUME NEW L, NEW M, DOMAIN M = DOMAIN L, NEW l \in DOMAIN L, Single(L),
           \A k \in DOMAIN L \ {l} : SameAt(L, M, k),
           L[l].valid, ~ M[l].valid
    PROVE  /\ Single(M)
           /\ NumsIn(M) = NumsIn(L) \ {NumAt(L, l)}
           /\ NumAt(L, l) \in NumsIn(L)
BY DEF Single, NumsIn, SameAt

LEMMA Kept ==
    ASSUME NEW L, NEW M, DOMAIN M = DOMAIN L, \A k \in DOMAIN L : SameAt(L, M, k)
    PROVE  (Single(L) => Single(M)) /\ NumsIn(M) = NumsIn(L)
BY DEF Single, NumsIn, SameAt

\* None of these changes which instruction an entry holds, and whether it is valid.
LEMMA SameNumbers ==
    ASSUME NEW r \in ROBType, NEW q,
           (\E i : q = SetExec(r, i) \/ q = SetReady(r, i)) \/ (\E tag : q = rob_wakeup(r, tag))
    PROVE  /\ DOMAIN q.entries = RobIds /\ DOMAIN r.entries = RobIds
           /\ \A j \in RobIds : SameAt(r.entries, q.entries, j)
<1>1. \A j \in RobIds : /\ r.entries[j] \in ROBEntry
                        /\ r.entries[j].inst \in InstInfo
  BY DEF ROBType, ROBEntry
<1>2. ASSUME NEW i, q = SetExec(r, i) \/ q = SetReady(r, i)
      PROVE  /\ DOMAIN q.entries = RobIds
             /\ \A j \in RobIds : SameAt(r.entries, q.entries, j)
  <2>1. /\ DOMAIN q.entries = RobIds
        /\ \A j \in RobIds : /\ q.entries[j].valid = r.entries[j].valid
                             /\ q.entries[j].inst = r.entries[j].inst
    <3>1. CASE q = SetExec(r, i)
      BY <3>1 DEF SetExec, ROBType, ROBEntry
    <3>2. CASE q = SetReady(r, i)
      BY <3>2 DEF SetReady, ROBType, ROBEntry
    <3> QED  BY <1>2, <3>1, <3>2
  <2> QED  BY <2>1 DEF SameAt, NumAt
<1>3. ASSUME NEW tag, q = rob_wakeup(r, tag)
      PROVE  /\ DOMAIN q.entries = RobIds
             /\ \A j \in RobIds : SameAt(r.entries, q.entries, j)
  <2>1. \A wakes : \A j \in RobIds :
            WakeInst(r.entries[j].inst, wakes).inst_num = r.entries[j].inst.inst_num
    BY <1>1 DEF WakeInst, InstInfo
  <2> DEFINE wakes(j) == [k \in Src |-> WaitsFor(r, tag, j, k)]
  <2>2. q.entries = [j \in RobIds |->
                        [r.entries[j] EXCEPT !.inst = WakeInst(r.entries[j].inst, wakes(j))]]
    BY <1>3 DEF rob_wakeup, WakeOperands, ROBType
  <2> HIDE DEF wakes
  <2>3. ASSUME NEW j \in RobIds PROVE SameAt(r.entries, q.entries, j)
    <3>1. /\ q.entries[j].valid = r.entries[j].valid
          /\ q.entries[j].inst = WakeInst(r.entries[j].inst, wakes(j))
      BY <1>1, <2>2 DEF ROBEntry
    <3> QED  BY <2>1, <3>1 DEF SameAt, NumAt
  <2> QED  BY <2>2, <2>3
<1> QED  BY <1>2, <1>3 DEF ROBType

LEMMA InFlightFinite ==
    ASSUME FlightInv, TypeInv
    PROVE  IsFiniteSet(InFlight) /\ Cardinality(InFlight) \in Nat /\ last_inst_num \in Nat
<1>1. last_inst_num \in Nat
  BY DEF TypeInv, TypeOK, last_inst_num
<1>2. IsFiniteSet(1 .. last_inst_num)
  BY <1>1, FS_Interval
<1>3. IsFiniteSet(InFlight)
  BY <1>2, FS_Subset DEF FlightInv
<1> QED  BY <1>1, <1>3, FS_CardinalityType

\* Most steps leave every instruction where it is.
LEMMA FlightKept ==
    ASSUME FlightInv, UNCHANGED <<FE_latch, ID_latch, fetched, stat_retired_inst>>,
           DOMAIN rob'.entries = RobIds, DOMAIN rob.entries = RobIds,
           \A j \in RobIds : SameAt(rob.entries, rob'.entries, j)
    PROVE  FlightInv'
<1>1. /\ Single(rob.entries) => Single(rob'.entries)
      /\ NumsIn(rob'.entries) = NumsIn(rob.entries)
  BY Kept
<1>2. InFlight' = InFlight /\ last_inst_num' = last_inst_num
  BY <1>1 DEF InFlight, last_inst_num
<1>3. \A j \in RobIds : Num(j)' = Num(j) /\ Entry(j)'.valid = Entry(j).valid
  BY DEF SameAt, NumAt, Num, Entry
<1> QED  BY <1>1, <1>2, <1>3 DEF FlightInv

LEMMA CommitFlight ==
    ASSUME TypeInv, FlightInv, CommitInst
    PROVE  FlightInv'
<1> DEFINE h == rob.head_ptr
           n == Num(h)
<1>1. /\ h \in RobIds /\ DOMAIN rob.entries = RobIds /\ DOMAIN rob'.entries = RobIds
      /\ rob.entries[h].valid /\ ~ rob'.entries[h].valid
      /\ \A i \in RobIds : rob'.entries[i].inst = rob.entries[i].inst
      /\ \A i \in RobIds \ {h} : rob'.entries[i] = rob.entries[i]
  <2>1. h \in RobIds /\ rob \in ROBType
    BY DEF TypeInv, TypeOK, ROBType
  <2>2. rob' = rob_remove_head(rob) /\ rob.entries[h].valid
    BY DEF CommitInst, rob_check_head, rob_check_ready
  <2> QED  BY <2>1, <2>2 DEF rob_remove_head, ROBType, ROBEntry
<1>2. /\ UNCHANGED <<FE_latch, ID_latch, fetched>>
      /\ stat_retired_inst' = stat_retired_inst + 1 /\ stat_retired_inst \in Nat
  BY DEF CommitInst, feVars, TypeInv, TypeOK
<1>3. /\ Single(rob'.entries) /\ n \in NumsIn(rob.entries)
      /\ NumsIn(rob'.entries) = NumsIn(rob.entries) \ {n}
  <2>1. Single(rob.entries) /\ \A k \in RobIds \ {h} : SameAt(rob.entries, rob'.entries, k)
    BY <1>1 DEF FlightInv, SameAt, NumAt
  <2> HIDE DEF h
  <2>2. /\ Single(rob'.entries)
        /\ NumsIn(rob'.entries) = NumsIn(rob.entries) \ {NumAt(rob.entries, h)}
        /\ NumAt(rob.entries, h) \in NumsIn(rob.entries)
    BY <1>1, <2>1, Lost
  <2> QED  BY <2>2 DEF NumAt, Num, Entry
<1> HIDE DEF h, n
<1>4. InFlight' = InFlight \ {n} /\ n \in InFlight
  BY <1>2, <1>3 DEF InFlight, FlightInv
<1>5. Cardinality(InFlight') = Cardinality(InFlight) - 1
  BY <1>4, InFlightFinite, FS_RemoveElement
<1>6. last_inst_num' = last_inst_num
  BY <1>2 DEF last_inst_num
<1>7. stat_retired_inst' + Cardinality(InFlight') = last_inst_num'
  BY <1>2, <1>5, <1>6, InFlightFinite DEF FlightInv
<1>8. ASSUME NEW i \in RobIds
      PROVE  /\ Num(i)' <= last_inst_num' /\ Num(i)' = Num(i)
             /\ ~ Entry(i)'.valid => Num(i)' \notin InFlight'
  <2>1. Num(i)' = Num(i)
    BY <1>1 DEF Num, Entry
  <2>2. i # h => Entry(i)'.valid = Entry(i).valid
    BY <1>1 DEF Entry
  <2>3. Num(h) = n
    BY DEF n
  <2> QED  BY <1>4, <1>6, <2>1, <2>2, <2>3 DEF FlightInv
<1> QED  BY <1>2, <1>3, <1>4, <1>6, <1>7, <1>8 DEF FlightInv

\* With space in the buffer the entry at the tail is not valid.
LEMMA TailIsFree ==
    ASSUME NEW r \in ROBType, Window(r), rob_check_space(r)
    PROVE  r.tail_ptr \in RobIds /\ ~ r.entries[r.tail_ptr].valid
<1>1. r.tail_ptr \in RobIds
  BY DEF ROBType
<1>2. CASE r.head_ptr = r.tail_ptr
  BY <1>1, <1>2 DEF rob_check_space
<1>3. CASE r.head_ptr # r.tail_ptr
  <2>1. Age(r, r.tail_ptr) = Used(r) /\ Used(r) \in Int
    BY <1>1, CircleDistance, RobAssumption DEF Age, Used, ROBType
  <2> QED  BY <1>1, <2>1 DEF Window
<1> QED  BY <1>1, <1>2, <1>3

LEMMA IssueFlight ==
    ASSUME TypeInv, Window(rob), FlightInv, Issue
    PROVE  FlightInv'
<1> DEFINE t == rob.tail_ptr
           l == IssueLane
           n == IssueInst.inst_num
<1>1. rob \in ROBType /\ l \in Lanes /\ ID_latch \in [Lanes -> Latch] /\ ID_latch[l].valid
  BY DEF TypeInv, TypeOK, Issue, CanIssue, IssueLane, LaneInRange
<1>2. t \in RobIds /\ ~ rob.entries[t].valid
  BY <1>1, TailIsFree DEF Issue, CanIssue
<1>3. Rename(IssueInst).inst_num = n
  BY <1>1 DEF Rename, IssueInst, Latch, InstInfo
<1>4. /\ DOMAIN rob.entries = RobIds /\ DOMAIN rob'.entries = RobIds
      /\ rob'.entries[t].valid /\ NumAt(rob'.entries, t) = n
      /\ \A i \in RobIds \ {t} : rob'.entries[i] = rob.entries[i]
  BY <1>1, <1>2, <1>3 DEF Issue, rob_insert, ROBType, NumAt
<1>5. /\ DOMAIN ID_latch = Lanes /\ DOMAIN ID_latch' = Lanes
      /\ ~ ID_latch'[l].valid /\ NumAt(ID_latch, l) = n
      /\ \A k \in Lanes \ {l} : ID_latch'[k] = ID_latch[k]
  BY <1>1 DEF Issue, Latch, NumAt, IssueInst
<1>6. UNCHANGED <<FE_latch, fetched, stat_retired_inst>>
  BY DEF Issue, issueFrame, feVars, haltVars
<1> HIDE DEF t, l, n
<1>7. /\ Single(ID_latch') /\ n \in NumsIn(ID_latch)
      /\ NumsIn(ID_latch') = NumsIn(ID_latch) \ {n}
  BY <1>1, <1>5, Lost DEF FlightInv, SameAt, NumAt
<1>8. Single(rob'.entries) /\ NumsIn(rob'.entries) = NumsIn(rob.entries) \cup {n}
  <2>1. n \notin NumsIn(rob.entries)
    BY <1>7 DEF FlightInv
  <2>2. Single(rob.entries) /\ \A k \in RobIds \ {t} : SameAt(rob.entries, rob'.entries, k)
    BY <1>4 DEF FlightInv, SameAt, NumAt
  <2>3. /\ Single(rob'.entries)
        /\ NumsIn(rob'.entries) = NumsIn(rob.entries) \cup {NumAt(rob'.entries, t)}
    <3>1. /\ t \in DOMAIN rob.entries /\ DOMAIN rob'.entries = DOMAIN rob.entries
          /\ ~ rob.entries[t].valid /\ rob'.entries[t].valid
          /\ NumAt(rob'.entries, t) \notin NumsIn(rob.entries)
          /\ \A k \in DOMAIN rob.entries \ {t} : SameAt(rob.entries, rob'.entries, k)
      BY <1>2, <1>4, <2>1, <2>2
    <3> QED  BY <2>2, <3>1, Gained
  <2> QED  BY <1>4, <2>3
<1>9. InFlight' = InFlight /\ last_inst_num' = last_inst_num /\ n \in InFlight
  BY <1>6, <1>7, <1>8 DEF InFlight, last_inst_num
<1>10. ASSUME NEW i \in RobIds
       PROVE  Num(i)' <= last_inst_num /\ (~ Entry(i)'.valid => Num(i)' \notin InFlight)
  <2>1. CASE i = t
    <3>1. Num(i)' = n /\ Entry(i)'.valid
      BY <1>4, <2>1 DEF Num, Entry, NumAt
    <3> QED  BY <1>9, <3>1, InFlightFinite DEF FlightInv
  <2>2. CASE i # t
    BY <1>4, <2>2 DEF Num, Entry, FlightInv
  <2> QED  BY <2>1, <2>2
<1> QED  BY <1>6, <1>7, <1>8, <1>9, <1>10 DEF FlightInv

LEMMA DecodeFlight ==
    ASSUME TypeInv, FlightInv, Decode
    PROVE  FlightInv'
<1>1. PICK j \in NextDecoded : /\ ID_latch' = [ID_latch EXCEPT ![lane] = FE_latch[j]]
                               /\ FE_latch' = [FE_latch EXCEPT ![j].valid = FALSE]
  BY DEF Decode
<1> DEFINE n == NumAt(FE_latch, j)
<1>2. /\ j \in Lanes /\ lane \in Lanes /\ FE_latch[j].valid /\ ~ ID_latch[lane].valid
      /\ ID_latch \in [Lanes -> Latch] /\ FE_latch \in [Lanes -> Latch]
  BY DEF NextDecoded, Decode, TypeInv, TypeOK, LaneInRange
<1>3. /\ DOMAIN FE_latch = Lanes /\ DOMAIN FE_latch' = Lanes /\ ~ FE_latch'[j].valid
      /\ \A k \in Lanes \ {j} : FE_latch'[k] = FE_latch[k]
  BY <1>1, <1>2 DEF Latch
<1>4. /\ DOMAIN ID_latch = Lanes /\ DOMAIN ID_latch' = Lanes
      /\ ID_latch'[lane].valid /\ NumAt(ID_latch', lane) = n
      /\ \A k \in Lanes \ {lane} : ID_latch'[k] = ID_latch[k]
  BY <1>1, <1>2 DEF NumAt
<1>5. UNCHANGED <<rob, fetched, stat_retired_inst>>
  BY DEF Decode, decodeFrame, haltVars
<1> HIDE DEF n
<1>6. /\ Single(FE_latch') /\ n \in NumsIn(FE_latch)
      /\ NumsIn(FE_latch') = NumsIn(FE_latch) \ {n}
  BY <1>2, <1>3, Lost DEF FlightInv, SameAt, NumAt, n
<1>7. Single(ID_latch') /\ NumsIn(ID_latch') = NumsIn(ID_latch) \cup {n}
  <2>1. n \notin NumsIn(ID_latch)
    BY <1>6 DEF FlightInv
  <2> QED  BY <1>2, <1>4, <2>1, Gained DEF FlightInv, SameAt, NumAt
<1>8. InFlight' = InFlight /\ last_inst_num' = last_inst_num
  BY <1>5, <1>6, <1>7 DEF InFlight, last_inst_num
<1> QED  BY <1>5, <1>6, <1>7, <1>8 DEF FlightInv, Num, Entry

LEMMA FetchFlight ==
    ASSUME TypeInv, FlightInv, FetchInst
    PROVE  FlightInv'
<1> DEFINE n == last_inst_num + 1
<1>1. PICK rec \in TraceRecords :
          /\ fetched' = Append(fetched, rec)
          /\ FE_latch' = [FE_latch EXCEPT ![lane] = Full(NewInst(n, rec))]
  BY DEF FetchInst
<1>2. /\ lane \in Lanes /\ ~ FE_latch[lane].valid /\ FE_latch \in [Lanes -> Latch]
      /\ fetched \in Seq(TraceRecords)
  BY DEF FetchInst, TypeInv, TypeOK, LaneInRange
<1>3. last_inst_num \in Nat /\ last_inst_num' = n
  BY <1>1, <1>2 DEF last_inst_num
<1>4. /\ DOMAIN FE_latch = Lanes /\ DOMAIN FE_latch' = Lanes
      /\ FE_latch'[lane].valid /\ NumAt(FE_latch', lane) = n
      /\ \A k \in Lanes \ {lane} : FE_latch'[k] = FE_latch[k]
  BY <1>1, <1>2 DEF NumAt, Full, NewInst
<1>5. UNCHANGED <<rob, ID_latch, stat_retired_inst>> /\ stat_retired_inst \in Nat
  BY DEF FetchInst, fetchFrame, TypeInv, TypeOK
<1> HIDE DEF n
<1>6. n \notin InFlight /\ 1 .. last_inst_num \subseteq 1 .. n /\ n \in 1 .. n
  BY <1>3 DEF FlightInv, n
<1>7. Single(FE_latch') /\ NumsIn(FE_latch') = NumsIn(FE_latch) \cup {n}
  <2>1. n \notin NumsIn(FE_latch)
    BY <1>6 DEF InFlight
  <2> QED  BY <1>2, <1>4, <2>1, Gained DEF FlightInv, SameAt, NumAt
<1>8. InFlight' = InFlight \cup {n}
  BY <1>5, <1>7 DEF InFlight
<1>9. Cardinality(InFlight') = Cardinality(InFlight) + 1
  BY <1>6, <1>8, InFlightFinite, FS_AddElement
<1>10. stat_retired_inst' + Cardinality(InFlight') = last_inst_num'
  BY <1>3, <1>5, <1>9, InFlightFinite DEF FlightInv, n
<1>11. InFlight' \subseteq 1 .. last_inst_num'
  BY <1>3, <1>6, <1>8 DEF FlightInv
<1>12. ASSUME NEW i \in RobIds
       PROVE  Num(i)' <= last_inst_num' /\ (~ Entry(i)'.valid => Num(i)' \notin InFlight')
  <2>1. Num(i) \in Nat /\ Num(i) <= last_inst_num /\ Num(i)' = Num(i) /\ Entry(i)' = Entry(i)
    BY <1>5 DEF FlightInv, TypeInv, TypeOK, ROBType, ROBEntry, InstInfo, Num, Entry
  <2>2. Num(i) # n
    BY <1>3, <2>1 DEF n
  <2> QED  BY <1>3, <1>8, <2>1, <2>2 DEF FlightInv, n
<1> QED  BY <1>5, <1>6, <1>7, <1>10, <1>11, <1>12 DEF FlightInv, InFlight

LEMMA StepFlight == TypeInv /\ Window(rob) /\ FlightInv /\ [Next]_vars => FlightInv'
<1> SUFFICES ASSUME TypeInv, Window(rob), FlightInv, [Next]_vars PROVE FlightInv'
  OBVIOUS
<1>1. rob \in ROBType /\ DOMAIN rob.entries = RobIds
  BY DEF TypeInv, TypeOK, ROBType
<1>2. ASSUME UNCHANGED <<FE_latch, ID_latch, fetched, stat_retired_inst, rob>>
      PROVE  FlightInv'
  BY <1>1, <1>2, FlightKept DEF SameAt, NumAt
<1>3. CASE UNCHANGED vars
  BY <1>2, <1>3 DEF vars
<1>4. CASE WritebackLane
  <2>1. /\ Woken \in ROBType /\ DOMAIN Woken.entries = RobIds
        /\ \A j \in RobIds : SameAt(rob.entries, Woken.entries, j)
    <3>1. CASE Woken = rob
      BY <1>1, <3>1 DEF SameAt, NumAt
    <3>2. CASE Woken = rob_wakeup(rob, EX_latch[lane].inst.dr_tag)
      BY <1>1, <3>2, WakeupType, SameNumbers
    <3> QED  BY <3>1, <3>2 DEF Woken
  <2>2. rob' = Woken \/ \E i : rob' = SetReady(Woken, i)
    BY <1>4 DEF WritebackLane, rob_mark_ready
  <2>3. DOMAIN rob'.entries = RobIds /\ \A j \in RobIds : SameAt(Woken.entries, rob'.entries, j)
    <3>1. CASE rob' = Woken
      BY <2>1, <3>1 DEF SameAt, NumAt
    <3>2. CASE \E i : rob' = SetReady(Woken, i)
      BY <2>1, <3>2, SameNumbers
    <3> QED  BY <2>2, <3>1, <3>2
  <2>4. UNCHANGED <<FE_latch, ID_latch, fetched, stat_retired_inst>>
    BY <1>4 DEF WritebackLane, feVars, haltVars
  <2> QED  BY <1>1, <2>1, <2>3, <2>4, FlightKept DEF SameAt
<1>5. CASE ScheduleInst
  <2>1. \E i : rob' = SetExec(rob, i)
    BY <1>5 DEF ScheduleInst, rob_mark_exec
  <2>2. UNCHANGED <<FE_latch, ID_latch, fetched, stat_retired_inst>>
    BY <1>5 DEF ScheduleInst, schedFrame, feVars, haltVars
  <2>3. /\ DOMAIN rob'.entries = RobIds
        /\ \A j \in RobIds : SameAt(rob.entries, rob'.entries, j)
    BY <1>1, <2>1, SameNumbers
  <2> QED  BY <1>1, <2>2, <2>3, FlightKept
<1>6. CASE CommitNothing \/ Exe
  BY <1>2, <1>6 DEF CommitNothing, Exe, ExeEmpty, ExeCopy, ExeInsert, ExeFull, ExeqCycle,
     ExeTransfer, ExeNoneLeft, exeFrame, feVars, haltVars
<1>7. CASE ScheduleNothing \/ ScheduleOccupied \/ ScheduleReturn
  BY <1>2, <1>7 DEF ScheduleNothing, ScheduleOccupied, ScheduleReturn, schedFrame, feVars,
     haltVars
<1>8. CASE IssueCompare \/ IssueNextPass \/ IssueNothing \/ IssueCrash
  BY <1>2, <1>8 DEF IssueCompare, IssueNextPass, IssueNothing, IssueCrash, sortFrame,
     issueFrame, feVars, haltVars
<1>9. CASE DecodeNothing \/ FetchEnd \/ FetchOccupied
  BY <1>2, <1>9 DEF DecodeNothing, decodeFrame, FetchEnd, FetchOccupied, fetchFrame, haltVars
<1> QED
  BY <1>3, <1>4, <1>5, <1>6, <1>7, <1>8, <1>9, CommitFlight, IssueFlight, DecodeFlight,
     FetchFlight DEF Next, Step, Over, Commit, Writeback, Schedule, IssueStage, DecodeStage,
     FetchStage

LEMMA InitFlight == Init => FlightInv
<1> SUFFICES ASSUME Init PROVE FlightInv
  OBVIOUS
<1>1. /\ \A l \in Lanes : ~ FE_latch[l].valid /\ ~ ID_latch[l].valid
      /\ \A i \in RobIds : ~ rob.entries[i].valid /\ Num(i) = 0
      /\ DOMAIN FE_latch = Lanes /\ DOMAIN ID_latch = Lanes /\ DOMAIN rob.entries = RobIds
  BY DEF Init, EmptyLatch, rob_init, ZeroInst, Num, Entry
<1>2. InFlight = {} /\ NumsIn(FE_latch) = {} /\ NumsIn(ID_latch) = {}
      /\ NumsIn(rob.entries) = {}
  BY <1>1 DEF InFlight, NumsIn
<1>3. last_inst_num = 0 /\ stat_retired_inst = 0
  BY DEF Init, last_inst_num
<1>4. Single(FE_latch) /\ Single(ID_latch) /\ Single(rob.entries)
  BY <1>1 DEF Single
<1> QED  BY <1>1, <1>2, <1>3, <1>4, FS_EmptySet DEF FlightInv

\* The invariant with what it rests on.
LEMMA FlightHolds == Spec => [](TypeInv /\ Window(rob) /\ FlightInv)
<1>1. Init => Window(rob) /\ FlightInv
  BY InitWindow, InitFlight DEF Init
<1>2. TypeInv /\ Window(rob) /\ FlightInv /\ [Next]_vars => Window(rob)' /\ FlightInv'
  <2>1. Window(rob)' <=> Window(rob')
    BY DEF Window, Used, rob_check_space, Age
  <2> QED  BY <2>1, StepWindow, StepFlight
<1> QED  BY <1>1, <1>2, TypeCorrect, PTL DEF Spec

\* What FlightInv says of numbers, NoInstructionLost says of places.
LEMMA FlightPlaces ==
    ASSUME TypeInv, FlightInv
    PROVE  NoInstructionLost
<1>1. \A n : /\ LatchHomes(FE_latch, "FE", n) # {} <=> n \in NumsIn(FE_latch)
             /\ LatchHomes(ID_latch, "ID", n) # {} <=> n \in NumsIn(ID_latch)
             /\ LatchHomes(rob.entries, "ROB", n) # {} <=> n \in NumsIn(rob.entries)
  BY DEF LatchHomes, NumsIn, NumAt
<1>2. \A n : HomesOf(n) # {} <=> n \in InFlight
  BY <1>1 DEF HomesOf, InFlight
<1>3. ASSUME NEW n, NEW g \in HomesOf(n), NEW h \in HomesOf(n) PROVE g = h
  <2>1. ASSUME NEW latch, Single(latch), NEW name,
               g \in LatchHomes(latch, name, n), h \in LatchHomes(latch, name, n)
        PROVE  g = h
    BY <2>1 DEF LatchHomes, Single, NumAt
  <2> QED  BY <1>1, <1>3, <2>1 DEF HomesOf, FlightInv
<1>4. ASSUME NEW n PROVE Cardinality(HomesOf(n)) <= 1
  <2>1. CASE HomesOf(n) = {}
    BY <2>1, FS_EmptySet
  <2>2. CASE HomesOf(n) # {}
    <3>1. PICK h : HomesOf(n) = {h}
      BY <1>3, <2>2
    <3> QED  BY <3>1, FS_Singleton
  <2> QED  BY <2>1, <2>2
<1>5. {n \in 1 .. last_inst_num : HomesOf(n) # {}} = InFlight
  BY <1>2 DEF FlightInv
<1> QED  BY <1>4, <1>5 DEF NoInstructionLost, FlightInv

(***************************************************************************)
(* No instruction is lost or duplicated between trace and retirement, at   *)
(* every width, with every size of the buffer, and when the simulation is  *)
(* cut short.                                                              *)
(***************************************************************************)
THEOREM NoInstructionLostHolds == Spec => []NoInstructionLost
BY FlightHolds, FlightPlaces, PTL

-----------------------------------------------------------------------------
(* Between schedule and writeback. *)

Flags(e) == <<e.valid, e.exec, e.ready, e.inst.inst_num>>

\* rob_mark_exec and rob_mark_ready find the entry of an instruction in flight, and no other.
LEMMA FindsTheEntry ==
    ASSUME TypeInv, FlightInv, NEW i \in ValidIds, NEW r,
           \A j \in RobIds : NumAt(r.entries, j) = Num(j)
    PROVE  find_rob_inst(r, Num(i)) = i
<1>1. i \in RobIds /\ Entry(i).valid /\ DOMAIN rob.entries = RobIds
  BY DEF ValidIds, TypeInv, TypeOK, ROBType
<1>2. Num(i) \in InFlight
  BY <1>1 DEF InFlight, NumsIn, NumAt, Num, Entry
<1>3. ASSUME NEW j \in RobIds, Num(j) = Num(i) PROVE j = i
  <2>1. Entry(j).valid
    BY <1>2, <1>3 DEF FlightInv
  <2> QED  BY <1>1, <1>3, <2>1 DEF FlightInv, Single, NumAt, Num, Entry
<1>4. Holders(r, Num(i)) = {i}
  BY <1>1, <1>3 DEF Holders, NumAt
<1>5. i <= i
  BY <1>1, RobAssumption
<1> QED  BY <1>4, <1>5 DEF find_rob_inst

\* A wakeup changes no flag and no number.
LEMMA WokenFlags ==
    ASSUME TypeInv
    PROVE  /\ Woken \in ROBType
           /\ \A j \in RobIds : Flags(Woken.entries[j]) = Flags(rob.entries[j])
<1>1. rob \in ROBType /\ \A j \in RobIds : rob.entries[j] \in ROBEntry
  BY DEF TypeInv, TypeOK, ROBType
<1>2. Woken \in ROBType
  BY <1>1, WakeupType DEF Woken
<1>3. ASSUME NEW j \in RobIds, NEW tag
      PROVE  Flags(rob_wakeup(rob, tag).entries[j]) = Flags(rob.entries[j])
  <2> DEFINE wakes == [k \in Src |-> WaitsFor(rob, tag, j, k)]
  <2>1. rob_wakeup(rob, tag).entries[j]
            = [rob.entries[j] EXCEPT !.inst = WakeInst(rob.entries[j].inst, wakes)]
    BY <1>1 DEF rob_wakeup, WakeOperands, ROBType
  <2> HIDE DEF wakes
  <2>2. WakeInst(rob.entries[j].inst, wakes).inst_num = rob.entries[j].inst.inst_num
    BY <1>1 DEF WakeInst, ROBEntry, InstInfo
  <2> QED  BY <1>1, <2>1, <2>2 DEF Flags, ROBEntry
<1>4. CASE Woken = rob
  BY <1>2, <1>4
<1>5. CASE Woken = rob_wakeup(rob, EX_latch[lane].inst.dr_tag)
  BY <1>2, <1>3, <1>5
<1> QED  BY <1>4, <1>5 DEF Woken

LEMMA SetReadyFlags ==
    ASSUME NEW r \in ROBType, NEW i \in RobIds
    PROVE  \A j \in RobIds :
               /\ j # i => Flags(SetReady(r, i).entries[j]) = Flags(r.entries[j])
               /\ j = i => LET e == r.entries[j] IN
                           Flags(SetReady(r, i).entries[j])
                               = <<e.valid, e.exec, TRUE, e.inst.inst_num>>
BY DEF SetReady, ROBType, ROBEntry, Flags

LEMMA SetExecFlags ==
    ASSUME NEW r \in ROBType, NEW i \in RobIds
    PROVE  \A j \in RobIds :
               /\ j # i => Flags(SetExec(r, i).entries[j]) = Flags(r.entries[j])
               /\ j = i => LET e == r.entries[j] IN
                           Flags(SetExec(r, i).entries[j])
                               = <<e.valid, TRUE, e.ready, e.inst.inst_num>>
BY DEF SetExec, ROBType, ROBEntry, Flags

\* ExecutingNums and the conditions on entries depend on the flags alone.
Executing(i) == Entry(i).valid /\ Entry(i).exec /\ ~ Entry(i).ready

LEMMA ExecutingIs == ExecutingNums = {Num(i) : i \in {i \in RobIds : Executing(i)}}
BY DEF ExecutingNums, ValidIds, Executing

(***************************************************************************)
(* Steps that move no instruction between the latches of execution, and    *)
(* make none executing: they may only take one of the others away, or put  *)
(* one where execution does not know it.                                   *)
(***************************************************************************)
LEMMA ExecKept ==
    ASSUME ExecInv, UNCHANGED <<SC_latch, exeq, EX_latch>>,
           last_inst_num \in Nat, last_inst_num' \in Nat, last_inst_num' >= last_inst_num,
           \A l \in ExLanes : NumAt(EX_latch, l) \in Nat,
           \A n \in NumsIn(FE_latch') \cup NumsIn(ID_latch') :
               n \in NumsIn(FE_latch) \cup NumsIn(ID_latch) \/ n > last_inst_num,
           ExecutingNums' = ExecutingNums,
           \A i \in ValidIds' :
               \/ /\ i \in ValidIds /\ Num(i)' = Num(i)
                  /\ Entry(i)'.ready = Entry(i).ready /\ Entry(i)'.exec = Entry(i).exec
               \/ ~ Entry(i)'.ready /\ Num(i)' \in NumsIn(FE_latch) \cup NumsIn(ID_latch)
    PROVE  ExecInv'
<1>1. \A i \in ValidIds' : Entry(i)'.ready => Entry(i)'.exec
  BY DEF ExecInv
<1>2. ASSUME NEW l \in ExLanes
      PROVE  /\ NumAt(EX_latch, l) <= last_inst_num'
             /\ NumAt(EX_latch, l) \notin NumsIn(FE_latch') \cup NumsIn(ID_latch')
             /\ ~ EX_latch[l].valid =>
                   \A i \in ValidIds' : Num(i)' = NumAt(EX_latch, l) => Entry(i)'.ready
  <2>1. /\ NumAt(EX_latch, l) <= last_inst_num
        /\ NumAt(EX_latch, l) \notin NumsIn(FE_latch) \cup NumsIn(ID_latch)
        /\ ~ EX_latch[l].valid =>
              \A i \in ValidIds : Num(i) = NumAt(EX_latch, l) => Entry(i).ready
    BY DEF ExecInv
  <2> QED  BY <2>1
<1> QED  BY <1>1, <1>2 DEF ExecInv


LEMMA ExecutingKept ==
    ASSUME \A i \in RobIds : /\ Executing(i)' = Executing(i)
                             /\ Executing(i) => Num(i)' = Num(i)
    PROVE  ExecutingNums' = ExecutingNums
<1>1. ExecutingNums = {Num(i) : i \in {i \in RobIds : Executing(i)}}
  BY ExecutingIs
<1>2. ExecutingNums' = {Num(i)' : i \in {i \in RobIds : Executing(i)'}}
  BY DEF ExecutingNums, ValidIds, Executing
<1> QED  BY <1>1, <1>2

\* An instruction that executes is in the buffer, and nowhere before it.
LEMMA ExecutingInRob ==
    ASSUME TypeInv, FlightInv, NEW n \in ExecutingNums
    PROVE  /\ \E i \in ValidIds : Num(i) = n /\ Executing(i)
           /\ n \in Nat /\ n <= last_inst_num
           /\ n \notin NumsIn(FE_latch) \cup NumsIn(ID_latch)
<1>1. PICK i \in ValidIds : Num(i) = n /\ Executing(i)
  BY DEF ExecutingNums, Executing, ValidIds
<1>2. i \in RobIds /\ DOMAIN rob.entries = RobIds /\ Entry(i).valid /\ Num(i) \in Nat
  BY DEF ValidIds, TypeInv, TypeOK, ROBType, ROBEntry, InstInfo, Num, Entry
<1>3. n \in NumsIn(rob.entries)
  BY <1>1, <1>2 DEF NumsIn, NumAt, Num, Entry
<1> QED  BY <1>1, <1>2, <1>3 DEF FlightInv

\* Two valid entries hold different instructions.
LEMMA ValidUnique ==
    ASSUME TypeInv, FlightInv, NEW i \in ValidIds, NEW j \in ValidIds, Num(i) = Num(j)
    PROVE  i = j
<1>1. i \in RobIds /\ j \in RobIds /\ Entry(i).valid /\ Entry(j).valid
  BY DEF ValidIds
<1>2. DOMAIN rob.entries = RobIds
  BY DEF TypeInv, TypeOK, ROBType
<1> QED  BY <1>1, <1>2 DEF FlightInv, Single, NumAt, Num, Entry

LEMMA FindsAHolder ==
    ASSUME NEW r, NEW n, find_rob_inst(r, n) # -1
    PROVE  /\ find_rob_inst(r, n) \in RobIds
           /\ r.entries[find_rob_inst(r, n)].inst.inst_num = n
<1>1. Holders(r, n) \in SUBSET Nat /\ Holders(r, n) # {}
  BY RobAssumption DEF Holders, find_rob_inst
<1>2. find_rob_inst(r, n) \in Holders(r, n)
  BY <1>1, FirstExists DEF find_rob_inst
<1> QED  BY <1>2 DEF Holders

LEMMA NumsAreNat ==
    ASSUME TypeInv
    PROVE  /\ DOMAIN SC_latch = Lanes /\ DOMAIN EX_latch = ExLanes /\ DOMAIN exeq = ExeqSlots
           /\ \A l \in ExLanes : NumAt(EX_latch, l) \in Nat
           /\ \A i \in RobIds : Num(i) \in Nat
           /\ last_inst_num \in Nat
<1>1. \A l \in ExLanes : EX_latch[l] \in Latch
  BY DEF TypeInv, TypeOK
<1>2. \A l \in ExLanes : NumAt(EX_latch, l) \in Nat
  BY <1>1 DEF NumAt, Latch, InstInfo
<1>3. \A i \in RobIds : Num(i) \in Nat
  BY DEF TypeInv, TypeOK, ROBType, ROBEntry, InstInfo, Num, Entry
<1> QED  BY <1>2, <1>3 DEF TypeInv, TypeOK, last_inst_num, EXEQType

LEMMA CommitExec ==
    ASSUME TypeInv, TypeInv', FlightInv, ExecInv, CommitInst
    PROVE  ExecInv'
<1> DEFINE h == rob.head_ptr
<1>1. /\ h \in RobIds /\ rob.entries[h].valid /\ rob.entries[h].ready
      /\ ~ rob'.entries[h].valid
      /\ \A i \in RobIds \ {h} : rob'.entries[i] = rob.entries[i]
  <2>1. h \in RobIds /\ rob \in ROBType
    BY DEF TypeInv, TypeOK, ROBType
  <2>2. rob' = rob_remove_head(rob) /\ rob.entries[h].valid /\ rob.entries[h].ready
    BY DEF CommitInst, rob_check_head, rob_check_ready
  <2> QED  BY <2>1, <2>2 DEF rob_remove_head, ROBType, ROBEntry
<1>2. UNCHANGED <<FE_latch, ID_latch, fetched, SC_latch, EX_latch, exeq>>
  BY DEF CommitInst, feVars, schedVars
<1>3. ExecutingNums' = ExecutingNums
  BY <1>1, ExecutingKept DEF Executing, Entry, Num
<1>4. \A i \in ValidIds' : /\ i \in ValidIds /\ Num(i)' = Num(i)
                           /\ Entry(i)'.ready = Entry(i).ready
                           /\ Entry(i)'.exec = Entry(i).exec
  BY <1>1 DEF ValidIds, Num, Entry
<1> QED  BY <1>2, <1>3, <1>4, NumsAreNat, ExecKept DEF last_inst_num

LEMMA IssueExec ==
    ASSUME TypeInv, TypeInv', Window(rob), FlightInv, ExecInv, Issue
    PROVE  ExecInv'
<1> DEFINE inst == Rename(IssueInst)
           t == rob.tail_ptr
           n == NumAt(ID_latch, IssueLane)
<1>1. IssueLane \in Lanes /\ t \in RobIds /\ rob \in ROBType /\ DOMAIN ID_latch = Lanes
      /\ ID_latch \in [Lanes -> Latch] /\ ID_latch[IssueLane].valid
  BY DEF Issue, CanIssue, TypeInv, TypeOK, LaneInRange, ROBType, IssueLane
<1>2. inst.inst_num = n /\ IssueInst \in InstInfo
  BY <1>1 DEF Rename, IssueInst, NumAt, Latch, InstInfo
<1>3. ~ rob.entries[t].valid
  BY <1>1, TailIsFree DEF Issue, CanIssue
<1>4. rob' = rob_insert(rob, inst)
  BY DEF Issue
<1> HIDE DEF inst, n
<1>5. /\ \A i \in RobIds \ {t} : rob'.entries[i] = rob.entries[i]
      /\ ~ rob'.entries[t].exec /\ ~ rob'.entries[t].ready /\ rob'.entries[t].inst = inst
  BY <1>1, <1>4 DEF rob_insert, ROBType
<1>6. /\ UNCHANGED <<FE_latch, fetched, SC_latch, EX_latch, exeq>>
      /\ ID_latch' = [ID_latch EXCEPT ![IssueLane].valid = FALSE]
  BY DEF Issue, issueFrame, feVars, schedVars
<1>7. n \in NumsIn(ID_latch) /\ NumsIn(ID_latch') \subseteq NumsIn(ID_latch)
  <2>1. \A l \in Lanes : /\ NumAt(ID_latch', l) = NumAt(ID_latch, l)
                         /\ ID_latch'[l].valid => ID_latch[l].valid
    BY <1>1, <1>6 DEF NumAt, Latch
  <2>2. DOMAIN ID_latch' = Lanes
    BY <1>1, <1>6
  <2> QED  BY <1>1, <2>1, <2>2 DEF NumsIn, n
<1>8. ExecutingNums' = ExecutingNums
  BY <1>3, <1>5, ExecutingKept DEF Executing, Entry, Num
<1>9. \A i \in ValidIds' :
          \/ /\ i \in ValidIds /\ Num(i)' = Num(i)
             /\ Entry(i)'.ready = Entry(i).ready /\ Entry(i)'.exec = Entry(i).exec
          \/ ~ Entry(i)'.ready /\ Num(i)' \in NumsIn(FE_latch) \cup NumsIn(ID_latch)
  BY <1>2, <1>5, <1>7 DEF ValidIds, Num, Entry
<1>10. UNCHANGED last_inst_num /\ last_inst_num >= last_inst_num
  BY <1>6, NumsAreNat DEF last_inst_num
<1>11. NumsIn(FE_latch') \cup NumsIn(ID_latch') \subseteq NumsIn(FE_latch) \cup NumsIn(ID_latch)
  BY <1>6, <1>7
<1> QED  BY <1>6, <1>8, <1>9, <1>10, <1>11, NumsAreNat, ExecKept

LEMMA DecodeExec ==
    ASSUME TypeInv, TypeInv', FlightInv, ExecInv, Decode
    PROVE  ExecInv'
<1>1. PICK j \in NextDecoded : /\ ID_latch' = [ID_latch EXCEPT ![lane] = FE_latch[j]]
                               /\ FE_latch' = [FE_latch EXCEPT ![j].valid = FALSE]
  BY DEF Decode
<1>2. /\ j \in Lanes /\ FE_latch[j].valid
      /\ ID_latch \in [Lanes -> Latch] /\ FE_latch \in [Lanes -> Latch]
  BY DEF NextDecoded, TypeInv, TypeOK
<1>3. /\ \A k \in Lanes : /\ NumAt(FE_latch', k) = NumAt(FE_latch, k)
                          /\ FE_latch'[k].valid => FE_latch[k].valid
      /\ \A k \in Lanes : ID_latch'[k] = ID_latch[k] \/ ID_latch'[k] = FE_latch[j]
      /\ DOMAIN FE_latch = Lanes /\ DOMAIN FE_latch' = Lanes
      /\ DOMAIN ID_latch = Lanes /\ DOMAIN ID_latch' = Lanes
  BY <1>1, <1>2 DEF Latch, NumAt
<1>4. NumsIn(FE_latch') \cup NumsIn(ID_latch') \subseteq NumsIn(FE_latch) \cup NumsIn(ID_latch)
  BY <1>2, <1>3 DEF NumsIn, NumAt
<1>5. UNCHANGED <<rob, fetched, SC_latch, EX_latch, exeq>>
  BY DEF Decode, decodeFrame, schedVars
<1>6. ExecutingNums' = ExecutingNums
  BY <1>5 DEF ExecutingNums, ValidIds, Num, Entry
<1>7. \A i \in ValidIds' : /\ i \in ValidIds /\ Num(i)' = Num(i)
                           /\ Entry(i)'.ready = Entry(i).ready
                           /\ Entry(i)'.exec = Entry(i).exec
  BY <1>5 DEF ValidIds, Num, Entry
<1> QED  BY <1>4, <1>5, <1>6, <1>7, NumsAreNat, ExecKept DEF last_inst_num

LEMMA FetchExec ==
    ASSUME TypeInv, TypeInv', FlightInv, ExecInv, FetchInst
    PROVE  ExecInv'
<1> DEFINE n == last_inst_num + 1
<1>1. PICK rec \in TraceRecords :
          /\ fetched' = Append(fetched, rec)
          /\ FE_latch' = [FE_latch EXCEPT ![lane] = Full(NewInst(n, rec))]
  BY DEF FetchInst
<1>2. FE_latch \in [Lanes -> Latch] /\ fetched \in Seq(TraceRecords) /\ last_inst_num \in Nat
  BY DEF TypeInv, TypeOK, last_inst_num
<1>3. last_inst_num' = n
  BY <1>1, <1>2 DEF last_inst_num
<1>4. /\ \A k \in Lanes : \/ FE_latch'[k] = FE_latch[k]
                          \/ NumAt(FE_latch', k) = n
      /\ DOMAIN FE_latch = Lanes /\ DOMAIN FE_latch' = Lanes
  BY <1>1, <1>2 DEF NumAt, Full, NewInst
<1>5. UNCHANGED <<rob, ID_latch, SC_latch, EX_latch, exeq>>
  BY DEF FetchInst, fetchFrame, schedVars
<1> HIDE DEF n
<1>6. \A m \in NumsIn(FE_latch') \cup NumsIn(ID_latch') :
          m \in NumsIn(FE_latch) \cup NumsIn(ID_latch) \/ m = n
  BY <1>4, <1>5 DEF NumsIn, NumAt
<1>7. ExecutingNums' = ExecutingNums
  BY <1>5 DEF ExecutingNums, ValidIds, Num, Entry
<1>8. \A i \in ValidIds' : /\ i \in ValidIds /\ Num(i)' = Num(i)
                           /\ Entry(i)'.ready = Entry(i).ready
                           /\ Entry(i)'.exec = Entry(i).exec
  BY <1>5 DEF ValidIds, Num, Entry
<1>9. n > last_inst_num /\ n \in Nat /\ n >= last_inst_num
  BY <1>2 DEF n
<1> QED  BY <1>3, <1>5, <1>6, <1>7, <1>8, <1>9, NumsAreNat, ExecKept



LEMMA ScheduleExec ==
    ASSUME TypeInv, TypeInv', FlightInv, ExecInv, ScheduleInst
    PROVE  ExecInv'
<1>1. PICK i \in Schedulable :
          /\ rob' = rob_mark_exec(rob, rob.entries[i].inst)
          /\ SC_latch' = [SC_latch EXCEPT ![lane] = Full(rob.entries[i].inst)]
  BY DEF ScheduleInst
<1> DEFINE n == Num(i)
<1>2. i \in ValidIds /\ i \in RobIds /\ rob \in ROBType /\ Entry(i).valid /\ ~ Entry(i).exec
  BY DEF Schedulable, Oldest, ReadyToExec, Waiting, ValidIds, Entry, TypeInv, TypeOK
<1>3. ~ Entry(i).ready
  BY <1>2 DEF ExecInv
<1>4. rob' = SetExec(rob, i)
  BY <1>1, <1>2, FindsTheEntry DEF rob_mark_exec, NumAt, Num, Entry
<1>5. \A j \in RobIds : /\ Entry(j)'.valid = Entry(j).valid
                        /\ Entry(j)'.ready = Entry(j).ready
                        /\ Entry(j)'.exec = (Entry(j).exec \/ j = i)
                        /\ Num(j)' = Num(j)
  <2>1. \A j \in RobIds : rob.entries[j] \in ROBEntry
    BY <1>2 DEF ROBType
  <2> SUFFICES ASSUME NEW j \in RobIds
               PROVE  /\ Entry(j)'.valid = Entry(j).valid
                      /\ Entry(j)'.ready = Entry(j).ready
                      /\ Entry(j)'.exec = (Entry(j).exec \/ j = i)
                      /\ Num(j)' = Num(j)
    OBVIOUS
  <2>2. CASE j = i
    <3>1. Flags(rob'.entries[j])
             = <<rob.entries[j].valid, TRUE, rob.entries[j].ready, rob.entries[j].inst.inst_num>>
      BY <1>2, <1>4, <2>2, SetExecFlags
    <3> QED  BY <2>1, <2>2, <3>1 DEF Flags, Entry, Num, ROBEntry
  <2>3. CASE j # i
    <3>1. Flags(rob'.entries[j]) = Flags(rob.entries[j])
      BY <1>2, <1>4, <2>3, SetExecFlags
    <3> QED  BY <2>1, <2>3, <3>1 DEF Flags, Entry, Num, ROBEntry
  <2> QED  BY <2>2, <2>3
<1>6. n \notin ExecutingNums
  <2>1. ASSUME NEW j \in ValidIds, Num(j) = n, Executing(j) PROVE FALSE
    BY <1>2, <2>1, ValidUnique DEF Executing
  <2> QED  BY <2>1, ExecutingInRob
<1>7. ExecutingNums' = ExecutingNums \cup {n}
  <2>1. ExecutingNums' = {Num(j)' : j \in {j \in RobIds : Executing(j)'}}
    BY DEF ExecutingNums, ValidIds, Executing
  <2>2. \A j \in RobIds : Num(j)' = Num(j) /\ (Executing(j)' <=> Executing(j) \/ j = i)
    BY <1>2, <1>3, <1>5 DEF Executing
  <2> QED  BY <1>2, <2>1, <2>2, ExecutingIs
<1>8. /\ lane \in Lanes /\ ~ SC_latch[lane].valid /\ SC_latch \in [Lanes -> Latch]
      /\ UNCHANGED <<FE_latch, ID_latch, fetched, EX_latch, exeq>>
  BY DEF ScheduleInst, TypeInv, TypeOK, LaneInRange, schedFrame, feVars
<1>9. /\ DOMAIN SC_latch = Lanes /\ DOMAIN SC_latch' = Lanes
      /\ SC_latch'[lane].valid /\ NumAt(SC_latch', lane) = n
      /\ \A k \in Lanes \ {lane} : SC_latch'[k] = SC_latch[k]
  BY <1>1, <1>8 DEF Full, NumAt, Num, Entry
<1> HIDE DEF n
<1>10. Single(SC_latch') /\ NumsIn(SC_latch') = NumsIn(SC_latch) \cup {n}
  <2>1. n \notin NumsIn(SC_latch)
    BY <1>6 DEF ExecInv
  <2> QED  BY <1>8, <1>9, <2>1, Gained DEF ExecInv, SameAt, NumAt
<1>11. n \notin NumsIn(exeq) \cup NumsIn(EX_latch)
  BY <1>6 DEF ExecInv
<1>12. \A j \in ValidIds' : j \in ValidIds
  BY <1>5 DEF ValidIds
<1>13. \A l \in ExLanes : ~ EX_latch[l].valid =>
           \A j \in ValidIds' : Num(j)' = NumAt(EX_latch, l) => Entry(j)'.ready
  BY <1>5, <1>12 DEF ExecInv, ValidIds
<1>14. \A j \in ValidIds' : Entry(j)'.ready => Entry(j)'.exec
  BY <1>5, <1>12 DEF ExecInv, ValidIds
<1> QED
  BY <1>7, <1>8, <1>10, <1>11, <1>13, <1>14 DEF ExecInv, last_inst_num

\* Writeback of an instruction marks it; of a latch that is not valid, at most one already
\* marked, or an entry that is not valid.
LEMMA WritebackExec ==
    ASSUME TypeInv, TypeInv', FlightInv, ExecInv, WritebackLane
    PROVE  ExecInv'
<1> DEFINE n == NumAt(EX_latch, lane)
           f == find_rob_inst(rob, n)
<1>1. /\ lane \in ExLanes /\ EX_latch \in [ExLanes -> Latch] /\ rob \in ROBType
      /\ EX_latch' = [EX_latch EXCEPT ![lane].valid = FALSE]
      /\ UNCHANGED <<FE_latch, ID_latch, SC_latch, exeq, fetched>>
  BY DEF WritebackLane, TypeInv, TypeOK, LaneInRange, feVars, schedVars
<1>2. /\ DOMAIN EX_latch = ExLanes /\ DOMAIN EX_latch' = ExLanes
      /\ ~ EX_latch'[lane].valid
      /\ \A l \in ExLanes : NumAt(EX_latch', l) = NumAt(EX_latch, l)
      /\ \A l \in ExLanes \ {lane} : EX_latch'[l] = EX_latch[l]
  BY <1>1 DEF Latch, NumAt
<1>3. /\ Woken \in ROBType
      /\ \A j \in RobIds : Flags(Woken.entries[j]) = Flags(rob.entries[j])
  BY WokenFlags
<1>4. \A j \in RobIds : NumAt(Woken.entries, j) = Num(j)
  BY <1>3 DEF Flags, NumAt, Num, Entry
<1>5. \A j \in RobIds : rob.entries[j] \in ROBEntry /\ Woken.entries[j] \in ROBEntry
  BY <1>1, <1>3 DEF ROBType
<1>6. find_rob_inst(Woken, n) = f
  <2>1. Holders(Woken, n) = Holders(rob, n)
    BY <1>4 DEF Holders, NumAt, Num, Entry
  <2> QED  BY <2>1 DEF find_rob_inst
<1>7. /\ f # -1 => rob' = SetReady(Woken, f)
      /\ f = -1 => rob' = Woken
  BY <1>6 DEF WritebackLane, rob_mark_ready, NumAt
<1> HIDE DEF n, f
<1>8. f # -1 => f \in RobIds /\ Num(f) = n
  BY FindsAHolder DEF f, Num, Entry
<1>9. \A j \in RobIds : /\ Entry(j)'.valid = Entry(j).valid
                        /\ Entry(j)'.ready = (Entry(j).ready \/ j = f)
                        /\ Entry(j)'.exec = Entry(j).exec
                        /\ Num(j)' = Num(j)
  <2>1. CASE f = -1
    <3>1. \A j \in RobIds : j # -1
      BY RobAssumption
    <3> QED  BY <1>3, <1>5, <1>7, <2>1, <3>1 DEF Flags, Entry, Num, ROBEntry
  <2>2. CASE f # -1
    <3> SUFFICES ASSUME NEW j \in RobIds
                 PROVE  /\ Entry(j)'.valid = Entry(j).valid
                        /\ Entry(j)'.ready = (Entry(j).ready \/ j = f)
                        /\ Entry(j)'.exec = Entry(j).exec
                        /\ Num(j)' = Num(j)
      OBVIOUS
    <3>1. Flags(Woken.entries[j]) = Flags(rob.entries[j])
      BY <1>3
    <3>2. CASE j = f
      <4>1. Flags(rob'.entries[j])
               = <<Woken.entries[j].valid, Woken.entries[j].exec, TRUE,
                   Woken.entries[j].inst.inst_num>>
        BY <1>3, <1>7, <1>8, <2>2, <3>2, SetReadyFlags, ZenonT(60)
      <4> QED  BY <1>5, <3>1, <3>2, <4>1 DEF Flags, Entry, Num, ROBEntry
    <3>3. CASE j # f
      <4>1. Flags(rob'.entries[j]) = Flags(Woken.entries[j])
        BY <1>3, <1>7, <1>8, <2>2, <3>3, SetReadyFlags
      <4> QED  BY <1>5, <3>1, <3>3, <4>1 DEF Flags, Entry, Num, ROBEntry
    <3> QED  BY <3>2, <3>3
  <2> QED  BY <2>1, <2>2
<1>10. ValidIds' = ValidIds
  BY <1>9 DEF ValidIds
<1>11. \A j \in ValidIds : j \in RobIds
  BY DEF ValidIds
<1>12. CASE EX_latch[lane].valid
  <2>1. /\ Single(EX_latch') /\ n \in NumsIn(EX_latch)
        /\ NumsIn(EX_latch') = NumsIn(EX_latch) \ {n}
    <3>1. lane \in DOMAIN EX_latch /\ DOMAIN EX_latch' = DOMAIN EX_latch /\ Single(EX_latch)
          /\ \A k \in DOMAIN EX_latch \ {lane} : SameAt(EX_latch, EX_latch', k)
      BY <1>1, <1>2 DEF ExecInv, SameAt, NumAt
    <3> QED  BY <1>2, <1>12, <3>1, Lost DEF n
  <2>2. PICK i \in ValidIds : Num(i) = n /\ Executing(i)
    <3>1. n \in ExecutingNums
      BY <2>1 DEF ExecInv
    <3> QED  BY <3>1, ExecutingInRob
  <2>3. f = i
    BY <2>2, FindsTheEntry DEF f, NumAt, Num, Entry
  <2>4. ExecutingNums' = ExecutingNums \ {n}
    <3>1. ExecutingNums' = {Num(j)' : j \in {j \in RobIds : Executing(j)'}}
      BY DEF ExecutingNums, ValidIds, Executing
    <3>2. \A j \in RobIds : /\ Num(j)' = Num(j)
                            /\ Executing(j)' <=> (Executing(j) /\ j # i)
      BY <1>9, <2>3 DEF Executing
    <3>3. \A j \in RobIds : Executing(j) => (Num(j) = n <=> j = i)
      <4>1. \A j \in RobIds : Executing(j) => j \in ValidIds
        BY DEF Executing, ValidIds
      <4> QED  BY <2>2, <4>1, ValidUnique
    <3> QED  BY <3>1, <3>2, <3>3, ExecutingIs
  <2>5. n \notin NumsIn(SC_latch) \cup NumsIn(exeq)
    BY <2>1 DEF ExecInv
  <2>6. \A j \in ValidIds' : Entry(j)'.ready => Entry(j)'.exec
    BY <1>9, <1>10, <1>11, <2>2, <2>3 DEF ExecInv, Executing
  <2>7. ASSUME NEW l \in ExLanes, ~ EX_latch'[l].valid,
               NEW j \in ValidIds', Num(j)' = NumAt(EX_latch', l)
        PROVE  Entry(j)'.ready
    <3>1. j \in ValidIds /\ j \in RobIds /\ Num(j) = NumAt(EX_latch, l)
      BY <1>2, <1>9, <1>10, <1>11, <2>7
    <3>2. CASE l = lane
      BY <1>9, <2>2, <2>3, <3>1, <3>2, ValidUnique DEF n
    <3>3. CASE l # lane
      <4>1. ~ EX_latch[l].valid
        BY <1>2, <2>7, <3>3
      <4>2. Entry(j).ready
        BY <3>1, <4>1 DEF ExecInv
      <4> QED  BY <1>9, <3>1, <4>2
    <3> QED  BY <3>2, <3>3
  <2> QED
    BY <1>1, <1>2, <2>1, <2>4, <2>5, <2>6, <2>7 DEF ExecInv, last_inst_num
<1>13. CASE ~ EX_latch[lane].valid
  <2>1. f \in ValidIds => Entry(f).ready
    BY <1>1, <1>8, <1>11, <1>13, RobAssumption DEF ExecInv, n
  <2>2. \A j \in RobIds : Executing(j)' = Executing(j) /\ Num(j)' = Num(j)
    BY <1>9, <2>1 DEF Executing, ValidIds
  <2>3. ExecutingNums' = ExecutingNums
    BY <2>2, ExecutingKept
  <2>4. \A j \in ValidIds : /\ Num(j)' = Num(j) /\ Entry(j)'.ready = Entry(j).ready
                            /\ Entry(j)'.exec = Entry(j).exec
    BY <1>5, <1>9, <1>11, <2>1 DEF Entry, ROBEntry
  <2>5. \A l \in ExLanes : SameAt(EX_latch, EX_latch', l)
    BY <1>1, <1>2, <1>13 DEF SameAt, NumAt, Latch
  <2>6. Single(EX_latch') /\ NumsIn(EX_latch') = NumsIn(EX_latch)
    BY <1>2, <2>5, Kept DEF ExecInv
  <2>7. \A l \in ExLanes : ~ EX_latch'[l].valid =>
            \A j \in ValidIds' : Num(j)' = NumAt(EX_latch', l) => Entry(j)'.ready
    BY <1>10, <2>4, <2>5 DEF ExecInv, SameAt
  <2>8. \A j \in ValidIds' : Entry(j)'.ready => Entry(j)'.exec
    BY <1>10, <2>4 DEF ExecInv
  <2> QED
    BY <1>1, <1>2, <2>3, <2>6, <2>7, <2>8 DEF ExecInv, last_inst_num
<1> QED  BY <1>12, <1>13



LEMMA LaneNumbers ==
    /\ \A l \in Lanes : l \in ExLanes
    /\ \A l \in ExLanes : l \in Nat /\ l >= l
<1>1. PIPE_WIDTH \in Nat /\ MAX_WRITEBACKS \in Nat /\ PIPE_WIDTH <= MAX_WRITEBACKS
  BY PipelineAssumption
<1> QED  BY <1>1 DEF Lanes, ExLanes

\* The three ways an instruction moves on inside execute leave the buffer alone.
LEMMA MovedExec ==
    ASSUME TypeInv, FlightInv, ExecInv,
           UNCHANGED <<rob, FE_latch, ID_latch, fetched>>,
           Single(SC_latch'), Single(exeq'), Single(EX_latch'),
           NumsIn(SC_latch') \cap NumsIn(exeq') = {},
           NumsIn(SC_latch') \cap NumsIn(EX_latch') = {},
           NumsIn(exeq') \cap NumsIn(EX_latch') = {},
           NumsIn(SC_latch') \cup NumsIn(exeq') \cup NumsIn(EX_latch')
              = NumsIn(SC_latch) \cup NumsIn(exeq) \cup NumsIn(EX_latch),
           \A l \in ExLanes :
               \/ EX_latch'[l] = EX_latch[l]
               \/ EX_latch'[l].valid /\ NumAt(EX_latch', l) \in ExecutingNums
    PROVE  ExecInv'
<1>1. /\ ValidIds' = ValidIds /\ ExecutingNums' = ExecutingNums
      /\ last_inst_num' = last_inst_num
      /\ \A j \in ValidIds : Num(j)' = Num(j) /\ Entry(j)' = Entry(j)
  BY DEF ValidIds, ExecutingNums, Num, Entry, last_inst_num
<1>2. ASSUME NEW l \in ExLanes
      PROVE  /\ NumAt(EX_latch', l) <= last_inst_num
             /\ NumAt(EX_latch', l) \notin NumsIn(FE_latch) \cup NumsIn(ID_latch)
             /\ ~ EX_latch'[l].valid =>
                   \A j \in ValidIds : Num(j) = NumAt(EX_latch', l) => Entry(j).ready
  <2>1. CASE EX_latch'[l] = EX_latch[l]
    BY <2>1 DEF ExecInv, NumAt
  <2>2. CASE EX_latch'[l].valid /\ NumAt(EX_latch', l) \in ExecutingNums
    BY <2>2, ExecutingInRob
  <2> QED  BY <2>1, <2>2
<1>3. \A j \in ValidIds : Entry(j).ready => Entry(j).exec
  BY DEF ExecInv
<1>4. NumsIn(SC_latch') \cup NumsIn(exeq') \cup NumsIn(EX_latch') = ExecutingNums
  BY DEF ExecInv
<1> QED  BY <1>1, <1>2, <1>3, <1>4 DEF ExecInv

\* Emptying a lane of SC takes its instruction out.
LEMMA ScLeaves ==
    ASSUME TypeInv, ExecInv, lane \in Lanes, SC_latch[lane].valid,
           SC_latch' = [SC_latch EXCEPT ![lane].valid = FALSE]
    PROVE  /\ Single(SC_latch') /\ NumAt(SC_latch, lane) \in NumsIn(SC_latch)
           /\ NumsIn(SC_latch') = NumsIn(SC_latch) \ {NumAt(SC_latch, lane)}
<1> DEFINE M == SC_latch'
<1>1. SC_latch \in [Lanes -> Latch]
  BY DEF TypeInv, TypeOK
<1>2. /\ lane \in DOMAIN SC_latch /\ DOMAIN M = DOMAIN SC_latch /\ Single(SC_latch)
      /\ ~ M[lane].valid /\ \A k \in Lanes \ {lane} : M[k] = SC_latch[k]
      /\ DOMAIN SC_latch = Lanes
  BY <1>1 DEF ExecInv, Latch
<1> HIDE DEF M
<1>3. \A k \in DOMAIN SC_latch \ {lane} : SameAt(SC_latch, M, k)
  BY <1>2 DEF SameAt, NumAt
<1>4. /\ Single(M) /\ NumAt(SC_latch, lane) \in NumsIn(SC_latch)
      /\ NumsIn(M) = NumsIn(SC_latch) \ {NumAt(SC_latch, lane)}
  BY <1>2, <1>3, Lost
<1> QED  BY <1>4 DEF M

LEMMA CopyExec ==
    ASSUME TypeInv, FlightInv, ExecInv, ExEmptyInv, ExeCopy
    PROVE  ExecInv'
<1> DEFINE n == NumAt(SC_latch, lane)
<1>1. /\ stage = "exe" /\ LOAD_EXE_CYCLES = 1 /\ SC_latch[lane].valid
      /\ EX_latch' = [EX_latch EXCEPT ![lane] = SC_latch[lane]]
      /\ SC_latch' = [SC_latch EXCEPT ![lane].valid = FALSE]
      /\ UNCHANGED <<rob, FE_latch, ID_latch, fetched, exeq>>
  BY DEF ExeCopy, exeFrame, feVars
<1>2. /\ lane \in Lanes /\ lane \in ExLanes
      /\ EX_latch \in [ExLanes -> Latch] /\ SC_latch \in [Lanes -> Latch]
  <2>1. lane \in Lanes
    BY <1>1 DEF TypeInv, LaneInRange
  <2>2. lane \in ExLanes
    BY <2>1, LaneNumbers
  <2> QED  BY <2>1, <2>2 DEF TypeInv, TypeOK
<1>3. ~ EX_latch[lane].valid
  <2>1. lane \in EmptyFrom
    BY <1>1, <1>2, LaneNumbers DEF EmptyFrom
  <2> QED  BY <2>1 DEF ExEmptyInv
<1>4. /\ Single(SC_latch') /\ n \in NumsIn(SC_latch)
      /\ NumsIn(SC_latch') = NumsIn(SC_latch) \ {n}
  BY <1>1, <1>2, ScLeaves
<1>5. /\ lane \in DOMAIN EX_latch /\ DOMAIN EX_latch' = DOMAIN EX_latch /\ Single(EX_latch)
      /\ EX_latch'[lane].valid /\ NumAt(EX_latch', lane) = n
      /\ \A k \in ExLanes \ {lane} : EX_latch'[k] = EX_latch[k]
      /\ DOMAIN EX_latch = ExLanes
  BY <1>1, <1>2 DEF ExecInv, NumAt
<1> HIDE DEF n
<1>6. Single(EX_latch') /\ NumsIn(EX_latch') = NumsIn(EX_latch) \cup {n}
  <2>1. /\ n \notin NumsIn(EX_latch)
        /\ \A k \in DOMAIN EX_latch \ {lane} : SameAt(EX_latch, EX_latch', k)
    BY <1>4, <1>5 DEF ExecInv, SameAt, NumAt
  <2> QED  BY <1>3, <1>5, <2>1, Gained
<1>7. n \in ExecutingNums /\ n \notin NumsIn(exeq)
  BY <1>4 DEF ExecInv
<1>8. \A l \in ExLanes : \/ EX_latch'[l] = EX_latch[l]
                         \/ EX_latch'[l].valid /\ NumAt(EX_latch', l) \in ExecutingNums
  BY <1>5, <1>7
<1>9. /\ Single(exeq') /\ NumsIn(SC_latch') \cap NumsIn(exeq') = {}
      /\ NumsIn(SC_latch') \cap NumsIn(EX_latch') = {}
      /\ NumsIn(exeq') \cap NumsIn(EX_latch') = {}
      /\ NumsIn(SC_latch') \cup NumsIn(exeq') \cup NumsIn(EX_latch')
            = NumsIn(SC_latch) \cup NumsIn(exeq) \cup NumsIn(EX_latch)
  BY <1>1, <1>4, <1>6, <1>7 DEF ExecInv
<1> QED  BY <1>1, <1>4, <1>6, <1>8, <1>9, MovedExec

LEMMA InsertExec ==
    ASSUME TypeInv, FlightInv, ExecInv, ExeInsert
    PROVE  ExecInv'
<1> DEFINE n == NumAt(SC_latch, lane)
           s == FirstSlot(FreeSlots(exeq))
<1>1. /\ stage = "exe" /\ SC_latch[lane].valid /\ ~ exeq_full(exeq)
      /\ exeq' = exeq_insert(exeq, SC_latch[lane].inst)
      /\ SC_latch' = [SC_latch EXCEPT ![lane].valid = FALSE]
      /\ UNCHANGED <<rob, FE_latch, ID_latch, fetched, EX_latch>>
  BY DEF ExeInsert, exeFrame, feVars
<1>2. /\ lane \in Lanes /\ SC_latch \in [Lanes -> Latch] /\ exeq \in EXEQType
      /\ SC_latch[lane].inst \in InstInfo
  BY <1>1 DEF TypeInv, TypeOK, LaneInRange, Latch
<1>3. /\ Single(SC_latch') /\ n \in NumsIn(SC_latch)
      /\ NumsIn(SC_latch') = NumsIn(SC_latch) \ {n}
  BY <1>1, <1>2, ScLeaves
<1>4. s \in FreeSlots(exeq) /\ s \in ExeqSlots /\ ~ exeq[s].valid
  <2>1. FreeSlots(exeq) \in SUBSET Nat /\ FreeSlots(exeq) \subseteq ExeqSlots
    BY ExeqAssumption DEF FreeSlots, ExeqSlots
  <2>2. s \in FreeSlots(exeq)
    BY <1>1, <2>1, FirstSlotInSet DEF exeq_full
  <2> QED  BY <2>2 DEF FreeSlots
<1> HIDE DEF s
<1>5. /\ DOMAIN exeq = ExeqSlots /\ DOMAIN exeq' = ExeqSlots
      /\ exeq'[s].valid /\ NumAt(exeq', s) = n
      /\ \A k \in ExeqSlots \ {s} : exeq'[k] = exeq[k]
  BY <1>1, <1>2, <1>4 DEF exeq_insert, EXEQType, NumAt, InstInfo, s
<1> HIDE DEF n
<1>6. Single(exeq') /\ NumsIn(exeq') = NumsIn(exeq) \cup {n}
  <2>1. /\ n \notin NumsIn(exeq) /\ Single(exeq)
        /\ \A k \in DOMAIN exeq \ {s} : SameAt(exeq, exeq', k)
    BY <1>3, <1>5 DEF ExecInv, SameAt, NumAt
  <2> QED  BY <1>4, <1>5, <2>1, Gained
<1>7. n \in ExecutingNums /\ n \notin NumsIn(EX_latch)
  BY <1>3 DEF ExecInv
<1>8. /\ Single(EX_latch') /\ NumsIn(SC_latch') \cap NumsIn(exeq') = {}
      /\ NumsIn(SC_latch') \cap NumsIn(EX_latch') = {}
      /\ NumsIn(exeq') \cap NumsIn(EX_latch') = {}
      /\ NumsIn(SC_latch') \cup NumsIn(exeq') \cup NumsIn(EX_latch')
            = NumsIn(SC_latch) \cup NumsIn(exeq) \cup NumsIn(EX_latch)
  BY <1>1, <1>3, <1>6, <1>7 DEF ExecInv
<1> QED  BY <1>1, <1>3, <1>6, <1>8, MovedExec

LEMMA CycleExec ==
    ASSUME TypeInv, FlightInv, ExecInv, ExeqCycle
    PROVE  ExecInv'
<1>1. /\ exeq' = exeq_cycle(exeq) /\ exeq \in EXEQType
      /\ UNCHANGED <<rob, FE_latch, ID_latch, fetched, EX_latch, SC_latch>>
  BY DEF ExeqCycle, exeFrame, feVars, TypeInv, TypeOK
<1>2. DOMAIN exeq' = ExeqSlots /\ DOMAIN exeq = ExeqSlots
  BY <1>1 DEF exeq_cycle, EXEQType
<1>3. ASSUME NEW k \in ExeqSlots PROVE SameAt(exeq, exeq', k)
  <2>1. exeq[k] \in [valid : BOOLEAN, inst : InstInfo]
    BY <1>1 DEF EXEQType
  <2>2. exeq'[k] = IF exeq[k].valid THEN [exeq[k] EXCEPT !.inst.exe_wait_cycles = @ - 1]
                   ELSE exeq[k]
    BY <1>1 DEF exeq_cycle
  <2> QED  BY <2>1, <2>2 DEF SameAt, NumAt, InstInfo
<1>4. Single(exeq') /\ NumsIn(exeq') = NumsIn(exeq)
  BY <1>2, <1>3, Kept DEF ExecInv
<1> QED  BY <1>1, <1>4, MovedExec DEF ExecInv

LEMMA TransferExec ==
    ASSUME TypeInv, FlightInv, ExecInv, ExEmptyInv, ExeTransfer
    PROVE  ExecInv'
<1> DEFINE s == FirstSlot(DoneSlots(exeq))
           n == NumAt(exeq, s)
<1>1. /\ stage = "exe_done" /\ exeq_check_done(exeq)
      /\ EX_latch' = [EX_latch EXCEPT ![lane] = Full(DoneInst(exeq))]
      /\ exeq' = exeq_remove(exeq)
      /\ UNCHANGED <<rob, FE_latch, ID_latch, fetched, SC_latch>>
  BY DEF ExeTransfer, exeFrame, feVars
<1>2. lane \in ExLanes /\ EX_latch \in [ExLanes -> Latch] /\ exeq \in EXEQType
  BY <1>1 DEF TypeInv, TypeOK, LaneInRange
<1>3. ~ EX_latch[lane].valid
  <2>1. lane \in EmptyFrom
    BY <1>1, <1>2, LaneNumbers DEF EmptyFrom
  <2> QED  BY <2>1 DEF ExEmptyInv
<1>4. s \in ExeqSlots /\ exeq[s].valid
  <2>1. DoneSlots(exeq) \in SUBSET Nat /\ DoneSlots(exeq) \subseteq ExeqSlots
    BY ExeqAssumption DEF DoneSlots, ExeqSlots
  <2>2. s \in DoneSlots(exeq)
    BY <1>1, <2>1, FirstSlotInSet DEF exeq_check_done
  <2> QED  BY <2>2 DEF DoneSlots
<1>5. DoneInst(exeq).inst_num = n
  BY DEF DoneInst, NumAt
<1> HIDE DEF s
<1>6. /\ DOMAIN exeq = ExeqSlots /\ DOMAIN exeq' = ExeqSlots /\ ~ exeq'[s].valid
      /\ \A k \in ExeqSlots \ {s} : exeq'[k] = exeq[k]
  BY <1>1, <1>2, <1>4 DEF exeq_remove, EXEQType, s
<1>7. /\ Single(exeq') /\ n \in NumsIn(exeq) /\ NumsIn(exeq') = NumsIn(exeq) \ {n}
  <2>1. Single(exeq) /\ \A k \in DOMAIN exeq \ {s} : SameAt(exeq, exeq', k)
    BY <1>6 DEF ExecInv, SameAt, NumAt
  <2> QED  BY <1>4, <1>6, <2>1, Lost
<1>8. /\ lane \in DOMAIN EX_latch /\ DOMAIN EX_latch' = DOMAIN EX_latch /\ Single(EX_latch)
      /\ EX_latch'[lane].valid /\ NumAt(EX_latch', lane) = n
      /\ \A k \in ExLanes \ {lane} : EX_latch'[k] = EX_latch[k]
      /\ DOMAIN EX_latch = ExLanes
  <2>1. EX_latch'[lane] = Full(DoneInst(exeq))
    BY <1>1, <1>2
  <2>2. EX_latch'[lane].valid /\ NumAt(EX_latch', lane) = n
    BY <1>5, <2>1 DEF NumAt, Full
  <2> QED  BY <1>1, <1>2, <2>2 DEF ExecInv
<1> HIDE DEF n
<1>9. Single(EX_latch') /\ NumsIn(EX_latch') = NumsIn(EX_latch) \cup {n}
  <2>1. /\ n \notin NumsIn(EX_latch)
        /\ \A k \in DOMAIN EX_latch \ {lane} : SameAt(EX_latch, EX_latch', k)
    BY <1>7, <1>8 DEF ExecInv, SameAt, NumAt
  <2> QED  BY <1>3, <1>8, <2>1, Gained
<1>10. n \in ExecutingNums /\ n \notin NumsIn(SC_latch)
  BY <1>7 DEF ExecInv
<1>11. \A l \in ExLanes : \/ EX_latch'[l] = EX_latch[l]
                          \/ EX_latch'[l].valid /\ NumAt(EX_latch', l) \in ExecutingNums
  BY <1>8, <1>10
<1>12. /\ Single(SC_latch') /\ NumsIn(SC_latch') \cap NumsIn(exeq') = {}
       /\ NumsIn(SC_latch') \cap NumsIn(EX_latch') = {}
       /\ NumsIn(exeq') \cap NumsIn(EX_latch') = {}
       /\ NumsIn(SC_latch') \cup NumsIn(exeq') \cup NumsIn(EX_latch')
             = NumsIn(SC_latch) \cup NumsIn(exeq) \cup NumsIn(EX_latch)
  BY <1>1, <1>7, <1>9, <1>10 DEF ExecInv
<1> QED  BY <1>1, <1>7, <1>9, <1>11, <1>12, MovedExec

LEMMA StepExec ==
    TypeInv /\ TypeInv' /\ Window(rob) /\ FlightInv /\ ExEmptyInv /\ ExecInv /\ [Next]_vars
       => ExecInv'
<1> SUFFICES ASSUME TypeInv, TypeInv', Window(rob), FlightInv, ExEmptyInv, ExecInv, [Next]_vars
             PROVE  ExecInv'
  OBVIOUS
<1>1. ASSUME UNCHANGED <<FE_latch, ID_latch, fetched, rob, SC_latch, EX_latch, exeq>>
      PROVE  ExecInv'
  BY <1>1 DEF ExecInv, ExecutingNums, ValidIds, Num, Entry, last_inst_num
<1>2. CASE UNCHANGED vars
  BY <1>1, <1>2 DEF vars
<1>3. CASE CommitNothing \/ ExeEmpty \/ ExeFull \/ ExeNoneLeft
  BY <1>1, <1>3 DEF CommitNothing, ExeEmpty, ExeFull, ExeNoneLeft, exeFrame, feVars, schedVars
<1>4. CASE ScheduleNothing \/ ScheduleOccupied \/ ScheduleReturn
  BY <1>1, <1>4 DEF ScheduleNothing, ScheduleOccupied, ScheduleReturn, schedFrame, feVars
<1>5. CASE IssueCompare \/ IssueNextPass \/ IssueNothing \/ IssueCrash
  BY <1>1, <1>5 DEF IssueCompare, IssueNextPass, IssueNothing, IssueCrash, sortFrame,
     issueFrame, feVars, schedVars
<1>6. CASE DecodeNothing \/ FetchEnd \/ FetchOccupied
  BY <1>1, <1>6 DEF DecodeNothing, decodeFrame, FetchEnd, FetchOccupied, fetchFrame, schedVars
<1> QED
  BY <1>2, <1>3, <1>4, <1>5, <1>6, CommitExec, WritebackExec, CopyExec, InsertExec, CycleExec,
     TransferExec, ScheduleExec, IssueExec, DecodeExec, FetchExec
     DEF Next, Step, Over, Commit, Writeback, Exe, Schedule, IssueStage, DecodeStage, FetchStage



LEMMA StepExEmpty == TypeInv /\ ExEmptyInv /\ [Next]_vars => ExEmptyInv'
<1> SUFFICES ASSUME TypeInv, ExEmptyInv, [Next]_vars, NEW l \in EmptyFrom'
             PROVE  ~ EX_latch'[l].valid
  BY DEF ExEmptyInv
<1> USE DEF Goto, Advance
<1>1. l \in ExLanes /\ l \in Nat /\ lane \in Nat /\ EX_latch \in [ExLanes -> Latch]
      /\ MAX_WRITEBACKS \in Nat /\ l < MAX_WRITEBACKS
  <2>1. l \in ExLanes /\ MAX_WRITEBACKS \in Nat
    BY PipelineAssumption DEF EmptyFrom
  <2> QED  BY <2>1 DEF TypeInv, TypeOK, ExLanes
<1>2. ASSUME EX_latch' = EX_latch, l \in EmptyFrom PROVE ~ EX_latch'[l].valid
  BY <1>2 DEF ExEmptyInv
<1>3. CASE UNCHANGED vars
  <2>1. l \in EmptyFrom
    BY <1>1, <1>3 DEF EmptyFrom, vars
  <2> QED  BY <1>2, <1>3, <2>1 DEF vars
<1>4. CASE Commit
  <2>1. (stage' = "commit" \/ (stage' = "writeback" /\ lane' = 0))
    BY <1>4 DEF Commit, CommitInst, CommitNothing, CommitDone
  <2> QED  BY <1>1, <2>1 DEF EmptyFrom
<1>5. CASE WritebackLane
  <2>1. /\ lane \in ExLanes /\ stage = "writeback"
        /\ EX_latch' = [EX_latch EXCEPT ![lane].valid = FALSE]
    BY <1>5 DEF WritebackLane, TypeInv, LaneInRange
  <2>2. CASE l = lane
    BY <1>1, <2>1, <2>2 DEF Latch
  <2>3. CASE l # lane
    <3>1. l < lane
      <4>1. CASE lane + 1 < MAX_WRITEBACKS
        <5>1. stage' = "writeback" /\ lane' = lane + 1
          BY <1>5, <2>1, <4>1 DEF WritebackLane
        <5> QED  BY <1>1, <2>3, <5>1 DEF EmptyFrom
      <4>2. CASE ~ (lane + 1 < MAX_WRITEBACKS)
        BY <1>1, <2>3, <4>2
      <4> QED  BY <4>1, <4>2
    <3>2. l \in EmptyFrom
      BY <1>1, <2>1, <3>1 DEF EmptyFrom
    <3>3. EX_latch'[l] = EX_latch[l]
      BY <1>1, <2>1, <2>3
    <3> QED  BY <3>2, <3>3 DEF ExEmptyInv
  <2> QED  BY <2>2, <2>3
<1>6. CASE ExeEmpty \/ ExeInsert
  <2>1. /\ EX_latch' = EX_latch /\ stage = "exe"
        /\ stage' # "writeback" /\ stage' # "exe_done"
        /\ stage' = "exe" => lane' = lane + 1
        /\ stage' = "exeq_cycle" => LOAD_EXE_CYCLES # 1
    BY <1>6 DEF ExeEmpty, ExeInsert, ExeDone, exeFrame
  <2>2. l \in EmptyFrom
    BY <1>1, <2>1 DEF EmptyFrom
  <2> QED  BY <1>2, <2>1, <2>2
<1>7. CASE ExeCopy
  <2>1. /\ EX_latch' = [EX_latch EXCEPT ![lane] = SC_latch[lane]]
        /\ stage = "exe" /\ LOAD_EXE_CYCLES = 1
        /\ stage' = "schedule" \/ (stage' = "exe" /\ lane' = lane + 1)
    BY <1>7 DEF ExeCopy, ExeDone
  <2>2. l \in EmptyFrom /\ l # lane
    BY <1>1, <2>1 DEF EmptyFrom
  <2> QED  BY <1>1, <2>1, <2>2 DEF ExEmptyInv
<1>8. CASE ExeqCycle
  <2>1. EX_latch' = EX_latch /\ stage = "exeq_cycle"
    BY <1>8 DEF ExeqCycle
  <2>2. l \in EmptyFrom
    BY <1>1, <2>1 DEF EmptyFrom
  <2> QED  BY <1>2, <2>1, <2>2
<1>9. CASE ExeTransfer
  <2>1. /\ EX_latch' = [EX_latch EXCEPT ![lane] = Full(DoneInst(exeq))]
        /\ stage = "exe_done"
        /\ stage' = "schedule" \/ (stage' = "exe_done" /\ lane' = lane + 1)
    BY <1>9 DEF ExeTransfer, TransferNext
  <2>2. l \in EmptyFrom /\ l # lane
    BY <1>1, <2>1 DEF EmptyFrom
  <2> QED  BY <1>1, <2>1, <2>2 DEF ExEmptyInv
<1>10. CASE ExeFull \/ ExeNoneLeft
  BY <1>10 DEF ExeFull, ExeNoneLeft, EmptyFrom
<1>11. CASE Schedule
  <2>1. stage' \in {"schedule", "sort"}
    BY <1>11 DEF Schedule, ScheduleInst, ScheduleNothing, ScheduleOccupied, ScheduleReturn,
       ScheduleNext, ScheduleEnds
  <2> QED  BY <2>1 DEF EmptyFrom
<1>12. CASE IssueStage
  <2>1. stage' \in {"sort", "issue", "decode", "crashed"}
    BY <1>12 DEF IssueStage, IssueCompare, IssueNextPass, Issue, IssueNothing, IssueCrash,
       IssueDone
  <2> QED  BY <2>1 DEF EmptyFrom
<1>13. CASE DecodeStage \/ FetchStage
  <2>1. stage' \in {"decode", "fetch", "halted", "commit"}
    BY <1>13 DEF DecodeStage, Decode, DecodeNothing, DecodeDone, FetchStage, FetchInst,
       FetchEnd, FetchOccupied, FetchDone
  <2> QED  BY <2>1 DEF EmptyFrom
<1> QED
  BY <1>3, <1>4, <1>5, <1>6, <1>7, <1>8, <1>9, <1>10, <1>11, <1>12, <1>13
     DEF Next, Step, Over, Writeback, Exe

LEMMA InitExec == Init => ExecInv /\ ExEmptyInv
<1> SUFFICES ASSUME Init PROVE ExecInv /\ ExEmptyInv
  OBVIOUS
<1>1. /\ DOMAIN SC_latch = Lanes /\ \A l \in Lanes : ~ SC_latch[l].valid
      /\ DOMAIN ID_latch = Lanes /\ \A l \in Lanes : ~ ID_latch[l].valid
      /\ DOMAIN FE_latch = Lanes /\ \A l \in Lanes : ~ FE_latch[l].valid
      /\ DOMAIN EX_latch = ExLanes /\ \A l \in ExLanes : ~ EX_latch[l].valid
      /\ DOMAIN exeq = ExeqSlots /\ \A l \in ExeqSlots : ~ exeq[l].valid
      /\ \A l \in ExLanes : NumAt(EX_latch, l) = 0
  BY DEF Init, EmptyLatch, exeq_init, NumAt, ZeroInst
<1>2. ValidIds = {} /\ last_inst_num = 0
  BY DEF Init, rob_init, ValidIds, Entry, last_inst_num
<1>3. /\ NumsIn(SC_latch) = {} /\ NumsIn(exeq) = {} /\ NumsIn(EX_latch) = {}
      /\ NumsIn(FE_latch) = {} /\ NumsIn(ID_latch) = {} /\ ExecutingNums = {}
  BY <1>1, <1>2 DEF NumsIn, ExecutingNums
<1>4. Single(SC_latch) /\ Single(exeq) /\ Single(EX_latch)
  BY <1>1 DEF Single
<1>5. ExEmptyInv
  BY <1>1 DEF ExEmptyInv, EmptyFrom
<1> QED  BY <1>1, <1>2, <1>3, <1>4, <1>5 DEF ExecInv

\* The invariant with what it rests on.
LEMMA ExecHolds == Spec => [](TypeInv /\ FlightInv /\ ExecInv)
<1>1. Init => ExecInv /\ ExEmptyInv
  BY InitExec
<1>2. TypeInv /\ TypeInv' /\ Window(rob) /\ FlightInv /\ ExEmptyInv /\ ExecInv /\ [Next]_vars
         => ExecInv' /\ ExEmptyInv'
  BY StepExec, StepExEmpty
<1> QED  BY <1>1, <1>2, FlightHolds, PTL DEF Spec

LEMMA ExecPlaces ==
    ASSUME ExecInv
    PROVE  ExecutedOnce
<1>1. \A n : /\ LatchHomes(SC_latch, "SC", n) # {} <=> n \in NumsIn(SC_latch)
             /\ LatchHomes(exeq, "EXEQ", n) # {} <=> n \in NumsIn(exeq)
             /\ LatchHomes(EX_latch, "EX", n) # {} <=> n \in NumsIn(EX_latch)
  BY DEF LatchHomes, NumsIn, NumAt
<1>2. \A n : UnitsOf(n) # {} <=> n \in ExecutingNums
  BY <1>1 DEF UnitsOf, ExecInv
<1>3. ASSUME NEW n, NEW g \in UnitsOf(n), NEW h \in UnitsOf(n) PROVE g = h
  <2>1. ASSUME NEW latch, Single(latch), NEW name,
               g \in LatchHomes(latch, name, n), h \in LatchHomes(latch, name, n)
        PROVE  g = h
    BY <2>1 DEF LatchHomes, Single, NumAt
  <2> QED  BY <1>1, <1>3, <2>1 DEF UnitsOf, ExecInv
<1>4. ASSUME NEW n
      PROVE  Cardinality(UnitsOf(n)) = IF n \in ExecutingNums THEN 1 ELSE 0
  <2>1. CASE UnitsOf(n) = {}
    BY <1>2, <2>1, FS_EmptySet
  <2>2. CASE UnitsOf(n) # {}
    <3>1. PICK h : h \in UnitsOf(n)
      BY <2>2
    <3>2. \A g \in UnitsOf(n) : g = h
      BY <1>3, <3>1
    <3>3. UnitsOf(n) = {h}
      BY <3>1, <3>2
    <3> QED  BY <1>2, <2>2, <3>3, FS_Singleton
  <2> QED  BY <2>1, <2>2
<1> QED  BY <1>4 DEF ExecutedOnce

(***************************************************************************)
(* An instruction that the scheduler has picked is in exactly one place    *)
(* until it is written back, and nothing else is there, for every width,   *)
(* latency and policy: no instruction is executed twice or dropped, and no *)
(* EX latch is filled before writeback has emptied it.                     *)
(***************************************************************************)
THEOREM ExecutedOnceHolds == Spec => []ExecutedOnce
BY ExecHolds, ExecPlaces, PTL



-----------------------------------------------------------------------------
(***************************************************************************)
(* Renaming.  Register OobReg is the one whose alias writeback overwrites, *)
(* so what can be said holds for the other registers, and for OobReg too   *)
(* when no record of the trace writes it.                                  *)
(***************************************************************************)
Dests == {rec.dest_reg : rec \in TraceRecords}
Trusted(r) == r = OobReg => OobReg \notin Dests

\* An instruction that executes is a copy of what its entry holds.
CopiesOf(latch) ==
    \A l \in DOMAIN latch, i \in ValidIds :
        latch[l].valid /\ NumAt(latch, l) = Num(i) =>
            /\ latch[l].inst.dest_reg = Entry(i).inst.dest_reg
            /\ latch[l].inst.dr_tag = Entry(i).inst.dr_tag

\* The tag of a writer is the entry it is in.
CopyInv ==
    /\ \A l \in Lanes : /\ FE_latch[l].valid => FE_latch[l].inst.dest_reg \in Dests
                        /\ ID_latch[l].valid => ID_latch[l].inst.dest_reg \in Dests
    /\ \A i \in ValidIds : /\ Entry(i).inst.dest_reg \in Dests
                           /\ Entry(i).inst.dest_reg # NoReg => Entry(i).inst.dr_tag = i
    /\ CopiesOf(SC_latch) /\ CopiesOf(exeq) /\ CopiesOf(EX_latch)

\* The alias of register r names the youngest of its writers, if it has any.
AliasOf(r) ==
    /\ rat[r].valid = (WritersOf(r) # {})
    /\ rat[r].valid =>
        /\ rat[r].prf_id \in WritersOf(r)
        /\ \A i \in WritersOf(r) : Age(rob, i) <= Age(rob, rat[r].prf_id)
RatInv == \A r \in ArfRegs : Trusted(r) => AliasOf(r)

\* The writer that operand k of entry i waits for, if its result is still to come.
Pending(i, k) == {j \in PendingWriters(i, k) :
                      /\ ~ Entry(j).ready
                      /\ \A l \in PendingWriters(i, k) : Age(rob, l) <= Age(rob, j)}
WaitsRight(i, k) == Pending(i, k) = IF Entry(i).inst.src_ready[k]
                                    THEN {} ELSE {Entry(i).inst.src_tag[k]}
OperandInv == \A i \in ValidIds, k \in Src :
                  Trusted(Entry(i).inst.src_reg[k]) => WaitsRight(i, k)

\* What no step changes of an instruction in the buffer.
SameInst(a, b) == /\ a.inst_num = b.inst_num /\ a.dest_reg = b.dest_reg
                  /\ a.dr_tag = b.dr_tag /\ a.src_reg = b.src_reg /\ a.src_tag = b.src_tag

LEMMA MarkKeepsInst ==
    ASSUME NEW r \in ROBType, NEW i, NEW q, q = SetExec(r, i) \/ q = SetReady(r, i)
    PROVE  /\ q.head_ptr = r.head_ptr
           /\ \A j \in RobIds : /\ q.entries[j].valid = r.entries[j].valid
                                /\ q.entries[j].inst = r.entries[j].inst
<1>1. CASE q = SetExec(r, i)
  BY <1>1 DEF SetExec, ROBType, ROBEntry
<1>2. CASE q = SetReady(r, i)
  BY <1>2 DEF SetReady, ROBType, ROBEntry
<1> QED  BY <1>1, <1>2

\* The scheduler marks one entry and copies its instruction.
LEMMA ScheduleRob ==
    ASSUME TypeInv, FlightInv, ScheduleInst
    PROVE  \E i \in ValidIds :
               /\ SC_latch' = [SC_latch EXCEPT ![lane] = Full(Entry(i).inst)]
               /\ rob'.head_ptr = rob.head_ptr
               /\ \A j \in RobIds : /\ Entry(j)'.valid = Entry(j).valid
                                    /\ Entry(j)'.ready = Entry(j).ready
                                    /\ Entry(j)'.inst = Entry(j).inst
<1>1. PICK i \in Schedulable :
          /\ rob' = rob_mark_exec(rob, rob.entries[i].inst)
          /\ SC_latch' = [SC_latch EXCEPT ![lane] = Full(rob.entries[i].inst)]
  BY DEF ScheduleInst
<1>2. i \in ValidIds /\ i \in RobIds /\ rob \in ROBType
  BY DEF Schedulable, Oldest, ReadyToExec, Waiting, ValidIds, Entry, TypeInv, TypeOK
<1>3. rob' = SetExec(rob, i)
  BY <1>1, <1>2, FindsTheEntry DEF rob_mark_exec, NumAt, Num, Entry
<1>4. \A j \in RobIds : rob'.entries[j].ready = rob.entries[j].ready
  BY <1>2, <1>3 DEF SetExec, ROBType, ROBEntry
<1>5. /\ rob'.head_ptr = rob.head_ptr
      /\ \A j \in RobIds : /\ Entry(j)'.valid = Entry(j).valid
                           /\ Entry(j)'.ready = Entry(j).ready
                           /\ Entry(j)'.inst = Entry(j).inst
  <2>1. /\ rob'.head_ptr = rob.head_ptr
        /\ \A j \in RobIds : /\ rob'.entries[j].valid = rob.entries[j].valid
                             /\ rob'.entries[j].inst = rob.entries[j].inst
    BY <1>2, <1>3, MarkKeepsInst, ZenonT(60)
  <2> QED  BY <1>4, <2>1 DEF Entry
<1>6. SC_latch' = [SC_latch EXCEPT ![lane] = Full(Entry(i).inst)]
  BY <1>1 DEF Entry
<1> QED  BY <1>2, <1>5, <1>6

\* Writeback marks entry f, and readies the operands that wait for the latch's tag.
WrittenBack == find_rob_inst(rob, NumAt(EX_latch, lane))
Wakes(j, k) == /\ EX_latch[lane].valid /\ EX_latch[lane].inst.dest_reg # NoReg
               /\ WaitsFor(rob, EX_latch[lane].inst.dr_tag, j, k)

LEMMA WokenInst ==
    ASSUME TypeInv, NEW j \in RobIds
    PROVE  /\ Woken.head_ptr = rob.head_ptr /\ Woken \in ROBType
           /\ Woken.entries[j].valid = rob.entries[j].valid
           /\ Woken.entries[j].ready = rob.entries[j].ready
           /\ SameInst(rob.entries[j].inst, Woken.entries[j].inst)
           /\ \A k \in Src : Woken.entries[j].inst.src_ready[k]
                                 = (rob.entries[j].inst.src_ready[k] \/ Wakes(j, k))
<1>1. rob \in ROBType /\ rob.entries[j] \in ROBEntry /\ rob.entries[j].inst \in InstInfo
  BY DEF TypeInv, TypeOK, ROBType, ROBEntry
<1>2. Woken \in ROBType
  BY <1>1, WakeupType DEF Woken
<1>3. CASE EX_latch[lane].valid /\ EX_latch[lane].inst.dest_reg # NoReg
  <2> DEFINE tag == EX_latch[lane].inst.dr_tag
             wakes == [k \in Src |-> WaitsFor(rob, tag, j, k)]
             inst == WakeInst(rob.entries[j].inst, wakes)
  <2>1. Woken = rob_wakeup(rob, tag)
    BY <1>3 DEF Woken
  <2>2. /\ Woken.head_ptr = rob.head_ptr
        /\ Woken.entries[j] = [rob.entries[j] EXCEPT !.inst = inst]
    BY <1>1, <2>1 DEF rob_wakeup, WakeOperands, ROBType
  <2>3. \A k \in Src : wakes[k] = Wakes(j, k) /\ wakes[k] \in BOOLEAN
    BY <1>3 DEF Wakes, WaitsFor
  <2> HIDE DEF wakes
  <2>4. /\ SameInst(rob.entries[j].inst, inst)
        /\ \A k \in Src : inst.src_ready[k] = (rob.entries[j].inst.src_ready[k] \/ wakes[k])
    BY <1>1 DEF WakeInst, InstInfo, SameInst
  <2> HIDE DEF inst
  <2>5. /\ Woken.entries[j].valid = rob.entries[j].valid
        /\ Woken.entries[j].ready = rob.entries[j].ready
        /\ Woken.entries[j].inst = inst
    BY <1>1, <2>2 DEF ROBEntry
  <2> QED  BY <1>2, <2>2, <2>3, <2>4, <2>5
<1>4. CASE ~ (EX_latch[lane].valid /\ EX_latch[lane].inst.dest_reg # NoReg)
  <2>1. Woken = rob /\ \A k : ~ Wakes(j, k)
    BY <1>4 DEF Woken, Wakes
  <2>2. \A k \in Src : rob.entries[j].inst.src_ready[k] \in BOOLEAN
    BY <1>1 DEF InstInfo
  <2> QED  BY <1>1, <2>1, <2>2 DEF SameInst
<1> QED  BY <1>3, <1>4

LEMMA WritebackRob ==
    ASSUME TypeInv, WritebackLane
    PROVE  /\ rob'.head_ptr = rob.head_ptr
           /\ WrittenBack # -1 => /\ WrittenBack \in RobIds
                                  /\ Num(WrittenBack) = NumAt(EX_latch, lane)
           /\ \A j \in RobIds :
                  /\ Entry(j)'.valid = Entry(j).valid
                  /\ Entry(j)'.ready = (Entry(j).ready \/ j = WrittenBack)
                  /\ SameInst(Entry(j).inst, Entry(j)'.inst)
                  /\ \A k \in Src : Entry(j)'.inst.src_ready[k]
                                        = (Entry(j).inst.src_ready[k] \/ Wakes(j, k))
<1> DEFINE f == WrittenBack
<1>1. rob \in ROBType /\ 0 \in RobIds
  BY RobAssumption DEF TypeInv, TypeOK
<1>2. Woken \in ROBType /\ Woken.head_ptr = rob.head_ptr
  BY <1>1, WokenInst
<1>3. find_rob_inst(Woken, NumAt(EX_latch, lane)) = f
  <2>1. \A j \in RobIds : Woken.entries[j].inst.inst_num = rob.entries[j].inst.inst_num
    BY WokenInst DEF SameInst
  <2>2. Holders(Woken, NumAt(EX_latch, lane)) = Holders(rob, NumAt(EX_latch, lane))
    BY <2>1 DEF Holders
  <2> QED  BY <2>2 DEF find_rob_inst, WrittenBack
<1>4. /\ f # -1 => rob' = SetReady(Woken, f)
      /\ f = -1 => rob' = Woken
  BY <1>3 DEF WritebackLane, rob_mark_ready, NumAt, WrittenBack
<1>5. f # -1 => f \in RobIds /\ Num(f) = NumAt(EX_latch, lane)
  BY FindsAHolder DEF WrittenBack, Num, Entry
<1> HIDE DEF f
<1>6. /\ rob'.head_ptr = Woken.head_ptr
      /\ \A j \in RobIds : /\ rob'.entries[j].valid = Woken.entries[j].valid
                           /\ rob'.entries[j].inst = Woken.entries[j].inst
                           /\ rob'.entries[j].ready = (Woken.entries[j].ready \/ j = f)
  <2>1. \A j \in RobIds : j # -1 /\ Woken.entries[j].ready \in BOOLEAN
    BY <1>2, RobAssumption DEF ROBType, ROBEntry
  <2>2. CASE f = -1
    BY <1>4, <2>1, <2>2
  <2>3. CASE f # -1
    <3>1. ASSUME NEW j \in RobIds
          PROVE  rob'.entries[j].ready = (Woken.entries[j].ready \/ j = f)
      <4>1. Woken.entries[j] \in ROBEntry /\ rob' = SetReady(Woken, f)
        BY <1>2, <1>4, <2>3 DEF ROBType
      <4>2. CASE j = f
        <5>1. rob'.entries[j].ready = TRUE
          BY <1>2, <4>1, <4>2 DEF SetReady, ROBType, ROBEntry
        <5> QED  BY <4>1, <4>2, <5>1 DEF ROBEntry
      <4>3. CASE j # f
        <5>1. rob'.entries[j] = Woken.entries[j]
          BY <1>2, <4>1, <4>3 DEF SetReady, ROBType
        <5> QED  BY <4>1, <4>3, <5>1 DEF ROBEntry
      <4> QED  BY <4>2, <4>3
    <3> QED  BY <1>2, <1>4, <2>3, <3>1, MarkKeepsInst
  <2> QED  BY <2>2, <2>3
<1>7. \A j \in RobIds :
          /\ Woken.entries[j].valid = rob.entries[j].valid
          /\ Woken.entries[j].ready = rob.entries[j].ready
          /\ SameInst(rob.entries[j].inst, Woken.entries[j].inst)
          /\ \A k \in Src : Woken.entries[j].inst.src_ready[k]
                                = (rob.entries[j].inst.src_ready[k] \/ Wakes(j, k))
  BY WokenInst
<1> QED  BY <1>2, <1>5, <1>6, <1>7 DEF Entry, f



\* A commit only makes the head invalid and moves it on.
LEMMA CommitRob ==
    ASSUME TypeInv, CommitInst
    PROVE  /\ rob.head_ptr \in RobIds /\ rob'.head_ptr = NextId(rob.head_ptr)
           /\ Entry(rob.head_ptr).valid /\ Entry(rob.head_ptr).ready
           /\ \A j \in RobIds : /\ Entry(j)'.valid = (Entry(j).valid /\ j # rob.head_ptr)
                                /\ Entry(j)'.ready = Entry(j).ready
                                /\ Entry(j)'.inst = Entry(j).inst
<1> DEFINE h == rob.head_ptr
<1>1. h \in RobIds /\ rob \in ROBType /\ \A j \in RobIds : rob.entries[j] \in ROBEntry
  BY DEF TypeInv, TypeOK, ROBType
<1>2. rob' = rob_remove_head(rob) /\ rob.entries[h].valid /\ rob.entries[h].ready
  BY DEF CommitInst, rob_check_head, rob_check_ready
<1>3. /\ rob'.head_ptr = NextId(h)
      /\ rob'.entries = [rob.entries EXCEPT ![h].valid = FALSE]
  BY <1>1, <1>2 DEF rob_remove_head, ROBType
<1>4. ASSUME NEW j \in RobIds
      PROVE  /\ rob'.entries[j].valid = (rob.entries[j].valid /\ j # h)
             /\ rob'.entries[j].ready = rob.entries[j].ready
             /\ rob'.entries[j].inst = rob.entries[j].inst
  <2>1. CASE j = h
    BY <1>1, <1>3, <2>1, ZenonT(60) DEF ROBType, ROBEntry
  <2>2. CASE j # h
    BY <1>1, <1>3, <2>2 DEF ROBType, ROBEntry
  <2> QED  BY <2>1, <2>2
<1> QED  BY <1>1, <1>2, <1>3, <1>4 DEF Entry

\* An issue fills the entry at the tail, which was free, and keeps the head.
LEMMA IssueRob ==
    ASSUME TypeInv, Window(rob), Issue
    PROVE  \E t \in RobIds : LET inst == Rename(IssueInst) IN
               /\ t = rob.tail_ptr /\ ~ Entry(t).valid /\ rob'.head_ptr = rob.head_ptr
               /\ \A j \in RobIds \ {t} : Entry(j)' = Entry(j)
               /\ Entry(t)'.valid /\ ~ Entry(t)'.exec /\ ~ Entry(t)'.ready
               /\ Entry(t)'.inst = inst
               /\ IssueLane \in Lanes /\ ID_latch[IssueLane].valid /\ IssueInst \in InstInfo
               /\ inst.inst_num = NumAt(ID_latch, IssueLane)
               /\ inst.dest_reg = IssueInst.dest_reg /\ inst.src_reg = IssueInst.src_reg
               /\ inst.dest_reg # NoReg => inst.dr_tag = t
               /\ \A k \in Src : /\ inst.src_tag[k] = OperandTag(IssueInst, k)
                                 /\ inst.src_ready[k] = OperandReady(IssueInst, k)
<1> DEFINE inst == Rename(IssueInst)
<1>1. /\ rob \in ROBType /\ ID_latch \in [Lanes -> Latch] /\ IssueLane \in Lanes
      /\ ID_latch[IssueLane].valid /\ rob_check_space(rob) /\ rob' = rob_insert(rob, inst)
  BY DEF TypeInv, TypeOK, Issue, CanIssue, IssueLane, LaneInRange
<1>2. PICK t \in RobIds : t = rob.tail_ptr /\ ~ rob.entries[t].valid
  BY <1>1, TailIsFree
<1>3. IssueInst \in InstInfo /\ NumAt(ID_latch, IssueLane) = IssueInst.inst_num
  BY <1>1 DEF IssueInst, Latch, NumAt
<1>4. /\ inst.inst_num = IssueInst.inst_num
      /\ inst.dest_reg = IssueInst.dest_reg /\ inst.src_reg = IssueInst.src_reg
      /\ inst.dest_reg # NoReg => inst.dr_tag = t
      /\ \A k \in Src : /\ inst.src_tag[k] = OperandTag(IssueInst, k)
                        /\ inst.src_ready[k] = OperandReady(IssueInst, k)
  BY <1>2, <1>3 DEF Rename, InstInfo
<1> HIDE DEF inst
<1>5. /\ rob'.head_ptr = rob.head_ptr
      /\ rob'.entries[t] = [valid |-> TRUE, exec |-> FALSE, ready |-> FALSE, inst |-> inst]
      /\ \A j \in RobIds \ {t} : rob'.entries[j] = rob.entries[j]
  BY <1>1, <1>2 DEF rob_insert, ROBType
<1>6. /\ ~ Entry(t).valid /\ Entry(t)'.valid /\ ~ Entry(t)'.exec /\ ~ Entry(t)'.ready
      /\ Entry(t)'.inst = inst
      /\ \A j \in RobIds \ {t} : Entry(j)' = Entry(j)
  BY <1>2, <1>5 DEF Entry
<1> QED  BY <1>1, <1>2, <1>3, <1>4, <1>5, <1>6 DEF inst



-----------------------------------------------------------------------------
\* Every step but an issue only takes instructions out of the buffer.
BufferKept == \A j \in ValidIds' : j \in ValidIds /\ SameInst(Entry(j).inst, Entry(j)'.inst)

LEMMA OnlyIssueAdds ==
    ASSUME TypeInv, FlightInv, [Next]_vars, ~ Issue
    PROVE  BufferKept
<1> USE DEF BufferKept, ValidIds, Entry, SameInst
<1>1. CASE CommitInst
  BY <1>1, CommitRob
<1>2. CASE WritebackLane
  BY <1>2, WritebackRob
<1>3. CASE ScheduleInst
  BY <1>3, ScheduleRob
<1>4. CASE UNCHANGED rob
  BY <1>4
<1>5. CASE UNCHANGED vars
  BY <1>4, <1>5 DEF vars
<1>6. CASE CommitNothing \/ Exe
  BY <1>4, <1>6 DEF CommitNothing, Exe, ExeEmpty, ExeCopy, ExeInsert, ExeFull,
                    ExeqCycle, ExeTransfer, ExeNoneLeft, exeFrame
<1>7. CASE ScheduleNothing \/ ScheduleOccupied \/ ScheduleReturn
  BY <1>4, <1>7 DEF ScheduleNothing, ScheduleOccupied, ScheduleReturn
<1>8. CASE IssueCompare \/ IssueNextPass \/ IssueNothing \/ IssueCrash
  BY <1>4, <1>8 DEF IssueCompare, IssueNextPass, IssueNothing, IssueCrash, sortFrame
<1>9. CASE DecodeStage \/ FetchStage
  BY <1>4, <1>9 DEF DecodeStage, Decode, DecodeNothing, decodeFrame,
                    FetchStage, FetchInst, FetchEnd, FetchOccupied, fetchFrame
<1> QED
  BY <1>1, <1>2, <1>3, <1>5, <1>6, <1>7, <1>8, <1>9
     DEF Next, Step, Over, Commit, Writeback, Schedule, IssueStage

\* Place m of M holds the same instruction as place l of L.
SameCopy(L, l, M, m) == /\ NumAt(M, m) = NumAt(L, l)
                        /\ M[m].inst.dest_reg = L[l].inst.dest_reg
                        /\ M[m].inst.dr_tag = L[l].inst.dr_tag

\* Copies stay copies in the array they are in, and in one they move to.
LEMMA CopiesStay ==
    ASSUME BufferKept, NEW L, CopiesOf(L), NEW M, DOMAIN M = DOMAIN L,
           NEW K, NEW k, K[k].valid, k \in DOMAIN K, CopiesOf(K),
           \A l \in DOMAIN L : M[l].valid => \/ L[l].valid /\ SameCopy(L, l, M, l)
                                             \/ SameCopy(K, k, M, l)
    PROVE  \A l \in DOMAIN M, i \in ValidIds' :
               M[l].valid /\ NumAt(M, l) = Num(i)' =>
                   /\ M[l].inst.dest_reg = Entry(i)'.inst.dest_reg
                   /\ M[l].inst.dr_tag = Entry(i)'.inst.dr_tag
<1> SUFFICES ASSUME NEW l \in DOMAIN M, NEW i \in ValidIds', M[l].valid, NumAt(M, l) = Num(i)'
             PROVE  /\ M[l].inst.dest_reg = Entry(i)'.inst.dest_reg
                    /\ M[l].inst.dr_tag = Entry(i)'.inst.dr_tag
  OBVIOUS
<1>1. /\ i \in ValidIds /\ Num(i)' = Num(i)
      /\ Entry(i)'.inst.dest_reg = Entry(i).inst.dest_reg
      /\ Entry(i)'.inst.dr_tag = Entry(i).inst.dr_tag
  BY DEF BufferKept, SameInst, Num
<1> QED  BY <1>1 DEF CopiesOf, SameCopy

LEMMA CopiesKept ==
    ASSUME BufferKept, NEW L, CopiesOf(L), NEW M, DOMAIN M = DOMAIN L,
           \A l \in DOMAIN L : M[l].valid => L[l].valid /\ SameCopy(L, l, M, l)
    PROVE  \A l \in DOMAIN M, i \in ValidIds' :
               M[l].valid /\ NumAt(M, l) = Num(i)' =>
                   /\ M[l].inst.dest_reg = Entry(i)'.inst.dest_reg
                   /\ M[l].inst.dr_tag = Entry(i)'.inst.dr_tag
<1> SUFFICES ASSUME NEW l \in DOMAIN M, NEW i \in ValidIds', M[l].valid, NumAt(M, l) = Num(i)'
             PROVE  /\ M[l].inst.dest_reg = Entry(i)'.inst.dest_reg
                    /\ M[l].inst.dr_tag = Entry(i)'.inst.dr_tag
  OBVIOUS
<1>1. /\ i \in ValidIds /\ Num(i)' = Num(i)
      /\ Entry(i)'.inst.dest_reg = Entry(i).inst.dest_reg
      /\ Entry(i)'.inst.dr_tag = Entry(i).inst.dr_tag
  BY DEF BufferKept, SameInst, Num
<1> QED  BY <1>1 DEF CopiesOf, SameCopy

\* Of a step that leaves decode and fetch alone, only the copies are left to look at.
LEMMA CopyParts ==
    ASSUME CopyInv, BufferKept, UNCHANGED <<FE_latch, ID_latch>>,
           CopiesOf(SC_latch)', CopiesOf(exeq)', CopiesOf(EX_latch)'
    PROVE  CopyInv'
BY DEF CopyInv, BufferKept, SameInst

\* Emptying places, as in SC and EX.
LEMMA EmptiedCopies ==
    ASSUME BufferKept, NEW L, CopiesOf(L), NEW M, DOMAIN M = DOMAIN L,
           \A l \in DOMAIN L : M[l].inst = L[l].inst /\ (M[l].valid => L[l].valid)
    PROVE  \A l \in DOMAIN M, i \in ValidIds' :
               M[l].valid /\ NumAt(M, l) = Num(i)' =>
                   /\ M[l].inst.dest_reg = Entry(i)'.inst.dest_reg
                   /\ M[l].inst.dr_tag = Entry(i)'.inst.dr_tag
<1>1. \A l \in DOMAIN L : M[l].valid => L[l].valid /\ SameCopy(L, l, M, l)
  BY DEF SameCopy, NumAt
<1> QED  BY <1>1, CopiesKept

LEMMA UnchangedCopies ==
    /\ CopyInv /\ BufferKept /\ UNCHANGED SC_latch => CopiesOf(SC_latch)'
    /\ CopyInv /\ BufferKept /\ UNCHANGED exeq => CopiesOf(exeq)'
    /\ CopyInv /\ BufferKept /\ UNCHANGED EX_latch => CopiesOf(EX_latch)'
<1>1. ASSUME BufferKept, NEW L, CopiesOf(L)
      PROVE  \A l \in DOMAIN L, i \in ValidIds' :
                 L[l].valid /\ NumAt(L, l) = Num(i)' =>
                     /\ L[l].inst.dest_reg = Entry(i)'.inst.dest_reg
                     /\ L[l].inst.dr_tag = Entry(i)'.inst.dr_tag
  BY <1>1, EmptiedCopies
<1> QED  BY <1>1 DEF CopyInv, CopiesOf

LEMMA ScheduleCopy ==
    ASSUME TypeInv, FlightInv, CopyInv, BufferKept, ScheduleInst
    PROVE  CopyInv'
<1>1. PICK i \in ValidIds : SC_latch' = [SC_latch EXCEPT ![lane] = Full(Entry(i).inst)]
  BY ScheduleRob
<1>2. /\ UNCHANGED <<FE_latch, ID_latch, EX_latch, exeq>> /\ lane \in Lanes
      /\ SC_latch \in [Lanes -> Latch] /\ DOMAIN rob.entries = RobIds
  BY DEF ScheduleInst, schedFrame, feVars, TypeInv, TypeOK, LaneInRange, ROBType
<1>3. CopiesOf(rob.entries) /\ i \in DOMAIN rob.entries /\ rob.entries[i].valid
  <2>1. \A l \in RobIds : rob.entries[l].valid => l \in ValidIds
    BY DEF ValidIds, Entry
  <2>2. \A l \in RobIds, j \in ValidIds :
            rob.entries[l].valid /\ NumAt(rob.entries, l) = Num(j) => l = j
    BY <2>1, ValidUnique DEF NumAt, Num, Entry
  <2> QED  BY <1>2, <2>2 DEF CopiesOf, ValidIds, Entry
<1>4. /\ DOMAIN SC_latch' = DOMAIN SC_latch
      /\ \A l \in Lanes : \/ l = lane /\ SameCopy(rob.entries, i, SC_latch', l)
                          \/ l # lane /\ SC_latch'[l] = SC_latch[l]
  BY <1>1, <1>2 DEF SameCopy, Full, NumAt, Entry
<1>5. \A l \in DOMAIN SC_latch : SC_latch'[l].valid =>
          \/ SC_latch[l].valid /\ SameCopy(SC_latch, l, SC_latch', l)
          \/ SameCopy(rob.entries, i, SC_latch', l)
  BY <1>2, <1>4 DEF SameCopy, NumAt
<1>6. CopiesOf(SC_latch)'
  <2>1. \A l \in DOMAIN SC_latch', j \in ValidIds' :
            SC_latch'[l].valid /\ NumAt(SC_latch', l) = Num(j)' =>
                /\ SC_latch'[l].inst.dest_reg = Entry(j)'.inst.dest_reg
                /\ SC_latch'[l].inst.dr_tag = Entry(j)'.inst.dr_tag
    BY <1>3, <1>4, <1>5, CopiesStay DEF CopyInv
  <2> QED  BY <2>1 DEF CopiesOf
<1>7. CopiesOf(exeq)' /\ CopiesOf(EX_latch)'
  BY <1>2, UnchangedCopies
<1> QED  BY <1>2, <1>6, <1>7, CopyParts


LEMMA EmptiedLatch ==
    ASSUME NEW S, NEW L \in [S -> Latch], NEW k \in S
    PROVE  LET M == [L EXCEPT ![k].valid = FALSE] IN
           /\ DOMAIN M = DOMAIN L
           /\ \A l \in DOMAIN L : M[l].inst = L[l].inst /\ (M[l].valid => L[l].valid)
BY DEF Latch

LEMMA WritebackCopy ==
    ASSUME TypeInv, FlightInv, CopyInv, BufferKept, WritebackLane
    PROVE  CopyInv'
<1>1. /\ UNCHANGED <<FE_latch, ID_latch, SC_latch, exeq>> /\ lane \in ExLanes
      /\ EX_latch \in [ExLanes -> Latch]
      /\ EX_latch' = [EX_latch EXCEPT ![lane].valid = FALSE]
  BY DEF WritebackLane, feVars, schedVars, TypeInv, TypeOK, LaneInRange
<1>2. CopiesOf(EX_latch)'
  <2>1. \A l \in DOMAIN EX_latch', j \in ValidIds' :
            EX_latch'[l].valid /\ NumAt(EX_latch', l) = Num(j)' =>
                /\ EX_latch'[l].inst.dest_reg = Entry(j)'.inst.dest_reg
                /\ EX_latch'[l].inst.dr_tag = Entry(j)'.inst.dr_tag
    <3>1. /\ DOMAIN EX_latch' = DOMAIN EX_latch
          /\ \A l \in DOMAIN EX_latch : /\ EX_latch'[l].inst = EX_latch[l].inst
                                        /\ EX_latch'[l].valid => EX_latch[l].valid
      BY <1>1, EmptiedLatch
    <3> QED  BY <3>1, EmptiedCopies DEF CopyInv
  <2> QED  BY <2>1 DEF CopiesOf
<1>3. CopiesOf(SC_latch)' /\ CopiesOf(exeq)'
  BY <1>1, UnchangedCopies
<1> QED  BY <1>1, <1>2, <1>3, CopyParts

LEMMA CopyCopy ==
    ASSUME TypeInv, FlightInv, CopyInv, BufferKept, ExeCopy
    PROVE  CopyInv'
<1>1. /\ stage = "exe" /\ SC_latch[lane].valid
      /\ EX_latch' = [EX_latch EXCEPT ![lane] = SC_latch[lane]]
      /\ SC_latch' = [SC_latch EXCEPT ![lane].valid = FALSE]
      /\ UNCHANGED <<FE_latch, ID_latch, exeq>>
  BY DEF ExeCopy, exeFrame, feVars
<1>2. /\ lane \in Lanes /\ EX_latch \in [ExLanes -> Latch] /\ SC_latch \in [Lanes -> Latch]
  BY <1>1 DEF TypeInv, TypeOK, LaneInRange
<1>3. CopiesOf(SC_latch)'
  <2>1. \A l \in DOMAIN SC_latch', j \in ValidIds' :
            SC_latch'[l].valid /\ NumAt(SC_latch', l) = Num(j)' =>
                /\ SC_latch'[l].inst.dest_reg = Entry(j)'.inst.dest_reg
                /\ SC_latch'[l].inst.dr_tag = Entry(j)'.inst.dr_tag
    <3>1. /\ DOMAIN SC_latch' = DOMAIN SC_latch
          /\ \A l \in DOMAIN SC_latch : /\ SC_latch'[l].inst = SC_latch[l].inst
                                        /\ SC_latch'[l].valid => SC_latch[l].valid
      BY <1>1, <1>2, EmptiedLatch
    <3> QED  BY <3>1, EmptiedCopies DEF CopyInv
  <2> QED  BY <2>1 DEF CopiesOf
<1>4. /\ DOMAIN EX_latch' = DOMAIN EX_latch
      /\ \A l \in DOMAIN EX_latch : EX_latch'[l] = EX_latch[l] \/ EX_latch'[l] = SC_latch[lane]
  BY <1>1, <1>2
<1>5. \A l \in DOMAIN EX_latch : EX_latch'[l].valid =>
          \/ EX_latch[l].valid /\ SameCopy(EX_latch, l, EX_latch', l)
          \/ SameCopy(SC_latch, lane, EX_latch', l)
  BY <1>4 DEF SameCopy, NumAt
<1>6. CopiesOf(EX_latch)'
  <2>1. \A l \in DOMAIN EX_latch', j \in ValidIds' :
            EX_latch'[l].valid /\ NumAt(EX_latch', l) = Num(j)' =>
                /\ EX_latch'[l].inst.dest_reg = Entry(j)'.inst.dest_reg
                /\ EX_latch'[l].inst.dr_tag = Entry(j)'.inst.dr_tag
    <3>1. lane \in DOMAIN SC_latch /\ SC_latch[lane].valid
      BY <1>1, <1>2
    <3> QED  BY <1>4, <1>5, <3>1, CopiesStay DEF CopyInv
  <2> QED  BY <2>1 DEF CopiesOf
<1>7. CopiesOf(exeq)'
  BY <1>1, UnchangedCopies
<1> QED  BY <1>1, <1>3, <1>6, <1>7, CopyParts

LEMMA InsertCopy ==
    ASSUME TypeInv, FlightInv, CopyInv, BufferKept, ExeInsert
    PROVE  CopyInv'
<1> DEFINE s == FirstSlot(FreeSlots(exeq))
<1>1. /\ stage = "exe" /\ SC_latch[lane].valid /\ ~ exeq_full(exeq)
      /\ exeq' = exeq_insert(exeq, SC_latch[lane].inst)
      /\ SC_latch' = [SC_latch EXCEPT ![lane].valid = FALSE]
      /\ UNCHANGED <<FE_latch, ID_latch, EX_latch>>
  BY DEF ExeInsert, exeFrame, feVars
<1>2. /\ lane \in Lanes /\ SC_latch \in [Lanes -> Latch] /\ exeq \in EXEQType
      /\ SC_latch[lane].inst \in InstInfo
  BY <1>1 DEF TypeInv, TypeOK, LaneInRange, Latch
<1>3. CopiesOf(SC_latch)'
  <2>1. \A l \in DOMAIN SC_latch', j \in ValidIds' :
            SC_latch'[l].valid /\ NumAt(SC_latch', l) = Num(j)' =>
                /\ SC_latch'[l].inst.dest_reg = Entry(j)'.inst.dest_reg
                /\ SC_latch'[l].inst.dr_tag = Entry(j)'.inst.dr_tag
    <3>1. /\ DOMAIN SC_latch' = DOMAIN SC_latch
          /\ \A l \in DOMAIN SC_latch : /\ SC_latch'[l].inst = SC_latch[l].inst
                                        /\ SC_latch'[l].valid => SC_latch[l].valid
      BY <1>1, <1>2, EmptiedLatch
    <3> QED  BY <3>1, EmptiedCopies DEF CopyInv
  <2> QED  BY <2>1 DEF CopiesOf
<1>4. /\ DOMAIN exeq' = DOMAIN exeq
      /\ \A l \in DOMAIN exeq : exeq'[l] = exeq[l] \/ SameCopy(SC_latch, lane, exeq', l)
  <2> DEFINE new == [SC_latch[lane].inst EXCEPT !.exe_wait_cycles =
                        IF SC_latch[lane].inst.op_type = "OP_LD" THEN LOAD_EXE_CYCLES ELSE 1]
  <2>1. exeq' = [exeq EXCEPT ![s] = [valid |-> TRUE, inst |-> new]]
    BY <1>1 DEF exeq_insert
  <2>2. /\ new.inst_num = SC_latch[lane].inst.inst_num
        /\ new.dest_reg = SC_latch[lane].inst.dest_reg
        /\ new.dr_tag = SC_latch[lane].inst.dr_tag
    BY <1>2 DEF InstInfo
  <2> HIDE DEF new, s
  <2> QED  BY <1>2, <2>1, <2>2 DEF SameCopy, NumAt, EXEQType
<1>5. \A l \in DOMAIN exeq : exeq'[l].valid =>
          \/ exeq[l].valid /\ SameCopy(exeq, l, exeq', l)
          \/ SameCopy(SC_latch, lane, exeq', l)
  BY <1>4 DEF SameCopy, NumAt
<1>6. CopiesOf(exeq)'
  <2>1. \A l \in DOMAIN exeq', j \in ValidIds' :
            exeq'[l].valid /\ NumAt(exeq', l) = Num(j)' =>
                /\ exeq'[l].inst.dest_reg = Entry(j)'.inst.dest_reg
                /\ exeq'[l].inst.dr_tag = Entry(j)'.inst.dr_tag
    BY <1>1, <1>2, <1>4, <1>5, CopiesStay DEF CopyInv
  <2> QED  BY <2>1 DEF CopiesOf
<1>7. CopiesOf(EX_latch)'
  BY <1>1, UnchangedCopies
<1> QED  BY <1>1, <1>3, <1>6, <1>7, CopyParts

LEMMA CycleCopy ==
    ASSUME TypeInv, FlightInv, CopyInv, BufferKept, ExeqCycle
    PROVE  CopyInv'
<1>1. /\ exeq' = exeq_cycle(exeq) /\ exeq \in EXEQType
      /\ UNCHANGED <<FE_latch, ID_latch, EX_latch, SC_latch>>
  BY DEF ExeqCycle, exeFrame, feVars, TypeInv, TypeOK
<1>2. DOMAIN exeq' = DOMAIN exeq /\ DOMAIN exeq = ExeqSlots
  BY <1>1 DEF exeq_cycle, EXEQType
<1>3. ASSUME NEW l \in ExeqSlots
      PROVE  exeq'[l].valid = exeq[l].valid /\ SameCopy(exeq, l, exeq', l)
  <2>1. exeq[l] \in [valid : BOOLEAN, inst : InstInfo]
    BY <1>1 DEF EXEQType
  <2>2. exeq'[l] = IF exeq[l].valid THEN [exeq[l] EXCEPT !.inst.exe_wait_cycles = @ - 1]
                   ELSE exeq[l]
    BY <1>1 DEF exeq_cycle
  <2> QED  BY <2>1, <2>2 DEF SameCopy, NumAt, InstInfo
<1>4. CopiesOf(exeq)'
  <2>1. \A l \in DOMAIN exeq', j \in ValidIds' :
            exeq'[l].valid /\ NumAt(exeq', l) = Num(j)' =>
                /\ exeq'[l].inst.dest_reg = Entry(j)'.inst.dest_reg
                /\ exeq'[l].inst.dr_tag = Entry(j)'.inst.dr_tag
    BY <1>2, <1>3, CopiesKept DEF CopyInv
  <2> QED  BY <2>1 DEF CopiesOf
<1>5. CopiesOf(SC_latch)' /\ CopiesOf(EX_latch)'
  BY <1>1, UnchangedCopies
<1> QED  BY <1>1, <1>4, <1>5, CopyParts

LEMMA TransferCopy ==
    ASSUME TypeInv, FlightInv, CopyInv, BufferKept, ExeTransfer
    PROVE  CopyInv'
<1> DEFINE s == FirstSlot(DoneSlots(exeq))
<1>1. /\ stage = "exe_done" /\ exeq_check_done(exeq)
      /\ EX_latch' = [EX_latch EXCEPT ![lane] = Full(DoneInst(exeq))]
      /\ exeq' = [exeq EXCEPT ![s].valid = FALSE]
      /\ UNCHANGED <<FE_latch, ID_latch, SC_latch>>
  BY DEF ExeTransfer, exeq_remove, exeFrame, feVars
<1>2. /\ lane \in ExLanes /\ EX_latch \in [ExLanes -> Latch]
      /\ exeq \in [ExeqSlots -> Latch]
  BY <1>1 DEF TypeInv, TypeOK, LaneInRange, EXEQType, Latch
<1>3. s \in ExeqSlots /\ exeq[s].valid /\ DoneInst(exeq) = exeq[s].inst
  <2>1. DoneSlots(exeq) \in SUBSET Nat /\ DoneSlots(exeq) \subseteq ExeqSlots
    BY ExeqAssumption DEF DoneSlots, ExeqSlots
  <2>2. s \in DoneSlots(exeq)
    BY <1>1, <2>1, FirstSlotInSet DEF exeq_check_done
  <2> QED  BY <2>2 DEF DoneSlots, DoneInst
<1> HIDE DEF s
<1>4. CopiesOf(exeq)'
  <2>1. \A l \in DOMAIN exeq', j \in ValidIds' :
            exeq'[l].valid /\ NumAt(exeq', l) = Num(j)' =>
                /\ exeq'[l].inst.dest_reg = Entry(j)'.inst.dest_reg
                /\ exeq'[l].inst.dr_tag = Entry(j)'.inst.dr_tag
    <3>1. /\ DOMAIN exeq' = DOMAIN exeq
          /\ \A l \in DOMAIN exeq : /\ exeq'[l].inst = exeq[l].inst
                                    /\ exeq'[l].valid => exeq[l].valid
      BY <1>1, <1>2, <1>3, EmptiedLatch
    <3> QED  BY <3>1, EmptiedCopies DEF CopyInv
  <2> QED  BY <2>1 DEF CopiesOf
<1>5. /\ DOMAIN EX_latch' = DOMAIN EX_latch
      /\ \A l \in DOMAIN EX_latch : EX_latch'[l] = EX_latch[l] \/ EX_latch'[l].inst = exeq[s].inst
  BY <1>1, <1>2, <1>3 DEF Full
<1>6. \A l \in DOMAIN EX_latch : EX_latch'[l].valid =>
          \/ EX_latch[l].valid /\ SameCopy(EX_latch, l, EX_latch', l)
          \/ SameCopy(exeq, s, EX_latch', l)
  BY <1>5 DEF SameCopy, NumAt
<1>7. CopiesOf(EX_latch)'
  <2>1. \A l \in DOMAIN EX_latch', j \in ValidIds' :
            EX_latch'[l].valid /\ NumAt(EX_latch', l) = Num(j)' =>
                /\ EX_latch'[l].inst.dest_reg = Entry(j)'.inst.dest_reg
                /\ EX_latch'[l].inst.dr_tag = Entry(j)'.inst.dr_tag
    BY <1>2, <1>3, <1>5, <1>6, CopiesStay DEF CopyInv
  <2> QED  BY <2>1 DEF CopiesOf
<1>8. CopiesOf(SC_latch)'
  BY <1>1, UnchangedCopies
<1> QED  BY <1>1, <1>4, <1>7, <1>8, CopyParts

\* The new entry's instruction comes from decode, so no copy of it is executing.
LEMMA IssueCopy ==
    ASSUME TypeInv, Window(rob), FlightInv, ExecInv, CopyInv, Issue
    PROVE  CopyInv'
<1>1. PICK t \in RobIds :
          /\ \A j \in RobIds \ {t} : Entry(j)' = Entry(j)
          /\ Entry(t)'.valid /\ ~ Entry(t).valid
          /\ Num(t)' = NumAt(ID_latch, IssueLane)
          /\ Entry(t)'.inst.dest_reg = ID_latch[IssueLane].inst.dest_reg
          /\ Entry(t)'.inst.dest_reg # NoReg => Entry(t)'.inst.dr_tag = t
          /\ IssueLane \in Lanes /\ ID_latch[IssueLane].valid
  BY IssueRob DEF Num, IssueInst
<1>2. /\ UNCHANGED <<FE_latch, SC_latch, EX_latch, exeq>> /\ ID_latch \in [Lanes -> Latch]
      /\ ID_latch' = [ID_latch EXCEPT ![IssueLane].valid = FALSE]
  BY DEF Issue, issueFrame, feVars, schedVars, TypeInv, TypeOK
<1>3. \A l \in Lanes : /\ ID_latch'[l].inst = ID_latch[l].inst
                       /\ ID_latch'[l].valid => ID_latch[l].valid
  BY <1>1, <1>2 DEF Latch
<1>4. /\ t \in ValidIds' /\ \A j \in ValidIds' \ {t} : j \in ValidIds /\ Entry(j)' = Entry(j)
  BY <1>1 DEF ValidIds
<1>5. Num(t)' \notin NumsIn(SC_latch) \cup NumsIn(exeq) \cup NumsIn(EX_latch)
  <2>1. Num(t)' \in NumsIn(ID_latch)
    BY <1>1, <1>2 DEF NumsIn, NumAt
  <2> QED  BY <2>1, ExecutingInRob DEF ExecInv
<1>6. ASSUME NEW L, CopiesOf(L), Num(t)' \notin NumsIn(L)
      PROVE  \A l \in DOMAIN L, i \in ValidIds' :
                 L[l].valid /\ NumAt(L, l) = Num(i)' =>
                     /\ L[l].inst.dest_reg = Entry(i)'.inst.dest_reg
                     /\ L[l].inst.dr_tag = Entry(i)'.inst.dr_tag
  BY <1>4, <1>6 DEF CopiesOf, NumsIn, Num
<1>7. CopiesOf(SC_latch)' /\ CopiesOf(exeq)' /\ CopiesOf(EX_latch)'
  BY <1>2, <1>5, <1>6 DEF CopyInv, CopiesOf
<1>8. \A i \in ValidIds' : /\ Entry(i)'.inst.dest_reg \in Dests
                           /\ Entry(i)'.inst.dest_reg # NoReg => Entry(i)'.inst.dr_tag = i
  BY <1>1, <1>4 DEF CopyInv
<1> QED  BY <1>2, <1>3, <1>7, <1>8 DEF CopyInv

LEMMA StepCopy ==
    TypeInv /\ Window(rob) /\ FlightInv /\ ExecInv /\ CopyInv /\ [Next]_vars => CopyInv'
<1> SUFFICES ASSUME TypeInv, Window(rob), FlightInv, ExecInv, CopyInv, [Next]_vars
             PROVE  CopyInv'
  OBVIOUS
<1>1. CASE Issue
  BY <1>1, IssueCopy
<1>2. CASE ~ Issue
  <2>1. BufferKept
    BY <1>2, OnlyIssueAdds
  <2>2. ASSUME UNCHANGED <<SC_latch, EX_latch, exeq>>
        PROVE  CopiesOf(SC_latch)' /\ CopiesOf(exeq)' /\ CopiesOf(EX_latch)'
    BY <2>1, <2>2, UnchangedCopies
  <2>3. ASSUME UNCHANGED <<FE_latch, ID_latch, SC_latch, EX_latch, exeq>> PROVE CopyInv'
    BY <2>1, <2>2, <2>3, CopyParts
  <2>4. CASE UNCHANGED vars
    BY <2>3, <2>4 DEF vars
  <2>5. CASE Commit \/ ExeEmpty \/ ExeFull \/ ExeNoneLeft
    BY <2>3, <2>5 DEF Commit, CommitInst, CommitNothing, ExeEmpty, ExeFull, ExeNoneLeft,
       exeFrame, feVars, schedVars
  <2>6. CASE ScheduleNothing \/ ScheduleOccupied \/ ScheduleReturn
    BY <2>3, <2>6 DEF ScheduleNothing, ScheduleOccupied, ScheduleReturn, schedFrame, feVars
  <2>7. CASE IssueCompare \/ IssueNextPass \/ IssueNothing \/ IssueCrash
    BY <2>3, <2>7 DEF IssueCompare, IssueNextPass, IssueNothing, IssueCrash, sortFrame,
       issueFrame, feVars, schedVars
  <2>8. CASE DecodeNothing \/ FetchEnd \/ FetchOccupied
    BY <2>3, <2>8 DEF DecodeNothing, decodeFrame, FetchEnd, FetchOccupied, fetchFrame, schedVars
  <2>9. CASE Decode
    <3>1. PICK j \in NextDecoded : /\ ID_latch' = [ID_latch EXCEPT ![lane] = FE_latch[j]]
                                   /\ FE_latch' = [FE_latch EXCEPT ![j].valid = FALSE]
      BY <2>9 DEF Decode
    <3>2. /\ UNCHANGED <<SC_latch, EX_latch, exeq>> /\ j \in Lanes /\ FE_latch[j].valid
          /\ FE_latch \in [Lanes -> Latch] /\ ID_latch \in [Lanes -> Latch]
      BY <2>9 DEF Decode, decodeFrame, schedVars, NextDecoded, TypeInv, TypeOK
    <3>3. \A l \in Lanes : /\ FE_latch'[l].inst = FE_latch[l].inst
                           /\ FE_latch'[l].valid => FE_latch[l].valid
                           /\ ID_latch'[l] = ID_latch[l] \/ ID_latch'[l] = FE_latch[j]
      BY <3>1, <3>2 DEF Latch
    <3>4. \A i \in ValidIds' : /\ Entry(i)'.inst.dest_reg \in Dests
                               /\ Entry(i)'.inst.dest_reg # NoReg => Entry(i)'.inst.dr_tag = i
      BY <2>1 DEF BufferKept, SameInst, CopyInv
    <3> QED  BY <2>2, <3>2, <3>3, <3>4 DEF CopyInv
  <2>10. CASE FetchInst
    <3>1. PICK rec \in TraceRecords :
              FE_latch' = [FE_latch EXCEPT ![lane] = Full(NewInst(last_inst_num + 1, rec))]
      BY <2>10 DEF FetchInst
    <3>2. /\ UNCHANGED <<ID_latch, SC_latch, EX_latch, exeq>> /\ FE_latch \in [Lanes -> Latch]
      BY <2>10 DEF FetchInst, fetchFrame, schedVars, TypeInv, TypeOK
    <3>3. \A l \in Lanes : \/ FE_latch'[l] = FE_latch[l]
                           \/ FE_latch'[l].inst.dest_reg = rec.dest_reg
      BY <3>1, <3>2 DEF Full, NewInst
    <3>4. \A i \in ValidIds' : /\ Entry(i)'.inst.dest_reg \in Dests
                               /\ Entry(i)'.inst.dest_reg # NoReg => Entry(i)'.inst.dr_tag = i
      BY <2>1 DEF BufferKept, SameInst, CopyInv
    <3>5. \A l \in Lanes : FE_latch'[l].valid => FE_latch'[l].inst.dest_reg \in Dests
      BY <3>3 DEF CopyInv, Dests
    <3> QED  BY <2>2, <3>2, <3>4, <3>5 DEF CopyInv
  <2> QED
    BY <1>2, <2>1, <2>4, <2>5, <2>6, <2>7, <2>8, <2>9, <2>10, WritebackCopy, CopyCopy,
       InsertCopy, CycleCopy, TransferCopy, ScheduleCopy
       DEF Next, Step, Over, Writeback, Exe, Schedule, IssueStage, DecodeStage, FetchStage
<1> QED  BY <1>1, <1>2

-----------------------------------------------------------------------------
(* Ages. *)

LEMMA AgeFacts ==
    ASSUME NEW r \in ROBType
    PROVE  /\ \A i \in RobIds : Age(r, i) \in Nat
           /\ \A i, j \in RobIds : Age(r, i) = Age(r, j) => i = j
           /\ \A i \in RobIds : Age(r, i) = 0 <=> i = r.head_ptr
<1>1. r.head_ptr \in RobIds /\ NUM_ROB_ENTRIES \in Nat \ {0}
  BY RobAssumption DEF ROBType
<1>2. \A i \in RobIds : Age(r, i) = IF i >= r.head_ptr THEN i - r.head_ptr
                                   ELSE i - r.head_ptr + NUM_ROB_ENTRIES
  BY <1>1, CircleDistance DEF Age
<1> QED  BY <1>1, <1>2

LEMMA AgeAfterCommit ==
    ASSUME NEW r \in ROBType, NEW q \in ROBType, q.head_ptr = NextId(r.head_ptr),
           NEW i \in RobIds, i # r.head_ptr
    PROVE  Age(q, i) = Age(r, i) - 1
<1> DEFINE h == r.head_ptr
           g == NextId(h)
<1>1. h \in RobIds /\ NUM_ROB_ENTRIES \in Nat \ {0}
  BY RobAssumption DEF ROBType
<1>2. g \in RobIds /\ g = IF h + 1 = NUM_ROB_ENTRIES THEN 0 ELSE h + 1
  BY <1>1, NextIdType, CircleNext
<1>3. Age(r, i) = IF i >= h THEN i - h ELSE i - h + NUM_ROB_ENTRIES
  BY <1>1, CircleDistance DEF Age
<1>4. Age(q, i) = IF i >= g THEN i - g ELSE i - g + NUM_ROB_ENTRIES
  BY <1>2, CircleDistance DEF Age
<1> QED  BY <1>1, <1>2, <1>3, <1>4

LEMMA TailIsYoungest ==
    ASSUME NEW r \in ROBType, Window(r), rob_check_space(r), NEW i \in RobIds,
           r.entries[i].valid
    PROVE  Age(r, i) < Age(r, r.tail_ptr)
<1>1. r.tail_ptr \in RobIds /\ r.head_ptr \in RobIds /\ ~ r.entries[r.tail_ptr].valid
  BY TailIsFree DEF ROBType
<1>2. Used(r) = Age(r, r.tail_ptr)
  BY DEF Used, Age
<1> QED  BY <1>1, <1>2 DEF Window

\* The steps that are not commit, writeback and issue.
LEMMA OtherSteps ==
    ASSUME TypeInv, FlightInv, [Next]_vars, ~ CommitInst, ~ WritebackLane, ~ Issue
    PROVE  /\ rat' = rat /\ rob'.head_ptr = rob.head_ptr
           /\ \A j \in RobIds : /\ Entry(j)'.valid = Entry(j).valid
                                /\ Entry(j)'.ready = Entry(j).ready
                                /\ Entry(j)'.inst = Entry(j).inst
<1>1. ASSUME UNCHANGED <<rat, rob>>
      PROVE  /\ rat' = rat /\ rob'.head_ptr = rob.head_ptr
             /\ \A j \in RobIds : /\ Entry(j)'.valid = Entry(j).valid
                                  /\ Entry(j)'.ready = Entry(j).ready
                                  /\ Entry(j)'.inst = Entry(j).inst
  BY <1>1 DEF Entry
<1>2. CASE UNCHANGED vars
  BY <1>1, <1>2 DEF vars
<1>3. CASE ScheduleInst
  BY <1>3, ScheduleRob DEF ScheduleInst, schedFrame
<1>4. CASE CommitNothing \/ Exe
  BY <1>1, <1>4 DEF CommitNothing, Exe, ExeEmpty, ExeCopy, ExeInsert, ExeFull,
                    ExeqCycle, ExeTransfer, ExeNoneLeft, exeFrame
<1>5. CASE ScheduleNothing \/ ScheduleOccupied \/ ScheduleReturn
  BY <1>1, <1>5 DEF ScheduleNothing, ScheduleOccupied, ScheduleReturn, schedFrame
<1>6. CASE IssueCompare \/ IssueNextPass \/ IssueNothing \/ IssueCrash
  BY <1>1, <1>6 DEF IssueCompare, IssueNextPass, IssueNothing, IssueCrash, sortFrame
<1>7. CASE DecodeStage \/ FetchStage
  BY <1>1, <1>7 DEF DecodeStage, Decode, DecodeNothing, decodeFrame,
                    FetchStage, FetchInst, FetchEnd, FetchOccupied, fetchFrame
<1> QED
  BY <1>2, <1>3, <1>4, <1>5, <1>6, <1>7
     DEF Next, Step, Over, Commit, Writeback, Schedule, IssueStage

-----------------------------------------------------------------------------
(* The aliases. *)

\* The alias of a register says the same of writers that keep their order.
LEMMA AliasKept ==
    ASSUME TypeInv, NEW r \in ArfRegs, AliasOf(r), WritersOf(r)' = WritersOf(r),
           rat'[r].valid = rat[r].valid, rat[r].valid => rat'[r] = rat[r],
           \A i, j \in WritersOf(r) : Age(rob, i) <= Age(rob, j) => Age(rob', i) <= Age(rob', j)
    PROVE  AliasOf(r)'
<1>1. CASE ~ rat[r].valid
  BY <1>1 DEF AliasOf
<1>2. CASE rat[r].valid
  <2>1. /\ rat'[r] = rat[r] /\ WritersOf(r) # {} /\ rat[r].prf_id \in WritersOf(r)
        /\ \A i \in WritersOf(r) : Age(rob, i) <= Age(rob, rat[r].prf_id)
    BY <1>2 DEF AliasOf
  <2>2. \A i \in WritersOf(r) : Age(rob', i) <= Age(rob', rat[r].prf_id)
    BY <2>1
  <2> QED  BY <1>2, <2>1, <2>2 DEF AliasOf
<1> QED  BY <1>1, <1>2

\* A commit drops the alias exactly when it names the committed instruction, and then
\* no younger writer is left.
LEMMA CommitAlias ==
    ASSUME TypeInv, TypeInv', CopyInv, NEW r \in ArfRegs, AliasOf(r), CommitInst
    PROVE  AliasOf(r)'
<1>1. PICK h \in RobIds :
          /\ h = rob.head_ptr /\ rob'.head_ptr = NextId(h)
          /\ Entry(h).valid
          /\ \A j \in RobIds : /\ Entry(j)'.valid = (Entry(j).valid /\ j # h)
                               /\ Entry(j)'.inst = Entry(j).inst
  BY CommitRob
<1>2. rob \in ROBType /\ rob' \in ROBType /\ rat \in RATType
  BY DEF TypeInv, TypeOK
<1>3. WritersOf(r)' = WritersOf(r) \ {h}
  BY <1>1 DEF WritersOf, ValidIds
<1>4. \A i \in RobIds \ {h} : /\ Age(rob', i) = Age(rob, i) - 1
                              /\ Age(rob, i) \in Nat /\ Age(rob, i) # 0
      /\ Age(rob, h) = 0
  BY <1>1, <1>2, AgeAfterCommit, AgeFacts
<1>5. rat' = RatAfterCommit(Entry(h).inst)
  BY <1>1 DEF CommitInst, HeadInst, Entry
<1>6. \A i \in WritersOf(r) : i \in RobIds
  BY DEF WritersOf, ValidIds
<1>7. CASE Entry(h).inst.dest_reg # r
  <2>1. rat'[r] = rat[r]
    BY <1>2, <1>5, <1>7 DEF RatAfterCommit, rat_reset_entry, RATType
  <2>2. h \notin WritersOf(r)
    BY <1>7 DEF WritersOf
  <2>3. \A i, j \in WritersOf(r) : Age(rob, i) <= Age(rob, j) => Age(rob', i) <= Age(rob', j)
    BY <1>4, <1>6, <2>2
  <2> QED  BY <1>3, <2>1, <2>2, <2>3, AliasKept
<1>8. CASE Entry(h).inst.dest_reg = r
  <2>1. h \in WritersOf(r) /\ Entry(h).inst.dr_tag = h /\ r # NoReg
    <3>1. r # NoReg
      BY ArfAssumption DEF ArfRegs, NoReg
    <3> QED  BY <1>1, <1>8, <3>1 DEF WritersOf, ValidIds, CopyInv
  <2>2. /\ rat[r].valid /\ rat[r].prf_id \in WritersOf(r)
        /\ \A i \in WritersOf(r) : Age(rob, i) <= Age(rob, rat[r].prf_id)
    BY <2>1 DEF AliasOf
  <2>3. CASE rat[r].prf_id = h
    <3>1. rat'[r] = [valid |-> FALSE, prf_id |-> 0]
      BY <1>2, <1>5, <1>8, <2>1, <2>3 DEF RatAfterCommit, rat_reset_entry, RATType
    <3>2. \A i \in WritersOf(r) : i = h
      BY <1>4, <1>6, <2>2, <2>3
    <3>3. WritersOf(r)' = {} /\ rat'[r].valid = FALSE
      BY <1>3, <3>1, <3>2
    <3> QED  BY <3>3 DEF AliasOf
  <2>4. CASE rat[r].prf_id # h
    <3>1. rat' = rat
      BY <1>5, <1>8, <2>1, <2>4 DEF RatAfterCommit
    <3>2. rat[r].prf_id \in WritersOf(r)'
      BY <1>3, <2>2, <2>4
    <3>3. \A i \in WritersOf(r) \ {h} : Age(rob', i) <= Age(rob', rat[r].prf_id)
      BY <1>4, <1>6, <2>2, <2>4
    <3> QED  BY <1>3, <2>2, <3>1, <3>2, <3>3 DEF AliasOf
  <2> QED  BY <2>3, <2>4
<1> QED  BY <1>7, <1>8

\* The instruction that is issued is the youngest, and the alias goes to it.
LEMMA IssueAlias ==
    ASSUME TypeInv, Window(rob), NEW r \in ArfRegs, AliasOf(r), Issue
    PROVE  AliasOf(r)'
<1> DEFINE inst == Rename(IssueInst)
<1>1. PICK t \in RobIds :
          /\ t = rob.tail_ptr /\ ~ Entry(t).valid /\ rob'.head_ptr = rob.head_ptr
          /\ \A j \in RobIds \ {t} : Entry(j)' = Entry(j)
          /\ Entry(t)'.valid /\ Entry(t)'.inst = inst
          /\ inst.dest_reg # NoReg => inst.dr_tag = t
  BY IssueRob
<1>2. rat' = IF inst.dest_reg # NoReg THEN rat_set_remap(rat, inst.dest_reg, inst.dr_tag)
             ELSE rat
  BY DEF Issue
<1> HIDE DEF inst
<1>3. rat \in RATType /\ rob \in ROBType /\ r # NoReg
  <2>1. r # NoReg
    BY ArfAssumption DEF ArfRegs, NoReg
  <2> QED  BY <2>1 DEF TypeInv, TypeOK
<1>4. \A i \in RobIds : Age(rob', i) = Age(rob, i)
  BY <1>1 DEF Age
<1>5. WritersOf(r) \subseteq RobIds /\ t \notin WritersOf(r)
  BY <1>1 DEF WritersOf, ValidIds
<1>6. CASE inst.dest_reg # r
  <2>1. rat'[r] = rat[r]
    BY <1>2, <1>3, <1>6 DEF rat_set_remap, RATType
  <2>2. WritersOf(r)' = WritersOf(r)
    BY <1>1, <1>6 DEF WritersOf, ValidIds
  <2>3. \A i, j \in WritersOf(r) : Age(rob, i) <= Age(rob, j) => Age(rob', i) <= Age(rob', j)
    BY <1>4, <1>5
  <2> QED  BY <2>1, <2>2, <2>3, AliasKept
<1>7. CASE inst.dest_reg = r
  <2>1. rat'[r] = [valid |-> TRUE, prf_id |-> t]
    BY <1>1, <1>2, <1>3, <1>7 DEF rat_set_remap, RATType
  <2>2. WritersOf(r)' = WritersOf(r) \cup {t}
    BY <1>1, <1>7 DEF WritersOf, ValidIds
  <2>3. \A i \in WritersOf(r) : Age(rob, i) < Age(rob, t)
    BY <1>1, <1>3, TailIsYoungest DEF WritersOf, ValidIds, Entry, Issue, CanIssue
  <2>4. \A i \in WritersOf(r) \cup {t} : Age(rob', i) <= Age(rob', t)
    <3>1. \A i \in RobIds : Age(rob, i) \in Nat
      BY <1>3, AgeFacts
    <3> QED  BY <1>4, <1>5, <2>3, <3>1
  <2>5. rat'[r].valid = TRUE /\ rat'[r].prf_id = t /\ (WritersOf(r)' # {}) = TRUE
    BY <2>1, <2>2
  <2> QED  BY <2>2, <2>4, <2>5 DEF AliasOf
<1> QED  BY <1>6, <1>7

LEMMA StepRat ==
    TypeInv /\ TypeInv' /\ Window(rob) /\ FlightInv /\ CopyInv /\ RatInv /\ [Next]_vars => RatInv'
<1> SUFFICES ASSUME TypeInv, TypeInv', Window(rob), FlightInv, CopyInv, RatInv, [Next]_vars,
                    NEW r \in ArfRegs, Trusted(r)
             PROVE  AliasOf(r)'
  BY DEF RatInv, Trusted
<1>1. AliasOf(r) /\ WritersOf(r) \subseteq RobIds
  BY DEF RatInv, WritersOf, ValidIds
<1>2. ASSUME rob'.head_ptr = rob.head_ptr,
             \A j \in RobIds : /\ Entry(j)'.valid = Entry(j).valid
                               /\ Entry(j)'.inst.dest_reg = Entry(j).inst.dest_reg
      PROVE  /\ WritersOf(r)' = WritersOf(r)
             /\ \A i, j \in WritersOf(r) :
                    Age(rob, i) <= Age(rob, j) => Age(rob', i) <= Age(rob', j)
  BY <1>2 DEF WritersOf, ValidIds, Age
<1>3. CASE WritebackLane
  <2>1. /\ WritersOf(r)' = WritersOf(r)
        /\ \A i, j \in WritersOf(r) :
               Age(rob, i) <= Age(rob, j) => Age(rob', i) <= Age(rob', j)
    BY <1>2, <1>3, WritebackRob DEF SameInst
  <2>2. rat \in RATType /\ (rat' = rat \/ rat' = [rat EXCEPT ![OobReg].prf_id = SmashByte(@)])
    BY <1>3 DEF WritebackLane, TypeInv, TypeOK
  <2>3. r = OobReg => ~ rat[r].valid
    <3>1. r = OobReg => WritersOf(r) = {}
      BY DEF Trusted, CopyInv, WritersOf
    <3> QED  BY <1>1, <3>1 DEF AliasOf
  <2>4. rat'[r].valid = rat[r].valid /\ (rat[r].valid => rat'[r] = rat[r])
    BY <2>2, <2>3 DEF RATType
  <2> QED  BY <1>1, <2>1, <2>4, AliasKept
<1>4. CASE ~ CommitInst /\ ~ WritebackLane /\ ~ Issue
  <2>1. /\ rat' = rat /\ WritersOf(r)' = WritersOf(r)
        /\ \A i, j \in WritersOf(r) :
               Age(rob, i) <= Age(rob, j) => Age(rob', i) <= Age(rob', j)
    BY <1>2, <1>4, OtherSteps
  <2> QED  BY <1>1, <2>1, AliasKept
<1> QED  BY <1>1, <1>3, <1>4, CommitAlias, IssueAlias

LEMMA InitRename == Init => CopyInv /\ RatInv /\ OperandInv
<1> SUFFICES ASSUME Init PROVE CopyInv /\ RatInv /\ OperandInv
  OBVIOUS
<1>1. ValidIds = {} /\ \A r : WritersOf(r) = {}
  BY DEF Init, rob_init, ValidIds, Entry, WritersOf
<1>2. RatInv
  BY <1>1 DEF Init, rat_init, RatInv, AliasOf
<1>3. \A l \in Lanes : ~ FE_latch[l].valid /\ ~ ID_latch[l].valid
  BY DEF Init, EmptyLatch
<1> QED  BY <1>1, <1>2, <1>3 DEF CopyInv, CopiesOf, OperandInv

\* The invariant with what it rests on.
LEMMA RatHolds == Spec => [](TypeInv /\ Window(rob) /\ FlightInv /\ ExecInv /\ CopyInv /\ RatInv)
<1>1. Init => CopyInv /\ RatInv
  BY InitRename
<1>2. TypeInv /\ TypeInv' /\ Window(rob) /\ FlightInv /\ ExecInv /\ CopyInv /\ RatInv
         /\ [Next]_vars => CopyInv' /\ RatInv'
  BY StepCopy, StepRat
<1> QED  BY <1>1, <1>2, FlightHolds, ExecHolds, PTL DEF Spec

(***************************************************************************)
(* A register's alias names the youngest of its writers in the buffer, and *)
(* there is an alias exactly when there is a writer.  This is so for every *)
(* width and trace and every register but OobReg, and for all registers    *)
(* when no record writes OobReg.                                           *)
(***************************************************************************)
THEOREM RatNamesLatestWriterHolds ==
    /\ Spec => []RatInv
    /\ OobReg \notin Dests => (Spec => []RatNamesLatestWriter)
<1>1. RatInv /\ OobReg \notin Dests => RatNamesLatestWriter
  BY DEF RatInv, Trusted, AliasOf, RatNamesLatestWriter
<1>2. ASSUME OobReg \notin Dests
      PROVE  RatInv => RatNamesLatestWriter
  BY <1>1, <1>2
<1>3. OobReg \notin Dests => (Spec => []RatNamesLatestWriter)
  <2> SUFFICES ASSUME OobReg \notin Dests PROVE Spec => []RatNamesLatestWriter
    OBVIOUS
  <2>1. RatInv => RatNamesLatestWriter
    BY <1>1
  <2> QED  BY <2>1, RatHolds, PTL
<1> QED  BY <1>3, RatHolds, PTL

-----------------------------------------------------------------------------
(* Wakeups. *)

\* The same writers, in the same order, with the same results to come.
LEMMA WaitKept ==
    ASSUME NEW i \in RobIds, NEW k \in Src, WaitsRight(i, k),
           Pending(i, k)' = Pending(i, k),
           Entry(i)'.inst.src_ready[k] = Entry(i).inst.src_ready[k],
           Entry(i)'.inst.src_tag[k] = Entry(i).inst.src_tag[k]
    PROVE  WaitsRight(i, k)'
BY DEF WaitsRight

\* The committed instruction is ready, so nobody waits for it.
LEMMA CommitOperand ==
    ASSUME TypeInv, TypeInv', CommitInst, NEW i \in ValidIds', NEW k \in Src, WaitsRight(i, k)
    PROVE  WaitsRight(i, k)'
<1>1. PICK h \in RobIds :
          /\ h = rob.head_ptr /\ rob'.head_ptr = NextId(h)
          /\ Entry(h).valid /\ Entry(h).ready
          /\ \A j \in RobIds : /\ Entry(j)'.valid = (Entry(j).valid /\ j # h)
                               /\ Entry(j)'.ready = Entry(j).ready
                               /\ Entry(j)'.inst = Entry(j).inst
  BY CommitRob
<1>2. rob \in ROBType /\ rob' \in ROBType
  BY DEF TypeInv, TypeOK
<1>3. /\ \A j \in RobIds \ {h} : /\ Age(rob', j) = Age(rob, j) - 1
                                 /\ Age(rob, j) \in Nat /\ Age(rob, j) # 0
      /\ Age(rob, h) = 0
  BY <1>1, <1>2, AgeAfterCommit, AgeFacts
<1>4. i \in RobIds \ {h}
  BY <1>1 DEF ValidIds
<1>5. PendingWriters(i, k) \subseteq RobIds
  BY DEF PendingWriters, ValidIds
<1>6. PendingWriters(i, k)' = PendingWriters(i, k) \ {h}
  <2>1. \A j \in RobIds \ {h} : (Age(rob', j) < Age(rob', i)) <=> (Age(rob, j) < Age(rob, i))
    BY <1>3, <1>4
  <2>2. /\ ValidIds' = ValidIds \ {h} /\ ValidIds \subseteq RobIds
        /\ \A j \in RobIds : Entry(j)'.inst = Entry(j).inst
    BY <1>1 DEF ValidIds
  <2> QED  BY <1>4, <2>1, <2>2 DEF PendingWriters
<1>7. ASSUME NEW j \in PendingWriters(i, k) \ {h}
      PROVE  (\A l \in PendingWriters(i, k) : Age(rob, l) <= Age(rob, j))
                <=> (\A l \in PendingWriters(i, k) \ {h} : Age(rob', l) <= Age(rob', j))
  BY <1>3, <1>5
<1>8. Pending(i, k)' = Pending(i, k)
  BY <1>1, <1>5, <1>6, <1>7 DEF Pending
<1> QED  BY <1>1, <1>4, <1>8, WaitKept

\* The latch that is written back holds a copy of the entry that is marked.
LEMMA WritebackFinds ==
    ASSUME TypeInv, FlightInv, ExecInv, CopyInv, WritebackLane, EX_latch[lane].valid
    PROVE  /\ WrittenBack \in ValidIds
           /\ EX_latch[lane].inst.dest_reg = Entry(WrittenBack).inst.dest_reg
           /\ EX_latch[lane].inst.dr_tag = Entry(WrittenBack).inst.dr_tag
<1>1. lane \in ExLanes /\ DOMAIN EX_latch = ExLanes
  BY DEF WritebackLane, TypeInv, TypeOK, LaneInRange
<1>2. NumAt(EX_latch, lane) \in ExecutingNums
  BY <1>1 DEF ExecInv, NumsIn
<1>3. PICK i \in ValidIds : Num(i) = NumAt(EX_latch, lane)
  BY <1>2, ExecutingInRob
<1>4. WrittenBack = i
  BY <1>3, FindsTheEntry DEF WrittenBack, NumAt, Num, Entry
<1> QED  BY <1>1, <1>3, <1>4 DEF CopyInv, CopiesOf

\* Only an operand that waits for the entry that is marked is woken, and it is.
LEMMA WritebackOperand ==
    ASSUME TypeInv, FlightInv, ExecInv, CopyInv, WritebackLane,
           NEW i \in ValidIds, NEW k \in Src, WaitsRight(i, k)
    PROVE  WaitsRight(i, k)'
<1>1. PICK f : f = WrittenBack
  OBVIOUS
<1>2. /\ i \in RobIds /\ rob'.head_ptr = rob.head_ptr
      /\ f # -1 => f \in RobIds /\ Num(f) = NumAt(EX_latch, lane)
      /\ \A j \in RobIds :
             /\ Entry(j)'.valid = Entry(j).valid
             /\ Entry(j)'.ready = (Entry(j).ready \/ j = f)
             /\ SameInst(Entry(j).inst, Entry(j)'.inst)
      /\ Entry(i)'.inst.src_ready[k] = (Entry(i).inst.src_ready[k] \/ Wakes(i, k))
      /\ Entry(i)'.inst.src_tag[k] = Entry(i).inst.src_tag[k]
  BY <1>1, WritebackRob DEF ValidIds, SameInst
<1>3. PendingWriters(i, k) \subseteq RobIds /\ \A j \in RobIds : Age(rob', j) = Age(rob, j)
  BY <1>2 DEF PendingWriters, ValidIds, Age
<1>4. PendingWriters(i, k)' = PendingWriters(i, k)
  BY <1>2, <1>3 DEF PendingWriters, ValidIds, SameInst
<1>5. Pending(i, k)' = Pending(i, k) \ {f}
  BY <1>2, <1>3, <1>4 DEF Pending
<1>6. CASE Entry(i).inst.src_ready[k]
  BY <1>2, <1>5, <1>6 DEF WaitsRight
<1>7. CASE ~ Entry(i).inst.src_ready[k] /\ f = Entry(i).inst.src_tag[k]
  <2>1. f \in Pending(i, k)
    BY <1>7 DEF WaitsRight
  <2>2. /\ f \in ValidIds /\ ~ Entry(f).ready
        /\ Entry(f).inst.dest_reg # NoReg /\ Entry(i).inst.src_reg[k] # NoReg
    BY <2>1 DEF Pending, PendingWriters
  <2>3. EX_latch[lane].valid
    <3>1. lane \in ExLanes /\ Num(f) = NumAt(EX_latch, lane)
      <4>1. f # -1
        BY <2>2, RobAssumption DEF ValidIds
      <4> QED  BY <1>2, <4>1 DEF WritebackLane, TypeInv, LaneInRange
    <3> QED  BY <2>2, <3>1 DEF ExecInv
  <2>4. Wakes(i, k)
    BY <1>1, <1>7, <2>2, <2>3, WritebackFinds DEF Wakes, WaitsFor, CopyInv, Entry
  <2> QED  BY <1>2, <1>5, <1>7, <2>4 DEF WaitsRight
<1>8. CASE ~ Entry(i).inst.src_ready[k] /\ f # Entry(i).inst.src_tag[k]
  <2>1. ~ Wakes(i, k)
    <3>1. SUFFICES ASSUME Wakes(i, k) PROVE FALSE
      OBVIOUS
    <3>2. /\ EX_latch[lane].valid /\ EX_latch[lane].inst.dest_reg # NoReg
          /\ Entry(i).inst.src_tag[k] = EX_latch[lane].inst.dr_tag
      BY <3>1 DEF Wakes, WaitsFor, Entry
    <3> QED  BY <1>1, <1>8, <3>2, WritebackFinds DEF CopyInv
  <2> QED  BY <1>2, <1>5, <1>8, <2>1 DEF WaitsRight
<1> QED  BY <1>6, <1>7, <1>8

\* An operand of the new instruction waits for the entry its register's alias names.
LEMMA IssueOperand ==
    ASSUME TypeInv, Window(rob), RatInv, OperandInv, Issue, NEW i \in ValidIds', NEW k \in Src,
           Trusted(Entry(i)'.inst.src_reg[k])
    PROVE  WaitsRight(i, k)'
<1> DEFINE reg == IssueInst.src_reg[k]
<1>1. PICK t \in RobIds :
          /\ t = rob.tail_ptr /\ ~ Entry(t).valid /\ rob'.head_ptr = rob.head_ptr
          /\ \A j \in RobIds \ {t} : Entry(j)' = Entry(j)
          /\ Entry(t)'.valid /\ IssueInst \in InstInfo
          /\ Entry(t)'.inst.src_reg[k] = reg
          /\ Entry(t)'.inst.src_tag[k] = OperandTag(IssueInst, k)
          /\ Entry(t)'.inst.src_ready[k] = OperandReady(IssueInst, k)
  BY IssueRob
<1>2. rat \in RATType /\ rob \in ROBType /\ i \in RobIds
  BY DEF TypeInv, TypeOK, ValidIds
<1>3. /\ \A j \in RobIds : Age(rob', j) = Age(rob, j) /\ Age(rob, j) \in Nat
      /\ \A j, l \in RobIds : Age(rob, j) = Age(rob, l) => j = l
  BY <1>1, <1>2, AgeFacts DEF Age
<1>4. \A j \in ValidIds : j \in RobIds /\ j # t /\ Age(rob, j) < Age(rob, t)
  BY <1>1, <1>2, TailIsYoungest DEF ValidIds, Entry, Issue, CanIssue
<1>5. ValidIds' = ValidIds \cup {t}
  BY <1>1 DEF ValidIds
<1>6. CASE i # t
  <2>1. i \in ValidIds /\ Entry(i)' = Entry(i) /\ WaitsRight(i, k)
    BY <1>1, <1>2, <1>5, <1>6 DEF OperandInv
  <2>2. PendingWriters(i, k)' = PendingWriters(i, k)
    <3>1. \A j \in ValidIds : Entry(j)' = Entry(j)
      BY <1>1, <1>4
    <3>2. ~ (Age(rob', t) < Age(rob', i))
      BY <1>2, <1>3, <1>4, <2>1
    <3> QED  BY <1>2, <1>3, <1>4, <1>5, <2>1, <3>1, <3>2 DEF PendingWriters
  <2>3. Pending(i, k)' = Pending(i, k)
    <3>1. \A j \in PendingWriters(i, k) : /\ Entry(j)' = Entry(j)
                                          /\ Age(rob', j) = Age(rob, j)
      BY <1>1, <1>3, <1>4 DEF PendingWriters
    <3> QED  BY <2>2, <3>1 DEF Pending
  <2> QED  BY <1>2, <2>1, <2>3, WaitKept
<1>7. CASE i = t
  <2>1. \A j \in WritersOf(reg) : j \in ValidIds /\ Entry(j)' = Entry(j)
                                  /\ Age(rob', j) = Age(rob, j) /\ Age(rob', j) < Age(rob', t)
    BY <1>1, <1>3, <1>4 DEF WritersOf
  <2>2. PendingWriters(t, k)' = IF reg = NoReg THEN {} ELSE WritersOf(reg)
    <3>1. \A j \in ValidIds : Entry(j)' = Entry(j)
      BY <1>1, <1>4
    <3>2. ~ (Age(rob', t) < Age(rob', t))
      BY <1>3
    <3> QED  BY <1>1, <1>4, <1>5, <2>1, <3>1, <3>2 DEF PendingWriters, WritersOf
  <2>3. CASE Renamed(IssueInst, k)
    <3>1. PICK p : p = rat[reg].prf_id
      OBVIOUS
    <3>2. reg # NoReg /\ reg \in ArfRegs /\ rat[reg].valid
      BY <1>1, <2>3 DEF Renamed, InstInfo
    <3>3. p \in WritersOf(reg) /\ \A j \in WritersOf(reg) : Age(rob, j) <= Age(rob, p)
      <4>1. AliasOf(reg)
        BY <1>1, <1>7, <3>2 DEF RatInv
      <4> QED  BY <3>1, <3>2, <4>1 DEF AliasOf
    <3>4. /\ Entry(t)'.inst.src_tag[k] = p
          /\ Entry(t)'.inst.src_ready[k] = Entry(p).ready
      <4>1. Entry(p).valid = TRUE /\ Entry(p).ready \in BOOLEAN
        BY <1>2, <3>3 DEF WritersOf, ValidIds, Entry, ROBType, ROBEntry
      <4>2. OperandTag(IssueInst, k) = p
        BY <2>3, <3>1, <3>2 DEF OperandTag, rat_get_remap
      <4>3. OperandReady(IssueInst, k) = Entry(p).ready
        BY <2>3, <4>1, <4>2 DEF OperandReady, rob_check_ready, Entry
      <4> QED  BY <1>1, <4>2, <4>3
    <3>5. Pending(t, k)' = IF Entry(p).ready THEN {} ELSE {p}
      <4>1. PendingWriters(t, k)' = WritersOf(reg)
        BY <2>2, <3>2
      <4>2. \A j \in WritersOf(reg) :
                (\A l \in WritersOf(reg) : Age(rob', l) <= Age(rob', j)) <=> j = p
        <5>1. \A j \in WritersOf(reg) : Age(rob, j) \in Nat /\ j \in RobIds
          BY <1>3, <1>4, <2>1
        <5>2. ASSUME NEW j \in WritersOf(reg), Age(rob, p) <= Age(rob, j) PROVE j = p
          <6>1. Age(rob, j) = Age(rob, p)
            BY <3>3, <5>1, <5>2
          <6> QED  BY <1>3, <3>3, <5>1, <6>1
        <5> QED  BY <2>1, <3>3, <5>2
      <4>3. \A j \in WritersOf(reg) : Entry(j)'.ready = Entry(j).ready
        BY <2>1
      <4> QED  BY <3>3, <4>1, <4>2, <4>3 DEF Pending
    <3> QED  BY <1>7, <3>4, <3>5 DEF WaitsRight
  <2>4. CASE ~ Renamed(IssueInst, k)
    <3>1. PendingWriters(t, k)' = {}
      <4>1. CASE reg = NoReg
        BY <2>2, <4>1
      <4>2. CASE reg # NoReg
        <5>1. reg \in ArfRegs /\ ~ rat[reg].valid
          BY <1>1, <2>4, <4>2 DEF Renamed, InstInfo
        <5>2. AliasOf(reg)
          BY <1>1, <1>7, <5>1 DEF RatInv
        <5> QED  BY <2>2, <4>2, <5>1, <5>2 DEF AliasOf
      <4> QED  BY <4>1, <4>2
    <3>2. Entry(t)'.inst.src_ready[k]
      BY <1>1, <2>4 DEF OperandReady
    <3>3. Pending(t, k)' = {}
      BY <3>1 DEF Pending
    <3> QED  BY <1>7, <3>2, <3>3 DEF WaitsRight
  <2> QED  BY <2>3, <2>4
<1> QED  BY <1>6, <1>7

LEMMA StepOperand ==
    /\ TypeInv /\ TypeInv' /\ Window(rob) /\ FlightInv /\ ExecInv /\ CopyInv
    /\ RatInv /\ OperandInv /\ [Next]_vars
    => OperandInv'
<1> SUFFICES ASSUME TypeInv, TypeInv', Window(rob), FlightInv, ExecInv, CopyInv, RatInv,
                    OperandInv, [Next]_vars, NEW i \in ValidIds', NEW k \in Src,
                    Trusted(Entry(i)'.inst.src_reg[k])
             PROVE  WaitsRight(i, k)'
  BY DEF OperandInv, Trusted, Dests
<1>1. CASE Issue
  BY <1>1, IssueOperand
<1>2. CASE ~ Issue
  <2>1. i \in ValidIds /\ WaitsRight(i, k) /\ i \in RobIds
    <3>1. i \in ValidIds /\ SameInst(Entry(i).inst, Entry(i)'.inst)
      BY <1>2, OnlyIssueAdds DEF BufferKept
    <3> QED  BY <3>1 DEF OperandInv, SameInst, ValidIds
  <2>2. CASE CommitInst
    BY <2>1, <2>2, CommitOperand
  <2>3. CASE WritebackLane
    BY <2>1, <2>3, WritebackOperand
  <2>4. CASE ~ CommitInst /\ ~ WritebackLane
    <3>1. /\ rob'.head_ptr = rob.head_ptr
          /\ \A j \in RobIds : /\ Entry(j)'.valid = Entry(j).valid
                               /\ Entry(j)'.ready = Entry(j).ready
                               /\ Entry(j)'.inst = Entry(j).inst
      BY <1>2, <2>4, OtherSteps
    <3>2. \A j \in RobIds : Age(rob', j) = Age(rob, j)
      BY <3>1 DEF Age
    <3>3. PendingWriters(i, k)' = PendingWriters(i, k) /\ PendingWriters(i, k) \subseteq RobIds
      BY <2>1, <3>1, <3>2 DEF PendingWriters, ValidIds
    <3>4. Pending(i, k)' = Pending(i, k)
      BY <3>1, <3>2, <3>3 DEF Pending
    <3> QED  BY <2>1, <3>1, <3>4, WaitKept
  <2> QED  BY <2>2, <2>3, <2>4
<1> QED  BY <1>1, <1>2

LEMMA OperandHolds == Spec => []OperandInv
<1>1. Init => OperandInv
  BY InitRename
<1>2. /\ TypeInv /\ TypeInv' /\ Window(rob) /\ FlightInv /\ ExecInv /\ CopyInv
      /\ RatInv /\ OperandInv /\ [Next]_vars
      => OperandInv'
  BY StepOperand
<1> QED  BY <1>1, <1>2, RatHolds, PTL DEF Spec

(***************************************************************************)
(* No wakeup is lost and none comes early: an operand that waits names the *)
(* youngest older writer of its register, which is in the buffer with its  *)
(* result to come, and an operand that is ready has no such writer.  For   *)
(* every width, latency, policy and trace; operands that read OobReg need  *)
(* a trace that does not write it.                                         *)
(***************************************************************************)
THEOREM OperandsWaitForTheirProducerHolds ==
    /\ Spec => []OperandInv
    /\ OobReg \notin Dests => (Spec => []OperandsWaitForTheirProducer)
<1>1. \A i, k : LET W == PendingWriters(i, k)
                    youngest == {j \in W : \A l \in W : Age(rob, l) <= Age(rob, j)}
                IN  {j \in youngest : ~ Entry(j).ready} = Pending(i, k)
  BY DEF Pending
<1>2. OperandInv /\ OobReg \notin Dests => OperandsWaitForTheirProducer
  BY <1>1 DEF OperandInv, Trusted, WaitsRight, OperandsWaitForTheirProducer
<1>3. OobReg \notin Dests => (Spec => []OperandsWaitForTheirProducer)
  <2> SUFFICES ASSUME OobReg \notin Dests PROVE Spec => []OperandsWaitForTheirProducer
    OBVIOUS
  <2>1. OperandInv => OperandsWaitForTheirProducer
    BY <1>2
  <2> QED  BY <2>1, OperandHolds, PTL
<1> QED  BY <1>3, OperandHolds, PTL

-----------------------------------------------------------------------------
(***************************************************************************)
(* Program order, which the sort of issue keeps with two lanes at most.    *)
(* The instructions fetched are, in order, those retired, those in the     *)
(* buffer, those that decode has taken and those still in fetch.           *)
(***************************************************************************)
Issued == stat_retired_inst + Used(rob)

NumberInv ==
    /\ \A i \in ValidIds : Num(i) = stat_retired_inst + 1 + Age(rob, i)
    /\ Issued < next_inst_num /\ next_inst_num <= last_inst_num + 1
    /\ NumsIn(ID_latch) = Issued + 1 .. next_inst_num - 1
    /\ NumsIn(FE_latch) = next_inst_num .. last_inst_num

\* The order of lanes is that of the instructions in them, and leaves no lane out.
Sorted == \A a, b \in Lanes :
              /\ a < b
              /\ ID_latch[pipeIndex[a]].valid
              /\ ID_latch[pipeIndex[b]].valid
              => NumAt(ID_latch, pipeIndex[a]) < NumAt(ID_latch, pipeIndex[b])
EveryLane == \A l \in Lanes : \E a \in Lanes : pipeIndex[a] = l

\* A lane that issue has passed over is still occupied only when the buffer is full.
SortInv ==
    /\ stage \notin {"sort", "issue", "crashed"} => pipeIndex = LaneOrder
    /\ stage # "sort" => pass = 0
    /\ stage = "sort" /\ pass = 0 /\ lane = 0 => pipeIndex = LaneOrder
    /\ stage = "sort" /\ (pass # 0 \/ lane # 0) => Sorted
    /\ stage \in {"sort", "issue"} => EveryLane
    /\ stage = "issue" =>
        /\ Sorted
        /\ \A a \in Lanes : a < lane /\ ID_latch[pipeIndex[a]].valid => ~ rob_check_space(rob)

LEMMA UsedIsNat ==
    ASSUME NEW r \in ROBType
    PROVE  /\ Used(r) \in Nat
           /\ rob_check_space(r) => Age(r, r.tail_ptr) = Used(r)
<1>1. r.head_ptr \in RobIds /\ r.tail_ptr \in RobIds /\ NUM_ROB_ENTRIES \in Nat \ {0}
  BY RobAssumption DEF ROBType
<1> QED  BY <1>1, CircleDistance DEF Used, Age

\* Only a commit and an issue move a pointer or change a valid bit.
LEMMA UsedKept ==
    ASSUME TypeInv, FlightInv, [Next]_vars, ~ CommitInst, ~ Issue
    PROVE  Used(rob') = Used(rob)
<1>1. rob \in ROBType /\ rob.tail_ptr \in RobIds
  BY DEF TypeInv, TypeOK, ROBType
<1>2. /\ rob'.head_ptr = rob.head_ptr
      /\ \A j \in RobIds : Entry(j)'.valid = Entry(j).valid
  <2>1. CASE WritebackLane
    BY <2>1, WritebackRob
  <2>2. CASE ~ WritebackLane
    BY <2>2, OtherSteps
  <2> QED  BY <2>1, <2>2
<1>3. rob'.tail_ptr = rob.tail_ptr
  <2>1. CASE UNCHANGED rob
    BY <2>1
  <2>2. CASE WritebackLane
    <3>1. Woken.tail_ptr = rob.tail_ptr
      BY <1>1 DEF Woken, rob_wakeup, WakeOperands, ROBType
    <3>2. Woken \in ROBType
      BY <1>1, WakeupType DEF Woken
    <3>3. rob' = Woken \/ \E i : rob' = SetReady(Woken, i)
      BY <2>2 DEF WritebackLane, rob_mark_ready
    <3> QED  BY <3>1, <3>2, <3>3 DEF SetReady, ROBType
  <2>3. CASE ScheduleInst
    BY <1>1, <2>3 DEF ScheduleInst, rob_mark_exec, SetExec, ROBType
  <2>4. CASE UNCHANGED vars
    BY <2>1, <2>4 DEF vars
  <2>5. CASE CommitNothing \/ Exe
    BY <2>1, <2>5 DEF CommitNothing, Exe, ExeEmpty, ExeCopy, ExeInsert, ExeFull,
                      ExeqCycle, ExeTransfer, ExeNoneLeft, exeFrame
  <2>6. CASE ScheduleNothing \/ ScheduleOccupied \/ ScheduleReturn
    BY <2>1, <2>6 DEF ScheduleNothing, ScheduleOccupied, ScheduleReturn
  <2>7. CASE IssueCompare \/ IssueNextPass \/ IssueNothing \/ IssueCrash
    BY <2>1, <2>7 DEF IssueCompare, IssueNextPass, IssueNothing, IssueCrash, sortFrame
  <2>8. CASE DecodeStage \/ FetchStage
    BY <2>1, <2>8 DEF DecodeStage, Decode, DecodeNothing, decodeFrame,
                      FetchStage, FetchInst, FetchEnd, FetchOccupied, fetchFrame
  <2> QED
    BY <2>2, <2>3, <2>4, <2>5, <2>6, <2>7, <2>8
       DEF Next, Step, Over, Commit, Writeback, Schedule, IssueStage
<1>4. rob_check_space(rob') = rob_check_space(rob)
  BY <1>1, <1>2, <1>3 DEF rob_check_space, Entry
<1> QED  BY <1>2, <1>3, <1>4 DEF Used

\* The numbers of the entries, for steps that leave the buffer's window as it is.
LEMMA NumbersKept ==
    ASSUME TypeInv, FlightInv, [Next]_vars, ~ CommitInst, ~ Issue
    PROVE  /\ stat_retired_inst' = stat_retired_inst
           /\ ValidIds' = ValidIds
           /\ \A i \in ValidIds : Num(i)' = Num(i) /\ Age(rob, i)' = Age(rob, i)
           /\ Issued' = Issued
<1>1. stat_retired_inst' = stat_retired_inst
  BY DEF Next, vars, Step, Over, Commit, CommitNothing, Writeback, WritebackLane, Exe,
         ExeEmpty, ExeCopy, ExeInsert, ExeFull, ExeqCycle, ExeTransfer, ExeNoneLeft, exeFrame,
         Schedule, ScheduleInst, ScheduleNothing, ScheduleOccupied, ScheduleReturn, schedFrame,
         IssueStage, IssueCompare, IssueNextPass, IssueNothing, IssueCrash, sortFrame, issueFrame,
         DecodeStage, Decode, DecodeNothing, decodeFrame,
         FetchStage, FetchInst, FetchEnd, FetchOccupied, fetchFrame, haltVars
<1>2. /\ rob'.head_ptr = rob.head_ptr
      /\ \A j \in RobIds : /\ Entry(j)'.valid = Entry(j).valid
                           /\ Entry(j)'.inst.inst_num = Entry(j).inst.inst_num
  <2>1. CASE WritebackLane
    BY <2>1, WritebackRob DEF SameInst
  <2>2. CASE ~ WritebackLane
    BY <2>2, OtherSteps
  <2> QED  BY <2>1, <2>2
<1>3. ValidIds' = ValidIds
  BY <1>2 DEF ValidIds
<1>4. \A i \in ValidIds : Num(i)' = Num(i) /\ Age(rob, i)' = Age(rob, i)
  BY <1>2 DEF ValidIds, Num, Age
<1>5. Used(rob)' = Used(rob)
  BY UsedKept DEF Used, rob_check_space
<1> QED  BY <1>1, <1>3, <1>4, <1>5 DEF Issued

\* Issue takes the instruction after the last one that was issued.
LEMMA IssuesTheNext ==
    ASSUME TypeInv, NumberInv, SortInv, Issue
    PROVE  NumAt(ID_latch, IssueLane) = Issued + 1
<1> DEFINE n == NumAt(ID_latch, IssueLane)
<1>1. /\ stage = "issue" /\ rob_check_space(rob) /\ lane \in Lanes
      /\ IssueLane \in Lanes /\ ID_latch[IssueLane].valid
      /\ DOMAIN ID_latch = Lanes /\ pipeIndex \in [Lanes -> Lanes]
      /\ \A l \in Lanes : NumAt(ID_latch, l) \in Nat
  BY DEF TypeInv, TypeOK, LaneInRange, Issue, CanIssue, IssueLane, Latch, InstInfo, NumAt
<1>2. Issued \in Nat /\ next_inst_num \in Nat
  BY UsedIsNat DEF Issued, TypeInv, TypeOK
<1>3. n \in NumsIn(ID_latch)
  BY <1>1 DEF NumsIn
<1>4. n \in Issued + 1 .. next_inst_num - 1
  BY <1>3 DEF NumberInv
<1>5. Issued + 1 \in NumsIn(ID_latch)
  BY <1>2, <1>4 DEF NumberInv
<1>6. PICK l \in Lanes : ID_latch[l].valid /\ NumAt(ID_latch, l) = Issued + 1
  BY <1>1, <1>5 DEF NumsIn
<1>7. PICK b \in Lanes : pipeIndex[b] = l
  BY <1>1 DEF SortInv, EveryLane
<1>8. ~ b < lane
  BY <1>1, <1>6, <1>7 DEF SortInv
<1>9. lane < b => n < Issued + 1
  BY <1>1, <1>6, <1>7 DEF SortInv, Sorted, IssueLane
<1>10. b = lane \/ b < lane \/ lane < b
  BY <1>1 DEF Lanes
<1>11. ~ n < Issued + 1
  BY <1>2, <1>4
<1> QED  BY <1>6, <1>7, <1>8, <1>9, <1>10, <1>11 DEF IssueLane

LEMMA IssueNumber ==
    ASSUME TypeInv, Window(rob), FlightInv, NumberInv, SortInv, Issue
    PROVE  NumberInv'
<1> DEFINE n == NumAt(ID_latch, IssueLane)
<1>1. PICK t \in RobIds :
          /\ t = rob.tail_ptr /\ ~ Entry(t).valid /\ rob'.head_ptr = rob.head_ptr
          /\ \A j \in RobIds \ {t} : Entry(j)' = Entry(j)
          /\ Entry(t)'.valid /\ Entry(t)'.inst.inst_num = n
          /\ IssueLane \in Lanes /\ ID_latch[IssueLane].valid
  BY IssueRob
<1>2. /\ rob \in ROBType /\ rob_check_space(rob) /\ stat_retired_inst \in Nat
      /\ next_inst_num \in Nat /\ last_inst_num \in Nat
  BY DEF TypeInv, TypeOK, Issue, CanIssue, last_inst_num
<1>3. Used(rob)' = Used(rob) + 1
  <2>1. \E inst : rob' = rob_insert(rob, inst)
    BY DEF Issue
  <2>2. Used(rob') = Used(rob) + 1
    BY <1>2, <2>1, InsertKeepsWindow
  <2> QED  BY <2>2 DEF Used, rob_check_space
<1>4. UNCHANGED <<FE_latch, fetched, stat_retired_inst, next_inst_num>>
  BY DEF Issue, issueFrame, feVars, haltVars
<1>5. n = Issued + 1 /\ Issued \in Nat /\ Issued' = Issued + 1
  BY <1>2, <1>3, <1>4, IssuesTheNext, UsedIsNat DEF Issued
<1>6. NumsIn(ID_latch)' = NumsIn(ID_latch) \ {n}
  <2>1. /\ DOMAIN ID_latch = Lanes /\ DOMAIN ID_latch' = Lanes /\ ~ ID_latch'[IssueLane].valid
        /\ \A k \in Lanes \ {IssueLane} : ID_latch'[k] = ID_latch[k]
    BY <1>1 DEF Issue, TypeInv, TypeOK, Latch
  <2>2. \A k \in DOMAIN ID_latch \ {IssueLane} : SameAt(ID_latch, ID_latch', k)
    BY <2>1 DEF SameAt, NumAt
  <2>3. NumsIn(ID_latch') = NumsIn(ID_latch) \ {n}
    <3> DEFINE l == IssueLane
    <3>1. l \in DOMAIN ID_latch /\ ID_latch[l].valid /\ ~ ID_latch'[l].valid
      BY <1>1, <2>1
    <3>2. \A k \in DOMAIN ID_latch \ {l} : SameAt(ID_latch, ID_latch', k)
      BY <2>2
    <3> HIDE DEF l
    <3>3. NumsIn(ID_latch') = NumsIn(ID_latch) \ {NumAt(ID_latch, l)}
      BY <2>1, <3>1, <3>2, Lost DEF FlightInv
    <3> QED  BY <3>3 DEF l
  <2> QED  BY <2>3 DEF NumsIn, NumAt
<1>7. NumsIn(ID_latch)' = Issued' + 1 .. next_inst_num' - 1 /\ Issued' < next_inst_num'
  <2>1. n \in NumsIn(ID_latch)
    BY <1>1 DEF NumsIn, TypeInv, TypeOK
  <2>2. n <= next_inst_num - 1
    BY <1>2, <1>5, <2>1 DEF NumberInv
  <2> QED  BY <1>2, <1>4, <1>5, <1>6, <2>2 DEF NumberInv
<1>8. NumsIn(FE_latch)' = next_inst_num' .. last_inst_num' /\ next_inst_num' <= last_inst_num' + 1
  BY <1>4 DEF NumberInv, NumsIn, NumAt, last_inst_num
<1>9. ASSUME NEW i \in ValidIds'
      PROVE  Num(i)' = stat_retired_inst' + 1 + Age(rob, i)'
  <2>1. Age(rob, i)' = Age(rob, i) /\ i \in RobIds
    BY <1>1 DEF Age, ValidIds
  <2>2. CASE i = t
    BY <1>1, <1>2, <1>4, <1>5, <2>1, <2>2, UsedIsNat DEF Num, Issued
  <2>3. CASE i # t
    BY <1>1, <1>4, <2>1, <2>3 DEF Num, ValidIds, NumberInv
  <2> QED  BY <2>2, <2>3
<1> QED  BY <1>7, <1>8, <1>9 DEF NumberInv

LEMMA CommitNumber ==
    ASSUME TypeInv, TypeInv', Window(rob), NumberInv, CommitInst
    PROVE  NumberInv'
<1>1. PICK h \in RobIds :
          /\ h = rob.head_ptr /\ rob'.head_ptr = NextId(h)
          /\ \A j \in RobIds : /\ Entry(j)'.valid = (Entry(j).valid /\ j # h)
                               /\ Entry(j)'.inst = Entry(j).inst
  BY CommitRob
<1>2. /\ rob \in ROBType /\ rob' \in ROBType /\ stat_retired_inst \in Nat
      /\ stat_retired_inst' = stat_retired_inst + 1
      /\ UNCHANGED <<FE_latch, ID_latch, fetched, next_inst_num>>
  BY DEF TypeInv, TypeOK, CommitInst, feVars
<1>3. Used(rob)' = Used(rob) - 1
  <2>1. Used(rob') = Used(rob) - 1
    BY <1>2, RemoveKeepsWindow DEF CommitInst
  <2> QED  BY <2>1 DEF Used, rob_check_space
<1>4. Issued' = Issued
  BY <1>2, <1>3, UsedIsNat DEF Issued
<1>5. ASSUME NEW i \in ValidIds'
      PROVE  Num(i)' = stat_retired_inst' + 1 + Age(rob, i)'
  <2>1. i \in ValidIds /\ i \in RobIds /\ i # rob.head_ptr /\ Num(i)' = Num(i)
    BY <1>1 DEF ValidIds, Num
  <2>2. Age(rob', i) = Age(rob, i) - 1 /\ Age(rob, i) \in Nat
    BY <1>1, <1>2, <2>1, AgeAfterCommit, AgeFacts
  <2>3. Age(rob, i)' = Age(rob', i)
    BY DEF Age
  <2> QED  BY <1>2, <2>1, <2>2, <2>3 DEF NumberInv
<1> QED  BY <1>2, <1>4, <1>5 DEF NumberInv, NumsIn, NumAt, last_inst_num

LEMMA DecodeNumber ==
    ASSUME TypeInv, FlightInv, NumberInv, Decode
    PROVE  NumberInv'
<1>1. PICK j \in NextDecoded : /\ ID_latch' = [ID_latch EXCEPT ![lane] = FE_latch[j]]
                               /\ FE_latch' = [FE_latch EXCEPT ![j].valid = FALSE]
  BY DEF Decode
<1> DEFINE n == NumAt(FE_latch, j)
<1>2. /\ j \in Lanes /\ lane \in Lanes /\ FE_latch[j].valid /\ ~ ID_latch[lane].valid
      /\ ID_latch \in [Lanes -> Latch] /\ FE_latch \in [Lanes -> Latch]
      /\ n = next_inst_num
  BY DEF NextDecoded, Decode, TypeInv, TypeOK, LaneInRange, NumAt
<1>3. /\ DOMAIN FE_latch = Lanes /\ DOMAIN FE_latch' = Lanes /\ ~ FE_latch'[j].valid
      /\ \A k \in Lanes \ {j} : FE_latch'[k] = FE_latch[k]
  BY <1>1, <1>2 DEF Latch
<1>4. /\ DOMAIN ID_latch = Lanes /\ DOMAIN ID_latch' = Lanes
      /\ ID_latch'[lane].valid /\ NumAt(ID_latch', lane) = n
      /\ \A k \in Lanes \ {lane} : ID_latch'[k] = ID_latch[k]
  BY <1>1, <1>2 DEF NumAt
<1>5. UNCHANGED <<rob, fetched, stat_retired_inst>> /\ next_inst_num' = next_inst_num + 1
  BY DEF Decode, decodeFrame, haltVars
<1> HIDE DEF n
<1>6. n \in NumsIn(FE_latch) /\ NumsIn(FE_latch') = NumsIn(FE_latch) \ {n}
  BY <1>2, <1>3, Lost DEF FlightInv, SameAt, NumAt, n
<1>7. NumsIn(ID_latch') = NumsIn(ID_latch) \cup {n}
  <2>1. n \notin NumsIn(ID_latch)
    BY <1>6 DEF FlightInv
  <2> QED  BY <1>2, <1>4, <2>1, Gained DEF FlightInv, SameAt, NumAt
<1>8. /\ NumsIn(FE_latch)' = NumsIn(FE_latch) \ {n}
      /\ NumsIn(ID_latch)' = NumsIn(ID_latch) \cup {n}
  BY <1>6, <1>7 DEF NumsIn, NumAt
<1>9. /\ Issued' = Issued /\ last_inst_num' = last_inst_num
      /\ Issued \in Nat /\ last_inst_num \in Nat /\ next_inst_num \in Nat
  BY <1>5, UsedIsNat DEF Issued, Used, rob_check_space, last_inst_num, TypeInv, TypeOK
<1>10. next_inst_num <= last_inst_num
  BY <1>2, <1>6, <1>9 DEF NumberInv
<1>11. \A i \in ValidIds' : Num(i)' = stat_retired_inst' + 1 + Age(rob, i)'
  BY <1>5 DEF NumberInv, ValidIds, Num, Entry, Age
<1>12. /\ NumsIn(ID_latch)' = Issued' + 1 .. next_inst_num' - 1
       /\ NumsIn(FE_latch)' = next_inst_num' .. last_inst_num'
       /\ Issued' < next_inst_num' /\ next_inst_num' <= last_inst_num' + 1
  BY <1>2, <1>5, <1>8, <1>9, <1>10 DEF NumberInv
<1> QED  BY <1>11, <1>12 DEF NumberInv

LEMMA FetchNumber ==
    ASSUME TypeInv, FlightInv, NumberInv, FetchInst
    PROVE  NumberInv'
<1> DEFINE n == last_inst_num + 1
<1>1. PICK rec \in TraceRecords :
          /\ fetched' = Append(fetched, rec)
          /\ FE_latch' = [FE_latch EXCEPT ![lane] = Full(NewInst(n, rec))]
  BY DEF FetchInst
<1>2. /\ lane \in Lanes /\ ~ FE_latch[lane].valid /\ FE_latch \in [Lanes -> Latch]
      /\ fetched \in Seq(TraceRecords)
  BY DEF FetchInst, TypeInv, TypeOK, LaneInRange
<1>3. last_inst_num \in Nat /\ last_inst_num' = n
  BY <1>1, <1>2 DEF last_inst_num
<1>4. /\ DOMAIN FE_latch = Lanes /\ DOMAIN FE_latch' = Lanes
      /\ FE_latch'[lane].valid /\ NumAt(FE_latch', lane) = n
      /\ \A k \in Lanes \ {lane} : FE_latch'[k] = FE_latch[k]
  BY <1>1, <1>2 DEF NumAt, Full, NewInst
<1>5. UNCHANGED <<rob, ID_latch, stat_retired_inst, next_inst_num>>
  BY DEF FetchInst, fetchFrame
<1>6. next_inst_num \in Nat
  BY DEF TypeInv, TypeOK
<1> HIDE DEF n
<1>7. NumsIn(FE_latch') = NumsIn(FE_latch) \cup {n}
  <2>1. n \notin NumsIn(FE_latch)
    BY <1>3, <1>6 DEF NumberInv, n
  <2> QED  BY <1>2, <1>4, <2>1, Gained DEF FlightInv, SameAt, NumAt
<1>8. NumsIn(FE_latch)' = NumsIn(FE_latch) \cup {n}
  BY <1>7 DEF NumsIn, NumAt
<1>9. NumsIn(FE_latch)' = next_inst_num' .. last_inst_num' /\ next_inst_num' <= last_inst_num' + 1
  BY <1>3, <1>5, <1>6, <1>8 DEF NumberInv, n
<1>10. /\ \A i \in ValidIds' : Num(i)' = stat_retired_inst' + 1 + Age(rob, i)'
       /\ NumsIn(ID_latch)' = NumsIn(ID_latch) /\ Issued' = Issued
  BY <1>5 DEF NumberInv, ValidIds, Num, Entry, Age, NumsIn, NumAt, Issued, Used, rob_check_space
<1> QED  BY <1>5, <1>9, <1>10 DEF NumberInv

LEMMA StepNumber ==
    ASSUME TypeInv, TypeInv', Window(rob), FlightInv, NumberInv, SortInv, [Next]_vars
    PROVE  NumberInv'
<1>1. CASE UNCHANGED <<FE_latch, ID_latch, fetched, next_inst_num>> /\ ~ CommitInst /\ ~ Issue
  BY <1>1, NumbersKept DEF NumberInv, NumsIn, NumAt, last_inst_num
<1>2. CASE UNCHANGED vars
  BY <1>1, <1>2, CommitNumber, IssueNumber DEF vars
<1>3. CASE CommitNothing \/ Writeback \/ Exe
  BY <1>1, <1>3, CommitNumber, IssueNumber
     DEF CommitNothing, Writeback, WritebackLane, Exe, ExeEmpty, ExeCopy, ExeInsert, ExeFull,
         ExeqCycle, ExeTransfer, ExeNoneLeft, exeFrame, feVars
<1>4. CASE Schedule
  BY <1>1, <1>4, CommitNumber, IssueNumber
     DEF Schedule, ScheduleInst, ScheduleNothing, ScheduleOccupied, ScheduleReturn, schedFrame,
         feVars
<1>5. CASE IssueCompare \/ IssueNextPass \/ IssueNothing \/ IssueCrash
  BY <1>1, <1>5, CommitNumber, IssueNumber
     DEF IssueCompare, IssueNextPass, IssueNothing, IssueCrash, sortFrame, issueFrame, feVars
<1>6. CASE DecodeNothing \/ FetchEnd \/ FetchOccupied
  BY <1>1, <1>6, CommitNumber, IssueNumber
     DEF DecodeNothing, decodeFrame, FetchEnd, FetchOccupied, fetchFrame
<1> QED
  BY <1>2, <1>3, <1>4, <1>5, <1>6, CommitNumber, IssueNumber, DecodeNumber, FetchNumber
     DEF Next, Step, Over, Commit, IssueStage, DecodeStage, FetchStage

-----------------------------------------------------------------------------
(* The order of lanes. *)

LEMMA LaneOrderIsEvery ==
    ASSUME pipeIndex = LaneOrder
    PROVE  EveryLane
BY DEF EveryLane, LaneOrder

\* One comparison sorts two lanes, for it starts from the lanes as they are.
LEMMA CompareSorts ==
    ASSUME PIPE_WIDTH <= 2, TypeInv, FlightInv, SortInv, IssueCompare
    PROVE  SortInv'
<1>1. /\ PIPE_WIDTH \in Nat /\ pass \in Nat /\ lane \in Nat /\ stage = "sort"
      /\ lane < PIPE_WIDTH - pass - 1
  BY PipelineAssumption DEF TypeInv, TypeOK, IssueCompare, Lanes
<1>2. PIPE_WIDTH = 2 /\ pass = 0 /\ lane = 0 /\ Lanes = {0, 1}
  BY <1>1 DEF Lanes
<1>3. /\ pipeIndex = LaneOrder /\ ID_latch \in [Lanes -> Latch]
      /\ UNCHANGED <<stage, pass, ID_latch>> /\ lane' = 1
  BY <1>1, <1>2 DEF SortInv, IssueCompare, sortFrame, TypeInv, TypeOK
<1>4. pipeIndex[0] = 0 /\ pipeIndex[1] = 1
  BY <1>2, <1>3 DEF LaneOrder
<1>5. /\ Swap => pipeIndex'[0] = 1 /\ pipeIndex'[1] = 0
      /\ ~ Swap => pipeIndex'[0] = 0 /\ pipeIndex'[1] = 1
  BY <1>2, <1>3, <1>4 DEF IssueCompare, LaneOrder
<1>6. Swap <=> NumAt(ID_latch, 1) < NumAt(ID_latch, 0)
  BY <1>2 DEF Swap, NumAt
<1>7. /\ NumAt(ID_latch, 0) \in Nat /\ NumAt(ID_latch, 1) \in Nat
      /\ ID_latch[0].valid /\ ID_latch[1].valid => NumAt(ID_latch, 0) # NumAt(ID_latch, 1)
  BY <1>2, <1>3 DEF NumAt, Latch, InstInfo, FlightInv, Single
<1>8. Sorted'
  <2> SUFFICES ASSUME ID_latch[pipeIndex'[0]].valid, ID_latch[pipeIndex'[1]].valid
               PROVE  NumAt(ID_latch, pipeIndex'[0]) < NumAt(ID_latch, pipeIndex'[1])
    BY <1>2, <1>3 DEF Sorted, NumAt
  <2> QED  BY <1>5, <1>6, <1>7
<1>9. EveryLane'
  BY <1>2, <1>5 DEF EveryLane
<1> QED  BY <1>1, <1>2, <1>3, <1>8, <1>9 DEF SortInv

LEMMA NextPassSorts ==
    ASSUME PIPE_WIDTH <= 2, TypeInv, SortInv, IssueNextPass
    PROVE  SortInv'
<1>1. /\ PIPE_WIDTH \in Nat \ {0} /\ pass \in Nat /\ lane \in Nat /\ stage = "sort"
      /\ lane >= PIPE_WIDTH - pass - 1 /\ lane' = 0
      /\ UNCHANGED <<pipeIndex, ID_latch, rob>>
  BY PipelineAssumption DEF TypeInv, TypeOK, IssueNextPass, sortFrame, Lanes
<1>2. Sorted
  <2>1. CASE pass # 0 \/ lane # 0
    BY <1>1, <2>1 DEF SortInv
  <2>2. CASE pass = 0 /\ lane = 0
    <3>1. Lanes = {0}
      BY <1>1, <2>2 DEF Lanes
    <3> QED  BY <3>1 DEF Sorted
  <2> QED  BY <2>1, <2>2
<1>3. Sorted' /\ EveryLane'
  BY <1>1, <1>2 DEF Sorted, EveryLane, NumAt, SortInv
<1>4. CASE pass + 1 < PIPE_WIDTH
  BY <1>1, <1>3, <1>4 DEF IssueNextPass, SortInv
<1>5. CASE ~ (pass + 1 < PIPE_WIDTH)
  <2>1. stage' = "issue" /\ pass' = 0
    BY <1>5 DEF IssueNextPass
  <2>2. \A a \in Lanes : ~ a < lane'
    BY <1>1 DEF Lanes
  <2> QED  BY <1>3, <2>1, <2>2 DEF SortInv
<1> QED  BY <1>4, <1>5

\* Issue passes over a lane only when it is empty, or when the buffer is full.
LEMMA IssueSorts ==
    ASSUME TypeInv, SortInv, Issue \/ IssueNothing \/ IssueCrash
    PROVE  SortInv'
<1>1. stage = "issue" /\ lane \in Lanes /\ pipeIndex \in [Lanes -> Lanes] /\ pass' = 0
  BY DEF Issue, IssueNothing, IssueCrash, TypeInv, TypeOK, LaneInRange, SortInv, issueFrame
<1>2. CASE IssueCrash
  BY <1>1, <1>2 DEF IssueCrash, SortInv
<1>3. CASE Issue \/ IssueNothing
  <2>1. CASE lane + 1 < PIPE_WIDTH
    <3>1. stage' = "issue" /\ lane' = lane + 1 /\ pipeIndex' = pipeIndex
      BY <1>1, <1>3, <2>1 DEF Issue, IssueNothing, IssueDone, Advance
    <3>2. /\ \A l \in Lanes : ID_latch'[l].valid => ID_latch'[l] = ID_latch[l]
          /\ \A a \in Lanes : a < lane + 1 /\ ID_latch'[pipeIndex[a]].valid
                                  => ~ rob_check_space(rob')
      <4>1. CASE Issue
        <5>1. \A l \in Lanes : ID_latch'[l].valid => ID_latch'[l] = ID_latch[l] /\ l # IssueLane
          BY <4>1 DEF Issue, TypeInv, TypeOK, Latch
        <5>2. \A a \in Lanes : a < lane => ~ ID_latch[pipeIndex[a]].valid
          BY <1>1, <4>1 DEF SortInv, Issue, CanIssue
        <5>3. \A a \in Lanes : a < lane + 1 => a < lane \/ a = lane
          BY <1>1 DEF Lanes
        <5>4. \A a \in Lanes : pipeIndex[a] \in Lanes
          BY <1>1
        <5> QED  BY <1>1, <5>1, <5>2, <5>3, <5>4 DEF IssueLane
      <4>2. CASE IssueNothing
        <5>1. UNCHANGED <<ID_latch, rob>> /\ ~ CanIssue
          BY <4>2 DEF IssueNothing
        <5>2. \A a \in Lanes : a < lane + 1 => a < lane \/ a = lane
          BY <1>1 DEF Lanes
        <5> QED  BY <1>1, <5>1, <5>2 DEF SortInv, CanIssue, IssueLane
      <4> QED  BY <1>3, <4>1, <4>2
    <3>3. Sorted' /\ EveryLane'
      BY <1>1, <3>1, <3>2 DEF SortInv, Sorted, EveryLane, NumAt
    <3> QED  BY <1>1, <3>1, <3>2, <3>3 DEF SortInv, rob_check_space
  <2>2. CASE ~ (lane + 1 < PIPE_WIDTH)
    <3>1. stage' = "decode" /\ pipeIndex' = LaneOrder
      BY <1>3, <2>2 DEF Issue, IssueNothing, IssueDone, Advance, Goto
    <3> QED  BY <1>1, <3>1 DEF SortInv
  <2> QED  BY <2>1, <2>2
<1> QED  BY <1>2, <1>3

LEMMA StepSort ==
    ASSUME PIPE_WIDTH <= 2, TypeInv, FlightInv, SortInv, [Next]_vars
    PROVE  SortInv'
<1>1. CASE /\ stage \notin {"sort", "issue", "crashed"} /\ stage' \notin {"sort", "issue"}
           /\ UNCHANGED issueVars
  BY <1>1 DEF SortInv, issueVars
<1>2. CASE UNCHANGED vars
  BY <1>2 DEF vars, SortInv, Sorted, EveryLane, NumAt, rob_check_space
<1>3. CASE Commit \/ Writeback
  BY <1>1, <1>3 DEF Commit, CommitInst, CommitNothing, CommitDone, Writeback, WritebackLane,
                    Advance, Goto
<1>4. CASE Exe
  BY <1>1, <1>4 DEF Exe, ExeEmpty, ExeCopy, ExeInsert, ExeFull, ExeqCycle, ExeTransfer,
                    ExeNoneLeft, exeFrame, ExeDone, TransferNext, Advance, Goto
<1>5. CASE Schedule
  <2>1. /\ stage = "schedule" /\ UNCHANGED issueVars
        /\ stage' = "schedule" \/ (stage' = "sort" /\ lane' = 0)
    BY <1>5 DEF Schedule, ScheduleInst, ScheduleNothing, ScheduleOccupied, ScheduleReturn,
                schedFrame, ScheduleNext, ScheduleEnds, Goto
  <2>2. pipeIndex' = LaneOrder /\ pass' = 0
    BY <2>1 DEF SortInv, issueVars
  <2>3. EveryLane'
    BY <2>2 DEF EveryLane, LaneOrder
  <2> QED  BY <2>1, <2>2, <2>3 DEF SortInv
<1>6. CASE DecodeStage \/ FetchStage
  BY <1>1, <1>6 DEF DecodeStage, Decode, DecodeNothing, decodeFrame, DecodeDone, FetchStage,
                    FetchInst, FetchEnd, FetchOccupied, fetchFrame, FetchDone, Advance, Goto
<1> QED
  BY <1>2, <1>3, <1>4, <1>5, <1>6, CompareSorts, NextPassSorts, IssueSorts
     DEF Next, Step, Over, IssueStage

LEMMA InitOrder == Init => NumberInv /\ SortInv
<1> SUFFICES ASSUME Init PROVE NumberInv /\ SortInv
  OBVIOUS
<1>1. /\ \A l \in Lanes : ~ FE_latch[l].valid /\ ~ ID_latch[l].valid
      /\ DOMAIN FE_latch = Lanes /\ DOMAIN ID_latch = Lanes /\ ValidIds = {}
  BY DEF Init, EmptyLatch, rob_init, ValidIds, Entry
<1>2. Used(rob) = 0
  <2>1. rob.head_ptr = 0 /\ rob.tail_ptr = 0 /\ rob_check_space(rob) /\ 0 \in RobIds
    BY RobAssumption DEF Init, rob_init, rob_check_space
  <2> QED  BY <2>1, CircleDistance DEF Used
<1>3. NumsIn(FE_latch) = {} /\ NumsIn(ID_latch) = {}
  BY <1>1 DEF NumsIn
<1>4. Issued = 0 /\ next_inst_num = 1 /\ last_inst_num = 0
  BY <1>2 DEF Init, Issued, last_inst_num
<1>5. NumberInv
  BY <1>1, <1>3, <1>4 DEF NumberInv
<1> QED  BY <1>5 DEF Init, SortInv

(***************************************************************************)
(* Instructions enter the buffer in program order and without gap, and so  *)
(* leave it in program order, with one lane or two, for every size of the  *)
(* buffer, latency, policy and trace.  With three lanes the sort of issue, *)
(* which compares the latches instead of what pipeIndex names, fails.      *)
(***************************************************************************)
THEOREM RobProgramOrderHolds == PIPE_WIDTH <= 2 => (Spec => []RobProgramOrder)
<1> SUFFICES ASSUME PIPE_WIDTH <= 2 PROVE Spec => []RobProgramOrder
  OBVIOUS
<1>1. /\ TypeInv /\ TypeInv' /\ Window(rob) /\ FlightInv /\ NumberInv /\ SortInv
      /\ [Next]_vars
      => NumberInv' /\ SortInv'
  BY StepNumber, StepSort
<1>2. NumberInv /\ RobWindow => RobProgramOrder
  BY DEF NumberInv, RobProgramOrder
<1> QED  BY <1>1, <1>2, InitOrder, FlightHolds, RobWindowHolds, PTL DEF Spec

-----------------------------------------------------------------------------
(***************************************************************************)
(* The refinement of Dataflow.  What is still wanted is that instructions  *)
(* are what the trace says, that the EXEQ never fills up, and that the     *)
(* pipeline halts after the last instruction and not before.               *)
(***************************************************************************)
\* An instruction with the number and the registers of a record of f.
MadeFrom(f, inst) == /\ inst.inst_num \in 1 .. Len(f)
                     /\ inst.src_reg = f[inst.inst_num].src_reg
                     /\ inst.dest_reg = f[inst.inst_num].dest_reg
AllMadeFrom(f, latch) == \A l \in DOMAIN latch : latch[l].valid => MadeFrom(f, latch[l].inst)
RecordInv == /\ AllMadeFrom(fetched, FE_latch) /\ AllMadeFrom(fetched, ID_latch)
             /\ AllMadeFrom(fetched, rob.entries)

\* The pipeline halts when the trace has been read and all of it has retired.
EndInv ==
    /\ halt_inst_num = IF eof THEN last_inst_num ELSE UnknownEnd
    /\ last_inst_num <= MaxInst
    /\ halt => eof /\ stat_retired_inst = last_inst_num

(***************************************************************************)
(* The slots of the EXEQ with v cycles or more to wait were all filled in  *)
(* the last cycles, in each of which every lane can have filled one.       *)
(***************************************************************************)
Held(v) == {s \in ExeqSlots : exeq[s].valid /\ exeq[s].inst.exe_wait_cycles >= v}
Latest == CASE stage = "exe" -> lane [] stage = "exeq_cycle" -> PIPE_WIDTH [] OTHER -> 0
RoomInv ==
    LOAD_EXE_CYCLES # 1 =>
        \A v \in 1 .. LOAD_EXE_CYCLES :
            Cardinality(Held(v)) <= PIPE_WIDTH * (LOAD_EXE_CYCLES - v) + Latest

\* The EXEQ has room for what can enter it within the latency of a load, or for
\* all that is in the buffer, or it is not used.
ExeqSuffices == \/ LOAD_EXE_CYCLES = 1
                \/ PIPE_WIDTH * LOAD_EXE_CYCLES <= MAX_EXEQ_ENTRIES
                \/ NUM_ROB_ENTRIES <= MAX_EXEQ_ENTRIES

-----------------------------------------------------------------------------
(* Records. *)

LEMMA SameMaking ==
    ASSUME NEW f, NEW a, NEW b, MadeFrom(f, a), b.inst_num = a.inst_num,
           b.src_reg = a.src_reg, b.dest_reg = a.dest_reg
    PROVE  MadeFrom(f, b)
BY DEF MadeFrom

LEMMA MadeBefore ==
    ASSUME NEW f \in Seq(TraceRecords), NEW rec \in TraceRecords, NEW latch, AllMadeFrom(f, latch)
    PROVE  AllMadeFrom(Append(f, rec), latch)
<1>1. \A n \in 1 .. Len(f) : Append(f, rec)[n] = f[n] /\ n \in 1 .. Len(Append(f, rec))
  OBVIOUS
<1>2. PICK g : g = Append(f, rec)
  OBVIOUS
<1>3. \A n \in 1 .. Len(f) : g[n] = f[n] /\ n \in 1 .. Len(g)
  BY <1>1, <1>2
<1>4. AllMadeFrom(g, latch)
  BY <1>3 DEF AllMadeFrom, MadeFrom
<1> QED  BY <1>2, <1>4

\* An instruction less.
LEMMA MadeRest ==
    ASSUME NEW f, NEW S, NEW L \in [S -> Latch], AllMadeFrom(f, L), NEW k
    PROVE  AllMadeFrom(f, [L EXCEPT ![k].valid = FALSE])
<1> DEFINE M == [L EXCEPT ![k].valid = FALSE]
<1>1. DOMAIN M = S /\ DOMAIN L = S
  OBVIOUS
<1>2. \A l \in S : M[l].inst = L[l].inst /\ (M[l].valid => L[l].valid)
  BY DEF Latch
<1> QED  BY <1>1, <1>2 DEF AllMadeFrom

LEMMA IssueRecord ==
    ASSUME TypeInv, Window(rob), RecordInv, Issue
    PROVE  RecordInv'
<1>1. PICK t \in RobIds :
          /\ \A j \in RobIds \ {t} : Entry(j)' = Entry(j)
          /\ IssueLane \in Lanes /\ ID_latch[IssueLane].valid
          /\ Entry(t)'.inst.inst_num = NumAt(ID_latch, IssueLane)
          /\ Entry(t)'.inst.dest_reg = IssueInst.dest_reg
          /\ Entry(t)'.inst.src_reg = IssueInst.src_reg
  BY IssueRob
<1>2. /\ UNCHANGED <<fetched, FE_latch>>
      /\ ID_latch' = [ID_latch EXCEPT ![IssueLane].valid = FALSE]
  BY DEF Issue, issueFrame, feVars
<1>3. ID_latch \in [Lanes -> Latch] /\ DOMAIN rob.entries = RobIds
  BY DEF TypeInv, TypeOK, ROBType
<1>4. DOMAIN rob'.entries = RobIds
  <2>1. \E inst : rob' = rob_insert(rob, inst)
    BY DEF Issue
  <2> QED  BY <1>3, <2>1 DEF rob_insert, TypeInv, TypeOK, ROBType
<1>5. AllMadeFrom(fetched, ID_latch')
  BY <1>2, <1>3, MadeRest DEF RecordInv
<1>6. MadeFrom(fetched, IssueInst)
  BY <1>1, <1>3 DEF RecordInv, AllMadeFrom, IssueInst
<1>7. MadeFrom(fetched, Entry(t)'.inst)
  <2>1. Entry(t)'.inst.inst_num = IssueInst.inst_num
    BY <1>1 DEF NumAt, IssueInst
  <2> QED  BY <1>1, <1>6, <2>1, SameMaking
<1>8. AllMadeFrom(fetched, rob'.entries)
  <2> SUFFICES ASSUME NEW j \in RobIds, rob'.entries[j].valid
               PROVE  MadeFrom(fetched, rob'.entries[j].inst)
    BY <1>4 DEF AllMadeFrom
  <2>1. CASE j = t
    BY <1>7, <2>1 DEF Entry
  <2>2. CASE j # t
    BY <1>1, <1>3, <2>2 DEF Entry, RecordInv, AllMadeFrom
  <2> QED  BY <2>1, <2>2
<1> QED  BY <1>2, <1>5, <1>8 DEF RecordInv

LEMMA DecodeRecord ==
    ASSUME TypeInv, RecordInv, Decode
    PROVE  AllMadeFrom(fetched, FE_latch') /\ AllMadeFrom(fetched, ID_latch')
<1>1. PICK j \in NextDecoded : /\ ID_latch' = [ID_latch EXCEPT ![lane] = FE_latch[j]]
                               /\ FE_latch' = [FE_latch EXCEPT ![j].valid = FALSE]
  BY DEF Decode
<1>2. j \in Lanes /\ FE_latch[j].valid
  BY DEF NextDecoded
<1>3. ID_latch \in [Lanes -> Latch] /\ FE_latch \in [Lanes -> Latch]
  BY DEF TypeInv, TypeOK
<1>4. AllMadeFrom(fetched, FE_latch')
  BY <1>1, <1>3, MadeRest DEF RecordInv
<1>5. MadeFrom(fetched, FE_latch[j].inst)
  BY <1>2, <1>3 DEF RecordInv, AllMadeFrom
<1>6. AllMadeFrom(fetched, ID_latch')
  BY <1>1, <1>3, <1>5 DEF RecordInv, AllMadeFrom
<1> QED  BY <1>4, <1>6

LEMMA FetchRecord ==
    ASSUME TypeInv, RecordInv, FetchInst
    PROVE  RecordInv'
<1>1. PICK rec \in TraceRecords :
          /\ fetched' = Append(fetched, rec)
          /\ FE_latch' = [FE_latch EXCEPT ![lane] = Full(NewInst(last_inst_num + 1, rec))]
  BY DEF FetchInst
<1>2. fetched \in Seq(TraceRecords) /\ FE_latch \in [Lanes -> Latch] /\ lane \in Lanes
  BY DEF TypeInv, TypeOK, LaneInRange, FetchInst
<1>3. UNCHANGED <<ID_latch, rob>>
  BY DEF FetchInst, fetchFrame
<1>4. /\ AllMadeFrom(fetched', ID_latch) /\ AllMadeFrom(fetched', rob.entries)
      /\ AllMadeFrom(fetched', FE_latch)
  BY <1>1, <1>2, MadeBefore DEF RecordInv
<1>5. MadeFrom(fetched', NewInst(last_inst_num + 1, rec))
  BY <1>1, <1>2 DEF MadeFrom, NewInst, last_inst_num
<1>6. AllMadeFrom(fetched', FE_latch')
  BY <1>1, <1>2, <1>4, <1>5 DEF AllMadeFrom, Full
<1> QED  BY <1>3, <1>4, <1>6 DEF RecordInv

LEMMA StepRecord ==
    TypeInv /\ TypeInv' /\ Window(rob) /\ FlightInv /\ RecordInv /\ [Next]_vars => RecordInv'
<1> SUFFICES ASSUME TypeInv, TypeInv', Window(rob), FlightInv, RecordInv, [Next]_vars
             PROVE  RecordInv'
  OBVIOUS
<1>1. ASSUME ~ Issue, fetched' = fetched PROVE AllMadeFrom(fetched', rob'.entries)
  <2>1. DOMAIN rob'.entries = RobIds /\ DOMAIN rob.entries = RobIds
    BY DEF TypeInv, TypeOK, ROBType
  <2> SUFFICES ASSUME NEW j \in RobIds, rob'.entries[j].valid
               PROVE  MadeFrom(fetched, rob'.entries[j].inst)
    BY <1>1, <2>1 DEF AllMadeFrom
  <2>2. /\ rob.entries[j].valid
        /\ SameInst(rob.entries[j].inst, rob'.entries[j].inst)
    BY <1>1, OnlyIssueAdds DEF BufferKept, ValidIds, Entry
  <2>3. MadeFrom(fetched, rob.entries[j].inst)
    BY <2>1, <2>2 DEF RecordInv, AllMadeFrom
  <2> QED  BY <2>2, <2>3, SameMaking DEF SameInst
<1>2. ASSUME ~ Issue, UNCHANGED <<fetched, FE_latch, ID_latch>> PROVE RecordInv'
  BY <1>1, <1>2 DEF RecordInv
<1>3. CASE Issue
  BY <1>3, IssueRecord
<1>4. CASE Decode
  <2>1. fetched' = fetched /\ ~ Issue
    BY <1>4 DEF Decode, decodeFrame, Issue
  <2> QED  BY <1>1, <1>4, <2>1, DecodeRecord DEF RecordInv
<1>5. CASE FetchInst
  BY <1>5, FetchRecord
<1>6. CASE ~ Issue /\ ~ Decode /\ ~ FetchInst
  <2>1. UNCHANGED <<fetched, FE_latch, ID_latch>>
    <3>1. CASE Commit \/ Writeback
      BY <3>1 DEF Commit, CommitInst, CommitNothing, Writeback, WritebackLane, feVars
    <3>2. CASE Exe
      BY <3>2 DEF Exe, ExeEmpty, ExeCopy, ExeInsert, ExeFull, ExeqCycle, ExeTransfer,
                  ExeNoneLeft, exeFrame, feVars
    <3>3. CASE Schedule
      BY <3>3 DEF Schedule, ScheduleInst, ScheduleNothing, ScheduleOccupied, ScheduleReturn,
                  schedFrame, feVars
    <3>4. CASE IssueStage
      BY <1>6, <3>4 DEF IssueStage, IssueCompare, IssueNextPass, IssueNothing, IssueCrash,
                        sortFrame, issueFrame, feVars
    <3>5. CASE DecodeStage \/ FetchStage
      BY <1>6, <3>5 DEF DecodeStage, DecodeNothing, decodeFrame, FetchStage, FetchEnd,
                        FetchOccupied, fetchFrame
    <3>6. CASE UNCHANGED vars
      BY <3>6 DEF vars
    <3> QED  BY <3>1, <3>2, <3>3, <3>4, <3>5, <3>6 DEF Next, Step, Over
  <2> QED  BY <1>2, <1>6, <2>1
<1> QED  BY <1>3, <1>4, <1>5, <1>6

-----------------------------------------------------------------------------
(* The EXEQ has room. *)

LEMMA HeldFinite ==
    ASSUME NEW q, NEW v
    PROVE  LET H == {s \in ExeqSlots : q[s].valid /\ q[s].inst.exe_wait_cycles >= v} IN
           IsFiniteSet(H) /\ Cardinality(H) \in Nat
<1> DEFINE H == {s \in ExeqSlots : q[s].valid /\ q[s].inst.exe_wait_cycles >= v}
<1>1. IsFiniteSet(ExeqSlots)
  BY FS_Interval, ExeqAssumption DEF ExeqSlots
<1>2. H \subseteq ExeqSlots
  OBVIOUS
<1>3. IsFiniteSet(H)
  BY <1>1, <1>2, FS_Subset
<1> QED  BY <1>3, FS_CardinalityType

\* A multiple of the width, which is 1 or 2.
LEMMA WidthTimes ==
    ASSUME PIPE_WIDTH <= 2, NEW n \in Nat
    PROVE  /\ PIPE_WIDTH * n \in Nat /\ PIPE_WIDTH * (n + 1) = PIPE_WIDTH * n + PIPE_WIDTH
           /\ PIPE_WIDTH * 0 = 0 /\ PIPE_WIDTH \in Nat
<1>1. PIPE_WIDTH = 1 \/ PIPE_WIDTH = 2
  BY PipelineAssumption
<1>2. CASE PIPE_WIDTH = 1
  BY <1>2
<1>3. CASE PIPE_WIDTH = 2
  BY <1>3
<1> QED  BY <1>1, <1>2, <1>3

LEMMA FewerHeld ==
    ASSUME NEW S, NEW T, IsFiniteSet(T), S \subseteq T, NEW b \in Int, Cardinality(T) <= b
    PROVE  Cardinality(S) <= b /\ IsFiniteSet(S)
<1>1. IsFiniteSet(S) /\ Cardinality(S) <= Cardinality(T)
  BY FS_Subset
<1>2. Cardinality(S) \in Nat /\ Cardinality(T) \in Nat
  BY <1>1, FS_CardinalityType
<1> QED  BY <1>1, <1>2

LEMMA InsertRoom ==
    ASSUME PIPE_WIDTH <= 2, TypeInv, RoomInv, ExeInsert
    PROVE  RoomInv'
<1> DEFINE a == FirstSlot(FreeSlots(exeq))
<1>1. /\ stage = "exe" /\ LOAD_EXE_CYCLES # 1 /\ lane \in Lanes /\ exeq \in EXEQType
      /\ exeq' = exeq_insert(exeq, SC_latch[lane].inst)
      /\ FreeSlots(exeq) # {}
  BY DEF ExeInsert, TypeInv, TypeOK, LaneInRange, exeq_full
<1>2. a \in ExeqSlots /\ ~ exeq[a].valid
  <2>1. FreeSlots(exeq) \in SUBSET Nat
    BY ExeqAssumption DEF FreeSlots, ExeqSlots
  <2>2. a \in FreeSlots(exeq)
    BY <1>1, <2>1, FirstSlotInSet
  <2> QED  BY <2>2 DEF FreeSlots
<1>3. \A s \in ExeqSlots \ {a} : exeq'[s] = exeq[s]
  BY <1>1 DEF exeq_insert, EXEQType
<1>4. Latest = lane /\ Latest' = lane + 1
  <2>1. lane \in Nat /\ lane + 1 <= PIPE_WIDTH
    BY <1>1, PipelineAssumption DEF Lanes
  <2>2. \/ stage' = "exe" /\ lane' = lane + 1
        \/ stage' = "exeq_cycle" /\ lane + 1 >= PIPE_WIDTH
    BY <1>1, PipelineAssumption DEF ExeInsert, ExeDone, Advance, Goto, Lanes
  <2> QED  BY <1>1, <2>1, <2>2, PipelineAssumption DEF Latest
<1> SUFFICES ASSUME NEW v \in 1 .. LOAD_EXE_CYCLES
             PROVE  Cardinality(Held(v)') <= PIPE_WIDTH * (LOAD_EXE_CYCLES - v) + Latest'
  BY DEF RoomInv
<1>5. Held(v)' \subseteq Held(v) \cup {a}
  BY <1>3 DEF Held
<1>6. Cardinality(Held(v)) <= PIPE_WIDTH * (LOAD_EXE_CYCLES - v) + lane
  BY <1>1, <1>4 DEF RoomInv
<1>7. IsFiniteSet(Held(v)) /\ Cardinality(Held(v)) \in Nat
  BY HeldFinite DEF Held
<1>8. IsFiniteSet(Held(v) \cup {a}) /\ Cardinality(Held(v) \cup {a}) <= Cardinality(Held(v)) + 1
      /\ Cardinality(Held(v) \cup {a}) \in Nat
  <2>1. IsFiniteSet(Held(v) \cup {a})
    BY <1>7, FS_AddElement
  <2>2. Cardinality(Held(v) \cup {a}) <= Cardinality(Held(v)) + 1
    BY <1>7, FS_AddElement
  <2> QED  BY <2>1, <2>2, FS_CardinalityType
<1>9. PICK b \in Nat : b = PIPE_WIDTH * (LOAD_EXE_CYCLES - v)
  <2>1. LOAD_EXE_CYCLES - v \in Nat
    BY ExeqAssumption
  <2> QED  BY <2>1, WidthTimes
<1>10. lane \in Nat
  BY <1>1, PipelineAssumption DEF Lanes
<1>11. Cardinality(Held(v) \cup {a}) <= b + (lane + 1)
  BY <1>6, <1>7, <1>8, <1>9, <1>10
<1>12. Cardinality(Held(v)') <= b + (lane + 1)
  BY <1>5, <1>8, <1>9, <1>10, <1>11, FewerHeld
<1> QED  BY <1>4, <1>9, <1>12

LEMMA CycleRoom ==
    ASSUME PIPE_WIDTH <= 2, TypeInv, ExeqInv, RoomInv, ExeqCycle, LOAD_EXE_CYCLES # 1
    PROVE  RoomInv'
<1>1. /\ stage = "exeq_cycle" /\ stage' = "exe_done" /\ exeq' = exeq_cycle(exeq)
      /\ exeq \in EXEQType
  BY DEF ExeqCycle, Goto, TypeInv, TypeOK
<1>2. Latest = PIPE_WIDTH /\ Latest' = 0
  BY <1>1 DEF Latest
<1> SUFFICES ASSUME NEW v \in 1 .. LOAD_EXE_CYCLES
             PROVE  Cardinality(Held(v)') <= PIPE_WIDTH * (LOAD_EXE_CYCLES - v) + 0
  BY <1>2 DEF RoomInv
<1>3. Held(v)' \subseteq Held(v + 1)
  <2> SUFFICES ASSUME NEW s \in ExeqSlots, exeq'[s].valid, exeq'[s].inst.exe_wait_cycles >= v
               PROVE  exeq[s].valid /\ exeq[s].inst.exe_wait_cycles >= v + 1
    BY DEF Held
  <2>1. exeq[s].inst.exe_wait_cycles \in Int /\ exeq[s].valid \in BOOLEAN
    BY <1>1 DEF EXEQType, InstInfo
  <2>2. exeq[s].valid
    BY <1>1 DEF exeq_cycle
  <2>3. exeq'[s].inst.exe_wait_cycles = exeq[s].inst.exe_wait_cycles - 1
    BY <1>1, <2>2 DEF exeq_cycle, EXEQType, InstInfo
  <2> QED  BY <2>1, <2>2, <2>3
<1>4. CASE v = LOAD_EXE_CYCLES
  <2>1. Held(v + 1) = {}
    <3>1. \A s \in ExeqSlots : exeq[s].valid =>
              exeq[s].inst.exe_wait_cycles \in 0 .. LOAD_EXE_CYCLES
      BY DEF ExeqInv, ExeqDrainsInTime
    <3> QED  BY <1>4, <3>1, ExeqAssumption DEF Held
  <2>2. Cardinality(Held(v)') = 0
    BY <1>3, <2>1, FS_EmptySet
  <2>3. PIPE_WIDTH * (LOAD_EXE_CYCLES - v) = 0
    <3>1. LOAD_EXE_CYCLES - v = 0
      BY <1>4, ExeqAssumption
    <3> QED  BY <3>1, WidthTimes
  <2> QED  BY <2>2, <2>3
<1>5. CASE v # LOAD_EXE_CYCLES
  <2>1. v + 1 \in 1 .. LOAD_EXE_CYCLES
    BY <1>5, ExeqAssumption
  <2>2. PICK n \in Nat : n = LOAD_EXE_CYCLES - (v + 1) /\ LOAD_EXE_CYCLES - v = n + 1
    BY <2>1, ExeqAssumption
  <2>3. Cardinality(Held(v + 1)) <= PIPE_WIDTH * n + PIPE_WIDTH
    BY <1>2, <2>1, <2>2 DEF RoomInv
  <2>4. IsFiniteSet(Held(v + 1))
    BY HeldFinite DEF Held
  <2>5. PICK b \in Nat : b = PIPE_WIDTH * n /\ PIPE_WIDTH * (n + 1) = b + PIPE_WIDTH
    BY WidthTimes
  <2>6. b + PIPE_WIDTH \in Int
    BY PipelineAssumption
  <2>7. Cardinality(Held(v)') <= b + PIPE_WIDTH
    BY <1>3, <2>3, <2>4, <2>5, <2>6, FewerHeld
  <2>8. Cardinality(Held(v)') \in Nat
    BY <1>3, <2>4, FS_Subset, FS_CardinalityType
  <2> QED  BY <2>2, <2>5, <2>6, <2>7, <2>8
<1> QED  BY <1>4, <1>5

\* The bound does not fall and no slot is filled.
LEMMA RoomKept ==
    ASSUME PIPE_WIDTH <= 2, RoomInv, Latest \in Nat, Latest' \in Nat, Latest <= Latest',
           \A s \in ExeqSlots : exeq'[s].valid => exeq'[s] = exeq[s]
    PROVE  RoomInv'
<1> SUFFICES ASSUME LOAD_EXE_CYCLES # 1, NEW v \in 1 .. LOAD_EXE_CYCLES
             PROVE  Cardinality(Held(v)') <= PIPE_WIDTH * (LOAD_EXE_CYCLES - v) + Latest'
  BY DEF RoomInv
<1>1. Held(v)' \subseteq Held(v)
  BY DEF Held
<1>2. IsFiniteSet(Held(v))
  BY HeldFinite DEF Held
<1>3. PICK b \in Nat : b = PIPE_WIDTH * (LOAD_EXE_CYCLES - v)
  <2>1. LOAD_EXE_CYCLES - v \in Nat
    BY ExeqAssumption
  <2> QED  BY <2>1, WidthTimes
<1>4. Cardinality(Held(v)) <= b + Latest
  BY <1>3 DEF RoomInv
<1>5. Cardinality(Held(v)') <= b + Latest
  BY <1>1, <1>2, <1>3, <1>4, FewerHeld
<1>6. Cardinality(Held(v)') \in Nat
  BY <1>1, <1>2, FewerHeld, FS_Subset, FS_CardinalityType
<1> QED  BY <1>3, <1>5, <1>6

\* An instruction for the EXEQ finds a slot.
LEMMA NeverExeFull ==
    ASSUME PIPE_WIDTH <= 2, ExeqSuffices, TypeInv, FlightInv, ExecInv, ExeqInv, RoomInv
    PROVE  ~ ExeFull
<1> SUFFICES ASSUME ExeFull PROVE FALSE
  OBVIOUS
<1>1. /\ stage = "exe" /\ LOAD_EXE_CYCLES # 1 /\ SC_latch[lane].valid
      /\ \A s \in ExeqSlots : exeq[s].valid
      /\ lane \in Lanes /\ exeq \in EXEQType
  BY DEF ExeFull, exeq_full, FreeSlots, TypeInv, TypeOK, LaneInRange
<1>2. IsFiniteSet(ExeqSlots) /\ Cardinality(ExeqSlots) = MAX_EXEQ_ENTRIES
  BY FS_Interval, ExeqAssumption DEF ExeqSlots
<1>3. CASE PIPE_WIDTH * LOAD_EXE_CYCLES <= MAX_EXEQ_ENTRIES
  <2>1. ASSUME NEW s \in ExeqSlots PROVE exeq[s].inst.exe_wait_cycles >= 1
    <3>1. exeq[s].inst.exe_wait_cycles \in 0 .. LOAD_EXE_CYCLES
      BY <1>1 DEF ExeqInv, ExeqDrainsInTime
    <3>2. exeq[s].inst.exe_wait_cycles # 0
      BY <1>1 DEF ExeqInv, ExeqDrainsInTime, DoneSlots
    <3> QED  BY <3>1, <3>2
  <2>2. Held(1) = ExeqSlots
    BY <1>1, <2>1 DEF Held
  <2>3. Latest = lane /\ lane \in Nat /\ lane < PIPE_WIDTH
    BY <1>1, PipelineAssumption DEF Latest, Lanes
  <2>4. 1 \in 1 .. LOAD_EXE_CYCLES
    BY ExeqAssumption
  <2>5. PICK n \in Nat : n = LOAD_EXE_CYCLES - 1 /\ LOAD_EXE_CYCLES = n + 1
    BY ExeqAssumption
  <2>6. MAX_EXEQ_ENTRIES <= PIPE_WIDTH * n + lane
    BY <1>1, <1>2, <2>2, <2>3, <2>4, <2>5 DEF RoomInv
  <2>7. PIPE_WIDTH * n + PIPE_WIDTH <= MAX_EXEQ_ENTRIES /\ PIPE_WIDTH * n \in Nat
    BY <1>3, <2>5, WidthTimes
  <2> QED  BY <2>3, <2>6, <2>7, ExeqAssumption, PipelineAssumption
<1>4. CASE NUM_ROB_ENTRIES <= MAX_EXEQ_ENTRIES
  <2> DEFINE Q == NumsIn(exeq)
             n == NumAt(SC_latch, lane)
  <2>1. DOMAIN exeq = ExeqSlots /\ DOMAIN SC_latch = Lanes
    BY NumsAreNat
  <2>2. n \in NumsIn(SC_latch) /\ n \notin Q
    <3>1. n \in NumsIn(SC_latch)
      BY <1>1, <2>1 DEF NumsIn
    <3> QED  BY <3>1 DEF ExecInv
  <2>3. IsFiniteSet(Q) /\ Cardinality(Q) = MAX_EXEQ_ENTRIES
    <3>1. PICK f : f = [s \in ExeqSlots |-> NumAt(exeq, s)]
      OBVIOUS
    <3>2. f \in Bijection(ExeqSlots, Q)
      <4>1. f \in [ExeqSlots -> Q]
        BY <1>1, <2>1, <3>1 DEF NumsIn
      <4>2. \A a, b \in ExeqSlots : f[a] = f[b] => a = b
        BY <1>1, <2>1, <3>1 DEF ExecInv, Single
      <4>3. \A x \in Q : \E s \in ExeqSlots : f[s] = x
        BY <2>1, <3>1 DEF NumsIn
      <4> HIDE DEF Q
      <4> QED  BY <4>1, <4>2, <4>3 DEF Bijection, Injection, Surjection, IsInjective
    <3>3. ExistsBijection(ExeqSlots, Q)
      BY <3>2 DEF ExistsBijection
    <3> QED  BY <1>2, <3>2, <3>3, FS_Bijection
  <2>4. IsFiniteSet(Q \cup {n}) /\ Cardinality(Q \cup {n}) = MAX_EXEQ_ENTRIES + 1
    BY <2>2, <2>3, FS_AddElement
  <2>5. Q \cup {n} \subseteq {Num(i) : i \in RobIds}
    <3>1. Q \cup {n} \subseteq ExecutingNums
      BY <2>2 DEF ExecInv
    <3> QED  BY <3>1, ExecutingIs
  <2>6. IsFiniteSet(RobIds) /\ Cardinality(RobIds) = NUM_ROB_ENTRIES
    BY FS_Interval, RobAssumption DEF RobIds
  <2>7. /\ IsFiniteSet({Num(i) : i \in RobIds})
        /\ Cardinality({Num(i) : i \in RobIds}) <= NUM_ROB_ENTRIES
    <3>1. PICK f : f = [i \in RobIds |-> Num(i)]
      OBVIOUS
    <3>2. f \in Surjection(RobIds, {Num(i) : i \in RobIds})
      BY <3>1 DEF Surjection
    <3> QED  BY <2>6, <3>2, FS_Surjection
  <2>8. MAX_EXEQ_ENTRIES + 1 <= NUM_ROB_ENTRIES
    BY <2>4, <2>5, <2>7, RobAssumption, FewerHeld
  <2> QED  BY <1>4, <2>8, ExeqAssumption, RobAssumption
<1> QED  BY <1>1, <1>3, <1>4 DEF ExeqSuffices

LEMMA StepRoom ==
    ASSUME PIPE_WIDTH <= 2, TypeInv, TypeInv', ExeqInv, RoomInv, ~ ExeFull, [Next]_vars
    PROVE  RoomInv'
<1>1. /\ lane \in Nat /\ lane' \in Nat /\ PIPE_WIDTH \in Nat /\ exeq \in EXEQType
      /\ lane \in Lanes \/ stage # "exe"
  BY PipelineAssumption DEF TypeInv, TypeOK, LaneInRange
<1>2. Latest \in Nat /\ Latest' \in Nat
  BY <1>1 DEF Latest
<1>3. CASE UNCHANGED vars
  <2>1. Latest' = Latest /\ exeq' = exeq
    BY <1>3 DEF vars, Latest
  <2> QED  BY <1>2, <2>1, RoomKept
<1>4. CASE Commit \/ Writeback \/ Schedule \/ IssueStage \/ DecodeStage \/ FetchStage
  <2>1. exeq' = exeq
    BY <1>4, ExeqElsewhere
  <2>2. stage \notin {"exe", "exeq_cycle"}
    BY <1>4 DEF Commit, CommitInst, CommitNothing, Writeback, WritebackLane, Schedule,
                ScheduleInst, ScheduleNothing, ScheduleOccupied, ScheduleReturn, IssueStage,
                IssueCompare, IssueNextPass, Issue, IssueNothing, IssueCrash, DecodeStage,
                Decode, DecodeNothing, FetchStage, FetchInst, FetchEnd, FetchOccupied
  <2>3. Latest = 0
    BY <2>2 DEF Latest
  <2> QED  BY <1>2, <2>1, <2>3, RoomKept
<1>5. CASE ExeInsert
  BY <1>5, InsertRoom
<1>6. CASE ExeqCycle
  BY <1>6, CycleRoom DEF RoomInv
<1>7. CASE ExeEmpty
  <2>1. CASE LOAD_EXE_CYCLES = 1
    BY <2>1 DEF RoomInv
  <2>2. CASE LOAD_EXE_CYCLES # 1
    <3>1. stage = "exe" /\ exeq' = exeq
      BY <1>7 DEF ExeEmpty
    <3>2. lane < PIPE_WIDTH
      BY <1>1, <3>1 DEF Lanes
    <3>3. \/ stage' = "exe" /\ lane' = lane + 1
          \/ stage' = "exeq_cycle"
      BY <1>7, <2>2 DEF ExeEmpty, ExeDone, Advance, Goto
    <3>4. Latest = lane /\ Latest' >= lane
      BY <1>1, <3>1, <3>2, <3>3 DEF Latest
    <3> QED  BY <1>1, <1>2, <3>1, <3>4, RoomKept
  <2> QED  BY <2>1, <2>2
<1>8. CASE ExeCopy
  BY <1>8 DEF ExeCopy, RoomInv
<1>9. CASE ExeTransfer \/ ExeNoneLeft
  <2>1. stage = "exe_done" /\ (exeq' = exeq \/ exeq' = exeq_remove(exeq))
    BY <1>9 DEF ExeTransfer, ExeNoneLeft
  <2>2. Latest = 0
    BY <2>1 DEF Latest
  <2>3. \A s \in ExeqSlots : exeq'[s].valid => exeq'[s] = exeq[s]
    <3>1. CASE exeq' = exeq
      BY <3>1
    <3>2. CASE exeq' = exeq_remove(exeq)
      BY <1>1, <3>2 DEF exeq_remove, EXEQType
    <3> QED  BY <2>1, <3>1, <3>2
  <2> QED  BY <1>2, <2>2, <2>3, RoomKept
<1> QED
  BY <1>3, <1>4, <1>5, <1>6, <1>7, <1>8, <1>9 DEF Next, Step, Over, Exe

-----------------------------------------------------------------------------
(* The end. *)

\* The instruction that leaves the buffer is the one after those that have left it.
LEMMA HeadIsNext ==
    ASSUME TypeInv, NumberInv, rob_check_head(rob)
    PROVE  /\ rob.head_ptr \in ValidIds /\ Num(rob.head_ptr) = stat_retired_inst + 1
           /\ Entry(rob.head_ptr).ready
<1>1. rob.head_ptr \in RobIds /\ rob \in ROBType /\ stat_retired_inst \in Nat
  BY DEF TypeInv, TypeOK, ROBType
<1>2. rob.head_ptr \in ValidIds /\ Entry(rob.head_ptr).ready
  BY <1>1 DEF rob_check_head, rob_check_ready, ValidIds, Entry
<1>3. Age(rob, rob.head_ptr) = 0
  BY <1>1, AgeFacts
<1> QED  BY <1>1, <1>2, <1>3 DEF NumberInv

\* No more instructions have retired than were read.
LEMMA RetiredOfRead ==
    ASSUME TypeInv, FlightInv
    PROVE  /\ stat_retired_inst \in Nat /\ last_inst_num \in Nat
           /\ stat_retired_inst <= last_inst_num
BY InFlightFinite DEF FlightInv, TypeInv, TypeOK

LEMMA StepEnd ==
    ASSUME ~ BadRecords, TypeInv, FlightInv, NumberInv, EndInv, ~ ExeFull, [Next]_vars
    PROVE  EndInv'
<1>1. /\ stat_retired_inst \in Nat /\ last_inst_num \in Nat /\ MaxInst \in Nat
      /\ stat_retired_inst <= last_inst_num /\ fetched \in Seq(TraceRecords)
  BY RetiredOfRead, PipelineAssumption DEF TypeInv, TypeOK
<1>2. CASE CommitInst
  <2>1. HeadInst(rob).inst_num = stat_retired_inst + 1 /\ stat_retired_inst + 1 <= last_inst_num
    <3>1. rob_check_head(rob)
      BY <1>2 DEF CommitInst
    <3>2. rob.head_ptr \in ValidIds /\ Num(rob.head_ptr) = stat_retired_inst + 1
      BY <3>1, HeadIsNext
    <3>3. Num(rob.head_ptr) <= last_inst_num
      BY <3>2 DEF FlightInv, ValidIds
    <3> QED  BY <3>2, <3>3 DEF HeadInst, Num, Entry
  <2>2. /\ halt' = (halt \/ HeadInst(rob).inst_num >= halt_inst_num)
        /\ stat_retired_inst' = stat_retired_inst + 1
        /\ UNCHANGED <<halt_inst_num, eof, fetched>>
    BY <1>2 DEF CommitInst, feVars
  <2>3. ~ halt
    BY <1>1, <2>1 DEF EndInv
  <2>4. halt' => eof /\ stat_retired_inst + 1 = last_inst_num
    <3> SUFFICES ASSUME halt' PROVE eof /\ stat_retired_inst + 1 = last_inst_num
      OBVIOUS
    <3>1. stat_retired_inst + 1 >= halt_inst_num
      BY <2>1, <2>2, <2>3
    <3>2. last_inst_num <= MaxInst /\ halt_inst_num = IF eof THEN last_inst_num ELSE MaxInst + 1
      BY DEF EndInv, UnknownEnd
    <3>3. CASE eof
      BY <1>1, <2>1, <3>1, <3>2, <3>3
    <3>4. CASE ~ eof
      BY <1>1, <2>1, <3>1, <3>2, <3>4
    <3> QED  BY <3>3, <3>4
  <2> QED  BY <2>2, <2>4 DEF EndInv, last_inst_num
<1>3. CASE FetchInst
  <2>1. ~ eof /\ last_inst_num < MaxInst /\ UNCHANGED <<eof, halt_inst_num, halt>>
    BY <1>3 DEF FetchInst
  <2>2. last_inst_num' = last_inst_num + 1
    BY <1>1, <1>3 DEF FetchInst, last_inst_num
  <2> QED  BY <1>1, <2>1, <2>2 DEF EndInv, UnknownEnd
<1>4. CASE FetchEnd
  <2>1. /\ eof' = TRUE /\ halt_inst_num' = last_inst_num /\ halt' = (halt \/ AllRetired)
        /\ UNCHANGED <<fetched, stat_retired_inst>>
    BY <1>4 DEF FetchEnd, fetchFrame
  <2>2. AllRetired => stat_retired_inst = last_inst_num
    BY <1>1 DEF AllRetired
  <2> QED  BY <2>1, <2>2 DEF EndInv, last_inst_num
<1>5. CASE ~ CommitInst /\ ~ FetchInst /\ ~ FetchEnd
  <2>1. UNCHANGED <<halt_inst_num, stat_retired_inst, halt, fetched, eof>>
    <3>1. CASE Commit \/ Writeback
      BY <1>5, <3>1 DEF Commit, CommitNothing, Writeback, WritebackLane, feVars, haltVars
    <3>2. CASE Exe
      BY <3>2 DEF Exe, ExeEmpty, ExeCopy, ExeInsert, ExeqCycle, ExeTransfer,
                  ExeNoneLeft, exeFrame, feVars
    <3>3. CASE Schedule
      BY <3>3 DEF Schedule, ScheduleInst, ScheduleNothing, ScheduleOccupied, ScheduleReturn,
                  schedFrame, feVars, haltVars
    <3>4. CASE IssueStage
      BY <3>4 DEF IssueStage, IssueCompare, IssueNextPass, Issue, IssueNothing, IssueCrash,
                  sortFrame, issueFrame, feVars, haltVars
    <3>5. CASE DecodeStage \/ FetchStage
      BY <1>5, <3>5 DEF DecodeStage, Decode, DecodeNothing, decodeFrame, FetchStage,
                        FetchOccupied, fetchFrame, haltVars
    <3>6. CASE UNCHANGED vars
      BY <3>6 DEF vars
    <3> QED  BY <3>1, <3>2, <3>3, <3>4, <3>5, <3>6 DEF Next, Step, Over
  <2> QED  BY <2>1 DEF EndInv, last_inst_num
<1> QED  BY <1>2, <1>3, <1>4, <1>5

LEMMA InitDataflow == Init => RecordInv /\ RoomInv /\ EndInv
<1> SUFFICES ASSUME Init PROVE RecordInv /\ RoomInv /\ EndInv
  OBVIOUS
<1>1. RecordInv
  BY DEF Init, EmptyLatch, rob_init, RecordInv, AllMadeFrom
<1>2. \A v : Held(v) = {}
  BY DEF Init, exeq_init, Held
<1>3. Latest = 0
  BY DEF Init, Latest
<1>4. RoomInv
  <2> SUFFICES ASSUME NEW v \in 1 .. LOAD_EXE_CYCLES
               PROVE  Cardinality(Held(v)) <= PIPE_WIDTH * (LOAD_EXE_CYCLES - v) + Latest
    BY DEF RoomInv
  <2>1. Cardinality(Held(v)) = 0
    BY <1>2, FS_EmptySet
  <2>2. LOAD_EXE_CYCLES - v \in Nat /\ PIPE_WIDTH \in Nat
    BY ExeqAssumption, PipelineAssumption
  <2>3. PIPE_WIDTH * (LOAD_EXE_CYCLES - v) >= 0
    BY <2>2
  <2> QED  BY <1>3, <2>1, <2>2, <2>3
<1>5. EndInv
  BY PipelineAssumption DEF Init, EndInv, last_inst_num
<1> QED  BY <1>1, <1>4, <1>5

-----------------------------------------------------------------------------
(* Steps of Dataflow. *)

Started  == NumsWhere({i \in ValidIds : Entry(i).exec})
Finished == NumsWhere({i \in ValidIds : Entry(i).ready})

\* What is known of the numbers in the buffer.
LEMMA NumbersAre ==
    ASSUME TypeInv, FlightInv, NumberInv, NEW i \in ValidIds
    PROVE  /\ Num(i) \in stat_retired_inst + 1 .. last_inst_num
           /\ Num(i) = stat_retired_inst + 1 + Age(rob, i) /\ Age(rob, i) \in Nat
           /\ stat_retired_inst \in Nat /\ last_inst_num \in Nat
           /\ Num(i) \notin 1 .. stat_retired_inst
<1>1. i \in RobIds /\ rob \in ROBType
  BY DEF ValidIds, TypeInv, TypeOK
<1>2. stat_retired_inst \in Nat /\ last_inst_num \in Nat
  BY RetiredOfRead
<1>3. Num(i) <= last_inst_num /\ Age(rob, i) \in Nat
  BY <1>1, AgeFacts DEF FlightInv
<1>4. Num(i) = stat_retired_inst + 1 + Age(rob, i)
  BY DEF NumberInv
<1> QED  BY <1>2, <1>3, <1>4

\* Between the retired instructions and one in the buffer all are in the buffer.
LEMMA OlderIsThere ==
    ASSUME TypeInv, Window(rob), FlightInv, NumberInv, NEW i \in ValidIds,
           NEW n \in Int, stat_retired_inst < n, n < Num(i)
    PROVE  \E j \in ValidIds : Num(j) = n
<1>1. /\ i \in RobIds /\ rob \in ROBType /\ rob.head_ptr \in RobIds
      /\ NUM_ROB_ENTRIES \in Nat
  BY RobAssumption DEF ValidIds, TypeInv, TypeOK, ROBType
<1>2. /\ Num(i) = stat_retired_inst + 1 + Age(rob, i) /\ stat_retired_inst \in Nat
      /\ Age(rob, i) \in Nat
  BY NumbersAre
<1>3. PICK a \in Nat : a = n - stat_retired_inst - 1 /\ a < Age(rob, i)
  BY <1>2
<1>4. Age(rob, i) < NUM_ROB_ENTRIES
  BY <1>1, CircleDistance DEF Age, RobIds
<1>5. PICK j \in RobIds : j = IF rob.head_ptr + a < NUM_ROB_ENTRIES THEN rob.head_ptr + a
                              ELSE rob.head_ptr + a - NUM_ROB_ENTRIES
  BY <1>1, <1>2, <1>3, <1>4 DEF RobIds
<1>6. Age(rob, j) = a
  BY <1>1, <1>2, <1>3, <1>4, <1>5, CircleDistance DEF Age, RobIds
<1>7. j \in ValidIds
  <2>1. Age(rob, i) < Used(rob) /\ Used(rob) \in Nat
    BY <1>1, UsedIsNat DEF Window, ValidIds, Entry
  <2>2. Age(rob, j) < Used(rob)
    BY <1>2, <1>3, <1>6, <2>1
  <2> QED  BY <2>2 DEF Window, ValidIds, Entry
<1>8. Num(j) = n
  BY <1>2, <1>3, <1>6, <1>7 DEF NumberInv
<1> QED  BY <1>7, <1>8

\* An instruction whose inputs are ready has its producers behind it.
LEMMA ProducersAreDone ==
    ASSUME TypeInv, Window(rob), FlightInv, NumberInv, OperandInv, RecordInv,
           OobReg \notin Dests, NEW i \in ValidIds, rob_check_inputs_ready(rob, i)
    PROVE  Abstract!Producers(Num(i)) \subseteq Finished
<1> DEFINE n == Num(i)
<1> SUFFICES ASSUME NEW m \in 1 .. n - 1, NEW k \in Src, m \in Abstract!Writers(n, k),
                    \A l \in Abstract!Writers(n, k) : l <= m
             PROVE  m \in Finished
  BY DEF Abstract!Producers
<1>1. DOMAIN rob.entries = RobIds /\ ValidIds \subseteq RobIds
  BY DEF TypeInv, TypeOK, ROBType, ValidIds
<1>2. \A j \in ValidIds : MadeFrom(fetched, Entry(j).inst)
  BY <1>1 DEF RecordInv, AllMadeFrom, ValidIds, Entry
<1>3. /\ n \in Nat /\ stat_retired_inst \in Nat
  BY NumbersAre
<1>4. CASE m <= stat_retired_inst
  BY <1>3, <1>4 DEF Finished, NumsWhere
<1>5. CASE stat_retired_inst < m
  <2>1. PICK j \in ValidIds : Num(j) = m
    BY <1>3, <1>5, OlderIsThere
  <2>2. \A l \in ValidIds : Entry(l).inst.dest_reg = fetched[Num(l)].dest_reg
    BY <1>2 DEF MadeFrom, Num
  <2>3. Entry(i).inst.src_reg = fetched[n].src_reg
    BY <1>2 DEF MadeFrom, Num
  <2>4. \A l \in ValidIds :
            l \in PendingWriters(i, k) <=> Num(l) \in Abstract!Writers(n, k)
    <3> SUFFICES ASSUME NEW l \in ValidIds
                 PROVE  l \in PendingWriters(i, k) <=> Num(l) \in Abstract!Writers(n, k)
      OBVIOUS
    <3>1. /\ Num(l) = stat_retired_inst + 1 + Age(rob, l) /\ Age(rob, l) \in Nat
          /\ n = stat_retired_inst + 1 + Age(rob, i) /\ Age(rob, i) \in Nat
      BY NumbersAre
    <3>2. Age(rob, l) < Age(rob, i) <=> Num(l) \in 1 .. n - 1
      BY <1>3, <3>1
    <3> QED  BY <2>2, <2>3, <3>2 DEF PendingWriters, Abstract!Writers
  <2>5. j \in PendingWriters(i, k)
    BY <2>1, <2>4
  <2>6. \A l \in PendingWriters(i, k) : Age(rob, l) <= Age(rob, j)
    <3> SUFFICES ASSUME NEW l \in PendingWriters(i, k) PROVE Age(rob, l) <= Age(rob, j)
      OBVIOUS
    <3>1. l \in ValidIds
      BY DEF PendingWriters
    <3>2. Num(l) <= Num(j)
      BY <2>1, <2>4, <3>1
    <3>3. /\ Num(l) = stat_retired_inst + 1 + Age(rob, l) /\ Age(rob, l) \in Nat
          /\ Num(j) = stat_retired_inst + 1 + Age(rob, j) /\ Age(rob, j) \in Nat
      BY <3>1, NumbersAre
    <3> QED  BY <1>3, <3>2, <3>3
  <2>7. Pending(i, k) = {}
    <3>1. WaitsRight(i, k)
      BY DEF OperandInv, Trusted
    <3>2. Entry(i).inst.src_ready[k]
      BY DEF rob_check_inputs_ready, Entry
    <3> QED  BY <3>1, <3>2 DEF WaitsRight
  <2>8. Entry(j).ready
    BY <2>5, <2>6, <2>7 DEF Pending
  <2> QED  BY <2>1, <2>8 DEF Finished, NumsWhere
<1> QED  BY <1>3, <1>4, <1>5

\* A number is among the finished, or the started, only through its own entry.
LEMMA OwnEntry ==
    ASSUME TypeInv, FlightInv, NumberInv, NEW i \in ValidIds
    PROVE  /\ Num(i) \in Started <=> Entry(i).exec
           /\ Num(i) \in Finished <=> Entry(i).ready
<1>1. Num(i) \notin 1 .. stat_retired_inst
  BY NumbersAre
<1>2. \A j \in ValidIds : Num(j) = Num(i) => j = i
  BY ValidUnique
<1> QED  BY <1>1, <1>2 DEF Started, Finished, NumsWhere

\* What Dataflow sees of the buffer stays.
LEMMA SetsStay ==
    ASSUME stat_retired_inst' = stat_retired_inst, ValidIds' = ValidIds,
           \A i \in ValidIds : Num(i)' = Num(i)
    PROVE  /\ (\A i \in ValidIds : Entry(i)'.exec = Entry(i).exec) => Started' = Started
           /\ (\A i \in ValidIds : Entry(i)'.ready = Entry(i).ready) => Finished' = Finished
<1> DEFINE E  == {i \in ValidIds : Entry(i).exec}
           R  == {i \in ValidIds : Entry(i).ready}
<1>1. ASSUME \A i \in ValidIds : Entry(i)'.exec = Entry(i).exec PROVE Started' = Started
  <2>1. E' = E
    BY <1>1
  <2>2. {Num(i) : i \in E}' = {Num(i) : i \in E}
    BY <2>1
  <2> QED  BY <2>2 DEF Started, NumsWhere
<1>2. ASSUME \A i \in ValidIds : Entry(i)'.ready = Entry(i).ready PROVE Finished' = Finished
  <2>1. R' = R
    BY <1>2
  <2>2. {Num(i) : i \in R}' = {Num(i) : i \in R}
    BY <2>1
  <2> QED  BY <2>2 DEF Finished, NumsWhere
<1> QED  BY <1>1, <1>2

\* One instruction more.
LEMMA SetsGrow ==
    ASSUME stat_retired_inst' = stat_retired_inst, ValidIds' = ValidIds, NEW e \in ValidIds,
           \A i \in ValidIds : Num(i)' = Num(i)
    PROVE  /\ (\A i \in ValidIds : Entry(i)'.exec = (Entry(i).exec \/ i = e))
                 => Started' = Started \cup {Num(e)}
           /\ (\A i \in ValidIds : Entry(i)'.ready = (Entry(i).ready \/ i = e))
                 => Finished' = Finished \cup {Num(e)}
<1>1. ASSUME \A i \in ValidIds : Entry(i)'.exec = (Entry(i).exec \/ i = e)
      PROVE  Started' = Started \cup {Num(e)}
  <2>1. \A n : n \in Started' <=> n \in Started \cup {Num(e)}
    <3> SUFFICES ASSUME NEW n PROVE n \in Started' <=> n \in Started \cup {Num(e)}
      OBVIOUS
    <3>1. n \in Started' <=> \/ n \in 1 .. stat_retired_inst
                             \/ \E i \in ValidIds : Entry(i)'.exec /\ Num(i) = n
      BY DEF Started, NumsWhere
    <3>2. n \in Started <=> \/ n \in 1 .. stat_retired_inst
                            \/ \E i \in ValidIds : Entry(i).exec /\ Num(i) = n
      BY DEF Started, NumsWhere
    <3> QED  BY <1>1, <3>1, <3>2
  <2> QED  BY <2>1
<1>2. ASSUME \A i \in ValidIds : Entry(i)'.ready = (Entry(i).ready \/ i = e)
      PROVE  Finished' = Finished \cup {Num(e)}
  <2>1. \A n : n \in Finished' <=> n \in Finished \cup {Num(e)}
    <3> SUFFICES ASSUME NEW n PROVE n \in Finished' <=> n \in Finished \cup {Num(e)}
      OBVIOUS
    <3>1. n \in Finished' <=> \/ n \in 1 .. stat_retired_inst
                              \/ \E i \in ValidIds : Entry(i)'.ready /\ Num(i) = n
      BY DEF Finished, NumsWhere
    <3>2. n \in Finished <=> \/ n \in 1 .. stat_retired_inst
                             \/ \E i \in ValidIds : Entry(i).ready /\ Num(i) = n
      BY DEF Finished, NumsWhere
    <3> QED  BY <1>2, <3>1, <3>2
  <2> QED  BY <2>1
<1> QED  BY <1>1, <1>2

LEMMA CommitRetires ==
    ASSUME TypeInv, FlightInv, ExecInv, NumberInv, CommitInst
    PROVE  Abstract!Retire
<1>1. PICK h \in RobIds :
          /\ h = rob.head_ptr
          /\ \A j \in RobIds : /\ Entry(j)'.valid = (Entry(j).valid /\ j # h)
                               /\ Entry(j)'.ready = Entry(j).ready
                               /\ Entry(j)'.inst = Entry(j).inst
  BY CommitRob
<1>2. h \in ValidIds /\ Num(h) = stat_retired_inst + 1 /\ Entry(h).ready /\ Entry(h).exec
  <2>1. rob_check_head(rob)
    BY DEF CommitInst
  <2>2. h \in ValidIds /\ Num(h) = stat_retired_inst + 1 /\ Entry(h).ready
    BY <1>1, <2>1, HeadIsNext
  <2> QED  BY <2>2 DEF ExecInv
<1>3. \A j \in RobIds \ {h} : Entry(j)' = Entry(j)
  <2>1. rob' = rob_remove_head(rob) /\ rob \in ROBType
    BY DEF CommitInst, TypeInv, TypeOK
  <2> QED  BY <1>1, <2>1 DEF rob_remove_head, ROBType, Entry
<1>4. ValidIds' = ValidIds \ {h}
  BY <1>1 DEF ValidIds
<1>5. stat_retired_inst' = stat_retired_inst + 1 /\ stat_retired_inst \in Nat
  BY RetiredOfRead DEF CommitInst
<1>6. 1 .. stat_retired_inst + 1 = 1 .. stat_retired_inst \cup {Num(h)}
  BY <1>2, <1>5
<1>7. Started' = Started
  <2>1. {i \in ValidIds : Entry(i).exec}' = {i \in ValidIds : Entry(i).exec} \ {h}
    BY <1>3, <1>4 DEF ValidIds
  <2>2. \A i \in RobIds \ {h} : Num(i)' = Num(i)
    BY <1>3 DEF Num
  <2>3. {Num(i) : i \in {i \in ValidIds : Entry(i).exec}}' \cup {Num(h)}
            = {Num(i) : i \in {i \in ValidIds : Entry(i).exec}}
    BY <1>2, <2>1, <2>2 DEF ValidIds
  <2> QED  BY <1>5, <1>6, <2>3 DEF Started, NumsWhere
<1>8. Finished' = Finished
  <2>1. {i \in ValidIds : Entry(i).ready}' = {i \in ValidIds : Entry(i).ready} \ {h}
    BY <1>3, <1>4 DEF ValidIds
  <2>2. \A i \in RobIds \ {h} : Num(i)' = Num(i)
    BY <1>3 DEF Num
  <2>3. {Num(i) : i \in {i \in ValidIds : Entry(i).ready}}' \cup {Num(h)}
            = {Num(i) : i \in {i \in ValidIds : Entry(i).ready}}
    BY <1>2, <2>1, <2>2 DEF ValidIds
  <2> QED  BY <1>5, <1>6, <2>3 DEF Finished, NumsWhere
<1>9. stat_retired_inst + 1 \in Finished
  BY <1>2 DEF Finished, NumsWhere
<1>10. fetched' = fetched /\ stage # "halted" /\ stage' # "halted"
  BY DEF CommitInst, CommitDone, Advance, Goto, feVars
<1> QED  BY <1>5, <1>7, <1>8, <1>9, <1>10 DEF Abstract!Retire, Started, Finished

\* Writeback finishes the instruction it finds, if that one was executing.
LEMMA WritebackFinishes ==
    ASSUME TypeInv, FlightInv, ExecInv, NumberInv, WritebackLane
    PROVE  (\E n \in Abstract!Numbers : Abstract!Finish(n)) \/ UNCHANGED Abstract!dfVars
<1> DEFINE f == WrittenBack
<1>1. /\ f # -1 => f \in RobIds /\ Num(f) = NumAt(EX_latch, lane)
      /\ \A j \in RobIds : /\ Entry(j)'.valid = Entry(j).valid
                           /\ Entry(j)'.ready = (Entry(j).ready \/ j = f)
                           /\ Num(j)' = Num(j)
  BY WritebackRob DEF SameInst, Num
<1>2. \A j \in RobIds : Entry(j)'.exec = Entry(j).exec
  <2>1. Woken \in ROBType /\ \A j \in RobIds : Woken.entries[j].exec = rob.entries[j].exec
    BY WokenFlags DEF Flags
  <2>2. rob' = Woken \/ \E i : rob' = SetReady(Woken, i)
    BY DEF WritebackLane, rob_mark_ready
  <2>3. ASSUME NEW i, NEW j \in RobIds
        PROVE  SetReady(Woken, i).entries[j].exec = Woken.entries[j].exec
    BY <2>1 DEF SetReady, ROBType, ROBEntry
  <2> QED  BY <2>1, <2>2, <2>3 DEF Entry
<1>3. /\ UNCHANGED <<stat_retired_inst, fetched>> /\ ValidIds' = ValidIds
      /\ stage # "halted" /\ stage' # "halted"
  BY <1>1 DEF WritebackLane, Advance, Goto, haltVars, feVars, ValidIds
<1>4. lane \in ExLanes /\ ValidIds \subseteq RobIds
  BY DEF TypeInv, LaneInRange, WritebackLane, ValidIds
<1>5. Started' = Started
  BY <1>1, <1>2, <1>3, <1>4, SetsStay
<1> HIDE DEF f
<1>6. CASE f \in ValidIds /\ ~ Entry(f).ready
  <2>1. f # -1 /\ Num(f) = NumAt(EX_latch, lane)
    BY <1>1, <1>4, <1>6, RobAssumption DEF RobIds
  <2>2. EX_latch[lane].valid
    BY <1>4, <1>6, <2>1 DEF ExecInv
  <2>3. Num(f) \in ExecutingNums
    <3>1. Num(f) \in NumsIn(EX_latch)
      BY <1>4, <2>1, <2>2, NumsAreNat DEF NumsIn
    <3> QED  BY <3>1 DEF ExecInv
  <2>4. Entry(f).exec
    <3>1. PICK i \in ValidIds : Num(i) = Num(f) /\ Executing(i)
      BY <2>3, ExecutingInRob
    <3>2. i = f
      BY <1>6, <3>1, ValidUnique
    <3> QED  BY <3>1, <3>2 DEF Executing
  <2>5. Num(f) \in Started \ Finished
    BY <1>6, <2>4, OwnEntry
  <2>6. Finished' = Finished \cup {Num(f)}
    BY <1>1, <1>3, <1>4, <1>6, SetsGrow
  <2>7. Num(f) \in Abstract!Numbers
    BY <1>6, NumbersAre DEF Abstract!Numbers, last_inst_num
  <2>8. Abstract!Finish(Num(f))
    BY <1>3, <1>5, <2>5, <2>6 DEF Abstract!Finish, Started, Finished
  <2> QED  BY <2>7, <2>8
<1>7. CASE ~ (f \in ValidIds /\ ~ Entry(f).ready)
  <2>1. \A i \in ValidIds : Entry(i)'.ready = Entry(i).ready
    <3> SUFFICES ASSUME NEW i \in ValidIds PROVE Entry(i)'.ready = Entry(i).ready
      OBVIOUS
    <3>1. Entry(i).ready \in BOOLEAN
      BY <1>4 DEF Entry, TypeInv, TypeOK, ROBType, ROBEntry
    <3> QED  BY <1>1, <1>4, <1>7, <3>1
  <2>2. Finished' = Finished
    BY <1>1, <1>3, <1>4, <2>1, SetsStay
  <2> QED  BY <1>3, <1>5, <2>2 DEF Abstract!dfVars, Started, Finished
<1> QED  BY <1>6, <1>7

\* The scheduler starts an instruction with its producers behind it, in order if it is to.
LEMMA ScheduleStarts ==
    ASSUME TypeInv, Window(rob), FlightInv, ExecInv, NumberInv, OperandInv, RecordInv,
           OobReg \notin Dests, ScheduleInst
    PROVE  \E n \in Abstract!Numbers : Abstract!Start(n)
<1>1. PICK e \in Schedulable : rob' = rob_mark_exec(rob, rob.entries[e].inst)
  BY DEF ScheduleInst
<1>2. /\ e \in ValidIds /\ ~ Entry(e).exec /\ e \in RobIds
      /\ rob_check_inputs_ready(rob, e) /\ rob \in ROBType
  BY DEF Schedulable, Oldest, ReadyToExec, Waiting, ValidIds, Entry, TypeInv, TypeOK
<1>3. rob' = SetExec(rob, e)
  BY <1>1, <1>2, FindsTheEntry DEF rob_mark_exec, NumAt, Num, Entry
<1>4. \A j \in RobIds : /\ Entry(j)'.valid = Entry(j).valid
                        /\ Entry(j)'.ready = Entry(j).ready
                        /\ Num(j)' = Num(j)
  BY ScheduleRob DEF Num
<1>5. \A j \in RobIds : Entry(j)'.exec = (Entry(j).exec \/ j = e)
  <2> SUFFICES ASSUME NEW j \in RobIds PROVE Entry(j)'.exec = (Entry(j).exec \/ j = e)
    OBVIOUS
  <2>1. rob.entries[j].exec \in BOOLEAN
    BY <1>2 DEF ROBType, ROBEntry
  <2>2. j = e => rob'.entries[j].exec = TRUE
    BY <1>2, <1>3 DEF SetExec, ROBType, ROBEntry
  <2>3. j # e => rob'.entries[j] = rob.entries[j]
    BY <1>2, <1>3 DEF SetExec, ROBType
  <2> QED  BY <2>1, <2>2, <2>3 DEF Entry
<1>6. /\ UNCHANGED <<stat_retired_inst, fetched>> /\ ValidIds' = ValidIds
      /\ stage # "halted" /\ stage' # "halted" /\ ValidIds \subseteq RobIds
  BY <1>4 DEF ScheduleInst, ScheduleNext, ScheduleEnds, Goto, schedFrame, haltVars, feVars, ValidIds
<1>7. Started' = Started \cup {Num(e)}
  BY <1>2, <1>4, <1>5, <1>6, SetsGrow
<1>8. Finished' = Finished
  BY <1>4, <1>6, SetsStay
<1>9. Num(e) \notin Started /\ Num(e) \in Abstract!Numbers
  BY <1>2, OwnEntry, NumbersAre DEF Abstract!Numbers, last_inst_num
<1>10. /\ Num(e) = stat_retired_inst + 1 + Age(rob, e)
       /\ Age(rob, e) \in Nat /\ stat_retired_inst \in Nat
  BY <1>2, NumbersAre
<1>11. Num(e) <= stat_retired_inst + NUM_ROB_ENTRIES
  <2>1. Age(rob, e) < NUM_ROB_ENTRIES
    BY <1>2, CircleDistance, RobAssumption DEF Age, RobIds, ROBType
  <2> QED  BY <1>10, <2>1, RobAssumption
<1>12. ASSUME SCHED_POLICY = "SCHED_IN_ORDER" PROVE 1 .. Num(e) - 1 \subseteq Started
  <2> SUFFICES ASSUME NEW n \in 1 .. Num(e) - 1 PROVE n \in Started
    OBVIOUS
  <2>1. CASE n <= stat_retired_inst
    BY <1>10, <2>1 DEF Started, NumsWhere
  <2>2. CASE stat_retired_inst < n
    <3>1. PICK j \in ValidIds : Num(j) = n
      BY <1>2, <1>10, <2>2, OlderIsThere
    <3>2. /\ Num(j) = stat_retired_inst + 1 + Age(rob, j) /\ Age(rob, j) \in Nat
      BY NumbersAre
    <3>3. ~ Age(rob, e) <= Age(rob, j)
      BY <1>10, <3>1, <3>2
    <3>4. j \notin Waiting
      BY <1>12, <3>3 DEF Schedulable, Oldest
    <3>5. Entry(j).exec
      BY <3>4 DEF Waiting, ValidIds, Entry
    <3> QED  BY <3>1, <3>5 DEF Started, NumsWhere
  <2> QED  BY <1>10, <2>1, <2>2
<1>13. Abstract!Producers(Num(e)) \subseteq Finished
  BY <1>2, ProducersAreDone
<1>14. Abstract!Start(Num(e))
  BY <1>6, <1>7, <1>8, <1>9, <1>11, <1>12, <1>13 DEF Abstract!Start, Started, Finished
<1> QED  BY <1>9, <1>14

LEMMA IssueStutters ==
    ASSUME TypeInv, Window(rob), Issue
    PROVE  UNCHANGED Abstract!dfVars
<1>1. PICK t \in RobIds :
          /\ ~ Entry(t).valid
          /\ \A j \in RobIds \ {t} : Entry(j)' = Entry(j)
          /\ Entry(t)'.valid /\ ~ Entry(t)'.exec /\ ~ Entry(t)'.ready
  BY IssueRob
<1>2. UNCHANGED <<stat_retired_inst, fetched>> /\ stage # "halted" /\ stage' # "halted"
  BY DEF Issue, IssueDone, Advance, Goto, issueFrame, haltVars, feVars
<1>3. /\ {i \in ValidIds : Entry(i).exec}' = {i \in ValidIds : Entry(i).exec}
      /\ {i \in ValidIds : Entry(i).ready}' = {i \in ValidIds : Entry(i).ready}
  BY <1>1 DEF ValidIds
<1>4. \A i \in RobIds \ {t} : Num(i)' = Num(i)
  BY <1>1 DEF Num
<1>5. Started' = Started
  <2>1. {Num(i) : i \in {i \in ValidIds : Entry(i).exec}}'
            = {Num(i) : i \in {i \in ValidIds : Entry(i).exec}}
    BY <1>1, <1>3, <1>4 DEF ValidIds
  <2> QED  BY <1>2, <2>1 DEF Started, NumsWhere
<1>6. Finished' = Finished
  <2>1. {Num(i) : i \in {i \in ValidIds : Entry(i).ready}}'
            = {Num(i) : i \in {i \in ValidIds : Entry(i).ready}}
    BY <1>1, <1>3, <1>4 DEF ValidIds
  <2> QED  BY <1>2, <2>1 DEF Finished, NumsWhere
<1> QED  BY <1>2, <1>5, <1>6 DEF Abstract!dfVars, Started, Finished

\* Fetch reads a record, or stops the machine when halt says so.
LEMMA FetchReadsOrStops ==
    ASSUME ~ BadRecords, TypeInv, FlightInv, EndInv, EndInv', FetchStage
    PROVE  Abstract!Read \/ Abstract!Stop \/ UNCHANGED Abstract!dfVars
<1>1. UNCHANGED <<rob, stat_retired_inst>> /\ stage # "halted"
  BY DEF FetchStage, FetchInst, FetchEnd, FetchOccupied, fetchFrame
<1>2. Started' = Started /\ Finished' = Finished
  BY <1>1 DEF Started, Finished, NumsWhere, Num, ValidIds, Entry
<1>3. stage' = "halted" => halt'
  BY DEF FetchStage, FetchInst, FetchEnd, FetchOccupied, FetchDone, Advance, Goto
<1>4. CASE FetchInst
  <2>1. \E rec \in TraceRecords : fetched' = Append(fetched, rec)
    BY <1>4 DEF FetchInst
  <2>2. ~ eof /\ halt' = halt
    BY <1>4 DEF FetchInst
  <2>3. stage' # "halted"
    BY <1>3, <2>2 DEF EndInv
  <2> QED  BY <1>1, <1>2, <2>1, <2>3 DEF Abstract!Read, Started, Finished
<1>5. CASE ~ FetchInst
  <2>1. fetched' = fetched
    BY <1>5 DEF FetchStage, FetchEnd, FetchOccupied
  <2>2. CASE stage' = "halted"
    <3>1. stat_retired_inst = Len(fetched)
      BY <1>1, <1>3, <2>1, <2>2 DEF EndInv, last_inst_num
    <3> QED  BY <1>1, <1>2, <2>1, <2>2, <3>1 DEF Abstract!Stop, Started, Finished
  <2>3. CASE stage' # "halted"
    BY <1>1, <1>2, <2>1, <2>3 DEF Abstract!dfVars, Started, Finished
  <2> QED  BY <2>2, <2>3
<1> QED  BY <1>4, <1>5

\* What is left does not touch the buffer.
LEMMA OthersStutter ==
    ASSUME TypeInv, FlightInv,
           \/ CommitNothing \/ Exe \/ ScheduleNothing \/ ScheduleOccupied \/ ScheduleReturn
           \/ IssueCompare \/ IssueNextPass \/ IssueNothing \/ IssueCrash \/ DecodeStage
           \/ UNCHANGED vars
    PROVE  UNCHANGED Abstract!dfVars
<1>1. UNCHANGED <<rob, stat_retired_inst, fetched>>
  BY DEF vars, CommitNothing, Exe, ExeEmpty, ExeCopy, ExeInsert, ExeFull, ExeqCycle, ExeTransfer,
         ExeNoneLeft, exeFrame, ScheduleNothing, ScheduleOccupied, ScheduleReturn, schedFrame,
         IssueCompare, IssueNextPass, IssueNothing, IssueCrash, sortFrame, issueFrame,
         DecodeStage, Decode, DecodeNothing, decodeFrame, haltVars, feVars
<1>2. (stage' = "halted") = (stage = "halted")
  BY DEF vars, CommitNothing, CommitDone, Exe, ExeEmpty, ExeCopy, ExeInsert, ExeFull, ExeqCycle,
         ExeTransfer, ExeNoneLeft, ExeDone, TransferNext, ScheduleNothing, ScheduleOccupied,
         ScheduleReturn, ScheduleNext, ScheduleEnds, IssueCompare, IssueNextPass, IssueNothing,
         IssueDone, IssueCrash, DecodeStage, Decode, DecodeNothing, DecodeDone, Advance, Goto
<1>3. Started' = Started /\ Finished' = Finished
  BY <1>1 DEF Started, Finished, NumsWhere, Num, ValidIds, Entry
<1> QED  BY <1>1, <1>2, <1>3 DEF Abstract!dfVars, Started, Finished

LEMMA DataflowStep ==
    ASSUME ~ BadRecords, OobReg \notin Dests, TypeInv, Window(rob), FlightInv, ExecInv, NumberInv,
           OperandInv, RecordInv, EndInv, EndInv', [Next]_vars
    PROVE  [Abstract!DataflowNext]_(Abstract!dfVars)
<1>1. CASE CommitInst
  BY <1>1, CommitRetires DEF Abstract!DataflowNext
<1>2. CASE Writeback
  BY <1>2, WritebackFinishes DEF Writeback, Abstract!DataflowNext
<1>3. CASE ScheduleInst
  BY <1>3, ScheduleStarts DEF Abstract!DataflowNext
<1>4. CASE Issue
  BY <1>4, IssueStutters
<1>5. CASE FetchStage
  BY <1>5, FetchReadsOrStops DEF Abstract!DataflowNext
<1>6. CASE \/ CommitNothing \/ Exe \/ ScheduleNothing \/ ScheduleOccupied \/ ScheduleReturn
           \/ IssueCompare \/ IssueNextPass \/ IssueNothing \/ IssueCrash \/ DecodeStage
           \/ UNCHANGED vars
  BY <1>6, OthersStutter
<1> QED
  BY <1>1, <1>2, <1>3, <1>4, <1>5, <1>6
     DEF Next, Step, Over, Commit, Schedule, IssueStage

LEMMA DataflowStart == Init => Abstract!DataflowInit
<1> SUFFICES ASSUME Init PROVE Abstract!DataflowInit
  OBVIOUS
<1>1. ValidIds = {} /\ stat_retired_inst = 0
  BY DEF Init, rob_init, ValidIds, Entry
<1>2. Started = {} /\ Finished = {}
  BY <1>1 DEF Started, Finished, NumsWhere
<1> QED  BY <1>1, <1>2 DEF Init, Abstract!DataflowInit, Started, Finished

(***************************************************************************)
(* The pipeline executes the dataflow of the program: an instruction       *)
(* starts after those that produce its operands, no further ahead than the *)
(* buffer is long and in order if that is the policy, they retire in       *)
(* order, and main's loop ends only when all that was read has retired.    *)
(* For one or two lanes, every size of the buffer, latency, policy and     *)
(* trace, as long as the EXEQ is large enough, no record is invalid and    *)
(* none writes the register that rob_mark_ready's stray write hits.        *)
(***************************************************************************)
THEOREM PipelineImplementsDataflow ==
    ASSUME PIPE_WIDTH <= 2, ExeqSuffices, ~ BadRecords, OobReg \notin Dests
    PROVE  Spec => ImplementsDataflow
<1> DEFINE Known == TypeInv /\ Window(rob) /\ FlightInv /\ ExecInv /\ ExeqInv
           Order == NumberInv /\ SortInv /\ RecordInv /\ RoomInv /\ EndInv
<1>1. Init => Order
  BY InitOrder, InitDataflow
<1>2. Known /\ TypeInv' /\ Order /\ [Next]_vars => Order'
  BY StepNumber, StepSort, StepRecord, StepRoom, StepEnd, NeverExeFull
<1>3. Spec => []Known
  <2>1. Init => ExeqInv
    BY DEF Init, exeq_init, ExeqInv, ExeqDrainsInTime, DoneSlots
  <2>2. TypeInv /\ ExeqInv /\ [Next]_vars => ExeqInv'
    BY StepExeq
  <2> QED  BY <2>1, <2>2, FlightHolds, ExecHolds, TypeCorrect, PTL DEF Spec
<1>4. Init => Abstract!DataflowInit
  BY DataflowStart
<1>5. Known /\ Order /\ Order' /\ OperandInv /\ [Next]_vars
        => [Abstract!DataflowNext]_(Abstract!dfVars)
  BY DataflowStep
<1> HIDE DEF Known, Order
<1>6. Spec => []TypeInv
  BY TypeCorrect
<1> QED
  BY <1>1, <1>2, <1>3, <1>4, <1>5, <1>6, OperandHolds, PTL
     DEF Spec, ImplementsDataflow, Abstract!DataflowSpec

-----------------------------------------------------------------------------
(***************************************************************************)
(* The heartbeat: what the next instruction to retire still has to go      *)
(* through, and how many cycles that takes at most.                        *)
(***************************************************************************)
HeadThere == Entry(rob.head_ptr).valid
HeadNum == Num(rob.head_ptr)
HasNone(latch) == \A l \in DOMAIN latch : ~ latch[l].valid
Going == stage \notin {"halted", "crashed"} /\ ~ halt

\* Issue visits every lane, and passes over an instruction only when the buffer is full.
LaneInv ==
    /\ stage \notin {"sort", "issue", "crashed"} => pipeIndex = LaneOrder
    /\ stage \in {"sort", "issue"} => EveryLane
    /\ stage = "issue" =>
        \A a \in Lanes : a < lane /\ ID_latch[pipeIndex[a]].valid => ~ rob_check_space(rob)

\* The FE latches hold what decode has not seen, so it finds the next one if there is one; and
\* when fetch is done, an instruction is in flight or the loop is told to end.
FrontInv ==
    /\ next_inst_num <= last_inst_num + 1
    /\ NumsIn(FE_latch) = next_inst_num .. last_inst_num
    /\ stage = "decode" /\ lane > 0 /\ HasNone(ID_latch) => HasNone(FE_latch)
    /\ stage = "fetch" /\ lane > 0 /\ ~ halt => InFlight # {}

\* The latches that schedule fills are empty when it comes to them, unless the queue was full.
ScFree ==
    /\ stage = "exe" => \A l \in Lanes : l < lane => ~ SC_latch[l].valid
    /\ stage \in {"exeq_cycle", "exe_done"} => HasNone(SC_latch)
    /\ stage = "schedule" => \A l \in Lanes : l >= lane => ~ SC_latch[l].valid

\* The first lane of schedule takes the head.
HeadTaken == stage = "schedule" /\ lane > 0 /\ HeadThere => Entry(rob.head_ptr).exec

BackInv ==
    /\ LOAD_EXE_CYCLES = 1 => HasNone(exeq)
    /\ (stage = "schedule" /\ lane > 0) \/ continueScheduling
    /\ ~ halt => ScFree /\ HeadTaken

(***************************************************************************)
(* By(S, k): when the stages of S come round for the next time, this cycle *)
(* or the following, there are k cycles more before the heartbeat.  S is   *)
(* the stages of a cycle up to the one that moves the instruction on.      *)
(***************************************************************************)
Budget(k) == stat_num_cycle + k < HEARTBEAT_CYCLES
By(S, k) == IF stage \in S THEN Budget(k) ELSE Budget(k + 1)

UpToWriteback == {"commit", "writeback"}
UpToExe == UpToWriteback \cup {"exe"}
UpToCycle == UpToExe \cup {"exeq_cycle"}
UpToSchedule == UpToCycle \cup {"exe_done", "schedule"}
UpToIssue == UpToSchedule \cup {"sort", "issue"}
UpToDecode == UpToIssue \cup {"decode"}

\* The head is ready, in an EX latch, in the queue, in an SC latch, or waits for the scheduler.
ReadySoon(h) == Entry(h).ready => By({"commit"}, 0)
ExSoon(n) == \A l \in ExLanes : EX_latch[l].valid /\ NumAt(EX_latch, l) = n =>
                 By(UpToWriteback, 1)
ExeqSoon(n) == \A s \in ExeqSlots : exeq[s].valid /\ NumAt(exeq, s) = n =>
                   By(UpToCycle, exeq[s].inst.exe_wait_cycles + 1)
ScSoon(n) == \A l \in Lanes : SC_latch[l].valid /\ NumAt(SC_latch, l) = n =>
                 By(UpToExe, LOAD_EXE_CYCLES + 1)
ExecSoon(h) == ~ Entry(h).exec => By(UpToSchedule, LOAD_EXE_CYCLES + 2)

HeadIsSoon(h, n) == ReadySoon(h) /\ ExSoon(n) /\ ExeqSoon(n) /\ ScSoon(n) /\ ExecSoon(h)
HeadSoon == HeadIsSoon(rob.head_ptr, HeadNum)

\* With the buffer empty the next one is in an ID latch, in an FE latch, or is still to be read.
NextSoon ==
    /\ ~ HasNone(ID_latch) => By(UpToIssue, LOAD_EXE_CYCLES + 3)
    /\ HasNone(ID_latch) /\ ~ HasNone(FE_latch) => By(UpToDecode, LOAD_EXE_CYCLES + 4)
    /\ HasNone(ID_latch) /\ HasNone(FE_latch) => Budget(LOAD_EXE_CYCLES + 5)

Soon == IF HeadThere THEN HeadSoon ELSE NextSoon

(***************************************************************************)
(* If nothing has retired since the last heartbeat, something will before  *)
(* the next, or the run ends in this cycle.                                *)
(***************************************************************************)
HeartInv ==
    /\ status = 0
    /\ stat_num_cycle \in 0 .. HEARTBEAT_CYCLES - 1
    /\ last_hbeat_inst \in Nat /\ last_hbeat_inst <= stat_retired_inst
    /\ stat_retired_inst = last_hbeat_inst =>
        /\ Going => Soon
        /\ halt /\ stage \notin {"halted", "crashed"} => Budget(1)

-----------------------------------------------------------------------------
(* The front: issue's lanes, decode and fetch. *)

LEMMA CompareLanes ==
    ASSUME TypeInv, LaneInv, IssueCompare
    PROVE  LaneInv'
<1>0. pipeIndex \in [Lanes -> Lanes] /\ stage' = stage
  BY DEF TypeInv, TypeOK, IssueCompare
<1>1. /\ PIPE_WIDTH \in Nat /\ pass \in Nat /\ lane \in Nat /\ stage = "sort"
      /\ lane < PIPE_WIDTH - pass - 1
  BY PipelineAssumption DEF TypeInv, TypeOK, IssueCompare, Lanes
<1>2. lane \in Lanes /\ lane + 1 \in Lanes /\ lane # lane + 1
  BY <1>1 DEF Lanes
<1>3. EveryLane'
  <2> SUFFICES ASSUME NEW l \in Lanes PROVE \E a \in Lanes : pipeIndex'[a] = l
    BY DEF EveryLane
  <2>1. PICK a \in Lanes : pipeIndex[a] = l
    BY <1>1 DEF LaneInv, EveryLane
  <2>2. CASE ~ Swap
    BY <2>1, <2>2 DEF IssueCompare
  <2>3. CASE Swap
    <3>1. /\ pipeIndex'[lane] = pipeIndex[lane + 1] /\ pipeIndex'[lane + 1] = pipeIndex[lane]
          /\ \A b \in Lanes \ {lane, lane + 1} : pipeIndex'[b] = pipeIndex[b]
      BY <1>0, <1>2, <2>3 DEF IssueCompare
    <3> QED  BY <1>2, <2>1, <3>1
  <2> QED  BY <2>2, <2>3
<1> QED  BY <1>0, <1>1, <1>3 DEF LaneInv

\* Issue passes over a lane only when it is empty, or when the buffer is full.
LEMMA IssueLanes ==
    ASSUME TypeInv, LaneInv, Issue \/ IssueNothing
    PROVE  LaneInv'
<1>1. stage = "issue" /\ lane \in Lanes /\ pipeIndex \in [Lanes -> Lanes]
  BY DEF Issue, IssueNothing, TypeInv, TypeOK, LaneInRange
<1>2. CASE lane + 1 < PIPE_WIDTH
  <2>1. stage' = "issue" /\ lane' = lane + 1 /\ pipeIndex' = pipeIndex
    BY <1>1, <1>2 DEF Issue, IssueNothing, IssueDone, Advance
  <2>2. \A a \in Lanes : pipeIndex[a] \in Lanes /\ (a < lane + 1 => a < lane \/ a = lane)
    BY <1>1 DEF Lanes
  <2>3. \A a \in Lanes : a < lane + 1 /\ ID_latch'[pipeIndex[a]].valid => ~ rob_check_space(rob')
    <3>1. CASE Issue
      <4>1. \A l \in Lanes : ID_latch'[l].valid => ID_latch'[l] = ID_latch[l] /\ l # IssueLane
        BY <3>1 DEF Issue, TypeInv, TypeOK, Latch
      <4>2. \A a \in Lanes : a < lane => ~ ID_latch[pipeIndex[a]].valid
        BY <1>1, <3>1 DEF LaneInv, Issue, CanIssue
      <4> QED  BY <2>2, <4>1, <4>2 DEF IssueLane
    <3>2. CASE IssueNothing
      <4>1. UNCHANGED <<ID_latch, rob>> /\ ~ CanIssue
        BY <3>2 DEF IssueNothing
      <4> QED  BY <1>1, <2>2, <4>1 DEF LaneInv, CanIssue, IssueLane
    <3> QED  BY <3>1, <3>2
  <2>4. EveryLane'
    BY <1>1, <2>1 DEF LaneInv, EveryLane
  <2> QED  BY <2>1, <2>3, <2>4 DEF LaneInv, rob_check_space
<1>3. CASE ~ (lane + 1 < PIPE_WIDTH)
  <2>1. stage' = "decode" /\ pipeIndex' = LaneOrder
    BY <1>1, <1>3 DEF Issue, IssueNothing, IssueDone, Advance, Goto
  <2> QED  BY <2>1 DEF LaneInv
<1> QED  BY <1>2, <1>3

\* The order of the lanes is the plain one outside issue, and a permutation in it.
LEMMA StepLane == TypeInv /\ LaneInv /\ [Next]_vars => LaneInv'
<1> SUFFICES ASSUME TypeInv, LaneInv, [Next]_vars PROVE LaneInv'
  OBVIOUS
<1>1. CASE /\ stage \notin {"sort", "issue", "crashed"} /\ stage' \notin {"sort", "issue"}
           /\ UNCHANGED issueVars
  BY <1>1 DEF LaneInv, issueVars
<1>2. CASE UNCHANGED vars
  BY <1>2 DEF vars, LaneInv, EveryLane, rob_check_space
<1>3. CASE Commit \/ Writeback
  BY <1>1, <1>3 DEF Commit, CommitInst, CommitNothing, CommitDone, Writeback, WritebackLane,
                    Advance, Goto
<1>4. CASE Exe
  BY <1>1, <1>4 DEF Exe, ExeEmpty, ExeCopy, ExeInsert, ExeFull, ExeqCycle, ExeTransfer,
                    ExeNoneLeft, exeFrame, ExeDone, TransferNext, Advance, Goto
<1>5. CASE Schedule
  <2>1. /\ stage = "schedule" /\ UNCHANGED issueVars
        /\ stage' = "schedule" \/ (stage' = "sort" /\ lane' = 0)
    BY <1>5 DEF Schedule, ScheduleInst, ScheduleNothing, ScheduleOccupied, ScheduleReturn,
                schedFrame, ScheduleNext, ScheduleEnds, Goto
  <2>2. pipeIndex' = LaneOrder
    BY <2>1 DEF LaneInv, issueVars
  <2>3. EveryLane'
    BY <2>2 DEF EveryLane, LaneOrder
  <2> QED  BY <2>1, <2>2, <2>3 DEF LaneInv
<1>6. CASE DecodeStage \/ FetchStage
  BY <1>1, <1>6 DEF DecodeStage, Decode, DecodeNothing, decodeFrame, DecodeDone, FetchStage,
                    FetchInst, FetchEnd, FetchOccupied, fetchFrame, FetchDone, Advance, Goto
<1>7. CASE IssueNextPass
  <2>1. /\ stage = "sort" /\ lane' = 0 /\ UNCHANGED <<pipeIndex, ID_latch, rob>>
        /\ stage' \in {"sort", "issue"}
    BY <1>7 DEF IssueNextPass, sortFrame
  <2>2. \A a \in Lanes : ~ a < 0
    BY DEF Lanes
  <2> QED  BY <2>1, <2>2 DEF LaneInv, EveryLane
<1>8. CASE IssueCrash
  BY <1>8 DEF IssueCrash, LaneInv
<1> QED
  BY <1>2, <1>3, <1>4, <1>5, <1>6, <1>7, <1>8, CompareLanes, IssueLanes
     DEF Next, Step, Over, IssueStage

\* The first entry of the buffer is valid unless there is none.
LEMMA HeadFacts ==
    ASSUME TypeInv, Window(rob)
    PROVE  /\ rob.head_ptr \in RobIds /\ rob \in ROBType
           /\ HeadThere <=> NumsIn(rob.entries) # {}
           /\ HeadThere => rob.head_ptr \in ValidIds /\ Age(rob, rob.head_ptr) = 0
           /\ ~ HeadThere => rob_check_space(rob) /\ rob.tail_ptr = rob.head_ptr
<1>1. /\ rob.head_ptr \in RobIds /\ rob.tail_ptr \in RobIds
      /\ rob \in ROBType /\ DOMAIN rob.entries = RobIds
  BY DEF TypeInv, TypeOK, ROBType
<1>2. Age(rob, rob.head_ptr) = 0 /\ \A i \in RobIds : Age(rob, i) \in Nat
  BY <1>1, AgeFacts
<1>3. Used(rob) \in Nat /\ (rob_check_space(rob) => Age(rob, rob.tail_ptr) = Used(rob))
  BY <1>1, UsedIsNat
<1>4. ~ HeadThere => Used(rob) = 0
  BY <1>1, <1>2, <1>3 DEF Window, HeadThere, Entry
<1>5. ~ HeadThere => NumsIn(rob.entries) = {}
  BY <1>1, <1>2, <1>4 DEF Window, NumsIn
<1>6. HeadThere => NumsIn(rob.entries) # {} /\ rob.head_ptr \in ValidIds
  BY <1>1 DEF HeadThere, NumsIn, ValidIds, Entry
<1>7. ~ HeadThere => rob_check_space(rob)
  BY <1>4, RobAssumption DEF Used
<1>8. ~ HeadThere => rob.tail_ptr = rob.head_ptr
  BY <1>1, <1>3, <1>4, <1>7, AgeFacts
<1> QED  BY <1>1, <1>2, <1>5, <1>6, <1>7, <1>8

\* An array of latches is empty when it holds no numbers.
LEMMA HasNoneIs ==
    ASSUME NEW latch
    PROVE  HasNone(latch) <=> NumsIn(latch) = {}
BY DEF HasNone, NumsIn

\* The stages between fetch and decode leave the front alone.
LEMMA FrontFrame ==
    ASSUME FrontInv, UNCHANGED <<FE_latch, fetched, next_inst_num>>,
           stage' \in {"decode", "fetch"} => lane' = 0
    PROVE  FrontInv'
BY DEF FrontInv, NumsIn, NumAt, last_inst_num

\* Decode takes the first of the instructions in the FE latches.
LEMMA FrontDecode ==
    ASSUME TypeInv, FlightInv, FrontInv, Decode
    PROVE  FrontInv'
<1>1. PICK j \in NextDecoded : /\ ID_latch' = [ID_latch EXCEPT ![lane] = FE_latch[j]]
                               /\ FE_latch' = [FE_latch EXCEPT ![j].valid = FALSE]
  BY DEF Decode
<1> DEFINE n == NumAt(FE_latch, j)
<1>2. /\ j \in Lanes /\ lane \in Lanes /\ FE_latch[j].valid /\ stage = "decode"
      /\ ID_latch \in [Lanes -> Latch] /\ FE_latch \in [Lanes -> Latch]
      /\ n = next_inst_num
  BY DEF NextDecoded, Decode, TypeInv, TypeOK, LaneInRange, NumAt
<1>3. /\ DOMAIN FE_latch = Lanes /\ DOMAIN FE_latch' = Lanes /\ ~ FE_latch'[j].valid
      /\ \A k \in Lanes \ {j} : FE_latch'[k] = FE_latch[k]
  BY <1>1, <1>2 DEF Latch
<1>4. ~ HasNone(ID_latch')
  <2>1. DOMAIN ID_latch' = Lanes /\ ID_latch'[lane] = FE_latch[j]
    BY <1>1, <1>2
  <2> QED  BY <1>2, <2>1 DEF HasNone
<1>5. fetched' = fetched /\ next_inst_num' = next_inst_num + 1
  BY DEF Decode, decodeFrame
<1> HIDE DEF n
<1>6. n \in NumsIn(FE_latch) /\ NumsIn(FE_latch') = NumsIn(FE_latch) \ {n}
  BY <1>2, <1>3, Lost DEF FlightInv, SameAt, NumAt, n
<1>7. last_inst_num' = last_inst_num /\ last_inst_num \in Nat /\ next_inst_num \in Nat
  BY <1>5 DEF last_inst_num, TypeInv, TypeOK
<1>8. /\ NumsIn(FE_latch') = next_inst_num' .. last_inst_num'
      /\ next_inst_num' <= last_inst_num' + 1
  BY <1>2, <1>5, <1>6, <1>7 DEF FrontInv
<1>9. stage' = "decode" \/ (stage' = "fetch" /\ lane' = 0)
  BY <1>2 DEF Decode, DecodeDone, Advance, Goto
<1>10. NumsIn(FE_latch)' = NumsIn(FE_latch') /\ HasNone(ID_latch)' = HasNone(ID_latch')
  BY DEF NumsIn, NumAt, HasNone
<1> QED  BY <1>4, <1>8, <1>9, <1>10 DEF FrontInv

\* It finds nothing for an empty ID lane only when the FE latches are empty.
LEMMA FrontDecodeNothing ==
    ASSUME TypeInv, FrontInv, DecodeNothing
    PROVE  /\ FrontInv'
           /\ HasNone(ID_latch) => HasNone(FE_latch)
<1>1. /\ lane \in Lanes /\ ID_latch \in [Lanes -> Latch] /\ FE_latch \in [Lanes -> Latch]
      /\ next_inst_num \in Nat /\ last_inst_num \in Nat /\ stage = "decode"
      /\ UNCHANGED <<ID_latch, FE_latch, fetched, next_inst_num>>
      /\ stage' = "decode" \/ (stage' = "fetch" /\ lane' = 0)
  BY DEF DecodeNothing, DecodeDone, Advance, Goto, TypeInv, TypeOK, LaneInRange, decodeFrame,
         last_inst_num
<1>2. HasNone(ID_latch) => HasNone(FE_latch)
  <2> SUFFICES ASSUME HasNone(ID_latch) PROVE NumsIn(FE_latch) = {}
    BY HasNoneIs
  <2>1. NextDecoded = {}
    BY <1>1 DEF HasNone, DecodeNothing
  <2>2. next_inst_num \notin NumsIn(FE_latch)
    BY <1>1, <2>1 DEF NextDecoded, NumsIn, NumAt
  <2> QED  BY <1>1, <2>2 DEF FrontInv
<1> QED  BY <1>1, <1>2 DEF FrontInv, NumsIn, NumAt, last_inst_num, HasNone

\* After a fetch an instruction is in flight, or all have retired and main is told to stop.
LEMMA FrontFetch ==
    ASSUME TypeInv, FlightInv, FrontInv, FetchStage
    PROVE  FrontInv' /\ (~ halt' => InFlight' # {})
<1>1. /\ lane \in Lanes /\ FE_latch \in [Lanes -> Latch] /\ stage = "fetch"
      /\ next_inst_num \in Nat /\ last_inst_num \in Nat /\ fetched \in Seq(TraceRecords)
      /\ UNCHANGED <<ID_latch, rob, next_inst_num, stat_retired_inst>>
      /\ stage' \in {"fetch", "halted", "commit"}
  <2>1. stage' \in {"fetch", "halted", "commit"}
    BY DEF FetchStage, FetchInst, FetchEnd, FetchOccupied, FetchDone, Advance, Goto
  <2>2. UNCHANGED <<ID_latch, rob, next_inst_num, stat_retired_inst>> /\ stage = "fetch"
    BY DEF FetchStage, FetchInst, FetchEnd, FetchOccupied, fetchFrame
  <2>3. /\ FE_latch \in [Lanes -> Latch] /\ fetched \in Seq(TraceRecords)
        /\ next_inst_num \in Nat /\ last_inst_num \in Nat
    BY DEF TypeInv, TypeOK, last_inst_num
  <2>4. lane \in Lanes
    BY <2>2 DEF TypeInv, LaneInRange
  <2> QED  BY <2>1, <2>2, <2>3, <2>4
<1>2. CASE FetchInst
  <2> DEFINE n == last_inst_num + 1
  <2>1. PICK rec \in TraceRecords :
            /\ fetched' = Append(fetched, rec)
            /\ FE_latch' = [FE_latch EXCEPT ![lane] = Full(NewInst(n, rec))]
    BY <1>2 DEF FetchInst
  <2>2. ~ FE_latch[lane].valid /\ last_inst_num' = n
    BY <1>1, <1>2, <2>1 DEF FetchInst, last_inst_num
  <2>3. /\ DOMAIN FE_latch = Lanes /\ DOMAIN FE_latch' = Lanes
        /\ FE_latch'[lane].valid /\ NumAt(FE_latch', lane) = n
        /\ \A k \in Lanes \ {lane} : FE_latch'[k] = FE_latch[k]
    BY <1>1, <2>1 DEF NumAt, Full, NewInst
  <2> HIDE DEF n
  <2>4. NumsIn(FE_latch') = NumsIn(FE_latch) \cup {n}
    <3>1. n \notin NumsIn(FE_latch)
      BY <1>1 DEF FrontInv, n
    <3> QED  BY <1>1, <2>2, <2>3, <3>1, Gained DEF FlightInv, SameAt, NumAt
  <2>5. NumsIn(FE_latch)' = NumsIn(FE_latch) \cup {n}
    BY <2>4 DEF NumsIn, NumAt
  <2>6. NumsIn(FE_latch)' = next_inst_num' .. last_inst_num' /\ next_inst_num' <= last_inst_num' + 1
    BY <1>1, <2>2, <2>5 DEF FrontInv, n
  <2>7. InFlight' # {}
    BY <2>5 DEF InFlight
  <2> QED  BY <1>1, <2>6, <2>7 DEF FrontInv
<1>3. CASE FetchEnd
  <2>1. UNCHANGED <<FE_latch, fetched>> /\ halt' = (halt \/ AllRetired)
    BY <1>3 DEF FetchEnd
  <2>2. InFlight' = InFlight
    BY <1>1, <2>1 DEF InFlight, NumsIn, NumAt
  <2>3. InFlight = {} => AllRetired
    BY <1>1, FS_EmptySet, RetiredOfRead DEF FlightInv, AllRetired
  <2>4. ~ halt' => InFlight' # {}
    BY <2>1, <2>2, <2>3
  <2> QED  BY <1>1, <2>1, <2>4 DEF FrontInv, NumsIn, NumAt, last_inst_num
<1>4. CASE FetchOccupied
  <2>1. UNCHANGED <<FE_latch, fetched>> /\ FE_latch[lane].valid
    BY <1>4 DEF FetchOccupied
  <2>2. InFlight' = InFlight
    BY <1>1, <2>1 DEF InFlight, NumsIn, NumAt
  <2>3. NumAt(FE_latch, lane) \in InFlight
    BY <1>1, <2>1 DEF InFlight, NumsIn
  <2> QED  BY <1>1, <2>1, <2>2, <2>3 DEF FrontInv, NumsIn, NumAt, last_inst_num
<1> QED  BY <1>2, <1>3, <1>4 DEF FetchStage

\* So decode finds what is to be decoded, and fetch what is to be fetched.
LEMMA StepFront == TypeInv /\ FlightInv /\ FrontInv /\ [Next]_vars => FrontInv'
<1> SUFFICES ASSUME TypeInv, FlightInv, FrontInv, [Next]_vars PROVE FrontInv'
  OBVIOUS
<1>1. CASE UNCHANGED vars
  BY <1>1 DEF vars, FrontInv, NumsIn, NumAt, last_inst_num, HasNone, InFlight
<1>2. CASE Commit \/ Writeback
  BY <1>2, FrontFrame DEF Commit, CommitInst, CommitNothing, CommitDone, Writeback,
                          WritebackLane, Advance, Goto, feVars
<1>3. CASE Exe
  <2>1. UNCHANGED <<FE_latch, fetched, next_inst_num>>
    BY <1>3 DEF Exe, ExeEmpty, ExeCopy, ExeInsert, ExeFull, ExeqCycle, ExeTransfer, ExeNoneLeft,
                exeFrame, feVars
  <2>2. stage' \in {"exe", "exeq_cycle", "exe_done", "schedule"}
    BY <1>3 DEF Exe, ExeEmpty, ExeCopy, ExeInsert, ExeFull, ExeqCycle, ExeTransfer, ExeNoneLeft,
                ExeDone, TransferNext, Advance, Goto
  <2> QED  BY <2>1, <2>2, FrontFrame
<1>4. CASE Schedule
  BY <1>4, FrontFrame DEF Schedule, ScheduleInst, ScheduleNothing, ScheduleOccupied,
                          ScheduleReturn, schedFrame, ScheduleNext, ScheduleEnds, Goto, feVars
<1>5. CASE IssueStage
  <2>1. UNCHANGED <<FE_latch, fetched, next_inst_num>>
    BY <1>5 DEF IssueStage, IssueCompare, IssueNextPass, Issue, IssueNothing, IssueCrash,
                sortFrame, issueFrame, feVars
  <2>2. stage' \in {"sort", "issue", "crashed"} \/ (stage' = "decode" /\ lane' = 0)
    BY <1>5 DEF IssueStage, IssueCompare, IssueNextPass, Issue, IssueNothing, IssueCrash,
                IssueDone, Advance, Goto
  <2> QED  BY <2>1, <2>2, FrontFrame
<1> QED
  BY <1>1, <1>2, <1>3, <1>4, <1>5, FrontDecode, FrontDecodeNothing, FrontFetch
     DEF Next, Step, Over, DecodeStage

-----------------------------------------------------------------------------
(* The scheduler. *)

\* The oldest instruction waits for nobody.
LEMMA HeadReady ==
    ASSUME TypeInv, Window(rob), OperandInv, OobReg \notin Dests, HeadThere
    PROVE  rob_check_inputs_ready(rob, rob.head_ptr)
<1> DEFINE h == rob.head_ptr
<1>1. h \in ValidIds /\ h \in RobIds /\ Age(rob, h) = 0 /\ rob \in ROBType
  BY HeadFacts
<1>2. \A i \in RobIds : Age(rob, i) \in Nat
  BY <1>1, AgeFacts
<1> SUFFICES ASSUME NEW k \in Src PROVE rob.entries[h].inst.src_ready[k]
  BY DEF rob_check_inputs_ready
<1>3. PendingWriters(h, k) = {}
  BY <1>1, <1>2 DEF PendingWriters, ValidIds
<1>4. Pending(h, k) = {}
  BY <1>3 DEF Pending
<1>5. WaitsRight(h, k)
  BY <1>1 DEF OperandInv, Trusted
<1> QED  BY <1>4, <1>5 DEF WaitsRight, Entry

\* So whatever the policy it is what the scheduler takes first.
LEMMA HeadScheduled ==
    ASSUME TypeInv, Window(rob), OperandInv, OobReg \notin Dests,
           HeadThere, ~ Entry(rob.head_ptr).exec
    PROVE  Schedulable = {rob.head_ptr}
<1> DEFINE h == rob.head_ptr
<1>1. h \in RobIds /\ Age(rob, h) = 0 /\ rob \in ROBType
  BY HeadFacts
<1>2. \A i \in RobIds : Age(rob, i) \in Nat /\ (Age(rob, i) = 0 => i = h)
  BY <1>1, AgeFacts
<1>3. h \in Waiting /\ h \in ReadyToExec /\ ReadyToExec \subseteq RobIds /\ Waiting \subseteq RobIds
  BY <1>1, HeadReady DEF Waiting, ReadyToExec, HeadThere, Entry
<1> HIDE DEF h
<1>4. ASSUME NEW S, S \subseteq RobIds, h \in S PROVE Oldest(S) = {h}
  <2>1. h \in Oldest(S)
    BY <1>1, <1>2, <1>4 DEF Oldest, h
  <2>2. ASSUME NEW i \in Oldest(S) PROVE i = h
    BY <1>1, <1>2, <1>4, <2>2 DEF Oldest, h
  <2> QED  BY <2>1, <2>2
<1>5. Oldest(Waiting) = {h} /\ Oldest(ReadyToExec) = {h}
  BY <1>3, <1>4
<1> QED  BY <1>3, <1>5 DEF Schedulable, h

\* A scheduled instruction is marked in its own entry and copied to the lane.
LEMMA ScheduleExecs ==
    ASSUME TypeInv, FlightInv, ScheduleInst
    PROVE  \E i \in Schedulable :
               /\ i \in ValidIds /\ ~ Entry(i).exec
               /\ SC_latch' = [SC_latch EXCEPT ![lane] = Full(Entry(i).inst)]
               /\ rob'.head_ptr = rob.head_ptr
               /\ \A j \in RobIds : /\ Entry(j)'.valid = Entry(j).valid
                                    /\ Entry(j)'.ready = Entry(j).ready
                                    /\ Entry(j)'.inst = Entry(j).inst
                                    /\ Entry(j)'.exec = (Entry(j).exec \/ j = i)
<1>1. PICK i \in Schedulable :
          /\ rob' = rob_mark_exec(rob, rob.entries[i].inst)
          /\ SC_latch' = [SC_latch EXCEPT ![lane] = Full(rob.entries[i].inst)]
  BY DEF ScheduleInst
<1>2. i \in ValidIds /\ i \in RobIds /\ rob \in ROBType /\ ~ Entry(i).exec
  BY DEF Schedulable, Oldest, ReadyToExec, Waiting, ValidIds, Entry, TypeInv, TypeOK
<1>3. rob' = SetExec(rob, i)
  BY <1>1, <1>2, FindsTheEntry DEF rob_mark_exec, NumAt, Num, Entry
<1>4. /\ rob'.head_ptr = rob.head_ptr
      /\ \A j \in RobIds : /\ Entry(j)'.valid = Entry(j).valid
                           /\ Entry(j)'.ready = Entry(j).ready
                           /\ Entry(j)'.inst = Entry(j).inst
  BY ScheduleRob
<1>5. ASSUME NEW j \in RobIds PROVE Entry(j)'.exec = (Entry(j).exec \/ j = i)
  <2>1. rob.entries[j].exec \in BOOLEAN
    BY <1>2 DEF ROBType, ROBEntry
  <2>2. j = i => rob'.entries[j].exec = TRUE
    BY <1>2, <1>3 DEF SetExec, ROBType, ROBEntry
  <2>3. j # i => rob'.entries[j] = rob.entries[j]
    BY <1>2, <1>3 DEF SetExec, ROBType
  <2> QED  BY <2>1, <2>2, <2>3 DEF Entry
<1>6. SC_latch' = [SC_latch EXCEPT ![lane] = Full(Entry(i).inst)]
  BY <1>1 DEF Entry
<1> QED  BY <1>2, <1>4, <1>5, <1>6

\* BackInv, part by part.
LEMMA BackQueue ==
    ASSUME TypeInv, BackInv, [Next]_vars
    PROVE  LOAD_EXE_CYCLES = 1 => HasNone(exeq')
<1> SUFFICES ASSUME LOAD_EXE_CYCLES = 1 PROVE HasNone(exeq')
  OBVIOUS
<1>1. HasNone(exeq) /\ exeq \in EXEQType
  BY DEF BackInv, TypeInv, TypeOK
<1>2. CASE exeq' = exeq
  BY <1>1, <1>2
<1>3. CASE ExeqCycle
  <2>1. DOMAIN exeq = ExeqSlots /\ DOMAIN exeq' = ExeqSlots
    BY <1>1, <1>3 DEF ExeqCycle, exeq_cycle, EXEQType
  <2>2. \A s \in ExeqSlots : ~ exeq[s].valid => exeq'[s] = exeq[s]
    BY <1>3 DEF ExeqCycle, exeq_cycle
  <2> QED  BY <1>1, <2>1, <2>2 DEF HasNone
<1>4. CASE ExeTransfer
  BY <1>1, <1>4 DEF ExeTransfer, exeq_check_done, DoneSlots, HasNone, EXEQType
<1> QED
  BY <1>2, <1>3, <1>4, ExeqElsewhere DEF Next, vars, Step, Over, Exe, ExeEmpty, ExeCopy,
                                         ExeInsert, ExeFull, ExeNoneLeft

\* The search is cut off within one call of schedule only.
LEMMA BackSearch ==
    ASSUME TypeInv, BackInv, [Next]_vars
    PROVE  (stage' = "schedule" /\ lane' > 0) \/ continueScheduling'
<1>1. CASE UNCHANGED vars
  BY <1>1 DEF vars, BackInv
<1>2. CASE Schedule
  <2>1. stage = "schedule" /\ lane \in Nat
    BY <1>2 DEF Schedule, ScheduleInst, ScheduleNothing, ScheduleOccupied, ScheduleReturn,
                TypeInv, TypeOK
  <2>2. \/ stage' = stage /\ lane' = lane + 1
        \/ continueScheduling' = TRUE
    BY <1>2 DEF Schedule, ScheduleInst, ScheduleNothing, ScheduleOccupied, ScheduleReturn,
                ScheduleNext, ScheduleEnds, Goto
  <2> QED  BY <2>1, <2>2
<1>3. CASE ~ Schedule /\ ~ UNCHANGED vars
  <2>1. continueScheduling' = continueScheduling /\ stage # "schedule"
    BY <1>3 DEF Next, Step, Over, Commit, CommitInst, CommitNothing, Writeback, WritebackLane,
                Exe, ExeEmpty, ExeCopy, ExeInsert, ExeFull, ExeqCycle, ExeTransfer, ExeNoneLeft,
                exeFrame, IssueStage, IssueCompare, IssueNextPass, Issue, IssueNothing,
                IssueCrash, sortFrame, issueFrame, DecodeStage, Decode, DecodeNothing,
                decodeFrame, FetchStage, FetchInst, FetchEnd, FetchOccupied, fetchFrame,
                schedVars
  <2> QED  BY <2>1 DEF BackInv
<1> QED  BY <1>1, <1>2, <1>3

\* Execute empties the SC latches from the first.
LEMMA ScFreeExe ==
    ASSUME TypeInv, ScFree, ExeEmpty \/ ExeCopy \/ ExeInsert
    PROVE  ScFree'
<1>1. /\ stage = "exe" /\ lane \in Lanes /\ lane \in Nat /\ SC_latch \in [Lanes -> Latch]
      /\ PIPE_WIDTH \in Nat
  BY PipelineAssumption DEF ExeEmpty, ExeCopy, ExeInsert, TypeInv, TypeOK, LaneInRange
<1>2. \/ stage' = "exe" /\ lane' = lane + 1
      \/ stage' \in {"exeq_cycle", "schedule"} /\ lane' = 0 /\ ~ (lane + 1 < PIPE_WIDTH)
  BY <1>1 DEF ExeEmpty, ExeCopy, ExeInsert, ExeDone, Advance, Goto
<1>3. /\ DOMAIN SC_latch' = Lanes /\ ~ SC_latch'[lane].valid
      /\ \A l \in Lanes : l # lane => SC_latch'[l] = SC_latch[l]
  BY <1>1 DEF ExeEmpty, ExeCopy, ExeInsert, Latch
<1>4. \A l \in Lanes : l \in Nat /\ l < PIPE_WIDTH
  BY <1>1 DEF Lanes
<1>5. \A l \in Lanes : l < lane + 1 => ~ SC_latch'[l].valid
  BY <1>1, <1>3, <1>4 DEF ScFree
<1>6. CASE stage' = "exe" /\ lane' = lane + 1
  BY <1>5, <1>6 DEF ScFree
<1>7. CASE stage' \in {"exeq_cycle", "schedule"} /\ lane' = 0 /\ ~ (lane + 1 < PIPE_WIDTH)
  <2>1. \A l \in Lanes : ~ SC_latch'[l].valid
    BY <1>1, <1>4, <1>5, <1>7
  <2> QED  BY <1>3, <1>7, <2>1 DEF ScFree, HasNone
<1> QED  BY <1>2, <1>6, <1>7

\* Schedule fills the lane it is at and goes on to the next.
LEMMA ScFreeSchedule ==
    ASSUME TypeInv, ScFree, Schedule
    PROVE  ScFree'
<1>1. /\ stage = "schedule" /\ lane \in Lanes /\ lane \in Nat /\ SC_latch \in [Lanes -> Latch]
  BY DEF Schedule, ScheduleInst, ScheduleNothing, ScheduleOccupied, ScheduleReturn, TypeInv,
         TypeOK, LaneInRange
<1>2. \A l \in Lanes : l # lane => SC_latch'[l] = SC_latch[l]
  BY <1>1 DEF Schedule, ScheduleInst, ScheduleNothing, ScheduleOccupied, ScheduleReturn
<1>3. (stage' = "schedule" /\ lane' = lane + 1) \/ stage' = "sort"
  BY <1>1 DEF Schedule, ScheduleInst, ScheduleNothing, ScheduleOccupied, ScheduleReturn,
              ScheduleNext, ScheduleEnds, Goto
<1>4. \A l \in Lanes : l \in Nat
  BY DEF Lanes
<1> QED  BY <1>1, <1>2, <1>3, <1>4 DEF ScFree

\* The first lane is free and the head is what it takes, if it is not executing.
LEMMA HeadTakenSchedule ==
    ASSUME TypeInv, Window(rob), FlightInv, OperandInv, OobReg \notin Dests, BackInv,
           ~ halt, Schedule
    PROVE  HeadThere' => Entry(rob.head_ptr)'.exec
<1> SUFFICES ASSUME NEW h \in RobIds, h = rob.head_ptr
             PROVE  HeadThere' => Entry(rob.head_ptr)'.exec
  BY HeadFacts
<1>1. /\ stage = "schedule" /\ lane \in Lanes /\ lane \in Nat /\ h \in RobIds
  BY HeadFacts DEF Schedule, ScheduleInst, ScheduleNothing, ScheduleOccupied, ScheduleReturn,
                   TypeInv, TypeOK, LaneInRange
<1>2. lane = 0 => ~ SC_latch[lane].valid /\ continueScheduling
  BY <1>1 DEF BackInv, ScFree
<1>3. lane # 0 => (HeadThere => Entry(h).exec)
  BY <1>1 DEF BackInv, HeadTaken
<1>4. HeadThere /\ ~ Entry(h).exec => Schedulable = {h}
  BY HeadScheduled
<1>5. CASE ScheduleInst
  <2>1. PICK i \in Schedulable :
             /\ rob'.head_ptr = rob.head_ptr
             /\ \A j \in RobIds : /\ Entry(j)'.valid = Entry(j).valid
                                  /\ Entry(j)'.exec = (Entry(j).exec \/ j = i)
    BY <1>5, ScheduleExecs
  <2>2. /\ Entry(rob.head_ptr)' = Entry(h)' /\ HeadThere' = Entry(h)'.valid
        /\ HeadThere = Entry(h).valid
    BY <2>1 DEF HeadThere
  <2>3. CASE HeadThere /\ ~ Entry(h).exec
    <3>1. i = h
      BY <1>4, <2>1, <2>3
    <3> QED  BY <1>1, <2>1, <2>2, <3>1
  <2>4. CASE ~ HeadThere
    BY <1>1, <2>1, <2>2, <2>4
  <2>5. CASE Entry(h).exec
    BY <1>1, <2>1, <2>2, <2>5
  <2> QED  BY <2>3, <2>4, <2>5
<1>6. CASE ~ ScheduleInst
  <2>1. rob' = rob
    BY <1>6 DEF Schedule, ScheduleNothing, ScheduleOccupied, ScheduleReturn
  <2>2. HeadThere => Entry(h).exec
    <3>1. lane = 0 => Schedulable = {}
      BY <1>2, <1>6 DEF Schedule, ScheduleNothing, ScheduleOccupied, ScheduleReturn
    <3> QED  BY <1>3, <1>4, <3>1
  <2> QED  BY <2>1, <2>2 DEF HeadThere, Entry
<1> QED  BY <1>5, <1>6

\* So until the queue overflows, the scheduler has room for the head in every cycle.
LEMMA StepBack ==
    ASSUME TypeInv, Window(rob), FlightInv, OperandInv, OobReg \notin Dests, BackInv, [Next]_vars
    PROVE  BackInv'
<1>1. /\ LOAD_EXE_CYCLES = 1 => HasNone(exeq')
      /\ (stage' = "schedule" /\ lane' > 0) \/ continueScheduling'
  BY BackQueue, BackSearch
<1>2. ASSUME ~ halt' PROVE ScFree' /\ HeadTaken'
  <2>1. ~ halt
    BY <1>2 DEF Next, vars, Step, Over, Commit, CommitInst, CommitNothing, Writeback,
                WritebackLane, Exe, ExeEmpty, ExeCopy, ExeInsert, ExeFull, ExeqCycle,
                ExeTransfer, ExeNoneLeft, exeFrame, Schedule, ScheduleInst, ScheduleNothing,
                ScheduleOccupied, ScheduleReturn, schedFrame, IssueStage, IssueCompare,
                IssueNextPass, Issue, IssueNothing, IssueCrash, sortFrame, issueFrame,
                DecodeStage, Decode, DecodeNothing, decodeFrame, FetchStage, FetchInst,
                FetchEnd, FetchOccupied, fetchFrame, haltVars
  <2>2. ScFree /\ HeadTaken
    BY <2>1 DEF BackInv
  <2>3. CASE UNCHANGED vars
    BY <2>2, <2>3 DEF vars, ScFree, HeadTaken, HasNone, HeadThere, Entry
  <2>4. CASE Schedule
    <3>1. ScFree'
      BY <2>2, <2>4, ScFreeSchedule
    <3>2. HeadThere' => Entry(rob.head_ptr)'.exec
      BY <2>1, <2>4, HeadTakenSchedule
    <3> QED  BY <3>1, <3>2 DEF HeadTaken
  <2>5. CASE ExeEmpty \/ ExeCopy \/ ExeInsert
    <3>1. ScFree'
      BY <2>2, <2>5, ScFreeExe
    <3>2. stage' \in {"exe", "exeq_cycle"} \/ (stage' = "schedule" /\ lane' = 0)
      BY <2>5 DEF ExeEmpty, ExeCopy, ExeInsert, ExeDone, Advance, Goto
    <3> QED  BY <3>1, <3>2 DEF HeadTaken
  <2>6. CASE ExeFull
    BY <1>2, <2>6 DEF ExeFull
  <2>7. CASE ExeqCycle \/ ExeTransfer \/ ExeNoneLeft
    <3>1. /\ SC_latch' = SC_latch /\ HasNone(SC_latch) /\ DOMAIN SC_latch = Lanes
          /\ stage' = "exe_done" \/ (stage' = "schedule" /\ lane' = 0)
      BY <2>2, <2>7 DEF ExeqCycle, ExeTransfer, ExeNoneLeft, TransferNext, Advance, Goto,
                        ScFree, TypeInv, TypeOK
    <3> QED  BY <3>1 DEF ScFree, HeadTaken, HasNone
  <2>8. CASE Commit \/ Writeback
    <3>1. stage' \in {"commit", "writeback"} \/ (stage' = "exe" /\ lane' = 0)
      BY <2>8 DEF Commit, CommitInst, CommitNothing, CommitDone, Writeback, WritebackLane,
                  Advance, Goto
    <3>2. \A l \in Lanes : ~ l < 0
      BY DEF Lanes
    <3> QED  BY <3>1, <3>2 DEF ScFree, HeadTaken
  <2>9. CASE IssueStage
    <3>1. stage' \in {"sort", "issue", "decode", "crashed"}
      BY <2>9 DEF IssueStage, IssueCompare, IssueNextPass, Issue, IssueNothing, IssueCrash,
                  IssueDone, Advance, Goto
    <3> QED  BY <3>1 DEF ScFree, HeadTaken
  <2>10. CASE DecodeStage \/ FetchStage
    <3>1. stage' \in {"decode", "fetch", "halted", "commit"}
      BY <2>10 DEF DecodeStage, Decode, DecodeNothing, DecodeDone, FetchStage, FetchInst,
                   FetchEnd, FetchOccupied, FetchDone, Advance, Goto
    <3> QED  BY <3>1 DEF ScFree, HeadTaken
  <2> QED
    BY <2>3, <2>4, <2>5, <2>6, <2>7, <2>8, <2>9, <2>10 DEF Next, Step, Over, Exe
<1> QED  BY <1>1, <1>2 DEF BackInv, ScFree, HeadTaken, HasNone

-----------------------------------------------------------------------------
(* A step keeps what is due. *)

\* Within a cycle a date is kept until it is due.
LEMMA ByKept ==
    ASSUME stat_num_cycle \in Nat, stat_num_cycle' = stat_num_cycle, NEW S, NEW k \in Int,
           By(S, k), stage \notin S \/ stage' \in S
    PROVE  By(S, k)'
BY HeartbeatAssumption DEF By, Budget

\* Only a commit moves the head, and no step takes back that it is executing.
LEMMA HeadKept ==
    ASSUME TypeInv, FlightInv, Step, ~ CommitInst, ~ Issue
    PROVE  /\ rob'.head_ptr = rob.head_ptr
           /\ \A j \in RobIds : /\ Entry(j)'.valid = Entry(j).valid
                                /\ Num(j)' = Num(j)
                                /\ ~ WritebackLane => Entry(j)'.ready = Entry(j).ready
                                /\ Entry(j).exec => Entry(j)'.exec
<1>1. CASE UNCHANGED rob
  BY <1>1 DEF Entry, Num
<1>2. CASE WritebackLane
  <2>1. /\ rob'.head_ptr = rob.head_ptr
        /\ \A j \in RobIds : /\ Entry(j)'.valid = Entry(j).valid
                             /\ Num(j)' = Num(j)
    BY <1>2, WritebackRob DEF SameInst, Num
  <2>2. Woken \in ROBType /\ \A j \in RobIds : Woken.entries[j].exec = rob.entries[j].exec
    BY WokenFlags DEF Flags
  <2>3. rob' = Woken \/ \E i : rob' = SetReady(Woken, i)
    BY <1>2 DEF WritebackLane, rob_mark_ready
  <2>4. ASSUME NEW i, NEW j \in RobIds
        PROVE  SetReady(Woken, i).entries[j].exec = Woken.entries[j].exec
    BY <2>2 DEF SetReady, ROBType, ROBEntry
  <2>5. \A j \in RobIds : Entry(j)'.exec = Entry(j).exec
    BY <2>2, <2>3, <2>4 DEF Entry
  <2> QED  BY <1>2, <2>1, <2>5
<1>3. CASE ScheduleInst
  <2>1. PICK i \in Schedulable :
               /\ rob'.head_ptr = rob.head_ptr
               /\ \A j \in RobIds : /\ Entry(j)'.valid = Entry(j).valid
                                    /\ Entry(j)'.ready = Entry(j).ready
                                    /\ Entry(j)'.inst = Entry(j).inst
                                    /\ Entry(j)'.exec = (Entry(j).exec \/ j = i)
    BY <1>3, ScheduleExecs
  <2>2. \A j \in RobIds : Num(j)' = Num(j)
    BY <2>1 DEF Num
  <2> QED  BY <2>1, <2>2
<1>4. CASE ~ WritebackLane /\ ~ ScheduleInst
  <2>1. rob' = rob
    BY <1>4 DEF Step, Commit, CommitNothing, Writeback, Exe, ExeEmpty, ExeCopy, ExeInsert,
                ExeFull, ExeqCycle, ExeTransfer, ExeNoneLeft, exeFrame, Schedule,
                ScheduleNothing, ScheduleOccupied, ScheduleReturn, IssueStage, IssueCompare,
                IssueNextPass, IssueNothing, IssueCrash, sortFrame, DecodeStage, Decode,
                DecodeNothing, decodeFrame, FetchStage, FetchInst, FetchEnd, FetchOccupied,
                fetchFrame
  <2> QED  BY <1>1, <2>1
<1> QED  BY <1>2, <1>3, <1>4

\* The head is newly ready only when it is what is written back.
LEMMA ReadyStep ==
    ASSUME TypeInv, FlightInv, ExecInv, Step, ~ CommitInst, ~ Issue, stat_num_cycle \in Nat,
           stat_num_cycle' = stat_num_cycle, ~ CycleEnds,
           NEW h \in RobIds, h = rob.head_ptr, Entry(h).valid, HeadIsSoon(h, Num(h))
    PROVE  ReadySoon(h)'
<1>1. CASE WritebackLane
  <2>1. stage = "writeback" /\ stage' # "commit" /\ lane \in ExLanes
    BY <1>1 DEF WritebackLane, Advance, Goto, TypeInv, LaneInRange
  <2>2. CASE Entry(h).ready
    <3>1. By({"commit"}, 0)'
      BY <2>1, <2>2, ByKept DEF HeadIsSoon, ReadySoon
    <3> QED  BY <3>1 DEF ReadySoon
  <2>3. CASE ~ Entry(h).ready /\ Entry(h)'.ready
    <3>1. WrittenBack = h /\ NumAt(EX_latch, lane) = Num(h)
      <4>1. Entry(h)'.ready = (Entry(h).ready \/ h = WrittenBack)
        BY <1>1, WritebackRob
      <4>2. WrittenBack = h
        BY <2>3, <4>1
      <4>3. h # -1
        BY RobAssumption
      <4> QED  BY <1>1, <4>2, <4>3, WritebackRob
    <3>2. EX_latch[lane].valid
      BY <2>1, <2>3, <3>1 DEF ExecInv, ValidIds
    <3>3. By(UpToWriteback, 1)
      BY <2>1, <3>1, <3>2 DEF HeadIsSoon, ExSoon
    <3>4. By({"commit"}, 0)'
      BY <2>1, <3>3 DEF By, Budget, UpToWriteback
    <3> QED  BY <3>4 DEF ReadySoon
  <2> QED  BY <2>2, <2>3 DEF ReadySoon
<1>2. CASE ~ WritebackLane
  <2>1. Entry(h)'.ready = Entry(h).ready
    BY <1>2, HeadKept
  <2>2. Entry(h).ready => stage # "commit"
    BY <1>2 DEF rob_check_head, rob_check_ready, Entry, Step, Commit, CommitNothing, Writeback,
                Exe, ExeEmpty, ExeCopy, ExeInsert, ExeFull, ExeqCycle, ExeTransfer, ExeNoneLeft,
                Schedule, ScheduleInst, ScheduleNothing, ScheduleOccupied, ScheduleReturn,
                IssueStage, IssueCompare, IssueNextPass, IssueNothing, IssueCrash, DecodeStage,
                Decode, DecodeNothing, FetchStage, FetchInst, FetchEnd, FetchOccupied
  <2>3. Entry(h).ready => By({"commit"}, 0)'
    BY <2>2, ByKept DEF HeadIsSoon, ReadySoon
  <2> QED  BY <2>1, <2>3 DEF ReadySoon
<1> QED  BY <1>1, <1>2

\* The EX latches: filled by execute, emptied by writeback.
LEMMA ExStep ==
    ASSUME TypeInv, ExEmptyInv', ExeqInv, Step, ~ CommitInst, stat_num_cycle \in Nat,
           stat_num_cycle' = stat_num_cycle,
           NEW h, NEW n, HeadIsSoon(h, n)
    PROVE  ExSoon(n)'
<1>0. EX_latch \in [ExLanes -> Latch] /\ exeq \in EXEQType /\ SC_latch \in [Lanes -> Latch]
  BY DEF TypeInv, TypeOK
<1> SUFFICES ASSUME NEW l \in ExLanes, EX_latch'[l].valid, NumAt(EX_latch', l) = n
             PROVE  By(UpToWriteback, 1)'
  BY DEF ExSoon, NumAt
<1>1. CASE ExeCopy
  <2>1. stage = "exe" /\ stage' \notin UpToWriteback /\ lane \in Lanes /\ LOAD_EXE_CYCLES = 1
    BY <1>1 DEF ExeCopy, ExeDone, Advance, Goto, TypeInv, LaneInRange, UpToWriteback
  <2>2. CASE l = lane
    <3>1. SC_latch[lane].valid /\ NumAt(SC_latch, lane) = n
      BY <1>0, <1>1, <2>2 DEF ExeCopy, NumAt
    <3>2. By(UpToExe, 1 + 1)
      BY <2>1, <3>1 DEF HeadIsSoon, ScSoon
    <3> QED  BY <2>1, <3>2 DEF By, Budget, UpToExe, UpToWriteback
  <2>3. CASE l # lane
    <3>1. EX_latch[l].valid /\ NumAt(EX_latch, l) = n
      BY <1>0, <1>1, <2>3 DEF ExeCopy, NumAt
    <3>2. By(UpToWriteback, 1) /\ stage \notin UpToWriteback
      BY <2>1, <3>1 DEF HeadIsSoon, ExSoon, UpToWriteback
    <3> QED  BY <3>2, ByKept
  <2> QED  BY <2>2, <2>3
<1>2. CASE ExeTransfer
  <2>1. stage = "exe_done" /\ stage' \notin UpToWriteback /\ DoneSlots(exeq) # {}
    BY <1>2 DEF ExeTransfer, TransferNext, Advance, Goto, UpToWriteback, exeq_check_done
  <2> DEFINE s == FirstSlot(DoneSlots(exeq))
  <2>2. s \in DoneSlots(exeq)
    <3>1. DoneSlots(exeq) \in SUBSET Nat
      BY ExeqAssumption DEF DoneSlots, ExeqSlots
    <3> QED  BY <2>1, <3>1, FirstSlotInSet
  <2> HIDE DEF s
  <2>3. CASE l = lane
    <3>1. /\ s \in ExeqSlots /\ exeq[s].valid /\ exeq[s].inst.exe_wait_cycles = 0
          /\ NumAt(exeq, s) = n
      BY <1>0, <1>2, <2>2, <2>3 DEF ExeTransfer, DoneSlots, DoneInst, Full, NumAt, s
    <3>2. By(UpToCycle, 0 + 1)
      BY <3>1 DEF HeadIsSoon, ExeqSoon
    <3> QED  BY <2>1, <3>2 DEF By, Budget, UpToExe, UpToCycle, UpToWriteback
  <2>4. CASE l # lane
    <3>1. EX_latch[l].valid /\ NumAt(EX_latch, l) = n
      BY <1>0, <1>2, <2>4 DEF ExeTransfer, NumAt
    <3>2. By(UpToWriteback, 1) /\ stage \notin UpToWriteback
      BY <2>1, <3>1 DEF HeadIsSoon, ExSoon, UpToWriteback
    <3> QED  BY <3>2, ByKept
  <2> QED  BY <2>3, <2>4
<1>3. CASE WritebackLane
  <2>1. stage = "writeback" /\ stage' \in {"writeback", "exe"}
    BY <1>3 DEF WritebackLane, Advance, Goto
  <2>2. stage' # "exe"
    <3> SUFFICES ASSUME stage' = "exe" PROVE FALSE
      OBVIOUS
    <3>1. lane' = 0 /\ l \in Nat
      BY <1>3, <2>1 DEF WritebackLane, Advance, Goto, ExLanes
    <3>2. l \in EmptyFrom'
      BY <3>1 DEF EmptyFrom
    <3> QED  BY <3>2 DEF ExEmptyInv
  <2>3. EX_latch[l].valid /\ NumAt(EX_latch, l) = n
    BY <1>0, <1>3 DEF WritebackLane, NumAt, Latch
  <2>4. By(UpToWriteback, 1)
    BY <2>3 DEF HeadIsSoon, ExSoon
  <2> QED  BY <2>1, <2>2, <2>4, ByKept DEF UpToWriteback
<1>4. CASE EX_latch' = EX_latch /\ (stage \notin UpToWriteback \/ stage' \in UpToWriteback)
  <2>1. By(UpToWriteback, 1)
    BY <1>4 DEF HeadIsSoon, ExSoon, NumAt
  <2> QED  BY <1>4, <2>1, ByKept
<1>5. ~ ExeCopy /\ ~ ExeTransfer /\ ~ WritebackLane =>
          EX_latch' = EX_latch /\ (stage \notin UpToWriteback \/ stage' \in UpToWriteback)
  BY DEF UpToWriteback, Step, Commit, CommitNothing, CommitDone, Writeback, Exe, ExeEmpty,
         ExeInsert, ExeFull, Advance, Goto, ExeqCycle, ExeNoneLeft, Schedule, ScheduleInst,
         ScheduleNothing, ScheduleOccupied, ScheduleReturn, schedFrame, IssueStage,
         IssueCompare, IssueNextPass, Issue, IssueNothing, IssueCrash, sortFrame, issueFrame,
         DecodeStage, Decode, DecodeNothing, decodeFrame, FetchStage, FetchInst, FetchEnd,
         FetchOccupied, fetchFrame
<1> QED  BY <1>1, <1>2, <1>3, <1>4, <1>5

\* The execution queue: a slot's date comes nearer as its count goes down.
LEMMA ExeqStep ==
    ASSUME TypeInv, ExeqInv, BackInv, Step, ~ CommitInst, ~ halt', stat_num_cycle \in Nat,
           stat_num_cycle' = stat_num_cycle,
           NEW h, NEW n, HeadIsSoon(h, n)
    PROVE  ExeqSoon(n)'
<1>0. exeq \in EXEQType /\ SC_latch \in [Lanes -> Latch] /\ LOAD_EXE_CYCLES \in Nat
  BY ExeqAssumption DEF TypeInv, TypeOK
<1> SUFFICES ASSUME NEW s \in ExeqSlots, exeq'[s].valid, NumAt(exeq', s) = n,
                    NEW k, k = exeq'[s].inst.exe_wait_cycles + 1
             PROVE  By(UpToCycle, k)'
  BY DEF ExeqSoon, NumAt
<1>1. exeq[s].valid => exeq[s].inst.exe_wait_cycles \in Nat
  BY DEF ExeqInv, ExeqDrainsInTime
<1>2. exeq[s].valid /\ NumAt(exeq, s) = n => By(UpToCycle, exeq[s].inst.exe_wait_cycles + 1)
  BY DEF HeadIsSoon, ExeqSoon
<1>3. ASSUME exeq'[s] = exeq[s], stage \notin UpToCycle \/ stage' \in UpToCycle
      PROVE  By(UpToCycle, k)'
  <2>1. By(UpToCycle, k) /\ k \in Int
    BY <1>1, <1>2, <1>3 DEF NumAt
  <2> QED  BY <1>3, <2>1, ByKept
<1>4. CASE ExeInsert
  <2>1. /\ stage = "exe" /\ stage' \in UpToCycle /\ lane \in Lanes /\ FreeSlots(exeq) # {}
        /\ SC_latch[lane].valid /\ SC_latch[lane].inst \in InstInfo
    BY <1>0, <1>4 DEF ExeInsert, ExeDone, Advance, Goto, TypeInv, LaneInRange, UpToCycle,
                      UpToExe, UpToWriteback, exeq_full, Latch
  <2> DEFINE free == FirstSlot(FreeSlots(exeq))
             inst == SC_latch[lane].inst
             wait == IF inst.op_type = "OP_LD" THEN LOAD_EXE_CYCLES ELSE 1
  <2>2. exeq'[s] = IF s = free
                   THEN [valid |-> TRUE, inst |-> [inst EXCEPT !.exe_wait_cycles = wait]]
                   ELSE exeq[s]
    BY <1>0, <1>4 DEF ExeInsert, exeq_insert, EXEQType
  <2>3. wait \in Nat /\ wait <= LOAD_EXE_CYCLES
    BY <1>0, ExeqAssumption
  <2>4. CASE s = free
    <3>1. exeq'[s].inst.exe_wait_cycles = wait /\ NumAt(SC_latch, lane) = n
      BY <2>1, <2>2, <2>4 DEF NumAt, InstInfo
    <3>2. By(UpToExe, LOAD_EXE_CYCLES + 1)
      BY <2>1, <3>1 DEF HeadIsSoon, ScSoon
    <3> HIDE DEF wait
    <3>3. Budget(wait + 1)
      BY <1>0, <2>1, <2>3, <3>2, HeartbeatAssumption DEF By, Budget, UpToExe, UpToWriteback
    <3> QED  BY <2>1, <3>1, <3>3 DEF By, Budget
  <2>5. CASE s # free
    BY <1>3, <2>1, <2>2, <2>5
  <2> QED  BY <2>4, <2>5
<1>5. CASE ExeqCycle
  <2>1. /\ stage = "exeq_cycle" /\ stage' = "exe_done" /\ exeq[s].valid /\ NumAt(exeq, s) = n
        /\ exeq'[s].inst.exe_wait_cycles = exeq[s].inst.exe_wait_cycles - 1
    BY <1>0, <1>5 DEF ExeqCycle, exeq_cycle, Goto, NumAt, EXEQType, InstInfo
  <2>2. Budget(exeq[s].inst.exe_wait_cycles + 1)
    BY <1>2, <2>1 DEF By, UpToCycle
  <2> QED  BY <1>1, <2>1, <2>2, HeartbeatAssumption DEF By, Budget, UpToCycle, UpToExe,
                                                        UpToWriteback
<1>6. CASE ExeTransfer
  <2>1. stage \notin UpToCycle
    BY <1>6 DEF ExeTransfer, UpToCycle, UpToExe, UpToWriteback
  <2>2. exeq'[s] = exeq[s]
    BY <1>0, <1>6 DEF ExeTransfer, exeq_remove, EXEQType
  <2> QED  BY <1>3, <2>1, <2>2
<1>7. CASE ExeCopy \/ ExeEmpty
  <2>1. /\ exeq' = exeq /\ stage = "exe"
        /\ stage' \in {"exe", IF LOAD_EXE_CYCLES = 1 THEN "schedule" ELSE "exeq_cycle"}
    BY <1>7 DEF ExeCopy, ExeEmpty, ExeDone, Advance, Goto
  <2>2. LOAD_EXE_CYCLES # 1
    BY <1>0, <2>1 DEF BackInv, HasNone, EXEQType
  <2>3. stage' \in UpToCycle
    BY <2>1, <2>2 DEF UpToCycle, UpToExe, UpToWriteback
  <2> QED  BY <1>3, <2>1, <2>3
<1>8. ~ ExeFull
  BY DEF ExeFull
<1>9. ~ ExeInsert /\ ~ ExeqCycle /\ ~ ExeTransfer /\ ~ (ExeCopy \/ ExeEmpty) =>
          exeq' = exeq /\ (stage \notin UpToCycle \/ stage' \in UpToCycle)
  BY <1>8 DEF UpToCycle, UpToExe, UpToWriteback, Step, Commit, CommitNothing, CommitDone,
              Writeback, Exe, WritebackLane, Advance, Goto, ExeNoneLeft, Schedule, ScheduleInst,
              ScheduleNothing, ScheduleOccupied, ScheduleReturn, schedFrame, IssueStage,
              IssueCompare, IssueNextPass, Issue, IssueNothing, IssueCrash, sortFrame,
              issueFrame, DecodeStage, Decode, DecodeNothing, decodeFrame, FetchStage,
              FetchInst, FetchEnd, FetchOccupied, fetchFrame
<1> QED  BY <1>3, <1>4, <1>5, <1>6, <1>7, <1>9

\* The SC latches: filled by schedule, empty when execute is over.
LEMMA ScStep ==
    ASSUME TypeInv, FlightInv, ExecInv, BackInv', Step, ~ CommitInst, ~ halt',
           stat_num_cycle \in Nat,
           stat_num_cycle' = stat_num_cycle,
           NEW h \in ValidIds, HeadIsSoon(h, Num(h))
    PROVE  \A n : n = Num(h) => ScSoon(n)'
<1>0. SC_latch \in [Lanes -> Latch] /\ LOAD_EXE_CYCLES \in Nat /\ stage \in Stages
  BY ExeqAssumption DEF TypeInv, TypeOK
<1> SUFFICES ASSUME NEW n, n = Num(h), NEW l \in Lanes, SC_latch'[l].valid,
                    NumAt(SC_latch', l) = n
             PROVE  By(UpToExe, LOAD_EXE_CYCLES + 1)'
  BY DEF ScSoon, NumAt
<1>1. SC_latch[l].valid /\ NumAt(SC_latch, l) = n => By(UpToExe, LOAD_EXE_CYCLES + 1)
  BY DEF HeadIsSoon, ScSoon
<1>2. ASSUME SC_latch'[l] = SC_latch[l], stage \notin UpToExe \/ stage' \in UpToExe
      PROVE  By(UpToExe, LOAD_EXE_CYCLES + 1)'
  <2>1. By(UpToExe, LOAD_EXE_CYCLES + 1)
    BY <1>1, <1>2 DEF NumAt
  <2>2. LOAD_EXE_CYCLES + 1 \in Int
    BY <1>0
  <2> QED  BY <1>2, <2>1, <2>2, ByKept
<1>3. CASE ScheduleInst
  <2>1. stage = "schedule" /\ stage' \notin UpToExe /\ lane \in Lanes
    BY <1>3 DEF ScheduleInst, ScheduleNext, ScheduleEnds, Goto, TypeInv, LaneInRange, UpToExe,
                UpToWriteback
  <2>2. PICK i \in ValidIds : /\ ~ Entry(i).exec
                              /\ SC_latch' = [SC_latch EXCEPT ![lane] = Full(Entry(i).inst)]
    BY <1>3, ScheduleExecs
  <2>3. CASE l = lane
    <3>1. Num(i) = Num(h)
      BY <1>0, <2>2, <2>3 DEF Full, NumAt, Num
    <3>2. i = h
      BY <2>2, <3>1, ValidUnique
    <3>3. By(UpToSchedule, LOAD_EXE_CYCLES + 2)
      BY <2>2, <3>2 DEF HeadIsSoon, ExecSoon
    <3> QED
      BY <1>0, <2>1, <3>3, HeartbeatAssumption DEF By, Budget, UpToSchedule, UpToExe,
                                                   UpToWriteback
  <2>4. CASE l # lane
    <3>1. SC_latch'[l] = SC_latch[l] /\ stage \notin UpToExe
      BY <2>1, <2>2, <2>4 DEF UpToExe, UpToWriteback
    <3> QED  BY <1>2, <3>1
  <2> QED  BY <2>3, <2>4
<1>4. CASE ExeEmpty \/ ExeCopy \/ ExeInsert
  <2>1. /\ stage = "exe" /\ lane \in Lanes /\ SC_latch'[l] = SC_latch[l]
        /\ stage' \in {"exe", "exeq_cycle"} \/ (stage' = "schedule" /\ lane' = 0)
    BY <1>0, <1>4 DEF ExeEmpty, ExeCopy, ExeInsert, ExeDone, Advance, Goto, TypeInv,
                      LaneInRange, Latch
  <2>2. stage' = "exe"
    <3>1. stage' # "exeq_cycle"
      <4>1. DOMAIN SC_latch' = Lanes
        BY <1>0, <1>4 DEF ExeEmpty, ExeCopy, ExeInsert
      <4> QED  BY <4>1 DEF BackInv, ScFree, HasNone
    <3>2. l >= 0
      BY DEF Lanes
    <3>3. stage' = "schedule" => ~ (lane' = 0)
      BY <3>2 DEF BackInv, ScFree
    <3> QED  BY <2>1, <3>1, <3>3
  <2> QED  BY <1>2, <2>1, <2>2 DEF UpToExe
<1>5. ~ ExeFull
  BY DEF ExeFull
<1>6. ~ ScheduleInst /\ ~ (ExeEmpty \/ ExeCopy \/ ExeInsert) =>
          SC_latch' = SC_latch /\ (stage \notin UpToExe \/ stage' \in UpToExe)
  BY <1>5 DEF UpToExe, UpToWriteback, Step, Commit, CommitNothing, CommitDone, Writeback, Exe,
              WritebackLane, Advance, Goto, schedVars, ExeqCycle, ExeTransfer, ExeNoneLeft,
              Schedule, ScheduleNothing, ScheduleOccupied, ScheduleReturn, schedFrame,
              IssueStage, IssueCompare, IssueNextPass, Issue, IssueNothing, IssueCrash,
              sortFrame, issueFrame, DecodeStage, Decode, DecodeNothing, decodeFrame,
              FetchStage, FetchInst, FetchEnd, FetchOccupied, fetchFrame
<1> QED  BY <1>2, <1>3, <1>4, <1>6

\* A head that waits is scheduled in this cycle.
LEMMA ExecStep ==
    ASSUME TypeInv, Window(rob), FlightInv, OperandInv, OobReg \notin Dests, BackInv, Step,
           ~ CommitInst, ~ Issue, ~ halt, stat_num_cycle \in Nat,
           stat_num_cycle' = stat_num_cycle,
           NEW h \in RobIds, h = rob.head_ptr, Entry(h).valid, HeadIsSoon(h, Num(h))
    PROVE  ExecSoon(h)'
<1>0. /\ rob'.head_ptr = rob.head_ptr /\ Entry(h)'.valid = Entry(h).valid
      /\ Entry(h).exec => Entry(h)'.exec
  BY HeadKept
<1> SUFFICES ASSUME ~ Entry(h)'.exec PROVE By(UpToSchedule, LOAD_EXE_CYCLES + 2)'
  BY DEF ExecSoon
<1>1. ~ Schedule
  <2> SUFFICES ASSUME Schedule PROVE FALSE
    OBVIOUS
  <2>1. HeadThere' => Entry(rob.head_ptr)'.exec
    BY HeadTakenSchedule
  <2>2. HeadThere' /\ Entry(rob.head_ptr)' = Entry(h)'
    BY <1>0 DEF HeadThere, Entry
  <2> QED  BY <2>1, <2>2
<1>2. stage \notin UpToSchedule \/ stage' \in UpToSchedule
  BY <1>1 DEF UpToSchedule, UpToCycle, UpToExe, UpToWriteback, Step, Commit, CommitNothing,
              CommitDone, Writeback, Exe, WritebackLane, Advance, Goto, ExeEmpty, ExeCopy,
              ExeInsert, ExeFull, ExeDone, ExeqCycle, ExeTransfer, TransferNext, ExeNoneLeft,
              IssueStage, IssueCompare, IssueNextPass, IssueNothing, IssueCrash, DecodeStage,
              Decode, DecodeNothing, FetchStage, FetchInst, FetchEnd, FetchOccupied
<1>3. By(UpToSchedule, LOAD_EXE_CYCLES + 2) /\ LOAD_EXE_CYCLES + 2 \in Int
  BY <1>0, ExeqAssumption DEF HeadIsSoon, ExecSoon
<1> QED  BY <1>2, <1>3, ByKept

\* Issue leaves no instruction behind while the buffer is empty.
LEMMA IssueEmpties ==
    ASSUME TypeInv, Window(rob), LaneInv, IssueNothing, stage' = "decode", ~ HeadThere
    PROVE  HasNone(ID_latch)
<1>1. /\ stage = "issue" /\ lane \in Lanes /\ ~ (lane + 1 < PIPE_WIDTH) /\ ~ CanIssue
      /\ DOMAIN ID_latch = Lanes
  BY DEF IssueNothing, IssueDone, Advance, Goto, TypeInv, TypeOK, LaneInRange
<1>2. rob_check_space(rob)
  BY HeadFacts
<1>3. \A a \in Lanes : ~ ID_latch[pipeIndex[a]].valid
  <2> SUFFICES ASSUME NEW a \in Lanes, ID_latch[pipeIndex[a]].valid PROVE FALSE
    OBVIOUS
  <2>1. a # lane
    BY <1>1, <1>2 DEF CanIssue, IssueLane
  <2>2. a < lane
    BY <1>1, <2>1, PipelineAssumption DEF Lanes
  <2> QED  BY <1>1, <1>2, <2>2 DEF LaneInv
<1>4. EveryLane
  BY <1>1 DEF LaneInv
<1> QED  BY <1>1, <1>3, <1>4 DEF EveryLane, HasNone

\* An issue into the empty buffer fills its head; otherwise the head stays.
LEMMA IssueHead ==
    ASSUME TypeInv, Window(rob), FlightInv, ExecInv, ExEmptyInv', ExeqInv, BackInv, BackInv',
           Issue, ~ halt', stat_num_cycle \in Nat, stat_num_cycle' = stat_num_cycle,
           NEW h \in RobIds, h = rob.head_ptr, Soon
    PROVE  /\ rob'.head_ptr = h /\ Entry(h)'.valid
           /\ \A n : n = Num(h)' => HeadIsSoon(h, n)'
<1>1. PICK t \in RobIds :
          /\ t = rob.tail_ptr /\ ~ Entry(t).valid /\ rob'.head_ptr = rob.head_ptr
          /\ \A j \in RobIds \ {t} : Entry(j)' = Entry(j)
          /\ Entry(t)'.valid /\ ~ Entry(t)'.exec /\ ~ Entry(t)'.ready
          /\ Entry(t)'.inst.inst_num = NumAt(ID_latch, IssueLane)
          /\ IssueLane \in Lanes /\ ID_latch[IssueLane].valid
  BY IssueRob
<1>2. /\ stage = "issue" /\ stage' \in {"issue", "decode"} /\ DOMAIN ID_latch = Lanes
      /\ UNCHANGED <<SC_latch, EX_latch, exeq>> /\ LOAD_EXE_CYCLES \in Nat
  BY ExeqAssumption DEF Issue, IssueDone, Advance, Goto, issueFrame, schedVars, TypeInv, TypeOK
<1>3. Step /\ ~ CommitInst
  BY <1>2 DEF Issue, Step, IssueStage, CommitInst
<1>4. CASE HeadThere
  <2>1. Entry(h).valid /\ Entry(h)' = Entry(h) /\ h \in ValidIds /\ Num(h)' = Num(h)
    <3>1. h # t /\ h \in ValidIds /\ Entry(h).valid
      BY <1>1, <1>4 DEF HeadThere, ValidIds
    <3> QED  BY <1>1, <3>1 DEF Num
  <2>2. HeadIsSoon(h, Num(h))
    BY <1>4 DEF Soon, HeadSoon, HeadNum
  <2> SUFFICES ASSUME NEW n, n = Num(h) PROVE HeadIsSoon(h, n)'
    BY <1>1, <2>1
  <2>3. ReadySoon(h)'
    <3>1. Entry(h).ready => By({"commit"}, 0)'
      BY <1>2, <2>2, ByKept DEF HeadIsSoon, ReadySoon
    <3> QED  BY <2>1, <3>1 DEF ReadySoon
  <2>4. ExecSoon(h)'
    <3>1. ~ Entry(h).exec => By(UpToSchedule, LOAD_EXE_CYCLES + 2)
      BY <2>2 DEF HeadIsSoon, ExecSoon
    <3>2. stage \notin UpToSchedule /\ LOAD_EXE_CYCLES + 2 \in Int
      BY <1>2 DEF UpToSchedule, UpToCycle, UpToExe, UpToWriteback
    <3>3. ~ Entry(h).exec => By(UpToSchedule, LOAD_EXE_CYCLES + 2)'
      BY <3>1, <3>2, ByKept
    <3> QED  BY <2>1, <3>3 DEF ExecSoon
  <2>5. ExSoon(n)' /\ ExeqSoon(n)'
    BY <1>3, <2>2, ExStep, ExeqStep
  <2>6. ScSoon(n)'
    BY <1>3, <2>1, <2>2, ScStep
  <2> QED  BY <2>3, <2>4, <2>5, <2>6 DEF HeadIsSoon
<1>5. CASE ~ HeadThere
  <2>1. t = h
    BY <1>1, <1>5, HeadFacts
  <2> SUFFICES ASSUME NEW n, n = NumAt(ID_latch, IssueLane) PROVE HeadIsSoon(h, n)'
    BY <1>1, <2>1 DEF Num
  <2>2. n \in NumsIn(ID_latch)
    BY <1>1, <1>2 DEF NumsIn
  <2>3. n \notin NumsIn(SC_latch) \cup NumsIn(exeq) \cup NumsIn(EX_latch)
    BY <2>2, ExecutingInRob DEF ExecInv
  <2>4. ExSoon(n)' /\ ExeqSoon(n)' /\ ScSoon(n)'
    BY <1>2, <2>3, NumsAreNat DEF ExSoon, ExeqSoon, ScSoon, NumsIn, NumAt
  <2>5. Budget(LOAD_EXE_CYCLES + 3)
    <3>1. ~ HasNone(ID_latch)
      BY <1>1, <1>2 DEF HasNone
    <3>2. By(UpToIssue, LOAD_EXE_CYCLES + 3)
      BY <1>5, <3>1 DEF Soon, NextSoon
    <3> QED  BY <1>2, <3>2 DEF By, UpToIssue
  <2>6. By(UpToSchedule, LOAD_EXE_CYCLES + 2)'
    BY <1>2, <2>5 DEF By, Budget, UpToSchedule, UpToCycle, UpToExe, UpToWriteback
  <2> QED  BY <1>1, <2>1, <2>4, <2>6 DEF HeadIsSoon, ReadySoon, ExecSoon
<1> QED  BY <1>1, <1>4, <1>5

\* With the buffer empty, an instruction comes a stage nearer to it.
LEMMA NextKept ==
    ASSUME stat_num_cycle \in Nat, stat_num_cycle' = stat_num_cycle, NextSoon,
           UNCHANGED <<ID_latch, FE_latch>>,
           HasNone(ID_latch) \/ stage \notin UpToIssue \/ stage' \in UpToIssue,
           \/ ~ HasNone(ID_latch) \/ HasNone(FE_latch)
           \/ stage \notin UpToDecode \/ stage' \in UpToDecode
    PROVE  NextSoon'
<1>1. /\ LOAD_EXE_CYCLES + 3 \in Int /\ LOAD_EXE_CYCLES + 4 \in Int
      /\ HasNone(ID_latch)' = HasNone(ID_latch) /\ HasNone(FE_latch)' = HasNone(FE_latch)
  BY ExeqAssumption DEF HasNone
<1>2. ~ HasNone(ID_latch) => By(UpToIssue, LOAD_EXE_CYCLES + 3)'
  BY <1>1, ByKept DEF NextSoon
<1>3. HasNone(ID_latch) /\ ~ HasNone(FE_latch) => By(UpToDecode, LOAD_EXE_CYCLES + 4)'
  BY <1>1, ByKept DEF NextSoon
<1>4. HasNone(ID_latch) /\ HasNone(FE_latch) => Budget(LOAD_EXE_CYCLES + 5)'
  BY DEF NextSoon, Budget
<1> QED  BY <1>1, <1>2, <1>3, <1>4 DEF NextSoon

\* Every step but the commit and the issue keeps the date of the next instruction.
LEMMA NextStep ==
    ASSUME TypeInv, Window(rob), LaneInv, FrontInv, Step, ~ CommitInst, ~ Issue,
           stat_num_cycle \in Nat, stat_num_cycle' = stat_num_cycle, ~ CycleEnds,
           stage' # "crashed", ~ HeadThere, NextSoon
    PROVE  NextSoon'
<1>0. /\ DOMAIN ID_latch = Lanes /\ DOMAIN FE_latch = Lanes /\ LOAD_EXE_CYCLES \in Nat
      /\ ID_latch \in [Lanes -> Latch] /\ FE_latch \in [Lanes -> Latch]
  BY ExeqAssumption DEF TypeInv, TypeOK
<1> USE DEF UpToDecode, UpToIssue, UpToSchedule, UpToCycle, UpToExe, UpToWriteback
<1>1. CASE Decode
  <2>1. PICK j \in Lanes : /\ FE_latch[j].valid
                           /\ ID_latch' = [ID_latch EXCEPT ![lane] = FE_latch[j]]
    BY <1>1 DEF Decode, NextDecoded
  <2>2. lane \in Lanes /\ stage = "decode" /\ stage' \in {"decode", "fetch"}
    BY <1>1 DEF Decode, DecodeDone, Advance, Goto, TypeInv, LaneInRange
  <2>3. ~ HasNone(ID_latch)' /\ ~ HasNone(FE_latch)
    <3>1. DOMAIN ID_latch' = Lanes /\ ID_latch'[lane].valid
      BY <1>0, <2>1, <2>2
    <3> QED  BY <1>0, <2>1, <2>2, <3>1 DEF HasNone
  <2>4. Budget(LOAD_EXE_CYCLES + 4)
    <3>1. ~ HasNone(ID_latch) => By(UpToIssue, LOAD_EXE_CYCLES + 3)
      BY DEF NextSoon
    <3>2. HasNone(ID_latch) => By(UpToDecode, LOAD_EXE_CYCLES + 4)
      BY <2>3 DEF NextSoon
    <3> QED  BY <1>0, <2>2, <3>1, <3>2 DEF By, Budget
  <2>5. By(UpToIssue, LOAD_EXE_CYCLES + 3)'
    BY <1>0, <2>2, <2>4 DEF By, Budget
  <2> QED  BY <2>3, <2>5 DEF NextSoon
<1>2. CASE FetchInst
  <2>1. /\ stage = "fetch" /\ stage' = "fetch" /\ ID_latch' = ID_latch
        /\ lane \in Lanes /\ ~ FE_latch[lane].valid
    BY <1>2 DEF FetchInst, fetchFrame, CycleEnds, TypeInv, LaneInRange
  <2>2. ~ HasNone(FE_latch)'
    <3>1. DOMAIN FE_latch' = Lanes /\ FE_latch'[lane].valid
      BY <1>0, <1>2, <2>1 DEF FetchInst, Full
    <3> QED  BY <2>1, <3>1 DEF HasNone
  <2>3. HasNone(ID_latch)' = HasNone(ID_latch)
    BY <2>1 DEF HasNone
  <2>4. ~ HasNone(ID_latch) => By(UpToIssue, LOAD_EXE_CYCLES + 3)'
    BY <1>0, <2>1 DEF NextSoon, By, Budget
  <2>5. HasNone(ID_latch) => By(UpToDecode, LOAD_EXE_CYCLES + 4)'
    <3>1. HasNone(ID_latch) => Budget(LOAD_EXE_CYCLES + 5)
      BY <1>0, <2>1 DEF NextSoon, By, Budget
    <3> QED  BY <1>0, <2>1, <3>1 DEF By, Budget
  <2> QED  BY <2>2, <2>3, <2>4, <2>5 DEF NextSoon
<1>3. CASE IssueNothing
  <2>1. UNCHANGED <<ID_latch, FE_latch>> /\ stage = "issue" /\ stage' \in {"issue", "decode"}
    BY <1>3 DEF IssueNothing, IssueDone, Advance, Goto, issueFrame, feVars
  <2>2. stage' = "decode" => HasNone(ID_latch)
    BY <1>3, IssueEmpties
  <2> QED  BY <2>1, <2>2, NextKept
<1>4. CASE DecodeNothing
  <2>1. UNCHANGED <<ID_latch, FE_latch>> /\ stage = "decode"
    BY <1>4 DEF DecodeNothing
  <2>2. HasNone(ID_latch) => HasNone(FE_latch)
    BY <1>4, FrontDecodeNothing
  <2> QED  BY <2>1, <2>2, NextKept
<1>5. CASE FetchEnd \/ FetchOccupied
  <2>1. UNCHANGED <<ID_latch, FE_latch>> /\ stage = "fetch"
    BY <1>5 DEF FetchEnd, FetchOccupied, fetchFrame
  <2> QED  BY <2>1, NextKept
<1>6. CASE CommitNothing \/ Writeback \/ Exe
  <2>1. UNCHANGED <<ID_latch, FE_latch>> /\ stage' \in UpToSchedule
    BY <1>6 DEF CommitNothing, CommitDone, Writeback, WritebackLane, Exe, ExeEmpty, ExeCopy,
                ExeInsert, ExeFull, ExeqCycle, ExeTransfer, ExeNoneLeft, ExeDone, TransferNext,
                Advance, Goto, exeFrame, feVars
  <2> QED  BY <2>1, NextKept
<1>7. CASE Schedule \/ IssueCompare \/ IssueNextPass
  <2>1. UNCHANGED <<ID_latch, FE_latch>> /\ stage' \in UpToIssue
    BY <1>7 DEF Schedule, ScheduleInst, ScheduleNothing, ScheduleOccupied, ScheduleReturn,
                schedFrame, ScheduleNext, ScheduleEnds, Goto, IssueCompare, IssueNextPass,
                sortFrame, feVars
  <2> QED  BY <2>1, NextKept
<1>8. ~ IssueCrash
  BY DEF IssueCrash
<1> QED
  BY <1>1, <1>2, <1>3, <1>4, <1>5, <1>6, <1>7, <1>8
     DEF Step, Commit, IssueStage, DecodeStage, FetchStage

\* What is known of the pipeline without the dates.
MachineInv == /\ TypeInv /\ Window(rob) /\ FlightInv /\ ExecInv /\ ExEmptyInv /\ ExeqInv
              /\ CopyInv /\ RatInv /\ OperandInv
LoopInv == LaneInv /\ FrontInv /\ BackInv

\* The earlier invariants together are inductive.
LEMMA StepMachine == MachineInv /\ [Next]_vars => MachineInv'
BY StepTypeInv, StepWindow, StepFlight, StepExec, StepExEmpty, StepExeq, StepCopy, StepRat,
   StepOperand
   DEF MachineInv

LEMMA InitMachine == Init => MachineInv
<1>1. Init => Window(rob)
  BY InitWindow DEF Init
<1>2. Init => ExeqInv
  BY DEF Init, exeq_init, ExeqInv, ExeqDrainsInTime, DoneSlots
<1> QED  BY <1>1, <1>2, InitTypeInv, InitFlight, InitExec, InitRename DEF MachineInv

LEMMA StepLoop ==
    ASSUME OobReg \notin Dests
    PROVE  MachineInv /\ LoopInv /\ [Next]_vars => LoopInv'
BY StepLane, StepFront, StepBack DEF MachineInv, LoopInv

LEMMA InitLoop == Init => LoopInv
<1> SUFFICES ASSUME Init PROVE LoopInv
  OBVIOUS
<1>1. /\ HasNone(FE_latch) /\ HasNone(SC_latch) /\ HasNone(exeq)
  BY DEF Init, exeq_init, EmptyLatch, HasNone
<1>2. NumsIn(FE_latch) = {} /\ last_inst_num = 0 /\ next_inst_num = 1
  BY <1>1, HasNoneIs DEF Init, last_inst_num
<1>3. FrontInv
  BY <1>2 DEF Init, FrontInv
<1> QED  BY <1>1, <1>3 DEF Init, LoopInv, LaneInv, BackInv, ScFree, HeadTaken

\* Within a cycle every date is kept.
LEMMA SoonStep ==
    ASSUME OobReg \notin Dests, MachineInv, MachineInv', LoopInv, LoopInv', Step, ~ CommitInst,
           ~ CycleEnds, ~ halt, ~ halt', stage' # "crashed",
           stat_num_cycle \in Nat, stat_num_cycle' = stat_num_cycle, Soon
    PROVE  Soon'
<1> USE DEF MachineInv, LoopInv
<1> SUFFICES ASSUME NEW h \in RobIds, h = rob.head_ptr PROVE Soon'
  BY HeadFacts
<1>1. CASE Issue
  <2>1. rob'.head_ptr = h /\ Entry(h)'.valid /\ \A n : n = Num(h)' => HeadIsSoon(h, n)'
    BY <1>1, IssueHead
  <2> SUFFICES ASSUME NEW n, n = Num(h)' PROVE Soon'
    OBVIOUS
  <2>2. HeadThere'
    BY <2>1 DEF HeadThere, Entry
  <2>3. HeadNum' = n
    BY <2>1 DEF HeadNum, Num, Entry
  <2>4. HeadIsSoon(h, n)'
    BY <2>1
  <2>5. HeadSoon'
    BY <2>1, <2>3, <2>4 DEF HeadSoon, HeadIsSoon, ReadySoon, ExSoon, ExeqSoon, ScSoon, ExecSoon,
                            Entry
  <2> QED  BY <2>2, <2>5 DEF Soon
<1>2. CASE ~ Issue
  <2>1. /\ rob'.head_ptr = h /\ Entry(h)'.valid = Entry(h).valid /\ Num(h)' = Num(h)
    BY <1>2, HeadKept
  <2>2. HeadThere' = HeadThere
    BY <2>1 DEF HeadThere, Entry
  <2>3. CASE HeadThere
    <3>1. Entry(h).valid /\ h \in ValidIds /\ HeadIsSoon(h, Num(h))
      BY <2>3 DEF HeadThere, ValidIds, Soon, HeadSoon, HeadNum
    <3> SUFFICES ASSUME NEW n, n = Num(h) PROVE Soon'
      OBVIOUS
    <3>2. ReadySoon(h)' /\ ExecSoon(h)'
      BY <1>2, <3>1, ReadyStep, ExecStep
    <3>3. ExSoon(n)' /\ ExeqSoon(n)'
      BY <3>1, ExStep, ExeqStep
    <3>4. ScSoon(n)'
      BY <3>1, ScStep
    <3>5. HeadNum' = n
      BY <2>1 DEF HeadNum, Num, Entry
    <3>6. HeadSoon'
      BY <2>1, <3>2, <3>3, <3>4, <3>5 DEF HeadSoon, HeadIsSoon, ReadySoon, ExSoon, ExeqSoon,
                                          ScSoon, ExecSoon, Entry
    <3> QED  BY <2>2, <2>3, <3>6 DEF Soon
  <2>4. CASE ~ HeadThere
    <3>1. NextSoon'
      BY <1>2, <2>4, NextStep DEF Soon
    <3> QED  BY <2>2, <2>4, <3>1 DEF Soon
  <2> QED  BY <2>3, <2>4
<1> QED  BY <1>1, <1>2

\* While an instruction is to retire, there is a cycle left for it.
LEMMA AnyBudget ==
    ASSUME MachineInv, Soon, stage # "commit", stat_num_cycle \in Nat
    PROVE  Budget(1)
<1> USE DEF MachineInv
<1>0. LOAD_EXE_CYCLES \in Nat /\ HEARTBEAT_CYCLES \in Nat
  BY ExeqAssumption, HeartbeatAssumption
<1>1. ASSUME NEW S, NEW k \in Nat, k >= 1, By(S, k) PROVE Budget(1)
  BY <1>0, <1>1 DEF By, Budget
<1>2. CASE ~ HeadThere
  <2>1. CASE ~ HasNone(ID_latch)
    <3>1. By(UpToIssue, LOAD_EXE_CYCLES + 3)
      BY <1>2, <2>1 DEF Soon, NextSoon
    <3> QED  BY <1>0, <1>1, <3>1
  <2>2. CASE HasNone(ID_latch) /\ ~ HasNone(FE_latch)
    <3>1. By(UpToDecode, LOAD_EXE_CYCLES + 4)
      BY <1>2, <2>2 DEF Soon, NextSoon
    <3> QED  BY <1>0, <1>1, <3>1
  <2>3. CASE HasNone(ID_latch) /\ HasNone(FE_latch)
    BY <1>0, <1>2, <2>3 DEF Soon, NextSoon, Budget
  <2> QED  BY <2>1, <2>2, <2>3
<1>3. CASE HeadThere
  <2> DEFINE h == rob.head_ptr
  <2>1. h \in ValidIds /\ Entry(h).valid /\ h \in RobIds /\ HeadIsSoon(h, Num(h))
    BY <1>3, HeadFacts DEF HeadThere, Soon, HeadSoon, HeadNum
  <2> HIDE DEF h
  <2>2. CASE Entry(h).ready
    BY <1>0, <2>1, <2>2 DEF HeadIsSoon, ReadySoon, By
  <2>3. CASE ~ Entry(h).exec
    <3>1. By(UpToSchedule, LOAD_EXE_CYCLES + 2)
      BY <2>1, <2>3 DEF HeadIsSoon, ExecSoon
    <3> QED  BY <1>0, <1>1, <3>1
  <2>4. CASE Entry(h).exec /\ ~ Entry(h).ready
    <3>1. Num(h) \in ExecutingNums
      BY <2>1, <2>4 DEF ExecutingNums
    <3>2. Num(h) \in NumsIn(SC_latch) \cup NumsIn(exeq) \cup NumsIn(EX_latch)
      BY <3>1 DEF ExecInv
    <3>3. CASE Num(h) \in NumsIn(SC_latch)
      <4>1. By(UpToExe, LOAD_EXE_CYCLES + 1)
        BY <2>1, <3>3, NumsAreNat DEF NumsIn, HeadIsSoon, ScSoon
      <4> QED  BY <1>0, <1>1, <4>1
    <3>4. CASE Num(h) \in NumsIn(exeq)
      <4>1. PICK s \in ExeqSlots : exeq[s].valid /\ NumAt(exeq, s) = Num(h)
        BY <3>4, NumsAreNat DEF NumsIn
      <4>2. By(UpToCycle, exeq[s].inst.exe_wait_cycles + 1)
        BY <2>1, <4>1 DEF HeadIsSoon, ExeqSoon
      <4>3. exeq[s].inst.exe_wait_cycles \in Nat
        BY <4>1 DEF ExeqInv, ExeqDrainsInTime
      <4> QED  BY <1>1, <4>2, <4>3
    <3>5. CASE Num(h) \in NumsIn(EX_latch)
      <4>1. By(UpToWriteback, 1)
        BY <2>1, <3>5, NumsAreNat DEF NumsIn, HeadIsSoon, ExSoon
      <4> QED  BY <1>1, <4>1
    <3> QED  BY <3>2, <3>3, <3>4, <3>5
  <2> QED  BY <2>2, <2>3, <2>4
<1> QED  BY <1>2, <1>3

\* From one cycle to the next the dates come nearer by one.
LEMMA SoonCycle ==
    ASSUME MachineInv, MachineInv', LoopInv, FetchStage, CycleEnds, ~ halt', stage' # "halted",
           HEARTBEAT_CYCLES >= LOAD_EXE_CYCLES + 6, stat_num_cycle \in Nat,
           \/ stat_num_cycle' = stat_num_cycle + 1 /\ Soon
           \/ stat_num_cycle' = 0
    PROVE  Soon'
<1> USE DEF MachineInv, LoopInv
<1>0. /\ LOAD_EXE_CYCLES \in Nat /\ HEARTBEAT_CYCLES \in Nat /\ stage = "fetch" /\ stage' = "commit"
      /\ UNCHANGED <<ID_latch, SC_latch, EX_latch, exeq, rob>>
  BY ExeqAssumption, HeartbeatAssumption DEF CycleEnds, FetchStage, FetchInst, FetchEnd,
                                             FetchOccupied, FetchDone, Advance, Goto,
                                             fetchFrame, schedVars
<1>1. ASSUME NEW S, "commit" \in S, "fetch" \notin S, NEW k \in Nat, k <= LOAD_EXE_CYCLES + 4,
             stat_num_cycle' = 0 \/ By(S, k)
      PROVE  By(S, k)'
  BY <1>0, <1>1 DEF By, Budget
<1> DEFINE Later == stat_num_cycle' # 0
<1>2. Later => stat_num_cycle' = stat_num_cycle + 1 /\ Soon
  OBVIOUS
<1>3. /\ HeadThere' = HeadThere /\ HeadNum' = HeadNum /\ rob'.head_ptr = rob.head_ptr
      /\ \A i : Entry(i)' = Entry(i)
      /\ HasNone(ID_latch)' = HasNone(ID_latch)
  BY <1>0 DEF HeadThere, HeadNum, Num, Entry, HasNone
<1> USE DEF UpToDecode, UpToIssue, UpToSchedule, UpToCycle, UpToExe, UpToWriteback
<1>4. CASE HeadThere
  <2> SUFFICES ASSUME NEW h, h = rob.head_ptr, NEW n, n = HeadNum PROVE HeadIsSoon(h, n)'
    BY <1>3, <1>4 DEF Soon, HeadSoon, HeadIsSoon, ReadySoon, ExSoon, ExeqSoon, ScSoon, ExecSoon
  <2>1. Later => HeadIsSoon(h, n)
    BY <1>2, <1>4 DEF Soon, HeadSoon
  <2>2. ReadySoon(h)'
    <3>1. Entry(h).ready => By({"commit"}, 0)'
      BY <1>0, <1>1, <2>1 DEF HeadIsSoon, ReadySoon
    <3> QED  BY <1>3, <3>1 DEF ReadySoon
  <2>3. ExSoon(n)'
    <3> SUFFICES ASSUME NEW l \in ExLanes, EX_latch[l].valid, NumAt(EX_latch, l) = n
                 PROVE  By(UpToWriteback, 1)'
      BY <1>0 DEF ExSoon, NumAt
    <3> QED  BY <1>0, <1>1, <2>1 DEF HeadIsSoon, ExSoon
  <2>4. ExeqSoon(n)'
    <3> SUFFICES ASSUME NEW s \in ExeqSlots, exeq[s].valid, NumAt(exeq, s) = n,
                        NEW k, k = exeq[s].inst.exe_wait_cycles + 1
                 PROVE  By(UpToCycle, k)'
      BY <1>0 DEF ExeqSoon, NumAt
    <3>1. k \in Nat /\ k <= LOAD_EXE_CYCLES + 4
      BY <1>0 DEF ExeqInv, ExeqDrainsInTime
    <3>2. Later => By(UpToCycle, k)
      BY <2>1 DEF HeadIsSoon, ExeqSoon
    <3> QED  BY <1>1, <3>1, <3>2
  <2>5. ScSoon(n)'
    <3> SUFFICES ASSUME NEW l \in Lanes, SC_latch[l].valid, NumAt(SC_latch, l) = n
                 PROVE  By(UpToExe, LOAD_EXE_CYCLES + 1)'
      BY <1>0 DEF ScSoon, NumAt
    <3>1. Later => By(UpToExe, LOAD_EXE_CYCLES + 1)
      BY <2>1 DEF HeadIsSoon, ScSoon
    <3> QED  BY <1>0, <1>1, <3>1
  <2>6. ExecSoon(h)'
    <3>1. ~ Entry(h).exec /\ Later => By(UpToSchedule, LOAD_EXE_CYCLES + 2)
      BY <2>1 DEF HeadIsSoon, ExecSoon
    <3>2. ~ Entry(h).exec => By(UpToSchedule, LOAD_EXE_CYCLES + 2)'
      BY <1>0, <1>1, <3>1
    <3> QED  BY <1>3, <3>2 DEF ExecSoon
  <2> QED  BY <2>2, <2>3, <2>4, <2>5, <2>6 DEF HeadIsSoon
<1>5. CASE ~ HeadThere
  <2>1. Later => NextSoon
    BY <1>2, <1>5 DEF Soon
  <2>2. ~ HasNone(ID_latch) => By(UpToIssue, LOAD_EXE_CYCLES + 3)'
    <3>1. ~ HasNone(ID_latch) /\ Later => By(UpToIssue, LOAD_EXE_CYCLES + 3)
      BY <2>1 DEF NextSoon
    <3> QED  BY <1>0, <1>1, <3>1
  <2>3. HasNone(ID_latch) => By(UpToDecode, LOAD_EXE_CYCLES + 4)'
    <3>1. HasNone(ID_latch) /\ Later => By(UpToDecode, LOAD_EXE_CYCLES + 4)
      BY <1>0, <2>1 DEF NextSoon, By, Budget
    <3> QED  BY <1>0, <1>1, <3>1
  <2>4. ~ (HasNone(ID_latch)' /\ HasNone(FE_latch)')
    <3>1. InFlight' # {}
      BY FrontFetch
    <3>2. NumsIn(rob.entries)' = {}
      BY <1>3, <1>5, HeadFacts, <1>0
    <3>3. HasNone(ID_latch)' => NumsIn(ID_latch)' = {}
      BY DEF HasNone, NumsIn
    <3>4. HasNone(FE_latch)' => NumsIn(FE_latch)' = {}
      BY DEF HasNone, NumsIn
    <3> QED  BY <3>1, <3>2, <3>3, <3>4 DEF InFlight
  <2> QED  BY <1>3, <1>5, <2>2, <2>3, <2>4 DEF Soon, NextSoon
<1> QED  BY <1>4, <1>5

\* Which steps retire, which stop the loop.
LEMMA RetireSteps ==
    ASSUME TypeInv, Step
    PROVE  /\ stage \notin {"halted", "crashed"}
           /\ stat_retired_inst \in Nat
           /\ ~ CommitInst => stat_retired_inst' = stat_retired_inst
           /\ CommitInst => stat_retired_inst' = stat_retired_inst + 1
           /\ halt => halt'
           /\ ~ halt /\ halt' /\ ~ CommitInst => stage # "commit"
           /\ CycleEnds => FetchStage /\ ~ CommitInst /\ stage' \in {"halted", "commit"}
           /\ CycleEnds /\ halt' => stage' = "halted"
           /\ stage' = "halted" => halt'
<1>1. stat_retired_inst \in Nat
  BY DEF TypeInv, TypeOK
<1>2. CASE CommitInst
  BY <1>1, <1>2 DEF CommitInst, CommitDone, Advance, Goto, CycleEnds
<1>3. CASE CommitNothing \/ Writeback
  BY <1>1, <1>3 DEF CommitNothing, CommitInst, CommitDone, Writeback, WritebackLane, haltVars,
                    Advance, Goto, CycleEnds
<1>4. CASE Exe
  BY <1>1, <1>4 DEF Exe, ExeEmpty, ExeCopy, ExeInsert, ExeFull, ExeqCycle, ExeTransfer,
                    ExeNoneLeft, ExeDone, TransferNext, exeFrame, Advance, Goto, CycleEnds,
                    CommitInst
<1>5. CASE Schedule
  BY <1>1, <1>5 DEF Schedule, ScheduleInst, ScheduleNothing, ScheduleOccupied, ScheduleReturn,
                    schedFrame, ScheduleNext, ScheduleEnds, haltVars, Goto, CycleEnds,
                    CommitInst
<1>6. CASE IssueStage
  BY <1>1, <1>6 DEF IssueStage, IssueCompare, IssueNextPass, Issue, IssueNothing, IssueCrash,
                    IssueDone, sortFrame, issueFrame, haltVars, Advance, Goto, CycleEnds,
                    CommitInst
<1>7. CASE DecodeStage
  BY <1>1, <1>7 DEF DecodeStage, Decode, DecodeNothing, DecodeDone, decodeFrame, haltVars,
                    Advance, Goto, CycleEnds, CommitInst
<1>8. CASE FetchStage
  <2>1. /\ stage = "fetch" /\ stat_retired_inst' = stat_retired_inst
    BY <1>8 DEF FetchStage, FetchInst, FetchEnd, FetchOccupied, fetchFrame
  <2>2. FetchDone
    BY <1>8 DEF FetchStage, FetchInst, FetchEnd, FetchOccupied
  <2>3. \/ stage' = "fetch"
        \/ stage' = "halted" /\ halt'
        \/ stage' = "commit" /\ ~ halt'
    BY <2>1, <2>2 DEF FetchDone, Advance, Goto
  <2>4. ~ CommitInst
    BY <2>1 DEF CommitInst
  <2>5. halt' = halt \/ halt' = (halt \/ AllRetired)
    BY <1>8 DEF FetchStage, FetchInst, FetchEnd, FetchOccupied
  <2>6. halt => halt'
    BY <2>5
  <2> QED  BY <1>1, <1>8, <2>1, <2>3, <2>4, <2>6 DEF CycleEnds
<1>9. \/ CommitInst \/ CommitNothing \/ Writeback \/ Exe \/ Schedule
      \/ IssueStage \/ DecodeStage \/ FetchStage
  BY DEF Step, Commit
<1> QED
  BY <1>2, <1>3, <1>4, <1>5, <1>6, <1>7, <1>8, <1>9

\* The invariant of the heartbeat, through a cycle and from one cycle to the next.
LEMMA HeartStep ==
    ASSUME OobReg \notin Dests, HEARTBEAT_CYCLES >= LOAD_EXE_CYCLES + 6,
           MachineInv, MachineInv', LoopInv, LoopInv', HeartInv, MainStep
    PROVE  HeartInv'
<1>0. /\ Step /\ status = 0 /\ HEARTBEAT_CYCLES \in Nat /\ stat_num_cycle \in Nat
      /\ stat_num_cycle < HEARTBEAT_CYCLES /\ last_hbeat_inst \in Nat
      /\ last_hbeat_inst <= stat_retired_inst
  BY HeartbeatAssumption DEF MainStep, HeartInv
<1>1. /\ stage \notin {"halted", "crashed"} /\ stat_retired_inst \in Nat
      /\ ~ CommitInst => stat_retired_inst' = stat_retired_inst
      /\ CommitInst => stat_retired_inst' = stat_retired_inst + 1
      /\ halt => halt'
      /\ ~ halt /\ halt' /\ ~ CommitInst => stage # "commit"
      /\ CycleEnds => FetchStage /\ ~ CommitInst /\ stage' \in {"halted", "commit"}
      /\ CycleEnds /\ halt' => stage' = "halted"
      /\ stage' = "halted" => halt'
  BY <1>0, RetireSteps DEF MachineInv
<1>2. stat_retired_inst = last_hbeat_inst =>
          /\ ~ halt => Soon
          /\ halt \/ stage # "commit" => Budget(1)
  BY <1>0, <1>1, AnyBudget DEF HeartInv, Going
<1>3. CASE ~ CycleEnds
  <2>1. UNCHANGED heart_vars
    BY <1>3 DEF MainStep
  <2>2. ASSUME stat_retired_inst' = last_hbeat_inst
        PROVE  /\ Going' => Soon'
               /\ halt' => Budget(1)'
    <3>1. ~ CommitInst /\ stat_retired_inst = last_hbeat_inst
      BY <1>0, <1>1, <2>2
    <3>2. Going' => Soon'
      BY <1>0, <1>1, <1>2, <1>3, <2>1, <3>1, SoonStep DEF Going, heart_vars
    <3>3. halt' => Budget(1)
      BY <1>1, <1>2, <3>1
    <3> QED  BY <2>1, <3>2, <3>3 DEF Budget, heart_vars
  <2>3. last_hbeat_inst <= stat_retired_inst'
    BY <1>0, <1>1
  <2> QED  BY <2>1, <2>2, <2>3 DEF HeartInv, heart_vars
<1>4. CASE CycleEnds
  <2>1. /\ stat_num_cycle' = (stat_num_cycle + 1) % HEARTBEAT_CYCLES /\ check_heartbeat
        /\ stat_retired_inst' = stat_retired_inst /\ stage = "fetch"
        /\ Going' => ~ halt'
        /\ halt' => stage' = "halted"
    BY <1>1, <1>4 DEF MainStep, CycleEnds, Going
  <2>2. CASE stat_num_cycle + 1 < HEARTBEAT_CYCLES
    <3>1. /\ stat_num_cycle' = stat_num_cycle + 1 /\ stat_num_cycle' # 0
          /\ UNCHANGED <<last_hbeat_inst, status>>
      BY <1>0, <2>1, <2>2 DEF check_heartbeat
    <3>2. stat_retired_inst' = last_hbeat_inst' /\ Going' => Soon'
      BY <1>0, <1>1, <1>2, <1>4, <2>1, <3>1, SoonCycle DEF Going
    <3> QED  BY <1>0, <2>1, <2>2, <3>1, <3>2 DEF HeartInv
  <2>3. CASE ~ (stat_num_cycle + 1 < HEARTBEAT_CYCLES)
    <3>1. stat_num_cycle' = 0
      BY <1>0, <2>1, <2>3
    <3>2. stat_retired_inst # last_hbeat_inst
      BY <1>2, <2>1, <2>3 DEF Budget
    <3>3. last_hbeat_inst' = stat_retired_inst' /\ status' = 0
      BY <1>0, <2>1, <3>1, <3>2 DEF check_heartbeat
    <3>4. Going' => Soon'
      BY <1>0, <1>1, <1>4, <3>1, SoonCycle DEF Going
    <3> QED  BY <1>0, <1>1, <2>1, <3>1, <3>3, <3>4, HeartbeatAssumption DEF HeartInv
  <2> QED  BY <2>2, <2>3
<1> QED  BY <1>3, <1>4

LEMMA InitHeart ==
    ASSUME HEARTBEAT_CYCLES >= LOAD_EXE_CYCLES + 6
    PROVE  MainInit => HeartInv
<1> SUFFICES ASSUME MainInit PROVE HeartInv
  OBVIOUS
<1>1. HasNone(ID_latch) /\ HasNone(FE_latch) /\ ~ HeadThere
  BY RobAssumption DEF MainInit, Init, rob_init, EmptyLatch, HasNone, HeadThere, Entry
<1>2. Soon
  BY <1>1, ExeqAssumption, HeartbeatAssumption DEF MainInit, Soon, NextSoon, Budget
<1> QED  BY <1>2, HeartbeatAssumption DEF MainInit, Init, HeartInv

(***************************************************************************)
(* check_heartbeat never gives a run up, whatever the width, the sizes,    *)
(* the policy and the trace, if it looks at least six cycles further apart *)
(* than a load executes: an instruction that is next to retire is fetched, *)
(* decoded, issued, scheduled, executed, written back and committed in as  *)
(* many.  The trace does not write the register that rob_mark_ready's      *)
(* stray write hits: the head could wait for an operand that never comes.  *)
(***************************************************************************)
THEOREM HealthyRunsGoOnHolds ==
    ASSUME OobReg \notin Dests, HEARTBEAT_CYCLES >= LOAD_EXE_CYCLES + 6
    PROVE  MainSpec => []HealthyRunsGoOn
<1> DEFINE All == MachineInv /\ LoopInv /\ HeartInv
<1>1. MainInit => All
  BY InitMachine, InitLoop, InitHeart DEF MainInit
<1>2. All /\ [MainNext]_<<vars, heart_vars>> => All'
  <2> SUFFICES ASSUME All, [MainNext]_<<vars, heart_vars>> PROVE All'
    OBVIOUS
  <2>1. [Next]_vars
    BY DEF MainNext, MainStep, MainOver, Next
  <2>2. MachineInv' /\ LoopInv'
    BY <2>1, StepMachine, StepLoop
  <2>3. CASE MainStep
    BY <2>2, <2>3, HeartStep
  <2>4. CASE UNCHANGED <<vars, heart_vars>>
    <3>1. HeartInv'
      BY <2>4 DEF vars, heart_vars, HeartInv, Going, Soon, HeadSoon, NextSoon, HeadIsSoon,
                  ReadySoon, ExSoon, ExeqSoon, ScSoon, ExecSoon, By, Budget, HeadThere, HeadNum,
                  HasNone, Num, Entry, NumAt
    <3> QED  BY <2>2, <3>1
  <2> QED  BY <2>3, <2>4 DEF MainNext, MainOver
<1>3. All => HealthyRunsGoOn
  BY DEF HeartInv, HealthyRunsGoOn
<1> QED  BY <1>1, <1>2, <1>3, PTL DEF MainSpec
=============================================================================
