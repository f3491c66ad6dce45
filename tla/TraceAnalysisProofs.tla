------------------------- MODULE TraceAnalysisProofs -------------------------
(***************************************************************************)
(* Lab 1 for every size of the records, the pipe, the trace and the writes *)
(* of gunzip: success is reported only of a trace that was counted whole,  *)
(* the separate counters agree on one trace, and, if gunzip writes whole   *)
(* records at a time, only a trace that is cut short is refused.           *)
(***************************************************************************)
EXTENDS TraceAnalysis, TracePipeProofs, FiniteSetTheorems

Analyzed == {t \in TraceRecords : t.optype \in OpTypes}

AnalysisTypeOK ==
    /\ pc \in {"open", "opened", "read_trace", "close", "wait", "exited"}
    /\ ret \in {0, 1}
    /\ verdict \in {"none", "end", "truncated", "invalid", "error"}
    /\ stat_num_inst \in Nat
    /\ stat_optype_dyn \in [OpTypes -> Nat]
    /\ stat_num_cycle \in Nat
    /\ trace \in Seq(Analyzed)

\* main's ends of the pipe, and its verdict, at each of its places.
PlacesInv ==
    /\ pc \in {"open", "opened", "read_trace"} => verdict = "none"
    /\ pc = "open" => child[0] = "none"
    /\ pc \in {"opened", "read_trace"} => child[0] # "none" /\ Main \in readers[0]
    /\ pc = "wait" => verdict = "end"

(***************************************************************************)
(* What was taken from the pipe is the records analyzed, until a verdict   *)
(* other than the end is passed.  The end is seen only when the child has  *)
(* exited and nothing is left, so that its status, when main asks for it,  *)
(* says whether it was gunzip.                                             *)
(***************************************************************************)
WholeInv ==
    /\ verdict \in {"none", "end"} => taken[0] = Len(trace) * REC
    /\ verdict = "end" =>
           /\ child[0] = "exited" /\ sent[0] = taken[0]
           /\ is_gunzip[0] \/ sent[0] = size[0]
    /\ pc = "exited" /\ ret = 0 => verdict = "end" /\ exit_status[0] # 127

UniqueInv == PC_unique = {trace[n].inst_addr : n \in 1 .. Len(trace)}

AnalysisInv ==
    PipeInv /\ AnalysisTypeOK /\ PlacesInv /\ WholeInv /\ StatisticsAgree /\ UniqueInv

-----------------------------------------------------------------------------
LEMMA NextRecord ==
    ASSUME NEW n \in Nat
    PROVE  n * REC \in Nat /\ (n + 1) * REC = n * REC + REC /\ 0 * REC = 0
BY AnalysisAssumption

LEMMA InitInv == Init => AnalysisInv
<1> SUFFICES ASSUME Init PROVE AnalysisInv
  OBVIOUS
<1>1. PipeInv
  BY PipeInitInv DEF Init
<1>2. child[0] = "none" /\ taken[0] = 0
  BY AnalysisAssumption DEF Init, PipeInit
<1>3. trace = <<>> /\ Len(trace) = 0 /\ 1 .. 0 = {}
  BY DEF Init
<1>4. \A t : Cardinality(Of(t)) = 0
  BY <1>3, FS_EmptySet DEF Of
<1>5. {trace[n].inst_addr : n \in 1 .. Len(trace)} = {}
  BY <1>3
<1>6. UniqueInv
  BY <1>5 DEF Init, UniqueInv
<1>7. StatisticsAgree
  <2>1. stat_unique_pc = Cardinality({trace[n].inst_addr : n \in 1 .. Len(trace)})
    BY <1>6 DEF UniqueInv, stat_unique_pc
  <2> QED  BY <1>3, <1>4, <2>1 DEF Init, StatisticsAgree
<1> QED
  BY <1>1, <1>2, <1>3, <1>6, <1>7, NextRecord
  DEF Init, AnalysisInv, AnalysisTypeOK, PlacesInv, WholeInv

\* One more record is one more of its type.
LEMMA OneMore ==
    ASSUME NEW t \in Analyzed, trace \in Seq(Analyzed), trace' = Append(trace, t), NEW type
    PROVE  /\ Cardinality(Of(type)) \in Nat
           /\ Cardinality(Of(type)') = Cardinality(Of(type)) + IF t.optype = type THEN 1 ELSE 0
<1> DEFINE n == Len(trace) + 1
<1>1. /\ Len(trace) \in Nat /\ Len(trace') = n
      /\ trace'[n] = t /\ \A m \in 1 .. Len(trace) : trace'[m] = trace[m]
  OBVIOUS
<1>2. IsFiniteSet(Of(type)) /\ n \notin Of(type)
  <2>1. IsFiniteSet(1 .. Len(trace))
    BY <1>1, FS_Interval
  <2> QED  BY <1>1, <2>1, FS_Subset DEF Of
<1>3. Cardinality(Of(type)) \in Nat
  BY <1>2, FS_CardinalityType
<1>4. Of(type)' = IF t.optype = type THEN Of(type) \cup {n} ELSE Of(type)
  <2>1. 1 .. Len(trace') = 1 .. Len(trace) \cup {n}
    BY <1>1
  <2>2. Of(type)' = {m \in 1 .. Len(trace) \cup {n} : trace'[m].optype = type}
    BY <2>1 DEF Of
  <2> QED  BY <1>1, <2>2 DEF Of
<1>5. Cardinality(Of(type) \cup {n}) = Cardinality(Of(type)) + 1
  BY <1>2, FS_AddElement
<1> QED  BY <1>3, <1>4, <1>5

LEMMA SameTraceSameStatistics ==
    ASSUME StatisticsAgree, UniqueInv,
           UNCHANGED <<stat_optype_dyn, stat_num_cycle, PC_unique, trace>>,
           pc' # "exited" => pc # "exited" /\ UNCHANGED stat_num_inst
    PROVE  StatisticsAgree' /\ UniqueInv'
BY DEF StatisticsAgree, UniqueInv, Of, stat_unique_pc

-----------------------------------------------------------------------------
(* Every action keeps the invariant. *)

LEMMA ReadRecordInv ==
    ASSUME AnalysisInv, ReadRecord
    PROVE  AnalysisInv'
<1>1. PICK t \in Analyzed :
          /\ stat_num_inst' = stat_num_inst + 1
          /\ analyze_trace_record(t)
          /\ trace' = Append(trace, t)
  BY DEF ReadRecord, Analyzed
<1>2. /\ Read(0, REC, REC) /\ pc = "read_trace"
      /\ UNCHANGED <<main_vars, child, child_vars, sent, writers, readers>>
  BY DEF ReadRecord, Read
<1>3. PipeInv' /\ taken'[0] = taken[0] + REC
  BY <1>2, ReadInv, AnalysisAssumption DEF AnalysisInv
<1>4. trace \in Seq(Analyzed) /\ Len(trace) \in Nat /\ Len(trace') = Len(trace) + 1
  BY <1>1 DEF AnalysisInv, AnalysisTypeOK
<1>5. t.optype \in OpTypes
  BY DEF Analyzed
<1>6. Cycles(t.optype) = 1 + (IF t.optype = "OP_LD" THEN 1 ELSE 0)
                           + (IF t.optype = "OP_ST" THEN 1 ELSE 0)
                           + 2 * (IF t.optype = "OP_CBR" THEN 1 ELSE 0)
  BY <1>5 DEF OpTypes, Cycles
<1>7. AnalysisTypeOK'
  <2>1. stat_optype_dyn' \in [OpTypes -> Nat]
    BY <1>1, <1>5 DEF analyze_trace_record, AnalysisInv, AnalysisTypeOK
  <2>2. stat_num_cycle' \in Nat
    BY <1>1, <1>6 DEF analyze_trace_record, AnalysisInv, AnalysisTypeOK
  <2>3. trace' \in Seq(Analyzed) /\ stat_num_inst' \in Nat
    BY <1>1 DEF AnalysisInv, AnalysisTypeOK
  <2> QED  BY <1>2, <2>1, <2>2, <2>3 DEF main_vars, AnalysisInv, AnalysisTypeOK
<1>8. PlacesInv'
  BY <1>2 DEF main_vars, AnalysisInv, PlacesInv
<1>9. WholeInv'
  BY <1>2, <1>3, <1>4, NextRecord DEF main_vars, AnalysisInv, PlacesInv, WholeInv
<1>10. UniqueInv'
  <2>1. 1 .. Len(trace') = 1 .. Len(trace) \cup {Len(trace) + 1}
    BY <1>4
  <2>2. trace'[Len(trace) + 1] = t /\ \A m \in 1 .. Len(trace) : trace'[m] = trace[m]
    BY <1>1, <1>4
  <2> QED
    BY <1>1, <2>1, <2>2 DEF analyze_trace_record, AnalysisInv, UniqueInv
<1>11. StatisticsAgree'
  <2>1. stat_num_inst' = Len(trace')
    BY <1>1, <1>2, <1>4 DEF AnalysisInv, StatisticsAgree
  <2>2. ASSUME NEW type \in OpTypes PROVE stat_optype_dyn'[type] = Cardinality(Of(type)')
    <3>1. stat_optype_dyn'[type] = stat_optype_dyn[type] + IF t.optype = type THEN 1 ELSE 0
      BY <1>1, <1>5 DEF analyze_trace_record, AnalysisInv, AnalysisTypeOK
    <3> QED  BY <1>1, <1>4, <3>1, OneMore DEF AnalysisInv, StatisticsAgree
  <2>3. stat_num_cycle' = Len(trace') + Cardinality(Of("OP_LD")') + Cardinality(Of("OP_ST")')
                                      + 2 * Cardinality(Of("OP_CBR")')
    <3>1. PICK ld, st, cbr \in Nat :
              /\ Cardinality(Of("OP_LD")) = ld
              /\ Cardinality(Of("OP_ST")) = st
              /\ Cardinality(Of("OP_CBR")) = cbr
      BY <1>1, <1>4, OneMore
    <3>2. /\ Cardinality(Of("OP_LD")') = ld + IF t.optype = "OP_LD" THEN 1 ELSE 0
          /\ Cardinality(Of("OP_ST")') = st + IF t.optype = "OP_ST" THEN 1 ELSE 0
          /\ Cardinality(Of("OP_CBR")') = cbr + IF t.optype = "OP_CBR" THEN 1 ELSE 0
      BY <1>1, <1>4, <3>1, OneMore
    <3>3. stat_num_cycle = Len(trace) + ld + st + 2 * cbr
      BY <3>1 DEF AnalysisInv, StatisticsAgree
    <3>4. stat_num_cycle' = stat_num_cycle + Cycles(t.optype)
      BY <1>1 DEF analyze_trace_record
    <3> QED  BY <1>4, <1>6, <3>2, <3>3, <3>4, SMTT(30)
  <2>4. stat_unique_pc' = Cardinality({trace'[n].inst_addr : n \in 1 .. Len(trace')})
    BY <1>10 DEF UniqueInv, stat_unique_pc
  <2> QED  BY <2>1, <2>2, <2>3, <2>4 DEF StatisticsAgree
<1> QED  BY <1>3, <1>7, <1>8, <1>9, <1>10, <1>11 DEF AnalysisInv

\* A read after which read_trace returns.
LEMMA ReturnsInv ==
    ASSUME AnalysisInv, NEW got \in -1 .. REC, NEW v \in {"end", "truncated", "invalid", "error"},
           v = "end" => got = 0,
           pc = "read_trace", Read(0, REC, got), ReadTraceReturns(v)
    PROVE  AnalysisInv'
<1>1. 0 \in Pipes /\ 0 # Main /\ REC \in Nat \ {0}
  BY AnalysisAssumption DEF Main
<1>2. PipeInv'
  <2>1. PipeInv /\ REC \in Nat /\ got \in Int
    BY <1>1 DEF AnalysisInv
  <2> QED  BY <1>1, <2>1, ReadInv
<1>3. v = "end" => taken' = taken /\ sent[0] = taken[0] /\ writers[0] = {}
  BY <1>1, ReadInv DEF AnalysisInv
<1>4. UNCHANGED <<child, child_vars, sent, writers, readers, ret, stat_vars>>
  BY DEF Read, ReadTraceReturns
<1>5. v = "end" => child[0] = "exited" /\ (is_gunzip[0] \/ sent[0] = size[0])
  BY <1>1, <1>3 DEF AnalysisInv, PlacesInv, PipeInv, PipeTypeOK, ChildInv
<1>6. AnalysisTypeOK' /\ PlacesInv' /\ WholeInv'
  BY <1>3, <1>4, <1>5 DEF ReadTraceReturns, stat_vars, child_vars, AnalysisInv, AnalysisTypeOK,
     PlacesInv, WholeInv
<1>7. StatisticsAgree' /\ UniqueInv'
  BY <1>4, SameTraceSameStatistics DEF stat_vars, AnalysisInv
<1> QED  BY <1>2, <1>6, <1>7 DEF AnalysisInv

LEMMA ReadStopsInv ==
    ASSUME AnalysisInv, ReadEnd \/ ReadError \/ ReadShort \/ ReadInvalid
    PROVE  AnalysisInv'
<1>1. REC \in -1 .. REC /\ 0 \in -1 .. REC /\ -1 \in -1 .. REC /\ 1 .. REC - 1 \subseteq -1 .. REC
  BY AnalysisAssumption
<1> QED  BY <1>1, ReturnsInv DEF ReadEnd, ReadError, ReadShort, ReadInvalid

LEMMA OpenInv ==
    ASSUME AnalysisInv, Open \/ Opened
    PROVE  AnalysisInv'
<1>1. 0 \in Pipes /\ 0 # Main
  BY AnalysisAssumption DEF Main
<1>2. PipeInv'
  BY <1>1, ForkInv, CloseInv DEF Open, Opened, AnalysisInv, pipe_vars, child_vars, PipeInv,
     PipeTypeOK, ChildInv
<1>3. StatisticsAgree' /\ UniqueInv'
  BY SameTraceSameStatistics DEF Open, Opened, stat_vars, AnalysisInv
<1>4. CASE Opened
  BY <1>2, <1>3, <1>4 DEF Opened, CloseWriteEnd, child_vars, stat_vars, AnalysisInv,
     AnalysisTypeOK, PlacesInv, WholeInv
<1>5. CASE Open
  BY <1>1, <1>2, <1>3, <1>5 DEF Open, Return, Fork, pipe_vars, child_vars, stat_vars,
     AnalysisInv, AnalysisTypeOK, PlacesInv, WholeInv, PipeInv, PipeTypeOK
<1> QED  BY <1>4, <1>5

LEMMA CloseInvStep ==
    ASSUME AnalysisInv, Close
    PROVE  AnalysisInv'
<1>1. PipeInv'
  BY AnalysisAssumption, CloseInv DEF Close, AnalysisInv
<1>2. StatisticsAgree' /\ UniqueInv'
  BY SameTraceSameStatistics DEF Close, AfterClose, stat_vars, AnalysisInv
<1> QED
  BY <1>1, <1>2 DEF Close, AfterClose, Return, CloseReadEnd, child_vars, stat_vars,
     AnalysisInv, AnalysisTypeOK, PlacesInv, WholeInv

LEMMA WaitInv ==
    ASSUME AnalysisInv, Wait
    PROVE  AnalysisInv'
<1>1. PipeInv'
  BY DEF Wait, AnalysisInv, pipe_vars, child_vars, PipeInv, PipeTypeOK, ChildInv
<1>2. StatisticsAgree' /\ UniqueInv'
  BY SameTraceSameStatistics DEF Wait, Return, AnalysisInv
<1> QED
  BY <1>1, <1>2 DEF Wait, Waited, Return, pipe_vars, child_vars, AnalysisInv, AnalysisTypeOK,
     PlacesInv, WholeInv

LEMMA ChildInvStep ==
    ASSUME AnalysisInv, ChildStep
    PROVE  AnalysisInv'
<1>1. 0 \in Pipes /\ 0 # Main
  BY AnalysisAssumption DEF Main
<1>2. /\ PipeInv' /\ UNCHANGED taken
      /\ 0 \in writers[0] /\ child[0] # "none" /\ child'[0] \in {"running", "exited"}
      /\ Main \in readers'[0] <=> Main \in readers[0]
  BY <1>1, ChildStepInv DEF AnalysisInv, ChildStep
<1>3. child[0] # "exited"
  BY <1>1, <1>2 DEF AnalysisInv, PipeInv, ChildInv
<1>4. UNCHANGED <<main_vars, stat_vars>>
  BY DEF ChildStep
<1>5. StatisticsAgree' /\ UniqueInv'
  BY <1>4, SameTraceSameStatistics DEF main_vars, stat_vars, AnalysisInv
<1> QED
  BY <1>2, <1>3, <1>4, <1>5 DEF main_vars, stat_vars, AnalysisInv, AnalysisTypeOK, PlacesInv,
     WholeInv

LEMMA StepInv == AnalysisInv /\ [Next]_vars => AnalysisInv'
<1> SUFFICES ASSUME AnalysisInv, [Next]_vars PROVE AnalysisInv'
  OBVIOUS
<1>1. CASE UNCHANGED vars
  <2>1. StatisticsAgree' /\ UniqueInv'
    BY <1>1, SameTraceSameStatistics DEF vars, main_vars, stat_vars, AnalysisInv
  <2> QED
    BY <1>1, <2>1 DEF vars, pipe_vars, child_vars, main_vars, stat_vars, AnalysisInv,
       AnalysisTypeOK, PlacesInv, WholeInv, PipeInv, PipeTypeOK, ChildInv
<1> QED
  BY <1>1, OpenInv, ReadRecordInv, ReadStopsInv, CloseInvStep, WaitInv, ChildInvStep
     DEF Next, MainStep, MainRuns

LEMMA InvHolds == Spec => []AnalysisInv
<1>1. Init => AnalysisInv
  BY InitInv
<1>2. AnalysisInv /\ [Next]_vars => AnalysisInv'
  BY StepInv
<1> QED  BY <1>1, <1>2, PTL DEF Spec

-----------------------------------------------------------------------------
(***************************************************************************)
(* Statistics are printed with success only if gunzip ran and every byte   *)
(* that it wrote is in a record that was counted.                          *)
(***************************************************************************)
THEOREM SuccessMeansWholeHolds == Spec => []SuccessMeansWhole
<1>1. AnalysisInv => SuccessMeansWhole
  BY AnalysisAssumption DEF SuccessMeansWhole, AnalysisInv, WholeInv, PipeInv, ChildInv
<1> QED  BY <1>1, InvHolds, PTL

\* The counters, kept up by separate statements, are the statistics of one and the same trace.
THEOREM StatisticsAgreeHolds == Spec => []StatisticsAgree
<1>1. AnalysisInv => StatisticsAgree
  BY DEF AnalysisInv
<1> QED  BY <1>1, InvHolds, PTL

-----------------------------------------------------------------------------
(* Which traces are refused, if gunzip writes whole records at a time. *)

WritesRecords == \A b \in Blocks : b % REC = 0

Multiple(n) == \E k \in Nat : n = k * REC

(***************************************************************************)
(* gunzip has always written whole records, or all of the trace; what a    *)
(* short read finds in the pipe is then the end of a trace that is cut.    *)
(***************************************************************************)
CutInv ==
    /\ is_gunzip[0] => sent[0] = size[0] \/ Multiple(sent[0])
    /\ verdict = "truncated" => child[0] \in {"running", "exited"}
    /\ RefusedOnlyIfInvalid

LEMMA Multiples ==
    /\ Multiple(0)
    /\ \A a, b \in Nat : Multiple(a) /\ Multiple(b) => Multiple(a + b)
    /\ \A n \in Nat : n % REC = 0 => Multiple(n)
<1> USE AnalysisAssumption
<1>1. Multiple(0)
  BY 0 * REC = 0 DEF Multiple
<1>2. ASSUME NEW a \in Nat, NEW b \in Nat, Multiple(a), Multiple(b) PROVE Multiple(a + b)
  <2>1. PICK j \in Nat, k \in Nat : a = j * REC /\ b = k * REC
    BY <1>2 DEF Multiple
  <2>2. a + b = (j + k) * REC /\ j + k \in Nat
    BY <2>1
  <2> QED  BY <2>2 DEF Multiple
<1>3. ASSUME NEW n \in Nat, n % REC = 0 PROVE Multiple(n)
  <2>1. n \div REC \in Nat /\ n = (n \div REC) * REC
    BY <1>3
  <2> QED  BY <2>1 DEF Multiple
<1> QED  BY <1>1, <1>2, <1>3

\* Nothing between two multiples is one.
LEMMA NoMultiple ==
    ASSUME NEW n \in Nat, NEW got \in 1 .. REC - 1
    PROVE  ~ Multiple(n * REC + got)
<1> SUFFICES ASSUME NEW k \in Nat, n * REC + got = k * REC PROVE FALSE
  BY DEF Multiple
<1> USE AnalysisAssumption
<1>1. CASE k <= n
  <2>1. k * REC <= n * REC /\ k * REC \in Nat /\ n * REC \in Nat
    BY <1>1
  <2> QED  BY <2>1
<1>2. CASE k >= n + 1
  <2>1. k * REC >= (n + 1) * REC /\ (n + 1) * REC = n * REC + REC
    BY <1>2
  <2>2. k * REC \in Nat /\ n * REC \in Nat
    OBVIOUS
  <2> QED  BY <2>1, <2>2
<1> QED  BY <1>1, <1>2

LEMMA CutInit == Init => CutInv
BY AnalysisAssumption DEF Init, PipeInit, CutInv, RefusedOnlyIfInvalid

LEMMA ShortReadIsTheCut ==
    ASSUME AnalysisInv, CutInv, ReadShort
    PROVE  CutInv'
<1>1. PICK got \in 1 .. REC - 1 : Read(0, REC, got)
  BY DEF ReadShort
<1>2. /\ pc = "read_trace" /\ verdict' = "truncated"
      /\ UNCHANGED <<child, child_vars, sent>>
  BY <1>1 DEF ReadShort, Read, ReadTraceReturns
<1>3. /\ REC \in Nat \ {0} /\ 0 \in Pipes /\ 0 # Main /\ Len(trace) \in Nat
      /\ sent[0] \in Nat /\ taken[0] \in Nat /\ size[0] \in Nat /\ taken[0] <= sent[0]
  BY AnalysisAssumption DEF Main, AnalysisInv, AnalysisTypeOK, PipeInv, PipeTypeOK, ChildInv
<1>4. sent[0] = Len(trace) * REC + got
  <2>1. sent[0] - taken[0] = got
    BY <1>1, <1>3 DEF Read, Held, Least
  <2>2. taken[0] = Len(trace) * REC
    BY <1>2 DEF AnalysisInv, PlacesInv, WholeInv
  <2> QED  BY <1>3, <2>1, <2>2
<1>5. sent[0] > 0
  BY <1>3, <1>4
<1>6. child[0] \in {"running", "exited"}
  BY <1>2, <1>3, <1>5 DEF AnalysisInv, PlacesInv, PipeInv, PipeTypeOK, ChildInv
<1>7. is_gunzip[0] => size[0] % REC # 0
  <2> SUFFICES ASSUME is_gunzip[0], size[0] % REC = 0 PROVE FALSE
    OBVIOUS
  <2>1. Multiple(sent[0])
    BY <1>3, Multiples DEF CutInv
  <2> QED  BY <1>3, <1>4, <2>1, NoMultiple
<1> QED  BY <1>2, <1>6, <1>7 DEF child_vars, CutInv, RefusedOnlyIfInvalid

LEMMA ChildKeepsCut ==
    ASSUME WritesRecords, AnalysisInv, CutInv, ChildStep
    PROVE  CutInv'
<1>1. 0 \in Pipes /\ 0 # Main
  BY AnalysisAssumption DEF Main
<1>2. /\ child[0] # "none" /\ child'[0] \in {"running", "exited"}
      /\ child[0] # "forked" => is_gunzip' = is_gunzip /\ size' = size
  BY <1>1, ChildStepInv DEF AnalysisInv, ChildStep
<1>3. verdict' = verdict /\ verdict = "truncated" => child[0] # "forked"
  BY DEF ChildStep, main_vars, CutInv
<1>4. sent[0] \in Nat /\ size[0] \in Nat
  BY <1>1 DEF AnalysisInv, PipeInv, PipeTypeOK
<1>5. is_gunzip'[0] => sent'[0] = size'[0] \/ Multiple(sent'[0])
  <2>1. CASE Write(0)
    <3>1. PICK b \in Blocks :
              sent' = [sent EXCEPT ![0] = @ + IF is_gunzip[0] THEN Least(b, size[0] - sent[0])
                                              ELSE size[0]]
      BY <2>1 DEF Write
    <3>2. /\ is_gunzip' = is_gunzip /\ size' = size /\ sent[0] < size[0]
          /\ b \in Nat /\ b % REC = 0
      BY <2>1, SizesAreNumbers DEF Write, child_vars, WritesRecords
    <3>3. sent'[0] = sent[0] + IF is_gunzip[0] THEN Least(b, size[0] - sent[0]) ELSE size[0]
      BY <1>1, <3>1 DEF AnalysisInv, PipeInv, PipeTypeOK
    <3>4. is_gunzip[0] => sent'[0] = size[0] \/ sent'[0] = sent[0] + b
      BY <1>4, <3>2, <3>3 DEF Least
    <3>5. is_gunzip[0] => Multiple(sent[0] + b)
      BY <1>4, <3>2, Multiples DEF CutInv
    <3> QED  BY <3>2, <3>4, <3>5
  <2>2. CASE Exec(0)
    <3>1. sent'[0] = 0
      BY <1>1, <2>2 DEF Exec, AnalysisInv, PipeInv, ChildInv
    <3> QED  BY <3>1, Multiples
  <2>3. CASE Exits(0) \/ GivesUp(0) \/ Killed(0)
    BY <2>3 DEF Exits, GivesUp, Killed, Ends, CutInv
  <2> QED  BY <2>1, <2>2, <2>3 DEF ChildStep, Child, Runs
<1> QED
  BY <1>2, <1>3, <1>5 DEF ChildStep, main_vars, CutInv, RefusedOnlyIfInvalid

LEMMA StepCutInv == WritesRecords /\ AnalysisInv /\ CutInv /\ [Next]_vars => CutInv'
<1> SUFFICES ASSUME WritesRecords, AnalysisInv, CutInv, [Next]_vars PROVE CutInv'
  OBVIOUS
<1>1. CASE Open
  BY <1>1, AnalysisAssumption DEF Open, Return, Fork, pipe_vars, child_vars, AnalysisInv,
     PlacesInv, CutInv, RefusedOnlyIfInvalid
<1>2. CASE Opened \/ Close
  BY <1>2 DEF Opened, CloseWriteEnd, Close, CloseReadEnd, child_vars, CutInv,
     RefusedOnlyIfInvalid
<1>3. CASE ReadRecord \/ ReadEnd \/ ReadError \/ ReadInvalid
  BY <1>3 DEF ReadRecord, ReadEnd, ReadError, ReadInvalid, Read, ReadTraceReturns, main_vars,
     child_vars, CutInv, RefusedOnlyIfInvalid
<1>4. CASE Wait \/ UNCHANGED vars
  BY <1>4 DEF Wait, vars, main_vars, pipe_vars, child_vars, CutInv, RefusedOnlyIfInvalid
<1> QED
  BY <1>1, <1>2, <1>3, <1>4, ShortReadIsTheCut, ChildKeepsCut DEF Next, MainStep, MainRuns

(***************************************************************************)
(* If gunzip writes whole records at a time, as it must for read_trace not *)
(* to refuse a good trace, then a trace is said to be truncated only if it *)
(* is not a whole number of records.                                       *)
(***************************************************************************)
THEOREM RefusedOnlyIfInvalidHolds == WritesRecords => (Spec => []RefusedOnlyIfInvalid)
<1> SUFFICES ASSUME WritesRecords PROVE Spec => []RefusedOnlyIfInvalid
  OBVIOUS
<1>1. Init => CutInv
  BY CutInit
<1>2. AnalysisInv /\ CutInv /\ [Next]_vars => CutInv'
  BY StepCutInv
<1>3. CutInv => RefusedOnlyIfInvalid
  BY DEF CutInv
<1> QED  BY <1>1, <1>2, <1>3, InvHolds, PTL DEF Spec

=============================================================================
