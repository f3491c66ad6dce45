------------------------- MODULE RecordReaderProofs -------------------------
(***************************************************************************)
(* The readers of Labs 2 and 3 keep the promises of RecordStream, and main *)
(* reports success only after a run, whatever the sizes of the records,    *)
(* the pipe, the trace and the writes of gunzip.                           *)
(***************************************************************************)
EXTENDS RecordReader, TracePipeProofs

ReaderTypeOK ==
    /\ pc \in {"open", "opened", "cycle", "read", "close", "wait", "exited"}
    /\ ret \in {0, 1}
    /\ trace_rec \in Seq(Nat)
    /\ last_inst_num \in Nat
    /\ verdict \in {"none", "end", "truncated", "invalid", "error"}

\* main's ends of the pipe, at each of its places.
PlacesInv ==
    /\ pc = "open" => child[0] = "none"
    /\ pc \in {"opened", "cycle", "read", "close", "wait"} => child[0] # "none"
    /\ pc = "opened" => Main \in writers[0]
    /\ pc \in {"opened", "cycle", "read", "close"} => Main \in readers[0]

(***************************************************************************)
(* As long as no record has been refused, what was taken from the pipe is  *)
(* the records delivered and the part of the next that is in trace_rec.    *)
(***************************************************************************)
TakenInv ==
    /\ pc \in {"open", "opened"} => verdict = "none" /\ last_inst_num = 0 /\ taken[0] = 0
    /\ pc = "read" => Len(trace_rec) < REC
    /\ verdict = "none" /\ pc = "read" =>
           /\ taken[0] = last_inst_num * REC + Len(trace_rec)
           /\ trace_rec = [i \in 1 .. Len(trace_rec) |-> last_inst_num * REC + i]
    /\ verdict = "none" /\ pc # "read" => taken[0] = last_inst_num * REC

(***************************************************************************)
(* A verdict other than an error is passed only on what a child has        *)
(* written, all of it if it is not gunzip, so that main, when it goes on   *)
(* to wait, finds the status of a child that could not exec.  A record     *)
(* that counts is gunzip's; so an EXEQ that is full holds gunzip's.        *)
(***************************************************************************)
StatusInv ==
    /\ verdict \notin {"none", "error"} =>
           child[0] \in {"running", "exited"} /\ (is_gunzip[0] \/ sent[0] = size[0])
    /\ last_inst_num > 0 => is_gunzip[0] /\ child[0] \in {"running", "exited"}
    /\ exe_halt => last_inst_num > MAX_EXEQ_ENTRIES
    /\ pc \in {"close", "wait", "exited"} /\ ret = 0 => verdict # "none" \/ exe_halt
    /\ pc = "exited" /\ ret = 0 => child[0] = "exited" /\ exit_status[0] # 127
    /\ pc = "exited" => child[0] \in {"none", "exited"}

ReaderInv == PipeInv /\ ReaderTypeOK /\ PlacesInv /\ TakenInv /\ StatusInv

LEMMA NextRecord ==
    ASSUME NEW n \in Nat
    PROVE  n * REC \in Nat /\ (n + 1) * REC = n * REC + REC /\ 0 * REC = 0
BY ReaderAssumption

LEMMA InitInv == Init => ReaderInv
<1> SUFFICES ASSUME Init PROVE ReaderInv
  OBVIOUS
<1>1. PipeInv
  BY PipeInitInv DEF Init
<1>2. child[0] = "none" /\ taken[0] = 0
  BY ReaderAssumption DEF Init, PipeInit
<1> QED
  BY <1>1, <1>2, NextRecord DEF Init, ReaderInv, ReaderTypeOK, PlacesInv, TakenInv, StatusInv

-----------------------------------------------------------------------------
(* Every action keeps it. *)

LEMMA OpenInv ==
    ASSUME ReaderInv, Open
    PROVE  ReaderInv'
<1> USE DEF Open, Return, reader_vars
<1>1. 0 \in Pipes /\ 0 # Main
  BY ReaderAssumption DEF Main
<1>2. PipeInv'
  BY <1>1, ForkInv DEF ReaderInv, pipe_vars, child_vars, PipeInv, PipeTypeOK, ChildInv
<1>3. CASE Fork(0) /\ pc' = "opened" /\ UNCHANGED ret
  BY <1>1, <1>2, <1>3 DEF ReaderInv, ReaderTypeOK, PlacesInv, TakenInv, StatusInv, Fork,
     PipeInv, PipeTypeOK
<1>4. CASE Return(1) /\ UNCHANGED pipe_vars
  BY <1>2, <1>4 DEF ReaderInv, ReaderTypeOK, PlacesInv, TakenInv, StatusInv, pipe_vars
<1> QED  BY <1>3, <1>4

LEMMA OpenedInv ==
    ASSUME ReaderInv, Opened
    PROVE  ReaderInv'
<1>1. PipeInv'
  BY ReaderAssumption, CloseInv DEF ReaderInv, Opened
<1> QED
  BY <1>1, NextRecord DEF Opened, reader_vars, ReaderInv, ReaderTypeOK, PlacesInv, TakenInv,
     StatusInv, CloseWriteEnd, child_vars

LEMMA FetchInv ==
    ASSUME ReaderInv, Fetch
    PROVE  ReaderInv'
<1>1. PipeInv'
  BY DEF ReaderInv, Fetch, pipe_vars, child_vars, PipeInv, PipeTypeOK, ChildInv
<1>2. Len(<<>>) = 0 /\ <<>> \in Seq(Nat) /\ REC > 0
  BY ReaderAssumption
<1>3. trace_rec' = [i \in 1 .. Len(trace_rec') |-> last_inst_num' * REC + i]
  BY <1>2 DEF Fetch
<1> QED
  BY <1>1, <1>2, <1>3, NextRecord DEF Fetch, ReaderInv, ReaderTypeOK, PlacesInv, TakenInv,
     StatusInv, pipe_vars, child_vars

LEMMA SeqIsFunction ==
    ASSUME NEW s \in Seq(Nat)
    PROVE  s = [i \in 1 .. Len(s) |-> s[i]]
OBVIOUS

\* What one read adds to the record.
LEMMA BytesOfARead ==
    ASSUME ReaderInv, pc = "read", NEW got \in 1 .. bytes_left, Read(0, bytes_left, got)
    PROVE  /\ PipeInv'
           /\ bytes_left \in Nat
           /\ sent' = sent /\ UNCHANGED <<child, child_vars, writers, readers>>
           /\ taken'[0] = taken[0] + got /\ taken[0] + got <= sent[0]
           /\ trace_rec \o BytesRead(0, got) \in Seq(Nat)
           /\ Len(trace_rec \o BytesRead(0, got)) = Len(trace_rec) + got
           /\ verdict = "none" =>
                  trace_rec \o BytesRead(0, got)
                      = [i \in 1 .. Len(trace_rec) + got |-> last_inst_num * REC + i]
<1>1. bytes_left \in Nat /\ got \in Nat \ {0} /\ Len(trace_rec) \in Nat
  BY ReaderAssumption DEF bytes_left, ReaderInv, ReaderTypeOK, TakenInv
<1>2. 0 \in Pipes /\ taken[0] \in Nat
  BY ReaderAssumption DEF ReaderInv, PipeInv, PipeTypeOK
<1>3. PipeInv' /\ taken'[0] = taken[0] + got /\ taken[0] + got <= sent[0]
  BY <1>1, <1>2, ReadInv DEF ReaderInv
<1>4. BytesRead(0, got) \in Seq(Nat) /\ Len(BytesRead(0, got)) = got
  BY <1>1, <1>2 DEF BytesRead
<1>5. /\ trace_rec \o BytesRead(0, got) \in Seq(Nat)
      /\ Len(trace_rec \o BytesRead(0, got)) = Len(trace_rec) + got
  BY <1>1, <1>4 DEF ReaderInv, ReaderTypeOK
<1>6. ASSUME verdict = "none", NEW i \in 1 .. Len(trace_rec) + got
      PROVE  (trace_rec \o BytesRead(0, got))[i] = last_inst_num * REC + i
  <2> DEFINE base == last_inst_num * REC
  <2>1. base \in Nat /\ taken[0] = base + Len(trace_rec)
    BY <1>6, NextRecord DEF ReaderInv, ReaderTypeOK, TakenInv
  <2>2. CASE i <= Len(trace_rec)
    BY <1>1, <1>4, <1>6, <2>2 DEF ReaderInv, ReaderTypeOK, TakenInv
  <2>3. CASE i > Len(trace_rec)
    <3>1. (trace_rec \o BytesRead(0, got))[i] = BytesRead(0, got)[i - Len(trace_rec)]
      BY <1>1, <1>4, <2>3 DEF ReaderInv, ReaderTypeOK
    <3>2. BytesRead(0, got)[i - Len(trace_rec)] = taken[0] + (i - Len(trace_rec))
      BY <1>1, <2>3 DEF BytesRead
    <3> HIDE DEF base
    <3>3. taken[0] + (i - Len(trace_rec)) = base + i
      BY <1>1, <2>1
    <3> QED  BY <3>1, <3>2, <3>3 DEF base
  <2>4. i <= Len(trace_rec) \/ i > Len(trace_rec)
    BY <1>1
  <2> QED  BY <2>2, <2>3, <2>4
<1>7. trace_rec \o BytesRead(0, got)
          = [i \in 1 .. Len(trace_rec) + got |-> (trace_rec \o BytesRead(0, got))[i]]
  BY <1>5, SeqIsFunction
<1>8. verdict = "none" => [i \in 1 .. Len(trace_rec) + got |-> (trace_rec \o BytesRead(0, got))[i]]
                              = [i \in 1 .. Len(trace_rec) + got |-> last_inst_num * REC + i]
  BY <1>6
<1> QED  BY <1>1, <1>3, <1>5, <1>7, <1>8 DEF Read

LEMMA ReadSomeInv ==
    ASSUME ReaderInv, ReadSome
    PROVE  ReaderInv'
<1>1. PICK got \in 1 .. bytes_left :
          LET bytes == trace_rec \o BytesRead(0, got) IN
          /\ Read(0, bytes_left, got)
          /\ trace_rec' = bytes
          /\ IF got < bytes_left
             THEN pc' = "read" /\ UNCHANGED <<inst, last_inst_num, verdict>>
             ELSE Collected(bytes)
  BY DEF ReadSome
<1> DEFINE bytes == trace_rec \o BytesRead(0, got)
<1>2. pc = "read" /\ UNCHANGED ret
  BY DEF ReadSome
<1>3. /\ PipeInv' /\ bytes_left \in Nat
      /\ sent' = sent /\ UNCHANGED <<child, child_vars, writers, readers>>
      /\ taken'[0] = taken[0] + got /\ taken[0] + got <= sent[0]
      /\ bytes \in Seq(Nat) /\ Len(bytes) = Len(trace_rec) + got
      /\ verdict = "none" => bytes = [i \in 1 .. Len(trace_rec) + got |-> last_inst_num * REC + i]
  BY <1>1, <1>2, BytesOfARead
<1>4. Len(trace_rec) \in Nat /\ last_inst_num \in Nat /\ taken[0] \in Nat /\ sent[0] \in Nat
  BY ReaderAssumption DEF ReaderInv, ReaderTypeOK, PipeInv, PipeTypeOK
<1>5. PICK base \in Nat : base = last_inst_num * REC /\ (last_inst_num + 1) * REC = base + REC
  BY <1>4, NextRecord
<1>6. /\ trace_rec' = bytes /\ pc' \in {"read", "cycle"} /\ last_inst_num' \in Nat
      /\ verdict' = verdict \/ verdict' \in {"end", "truncated", "invalid", "error"}
  BY <1>1, <1>4 DEF Collected, Count, Invalid, ReaderInv, ReaderTypeOK
<1>7. ReaderTypeOK' /\ PlacesInv'
  BY <1>2, <1>3, <1>6 DEF ReaderInv, ReaderTypeOK, PlacesInv
<1>8. TakenInv'
  <2>1. verdict = "none" => taken[0] = base + Len(trace_rec)
    BY <1>2, <1>5 DEF ReaderInv, TakenInv
  <2>2. CASE got < bytes_left
    <3>1. pc' = "read" /\ UNCHANGED <<last_inst_num, verdict>>
      BY <1>1, <2>2
    <3>2. Len(trace_rec') = Len(trace_rec) + got /\ Len(trace_rec') < REC
      BY <1>3, <1>4, <1>6, <2>2, ReaderAssumption DEF bytes_left
    <3>3. verdict = "none" => taken'[0] = base + Len(trace_rec')
      BY <1>3, <1>4, <1>5, <2>1, <3>2
    <3> QED  BY <1>3, <1>5, <1>6, <3>1, <3>2, <3>3 DEF TakenInv
  <2>3. CASE ~ got < bytes_left
    <3>1. got = REC - Len(trace_rec)
      BY <1>3, <2>3 DEF bytes_left
    <3>2. Collected(bytes)
      BY <1>1, <2>3
    <3>3. verdict = "none" => taken'[0] = base + REC
      BY <1>3, <1>4, <1>5, <2>1, <3>1, ReaderAssumption
    <3>4. verdict' = "none" => verdict = "none" /\ last_inst_num' = last_inst_num + 1
      BY <3>2 DEF Collected, Count, Invalid
    <3> QED  BY <1>5, <3>2, <3>3, <3>4 DEF TakenInv, Collected
  <2> QED  BY <2>2, <2>3
<1>9. StatusInv'
  <2>1. sent[0] > 0 /\ 0 \in Pipes /\ got \in Nat \ {0}
    BY <1>1, <1>3, <1>4, ReaderAssumption
  <2>2. child[0] \in {"running", "exited"} /\ (is_gunzip[0] \/ sent[0] = size[0])
    BY <1>2, <2>1 DEF ReaderInv, PlacesInv, PipeInv, PipeTypeOK, ChildInv
  <2>3. /\ exe_halt' = exe_halt
        /\ \/ last_inst_num' = last_inst_num
           \/ is_gunzip[0] /\ last_inst_num' = last_inst_num + 1
    BY <1>1 DEF ReadSome, Collected, Count, Invalid
  <2>4. last_inst_num' > 0 => is_gunzip[0]
    BY <1>4, <2>3 DEF ReaderInv, StatusInv
  <2>5. exe_halt' => last_inst_num' > MAX_EXEQ_ENTRIES
    BY <1>4, <2>3, ReaderAssumption DEF ReaderInv, StatusInv
  <2> QED
    BY <1>2, <1>3, <1>6, <2>2, <2>4, <2>5 DEF StatusInv, child_vars
<1> QED  BY <1>3, <1>7, <1>8, <1>9 DEF ReaderInv

LEMMA ReadNoneInv ==
    ASSUME ReaderInv, NEW got \in {0, -1},
           NEW v \in {"end", "truncated", "error"}, got = 0 \/ v = "error", ReadNone(got, v)
    PROVE  ReaderInv'
<1>1. 0 \in Pipes /\ 0 # Main /\ bytes_left \in Nat \ {0}
  BY ReaderAssumption DEF Main, ReadNone, ReaderInv, ReaderTypeOK, TakenInv, bytes_left
<1>2. PipeInv' /\ taken' = taken
  BY <1>1, ReadInv DEF ReaderInv, ReadNone
<1>3. got = 0 => writers[0] = {}
  BY <1>1, ReadInv DEF ReaderInv, ReadNone
<1>4. got = 0 => child[0] = "exited" /\ (is_gunzip[0] \/ sent[0] = size[0])
  BY <1>1, <1>3 DEF ReadNone, ReaderInv, PlacesInv, PipeInv, PipeTypeOK, ChildInv
<1>5. UNCHANGED <<child, child_vars, sent, writers, readers>>
  BY DEF ReadNone, Read
<1>6. /\ pc = "read" /\ pc' = "cycle" /\ UNCHANGED <<ret, trace_rec, inst, last_inst_num>>
      /\ verdict' = IF verdict = "none" THEN v ELSE verdict
  BY DEF ReadNone, Invalid
<1>7. exe_halt' = exe_halt
  BY DEF ReadNone
<1>8. ReaderTypeOK' /\ PlacesInv' /\ TakenInv'
  BY <1>2, <1>5, <1>6 DEF ReaderInv, ReaderTypeOK, PlacesInv, TakenInv
<1>9. StatusInv'
  BY <1>4, <1>5, <1>6, <1>7 DEF ReaderInv, StatusInv, child_vars
<1> QED  BY <1>2, <1>8, <1>9 DEF ReaderInv

LEMMA LoopEndsInv ==
    ASSUME ReaderInv, LoopEnds \/ Close
    PROVE  ReaderInv'
<1>1. PipeInv'
  BY ReaderAssumption, CloseInv DEF ReaderInv, LoopEnds, Close, pipe_vars, child_vars, PipeInv,
     PipeTypeOK, ChildInv
<1> QED
  BY <1>1 DEF LoopEnds, MayHalt, Close, CloseReadEnd, reader_vars, pipe_vars, child_vars, ReaderInv,
     ReaderTypeOK, PlacesInv, TakenInv, StatusInv

LEMMA ExeFullInv ==
    ASSUME ReaderInv, ExeFull
    PROVE  ReaderInv'
<1>1. PipeInv'
  BY DEF ReaderInv, ExeFull, pipe_vars, child_vars, PipeInv, PipeTypeOK, ChildInv
<1> QED
  BY <1>1 DEF ExeFull, pipe_vars, child_vars, ReaderInv, ReaderTypeOK, PlacesInv, TakenInv,
     StatusInv

LEMMA WaitInv ==
    ASSUME ReaderInv, Wait
    PROVE  ReaderInv'
<1>1. PipeInv'
  BY DEF ReaderInv, Wait, pipe_vars, child_vars, PipeInv, PipeTypeOK, ChildInv
<1> QED
  BY <1>1 DEF Wait, Waited, Return, reader_vars, pipe_vars, child_vars, ReaderInv,
     ReaderTypeOK, PlacesInv, TakenInv, StatusInv

LEMMA ChildInvStep ==
    ASSUME ReaderInv, ChildStep
    PROVE  ReaderInv'
<1>1. 0 \in Pipes /\ 0 # Main
  BY ReaderAssumption DEF Main
<1>2. /\ PipeInv' /\ UNCHANGED taken
      /\ 0 \in writers[0] /\ child[0] # "none" /\ child'[0] \in {"running", "exited"}
      /\ Main \in readers'[0] <=> Main \in readers[0]
      /\ child[0] # "forked" => is_gunzip' = is_gunzip /\ size' = size
      /\ sent'[0] >= sent[0]
  BY <1>1, ChildStepInv DEF ReaderInv, ChildStep
<1>3. child[0] \in {"forked", "running"}
  BY <1>1, <1>2 DEF ReaderInv, PipeInv, ChildInv
<1>4. Main \in writers'[0] <=> Main \in writers[0]
  BY <1>1 DEF ChildStep, Child, Runs, Exec, Write, Exits, GivesUp, Killed, Ends, ReaderInv,
     PipeInv, PipeTypeOK
<1>5. UNCHANGED main_vars
  BY DEF ChildStep
<1>6. sent[0] = size[0] /\ size' = size => sent'[0] = size'[0]
  BY <1>1, <1>2 DEF ReaderInv, PipeInv, PipeTypeOK, ChildInv
<1> QED
  BY <1>2, <1>3, <1>4, <1>5, <1>6 DEF main_vars, ReaderInv, ReaderTypeOK, PlacesInv, TakenInv,
     StatusInv

LEMMA StepReaderInv == ReaderInv /\ [Next]_vars => ReaderInv'
<1> SUFFICES ASSUME ReaderInv, [Next]_vars PROVE ReaderInv'
  OBVIOUS
<1>1. CASE UNCHANGED vars
  BY <1>1 DEF vars, pipe_vars, child_vars, main_vars, ReaderInv, ReaderTypeOK, PlacesInv,
     TakenInv, StatusInv, PipeInv, PipeTypeOK, ChildInv
<1>2. CASE ReadEnd
  BY <1>2, ReadNoneInv DEF ReadEnd
<1>3. CASE ReadError
  BY <1>3, ReadNoneInv DEF ReadError
<1> QED
  BY <1>1, <1>2, <1>3, OpenInv, OpenedInv, FetchInv, ReadSomeInv, LoopEndsInv, ExeFullInv,
     WaitInv, ChildInvStep DEF Next, MainStep, MainRuns

LEMMA InvHolds == Spec => []ReaderInv
<1>1. Init => ReaderInv
  BY InitInv
<1>2. ReaderInv /\ [Next]_vars => ReaderInv'
  BY StepReaderInv
<1> QED  BY <1>1, <1>2, PTL DEF Spec

(***************************************************************************)
(* main reports success only after a run, unless reading failed: the child *)
(* was gunzip, and the pipeline was told why there is no more to fetch, or *)
(* has found the EXEQ of Lab 3 full.                                       *)
(***************************************************************************)
THEOREM SuccessMeansRunHolds == Spec => []SuccessMeansRun
<1>1. ReaderInv => SuccessMeansRun
  <2> SUFFICES ASSUME ReaderInv, pc = "exited", ret = 0, verdict # "error"
               PROVE  /\ is_gunzip[0]
                      /\ verdict = "none" => exe_halt /\ last_inst_num > MAX_EXEQ_ENTRIES
    BY DEF SuccessMeansRun
  <2>1. child[0] = "exited" /\ exit_status[0] # 127
    BY DEF ReaderInv, StatusInv
  <2>2. verdict = "none" => exe_halt /\ last_inst_num > MAX_EXEQ_ENTRIES
    BY DEF ReaderInv, StatusInv
  <2>3. CASE verdict = "none"
    BY <2>2, <2>3, ReaderAssumption DEF ReaderInv, ReaderTypeOK, StatusInv
  <2>4. CASE verdict # "none"
    <3>1. ASSUME ~ is_gunzip[0] PROVE FALSE
      <4>1. sent[0] = size[0]
        BY <2>4, <3>1 DEF ReaderInv, StatusInv
      <4> QED  BY <2>1, <3>1, <4>1, ReaderAssumption DEF ReaderInv, PipeInv, ChildInv
    <3> QED  BY <2>4, <3>1
  <2> QED  BY <2>2, <2>3, <2>4
<1> QED  BY <1>1, InvHolds, PTL

-----------------------------------------------------------------------------
(* The refinement of RecordStream. *)

LEMMA RefinementInit == Init => Stream!StreamInit
BY ReaderAssumption DEF Init, PipeInit, Stream!StreamInit

\* The steps of main of which the stream sees nothing.
LEMMA MainStutters ==
    ASSUME ReaderInv, Open \/ Fetch \/ ExeFull \/ LoopEnds \/ Close \/ Wait
    PROVE  UNCHANGED Stream!stream_vars
<1> USE DEF Stream!stream_vars
<1>1. 0 \in Pipes /\ 0 # Main
  BY ReaderAssumption DEF Main
<1>2. CASE Open
  BY <1>1, <1>2 DEF Open, Return, Fork, pipe_vars, reader_vars, ReaderInv, PipeInv, PipeTypeOK,
     PlacesInv
<1> QED
  BY <1>2 DEF Fetch, ExeFull, LoopEnds, Close, CloseReadEnd, Wait, pipe_vars, reader_vars

\* Until main has closed its write end, and as long as the child lives, there can be more.
LEMMA Supplies ==
    ASSUME ReaderInv, Opened \/ ChildStep
    PROVE  Stream!Supply
<1>1. 0 \in Pipes /\ 0 # Main
  BY ReaderAssumption DEF Main
<1>2. CASE Opened
  <2>1. writers[0] # {} /\ sent' = sent /\ UNCHANGED <<last_inst_num, inst, verdict>>
    BY <1>2 DEF Opened, CloseWriteEnd, reader_vars, ReaderInv, PlacesInv
  <2> QED
    BY <1>1, <2>1 DEF Stream!Supply, ReaderInv, PipeInv, PipeTypeOK
<1>3. CASE ChildStep
  BY <1>1, <1>3, ChildStepInv DEF ChildStep, main_vars, Stream!Supply, ReaderInv
<1> QED  BY <1>2, <1>3

\* A read that ends a record delivers or rejects it.
LEMMA ReadSomeDelivers ==
    ASSUME ReaderInv, ReadSome
    PROVE  Stream!Deliver \/ Stream!Reject \/ UNCHANGED Stream!stream_vars
<1>1. PICK got \in 1 .. bytes_left :
          LET bytes == trace_rec \o BytesRead(0, got) IN
          /\ Read(0, bytes_left, got)
          /\ trace_rec' = bytes
          /\ IF got < bytes_left
             THEN pc' = "read" /\ UNCHANGED <<inst, last_inst_num, verdict>>
             ELSE Collected(bytes)
  BY DEF ReadSome
<1> DEFINE bytes == trace_rec \o BytesRead(0, got)
<1>2. pc = "read"
  BY DEF ReadSome
<1>3. /\ bytes_left \in Nat
      /\ sent' = sent /\ UNCHANGED <<child, writers>>
      /\ taken[0] + got <= sent[0]
      /\ verdict = "none" => bytes = [i \in 1 .. Len(trace_rec) + got |-> last_inst_num * REC + i]
  BY <1>1, <1>2, BytesOfARead DEF child_vars
<1>4. CASE got < bytes_left \/ verdict # "none"
  BY <1>1, <1>3, <1>4 DEF Stream!stream_vars, Collected, Count, Invalid
<1>5. CASE ~ got < bytes_left /\ verdict = "none"
  <2>1. Collected(bytes)
    BY <1>1, <1>5
  <2>2. Len(trace_rec) \in Nat /\ Len(trace_rec) + got = REC
    BY <1>3, <1>5, ReaderAssumption DEF bytes_left, ReaderInv, ReaderTypeOK
  <2>3. bytes = [i \in 1 .. REC |-> last_inst_num * REC + i]
    BY <1>3, <1>5, <2>2
  <2>4. Stream!Complete
    <3>1. taken[0] = last_inst_num * REC + Len(trace_rec) /\ last_inst_num \in Nat
      BY <1>2, <1>5 DEF ReaderInv, TakenInv, ReaderTypeOK
    <3>2. PICK base \in Nat : base = last_inst_num * REC /\ (last_inst_num + 1) * REC = base + REC
      BY <3>1, NextRecord
    <3>3. taken[0] + got = base + REC /\ taken[0] \in Nat /\ sent[0] \in Nat
      BY <2>2, <3>1, <3>2, ReaderAssumption DEF ReaderInv, PipeInv, PipeTypeOK
    <3>4. sent[0] >= base + REC
      BY <1>3, <3>2, <3>3, ReaderAssumption
    <3> QED  BY <3>2, <3>4 DEF Stream!Complete
  <2> HIDE DEF bytes
  <2> QED
    BY <1>3, <1>5, <2>1, <2>3, <2>4 DEF Stream!Deliver, Stream!Reject, Collected, Count, Invalid
<1> QED  BY <1>4, <1>5

\* A read that gives nothing concludes that the bytes end where they do.
LEMMA ReadEndConcludes ==
    ASSUME ReaderInv, ReadEnd
    PROVE  Stream!Conclude \/ UNCHANGED Stream!stream_vars
<1>1. /\ ReadNone(0, IF trace_rec = <<>> THEN "end" ELSE "truncated")
      /\ pc = "read" /\ Read(0, bytes_left, 0)
  BY DEF ReadEnd, ReadNone
<1>2. 0 \in Pipes /\ 0 # Main /\ bytes_left \in Nat \ {0} /\ Len(trace_rec) \in Nat
  BY <1>1, ReaderAssumption DEF Main, ReaderInv, ReaderTypeOK, TakenInv, bytes_left
<1>3. sent[0] = taken[0] /\ writers[0] = {} /\ child[0] # "none"
  <2>1. sent[0] = taken[0] /\ writers[0] = {}
    BY <1>1, <1>2, ReadInv DEF ReaderInv
  <2>2. child[0] # "none"
    BY <1>1 DEF ReaderInv, PlacesInv
  <2> QED  BY <2>1, <2>2
<1>4. UNCHANGED <<sent, child, writers, last_inst_num, inst>>
  BY <1>1 DEF ReadNone, Read, Invalid
<1>5. CASE verdict = "none"
  <2>1. PICK base \in Nat : base = last_inst_num * REC /\ (last_inst_num + 1) * REC = base + REC
    BY NextRecord DEF ReaderInv, ReaderTypeOK
  <2>2. sent[0] = base + Len(trace_rec) /\ Len(trace_rec) < REC
    BY <1>1, <1>3, <1>5, <2>1 DEF ReaderInv, TakenInv
  <2>3. ~ Stream!Complete
    BY <1>2, <2>1, <2>2, ReaderAssumption DEF Stream!Complete
  <2>4. trace_rec = <<>> <=> sent[0] = last_inst_num * REC
    <3>1. trace_rec = <<>> <=> Len(trace_rec) = 0
      BY DEF ReaderInv, ReaderTypeOK
    <3> QED  BY <1>2, <2>1, <2>2, <3>1
  <2>5. verdict' = IF sent[0] = last_inst_num * REC THEN "end" ELSE "truncated"
    BY <1>1, <1>5, <2>4 DEF ReadNone, Invalid
  <2> QED  BY <1>3, <1>4, <1>5, <2>3, <2>5 DEF Stream!Conclude
<1>6. CASE verdict # "none"
  BY <1>1, <1>4, <1>6 DEF ReadNone, Invalid, Stream!stream_vars
<1> QED  BY <1>5, <1>6

LEMMA ReadErrorFails ==
    ASSUME ReadError
    PROVE  Stream!Fail \/ UNCHANGED Stream!stream_vars
BY DEF ReadError, ReadNone, Read, Invalid, Stream!Fail, Stream!stream_vars

LEMMA RefinementStep ==
    ReaderInv /\ [Next]_vars => [Stream!StreamNext]_(Stream!stream_vars)
<1> SUFFICES ASSUME ReaderInv, [Next]_vars
             PROVE  Stream!StreamNext \/ UNCHANGED Stream!stream_vars
  OBVIOUS
<1>1. CASE UNCHANGED vars
  BY <1>1 DEF vars, pipe_vars, main_vars, Stream!stream_vars
<1> QED
  BY <1>1, MainStutters, Supplies, ReadSomeDelivers, ReadEndConcludes, ReadErrorFails
     DEF Next, MainStep, MainRuns, Stream!StreamNext

(***************************************************************************)
(* The reader of Labs 2 and 3 implements RecordStream: it delivers every   *)
(* record once, in the order of the trace and made of its own bytes,       *)
(* however gunzip and the kernel cut them, and gives a verdict only if it  *)
(* is true of the bytes written.                                           *)
(***************************************************************************)
THEOREM ReaderImplementsStream == Spec => ReadsTheStream
<1>1. Init => Stream!StreamInit
  BY RefinementInit
<1>2. ReaderInv /\ [Next]_vars => [Stream!StreamNext]_(Stream!stream_vars)
  BY RefinementStep
<1> QED
  BY <1>1, <1>2, InvHolds, PTL DEF Spec, ReadsTheStream, Stream!StreamSpec

=============================================================================
