------------------------ MODULE BufferedReaderProofs ------------------------
(***************************************************************************)
(* Every core of Lab 4 gets the records of its own trace, whatever the     *)
(* sizes of the fields, the buffer, the pipe and the writes of gunzip, and *)
(* in whatever order the cores read.                                       *)
(***************************************************************************)
EXTENDS BufferedReader, TracePipeProofs, FiniteSetTheorems, SequenceTheorems

CoresTypeOK ==
    /\ pc \in {"core_new", "opened", "trace_read", "loop", "print_stats", "waitpid", "exited",
               "crashed"}
    /\ core \in Pipes /\ running \in BOOLEAN /\ field \in 1 .. 3 /\ bytes \in Seq(Nat)
    /\ read_buf \in [Pipes -> [0 .. BUFFER - 1 -> Nat]]
    /\ read_buf_offset \in [Pipes -> Nat] /\ read_buf_left \in [Pipes -> Int]
    /\ done \in [Pipes -> BOOLEAN] /\ delivered \in [Pipes -> Nat]
    /\ record \in [Pipes -> Seq(Nat)]
    /\ verdict \in [Pipes -> {"none", "end", "truncated", "error"}]

\* The bytes of the record that core c is reading.
Part(c) == IF pc = "trace_read" /\ core = c THEN Len(bytes) ELSE 0

(***************************************************************************)
(* As long as reading goes on, what was taken from a core's pipe is the    *)
(* records it was given, the part of the next that it has, and what is     *)
(* left in its buffer, which is the bytes that were taken last.            *)
(***************************************************************************)
CoreInv(c) ==
    /\ done[c] <=> verdict[c] # "none"
    /\ verdict[c] = "none" =>
           /\ read_buf_left[c] >= 0 /\ read_buf_offset[c] + read_buf_left[c] <= BUFFER
           /\ taken[c] = delivered[c] * REC + Part(c) + read_buf_left[c]
           /\ \A i \in 0 .. read_buf_left[c] - 1 :
                  read_buf[c][read_buf_offset[c] + i] = taken[c] - read_buf_left[c] + 1 + i

\* trace_read is called for a core that is not done, and its fields are read in their order.
CallInv ==
    pc = "trace_read" =>
        /\ child[core] # "none" /\ verdict[core] = "none"
        /\ Len(bytes) < EndOfField
        /\ bytes = [i \in 1 .. Len(bytes) |-> delivered[core] * REC + i]

\* main opens the cores one after the other, and is in its loop when there are no more.
OpenInv ==
    /\ pc \in {"loop", "print_stats", "waitpid", "exited"} => running
    /\ running => pc \notin {"core_new", "opened", "crashed"} /\ \A c \in Pipes : child[c] # "none"
    /\ ~ running => \A c \in Pipes : /\ c < core => child[c] # "none"
                                     /\ c > core => verdict[c] = "none"
    /\ pc = "opened" => Main \in writers[core] /\ child[core] # "none"
    /\ pc \in {"core_new", "opened"} => verdict[core] = "none"

CoresInv == PipeInv /\ CoresTypeOK /\ (\A c \in Pipes : CoreInv(c)) /\ CallInv /\ OpenInv

-----------------------------------------------------------------------------
(* The constants, and the sequences that are read. *)

LEMMA CoreNumbers ==
    /\ 0 \in Pipes /\ Pipes \subseteq Nat /\ Main \notin Pipes
    /\ \A c \in Pipes : /\ c + 1 < NumCores => c + 1 \in Pipes
                        /\ ~ c + 1 < NumCores => \A d \in Pipes : d <= c
    /\ \A c, d \in Pipes : d < c + 1 => d <= c
<1>1. Pipes = {0} \/ Pipes = {0, 1}
  BY BufferAssumption
<1>2. CASE Pipes = {0}
  <2>1. NumCores = 1
    BY <1>2, FS_Singleton DEF NumCores
  <2> QED  BY <1>2, <2>1 DEF Main
<1>3. CASE Pipes = {0, 1}
  <2>1. IsFiniteSet({0}) /\ Cardinality({0}) = 1 /\ 1 \notin {0}
    BY FS_Singleton
  <2>2. Cardinality({0} \cup {1}) = 2 /\ Pipes = {0} \cup {1}
    <3>1. Cardinality({0} \cup {1}) = 1 + 1
      BY <2>1, FS_AddElement
    <3> QED  BY <1>3, <3>1
  <2>3. NumCores = 2
    BY <2>2 DEF NumCores
  <2> QED  BY <1>3, <2>3 DEF Main
<1> QED  BY <1>1, <1>2, <1>3

LEMMA Sizes ==
    /\ BUFFER \in Nat \ {0} /\ REC \in Nat \ {0}
    /\ field \in 1 .. 3 => EndOfField \in Nat \ {0} /\ EndOfField <= REC
    /\ field = 3 => EndOfField = REC
    /\ field \in 1 .. 2 /\ field' = field + 1 => EndOfField' > EndOfField
<1>1. inst_addr_size \in Nat \ {0} /\ inst_type_size \in Nat \ {0} /\ ldst_addr_size \in Nat \ {0}
  <2>1. FIELDS[1] = inst_addr_size /\ FIELDS[2] = inst_type_size /\ FIELDS[3] = ldst_addr_size
    BY DEF FIELDS
  <2> QED  BY <2>1, BufferAssumption
<1> QED  BY <1>1, BufferAssumption DEF REC, EndOfField, FIELDS

LEMMA NextRecord ==
    ASSUME NEW n \in Nat
    PROVE  n * REC \in Nat /\ (n + 1) * REC = n * REC + REC /\ 0 * REC = 0
BY Sizes

LEMMA EmptyRecord ==
    /\ Len(<<>>) = 0 /\ <<>> \in Seq(Nat)
    /\ \A n \in Nat : <<>> = [i \in 1 .. 0 |-> n + i]
OBVIOUS

LEMMA SeqIsFunction ==
    ASSUME NEW s \in Seq(Nat)
    PROVE  s = [i \in 1 .. Len(s) |-> s[i]]
OBVIOUS

LEMMA FunctionIsSeq ==
    ASSUME NEW n \in Nat, NEW t \in [1 .. n -> Nat]
    PROVE  t \in Seq(Nat) /\ Len(t) = n
<1>1. t \in Seq(Nat)
  BY SeqDef, Zenon
<1> QED  BY <1>1

\* Numbers that follow each other, and more of them.
LEMMA Follow ==
    ASSUME NEW b \in Nat, NEW s \in Seq(Nat), NEW t \in Seq(Nat),
           \A i \in 1 .. Len(s) : s[i] = b + i,
           \A i \in 1 .. Len(t) : t[i] = b + Len(s) + i
    PROVE  /\ s \o t = [i \in 1 .. Len(s) + Len(t) |-> b + i]
           /\ s \o t \in Seq(Nat)
           /\ Len(s \o t) = Len(s) + Len(t)
<1>1. Len(s) \in Nat /\ Len(t) \in Nat
  OBVIOUS
<1>2. s \o t \in Seq(Nat) /\ Len(s \o t) = Len(s) + Len(t)
  OBVIOUS
<1>3. ASSUME NEW i \in 1 .. Len(s) + Len(t)
      PROVE  (s \o t)[i] = b + i
  <2>1. CASE i <= Len(s)
    BY <1>1, <2>1
  <2>2. CASE i > Len(s)
    <3>1. (s \o t)[i] = t[i - Len(s)] /\ i - Len(s) \in 1 .. Len(t)
      BY <1>1, <2>2
    <3> QED  BY <1>1, <3>1
  <2> QED  BY <1>1, <2>1, <2>2
<1>4. s \o t = [i \in 1 .. Len(s) + Len(t) |-> (s \o t)[i]]
  BY <1>2, SeqIsFunction
<1>5. [i \in 1 .. Len(s) + Len(t) |-> (s \o t)[i]] = [i \in 1 .. Len(s) + Len(t) |-> b + i]
  BY <1>3
<1> QED  BY <1>2, <1>4, <1>5

-----------------------------------------------------------------------------
(* Every action keeps the invariant. *)

LEMMA InitInv == Init => CoresInv
<1> SUFFICES ASSUME Init PROVE CoresInv
  OBVIOUS
<1>1. PipeInv
  BY PipeInitInv DEF Init
<1>2. CoresTypeOK
  <2>1. bytes \in Seq(Nat) /\ record \in [Pipes -> Seq(Nat)]
    BY EmptyRecord DEF Init
  <2>2. read_buf \in [Pipes -> [0 .. BUFFER - 1 -> Nat]]
    BY DEF Init
  <2>3. /\ read_buf_offset \in [Pipes -> Nat] /\ read_buf_left \in [Pipes -> Int]
        /\ done \in [Pipes -> BOOLEAN] /\ delivered \in [Pipes -> Nat]
        /\ verdict \in [Pipes -> {"none", "end", "truncated", "error"}]
    BY DEF Init
  <2>4. /\ pc = "core_new" /\ core \in Pipes /\ running \in BOOLEAN /\ field \in 1 .. 3
    <3>1. 0 \in Pipes
      BY CoreNumbers
    <3>2. running \in BOOLEAN
      BY Zenon DEF Init
    <3>3. pc = "core_new" /\ core = 0 /\ field = 1
      BY DEF Init
    <3> QED  BY <3>1, <3>2, <3>3
  <2> QED  BY <2>1, <2>2, <2>3, <2>4 DEF CoresTypeOK
<1>3. ASSUME NEW c \in Pipes PROVE CoreInv(c)
  <2>1. /\ read_buf_left[c] = 0 /\ read_buf_offset[c] = 0 /\ delivered[c] = 0 /\ taken[c] = 0
        /\ ~ done[c] /\ verdict[c] = "none" /\ Part(c) = 0
    BY DEF Init, PipeInit, Part
  <2>2. 0 * REC = 0 /\ BUFFER \in Nat
    BY NextRecord, Sizes
  <2> QED  BY <2>1, <2>2 DEF CoreInv
<1>4. CallInv /\ OpenInv
  <2>1. \A c \in Pipes : ~ c < 0
    BY CoreNumbers
  <2> QED  BY <2>1, CoreNumbers DEF Init, CallInv, OpenInv
<1> QED  BY <1>1, <1>2, <1>3, <1>4 DEF CoresInv

\* What a core has is not touched.
LEMMA CoreKept ==
    ASSUME NEW c \in Pipes, CoreInv(c), taken'[c] = taken[c], Part(c)' = Part(c),
           done'[c] = done[c], verdict'[c] = verdict[c], delivered'[c] = delivered[c],
           read_buf'[c] = read_buf[c], read_buf_left'[c] = read_buf_left[c],
           read_buf_offset'[c] = read_buf_offset[c]
    PROVE  CoreInv(c)'
BY DEF CoreInv

LEMMA OpenKeeps ==
    ASSUME CoresInv, Open
    PROVE  CoresInv'
<1>1. /\ pc = "core_new" /\ core \in Pipes /\ UNCHANGED <<core, call_vars, core_vars>>
      /\ pc' \in {"opened", "crashed"} /\ taken' = taken
  BY DEF Open, Fork, CoresInv, CoresTypeOK
<1>2. PipeInv'
  <2>1. CASE Fork(core)
    BY <1>1, <2>1, ForkInv DEF CoresInv
  <2>2. CASE /\ readers' = [p \in Pipes |-> readers[p] \ {Main}]
             /\ UNCHANGED <<child, child_vars, sent, taken, writers>>
    BY <2>2 DEF CoresInv, PipeInv, PipeTypeOK, ChildInv, child_vars
  <2> QED  BY <2>1, <2>2 DEF Open
<1>3. CoresTypeOK'
  BY <1>1 DEF CoresInv, CoresTypeOK, call_vars, core_vars
<1>4. ASSUME NEW c \in Pipes PROVE CoreInv(c)'
  <2>1. CoreInv(c) /\ Part(c)' = Part(c)
    BY <1>1 DEF CoresInv, Part, call_vars
  <2> QED  BY <1>1, <2>1, CoreKept DEF core_vars
<1>5. CallInv'
  BY <1>1 DEF CallInv
<1>6. \A c \in Pipes : child[c] # "none" => child'[c] # "none"
  BY DEF Open, Fork, CoresInv, PipeInv, PipeTypeOK
<1>7. pc' = "opened" => Main \in writers'[core] /\ child'[core] # "none"
  BY <1>1 DEF Open, Fork, CoresInv, PipeInv, PipeTypeOK
<1>8. OpenInv'
  BY <1>1, <1>6, <1>7 DEF CoresInv, OpenInv, call_vars, core_vars
<1> QED  BY <1>2, <1>3, <1>4, <1>5, <1>8 DEF CoresInv

\* core_read_trace begins for a core that may read.
LEMMA StartKeeps ==
    ASSUME CoresInv, PipeInv', pc # "trace_read", StartRecord, core' \in Pipes,
           UNCHANGED <<child, taken, running, core_vars>>,
           verdict[core'] = "none", child[core'] # "none",
           running \/ core' = core
    PROVE  CoresInv'
<1>1. /\ pc' = "trace_read" /\ field' = 1 /\ bytes' = <<>>
      /\ UNCHANGED core_vars /\ Len(<<>>) = 0
  BY EmptyRecord DEF StartRecord
<1>2. CoresTypeOK'
  BY <1>1, EmptyRecord DEF CoresInv, CoresTypeOK, core_vars
<1>3. ASSUME NEW c \in Pipes PROVE CoreInv(c)'
  <2>1. CoreInv(c) /\ Part(c) = 0 /\ Part(c)' = 0
    BY <1>1 DEF CoresInv, Part
  <2> QED  BY <1>1, <2>1, CoreKept DEF core_vars
<1>4. CallInv'
  <2>1. EndOfField' > 0
    <3>1. EndOfField' = FIELDS[1] /\ 1 \in 1 .. 3
      BY <1>1 DEF EndOfField
    <3> QED  BY <3>1, BufferAssumption
  <2>2. delivered[core'] * REC \in Nat
    BY NextRecord DEF CoresInv, CoresTypeOK
  <2>3. bytes' = [i \in 1 .. Len(bytes') |-> delivered'[core'] * REC + i]
    BY <1>1, <2>2, EmptyRecord DEF core_vars
  <2> QED  BY <1>1, <2>1, <2>3 DEF CallInv, core_vars
<1>5. OpenInv'
  BY <1>1 DEF CoresInv, OpenInv, core_vars
<1> QED  BY <1>2, <1>3, <1>4, <1>5 DEF CoresInv

LEMMA OpenedKeeps ==
    ASSUME CoresInv, Opened
    PROVE  CoresInv'
<1>1. PipeInv' /\ core \in Pipes /\ core' = core
  BY CloseInv DEF CoresInv, CoresTypeOK, Opened
<1>2. pc = "opened" /\ child[core] # "none" /\ verdict[core] = "none" /\ StartRecord
  BY DEF Opened, CoresInv, OpenInv
<1>3. UNCHANGED <<child, taken, running, core_vars>>
  BY DEF Opened, CloseWriteEnd
<1> QED  BY <1>1, <1>2, <1>3, StartKeeps

LEMMA CoreCycleKeeps ==
    ASSUME CoresInv, CoreCycle
    PROVE  CoresInv'
<1>1. PipeInv'
  BY DEF CoresInv, CoreCycle, pipe_vars, child_vars, PipeInv, PipeTypeOK, ChildInv
<1>2. /\ core' \in Pipes /\ verdict[core'] = "none" /\ child[core'] # "none" /\ running
      /\ pc # "trace_read" /\ StartRecord
  BY DEF CoreCycle, CoresInv, CoreInv, OpenInv
<1>3. UNCHANGED <<child, taken, running, core_vars>>
  BY DEF CoreCycle, pipe_vars
<1> QED  BY <1>1, <1>2, <1>3, StartKeeps

\* Main goes on after a call of core_read_trace for a core that has been opened.
LEMMA ReturnedKeeps ==
    ASSUME CoresInv, pc = "trace_read", Returned
    PROVE  /\ pc' \in {"loop", "core_new"} /\ core' \in Pipes /\ running' \in BOOLEAN
           /\ pc' = "loop" => running'
           /\ running' => pc' = "loop" /\ \A c \in Pipes : child[c] # "none"
           /\ ~ running' => /\ core' = core + 1
                            /\ \A c \in Pipes : /\ c < core' => child[c] # "none"
                                                /\ c >= core' => c # core /\ verdict[c] = "none"
<1>1. /\ core \in Pipes /\ running \in BOOLEAN /\ child[core] # "none"
      /\ running => \A c \in Pipes : child[c] # "none"
      /\ ~ running => \A c \in Pipes : /\ c < core => child[c] # "none"
                                       /\ c > core => verdict[c] = "none"
  BY DEF CoresInv, CoresTypeOK, CallInv, OpenInv
<1>2. \A c \in Pipes : c \in Nat
  BY CoreNumbers
<1>3. CASE running
  BY <1>1, <1>3 DEF Returned
<1>4. CASE ~ running /\ core + 1 < NumCores
  <2>1. pc' = "core_new" /\ core' = core + 1 /\ running' = FALSE /\ core + 1 \in Pipes
    BY <1>1, <1>4, CoreNumbers DEF Returned
  <2>2. ASSUME NEW c \in Pipes
        PROVE  /\ c < core + 1 => child[c] # "none"
               /\ c >= core + 1 => c # core /\ verdict[c] = "none"
    <3>1. c \in Nat /\ core \in Nat
      BY <1>1, <1>2
    <3>2. (c < core + 1 => c = core \/ c < core) /\ (c >= core + 1 => c > core)
      BY <3>1
    <3> QED  BY <1>1, <1>4, <3>1, <3>2
  <2> QED  BY <2>1, <2>2
<1>5. CASE ~ running /\ ~ core + 1 < NumCores
  <2>1. pc' = "loop" /\ running' = TRUE /\ core' = core
    BY <1>5 DEF Returned
  <2>2. ASSUME NEW c \in Pipes PROVE child[c] # "none"
    <3>1. c <= core /\ c \in Nat /\ core \in Nat
      BY <1>1, <1>2, <1>5, CoreNumbers
    <3>2. c = core \/ c < core
      BY <3>1
    <3> QED  BY <1>1, <1>5, <3>2
  <2> QED  BY <1>1, <2>1, <2>2
<1> QED  BY <1>3, <1>4, <1>5

\* A refill, which the core that reads needs when its buffer is empty.
LEMMA RefillKeeps ==
    ASSUME CoresInv, Refill
    PROVE  CoresInv'
<1>1. PICK got \in 1 .. BUFFER : Read(core, BUFFER, got) /\ Filled(got)
  BY DEF Refill
<1>2. /\ core \in Pipes /\ pc = "trace_read" /\ read_buf_left[core] = 0
      /\ UNCHANGED <<pc, core, call_vars, done, delivered, record, verdict>>
      /\ verdict[core] = "none"
  BY DEF Refill, CoresInv, CoresTypeOK, CallInv
<1>3. got \in Nat /\ got \in Int /\ got > 0 /\ got <= BUFFER /\ BUFFER \in Nat
  BY Sizes
<1>4. /\ PipeInv' /\ taken'[core] = taken[core] + got
      /\ taken[core] \in Nat
  BY <1>1, <1>2, <1>3, ReadInv DEF CoresInv, PipeInv, PipeTypeOK
<1>5. /\ taken' = [taken EXCEPT ![core] = IF got > 0 THEN @ + got ELSE @]
      /\ UNCHANGED <<child, writers>>
  BY <1>1 DEF Read
<1>6. /\ read_buf'[core] = [i \in 0 .. BUFFER - 1 |-> IF i < got THEN taken[core] + 1 + i
                                                    ELSE read_buf[core][i]]
      /\ read_buf_offset'[core] = 0 /\ read_buf_left'[core] = got
      /\ \A c \in Pipes \ {core} : /\ read_buf'[c] = read_buf[c] /\ taken'[c] = taken[c]
                                   /\ read_buf_offset'[c] = read_buf_offset[c]
                                   /\ read_buf_left'[c] = read_buf_left[c]
  BY <1>1, <1>2, <1>5 DEF Filled, CoresInv, CoresTypeOK, PipeInv, PipeTypeOK
<1>7. CoresTypeOK'
  <2>1. read_buf'[core] \in [0 .. BUFFER - 1 -> Nat]
    <3>1. \A i \in 0 .. BUFFER - 1 : read_buf[core][i] \in Nat /\ taken[core] + 1 + i \in Nat
      BY <1>2, <1>3, <1>4 DEF CoresInv, CoresTypeOK
    <3> QED  BY <1>6, <3>1
  <2>2. read_buf' = [read_buf EXCEPT ![core] = read_buf'[core]]
    BY <1>1, <1>2 DEF Filled, CoresInv, CoresTypeOK
  <2>3. /\ read_buf' \in [Pipes -> [0 .. BUFFER - 1 -> Nat]]
        /\ read_buf_offset' \in [Pipes -> Nat] /\ read_buf_left' \in [Pipes -> Int]
    BY <1>1, <1>2, <1>3, <2>1, <2>2 DEF Filled, CoresInv, CoresTypeOK
  <2> QED  BY <1>2, <2>3 DEF CoresInv, CoresTypeOK, call_vars
<1>8. ASSUME NEW c \in Pipes PROVE CoreInv(c)'
  <2>1. CoreInv(c) /\ Part(c)' = Part(c)
    BY <1>2 DEF CoresInv, Part, call_vars
  <2>2. CASE c # core
    BY <1>2, <1>6, <2>1, <2>2, CoreKept
  <2>3. CASE c = core
    <3>1. /\ taken'[c] = taken[c] + got /\ taken[c] = delivered[c] * REC + Part(c) + 0
          /\ done[c] <=> verdict[c] # "none"
      BY <1>2, <1>4, <2>1, <2>3 DEF CoreInv
    <3>2. delivered[c] * REC \in Nat /\ Part(c) \in Nat
      <4>1. delivered[c] \in Nat /\ Len(bytes) \in Nat
        BY DEF CoresInv, CoresTypeOK
      <4> QED  BY <4>1, NextRecord DEF Part
    <3>3. taken'[c] = delivered'[c] * REC + Part(c)' + read_buf_left'[c]
      BY <1>2, <1>3, <1>6, <2>1, <2>3, <3>1, <3>2
    <3>4. ASSUME NEW i \in 0 .. read_buf_left'[c] - 1
          PROVE  read_buf'[c][read_buf_offset'[c] + i] = taken'[c] - read_buf_left'[c] + 1 + i
      <4>1. i \in 0 .. BUFFER - 1 /\ i < got /\ read_buf_offset'[c] + i = i
        BY <1>3, <1>6, <2>3
      <4>2. read_buf'[c][i] = taken[c] + 1 + i
        BY <1>6, <2>3, <4>1
      <4> QED  BY <1>3, <1>4, <1>6, <2>3, <4>1, <4>2
    <3>5. read_buf_left'[c] >= 0 /\ read_buf_offset'[c] + read_buf_left'[c] <= BUFFER
      BY <1>3, <1>6, <2>3
    <3> QED  BY <1>2, <3>1, <3>3, <3>4, <3>5 DEF CoreInv
  <2> QED  BY <2>2, <2>3
<1>9. CallInv'
  <2>1. EndOfField' = EndOfField
    BY <1>2 DEF call_vars, EndOfField
  <2> QED  BY <1>2, <1>5, <2>1 DEF CoresInv, CallInv, call_vars
<1>10. OpenInv'
  BY <1>2, <1>5 DEF CoresInv, OpenInv, call_vars
<1> QED  BY <1>4, <1>7, <1>8, <1>9, <1>10 DEF CoresInv

\* Reading ends for the core: it is done, and main goes on.
LEMMA RefillFailsKeeps ==
    ASSUME CoresInv, NEW got \in {0, -1}, NEW v \in {"end", "truncated", "error"},
           RefillFails(got, v)
    PROVE  CoresInv'
<1>1. /\ core \in Pipes /\ pc = "trace_read" /\ got \in Int /\ ~ got > 0 /\ BUFFER \in Nat
      /\ Read(core, BUFFER, got) /\ Returned
  BY Sizes DEF RefillFails, CoresInv, CoresTypeOK
<1>2. PipeInv' /\ UNCHANGED <<taken, child, writers>>
  <2>1. PipeInv' /\ UNCHANGED taken
    <3>1. PipeInv /\ got <= 0
      BY DEF CoresInv
    <3> QED  BY <1>1, <3>1, ReadInv
  <2> QED  BY <1>1, <2>1 DEF Read
<1>3. /\ verdict' = [verdict EXCEPT ![core] = v] /\ done' = [done EXCEPT ![core] = TRUE]
      /\ read_buf_left' = [read_buf_left EXCEPT ![core] = got]
      /\ UNCHANGED <<field, bytes, read_buf, read_buf_offset, delivered, record>>
  BY DEF RefillFails
<1>4. /\ pc' \in {"loop", "core_new"} /\ core' \in Pipes /\ running' \in BOOLEAN
      /\ pc' = "loop" => running'
      /\ running' => pc' = "loop" /\ \A c \in Pipes : child[c] # "none"
      /\ ~ running' => \A c \in Pipes : /\ c < core' => child[c] # "none"
                                        /\ c >= core' => c # core /\ verdict[c] = "none"
  BY <1>1, ReturnedKeeps
<1>5. CoresTypeOK'
  BY <1>1, <1>3, <1>4 DEF CoresInv, CoresTypeOK
<1>6. ASSUME NEW c \in Pipes PROVE CoreInv(c)'
  <2>1. CASE c = core
    <3>1. done'[c] = TRUE /\ verdict'[c] # "none"
      BY <1>1, <1>3, <2>1 DEF CoresInv, CoresTypeOK
    <3> QED  BY <3>1 DEF CoreInv
  <2>2. CASE c # core
    <3>1. CoreInv(c) /\ Part(c) = 0 /\ Part(c)' = 0
      BY <1>4, <2>2 DEF CoresInv, Part
    <3>2. /\ done'[c] = done[c] /\ verdict'[c] = verdict[c]
          /\ read_buf_left'[c] = read_buf_left[c]
      BY <1>3, <2>2 DEF CoresInv, CoresTypeOK
    <3> QED  BY <1>2, <1>3, <3>1, <3>2, CoreKept
  <2> QED  BY <2>1, <2>2
<1>7. CallInv'
  BY <1>4 DEF CallInv
<1>8. OpenInv'
  <2>1. \A c \in Pipes : c # core => verdict'[c] = verdict[c]
    BY <1>3 DEF CoresInv, CoresTypeOK
  <2>2. \A c \in Pipes : c \in Nat
    BY CoreNumbers
  <2>3. \A c \in Pipes : c > core' => c >= core'
    BY <1>4, <2>2
  <2>4. core' >= core'
    BY <1>4, <2>2
  <2> QED  BY <1>2, <1>4, <2>1, <2>3, <2>4 DEF OpenInv
<1> QED  BY <1>2, <1>5, <1>6, <1>7, <1>8 DEF CoresInv

(***************************************************************************)
(* What a copy adds to the record: the bytes that come next in the trace.  *)
(* n is as in Copy.                                                        *)
(***************************************************************************)
LEMMA CopiedBytes ==
    ASSUME CoresInv, pc = "trace_read", read_buf_left[core] > 0,
           NEW n, n = Least(field_bytes_left, read_buf_left[core]),
           NEW all, all = bytes \o [i \in 1 .. n |-> read_buf[core][read_buf_offset[core] + i - 1]]
    PROVE  /\ n \in Nat \ {0} /\ n <= read_buf_left[core] /\ Len(bytes) + n <= EndOfField
           /\ n < field_bytes_left <=> Len(bytes) + n < EndOfField
           /\ all \in Seq(Nat) /\ Len(all) = Len(bytes) + n
           /\ all = [i \in 1 .. Len(all) |-> delivered[core] * REC + i]
<1>1. /\ core \in Pipes /\ bytes \in Seq(Nat) /\ Len(bytes) \in Nat /\ field \in 1 .. 3
      /\ read_buf_left[core] \in Int /\ read_buf_offset[core] \in Nat /\ delivered[core] \in Nat
      /\ read_buf[core] \in [0 .. BUFFER - 1 -> Nat]
  BY DEF CoresInv, CoresTypeOK
<1>2. EndOfField \in Nat /\ BUFFER \in Nat
  BY <1>1, Sizes
<1>3. /\ verdict[core] = "none" /\ Len(bytes) < EndOfField
      /\ bytes = [i \in 1 .. Len(bytes) |-> delivered[core] * REC + i]
  BY DEF CoresInv, CallInv
<1>4. PICK base \in Nat : base = delivered[core] * REC
  BY <1>1, NextRecord
<1>5. CoreInv(core)
  BY <1>1 DEF CoresInv
<1>6. Part(core) = Len(bytes)
  BY DEF Part
<1>7. /\ read_buf_offset[core] + read_buf_left[core] <= BUFFER
      /\ taken[core] = base + Len(bytes) + read_buf_left[core]
      /\ \A i \in 0 .. read_buf_left[core] - 1 :
             read_buf[core][read_buf_offset[core] + i] = taken[core] - read_buf_left[core] + 1 + i
  BY <1>3, <1>4, <1>5, <1>6 DEF CoreInv
<1>8. /\ n \in Nat \ {0} /\ n <= read_buf_left[core] /\ Len(bytes) + n <= EndOfField
      /\ n < field_bytes_left <=> Len(bytes) + n < EndOfField
  <2>1. field_bytes_left = EndOfField - Len(bytes)
    BY DEF field_bytes_left
  <2>2. n = field_bytes_left \/ n = read_buf_left[core]
    BY DEF Least
  <2>3. n <= field_bytes_left /\ n <= read_buf_left[core]
    BY <1>1, <1>2, <2>1 DEF Least
  <2>4. field_bytes_left \in Nat \ {0}
    <3>1. Len(bytes) \in Nat /\ EndOfField \in Nat /\ Len(bytes) < EndOfField
      BY <1>1, <1>2, <1>3
    <3> QED  BY <2>1, <3>1
  <2>5. n \in Nat \ {0}
    BY <1>1, <2>2, <2>4
  <2> QED  BY <1>1, <1>2, <2>1, <2>3, <2>5
<1> DEFINE t == [i \in 1 .. n |-> read_buf[core][read_buf_offset[core] + i - 1]]
<1>9. ASSUME NEW i \in 1 .. n
      PROVE  t[i] = base + Len(bytes) + i
  <2>1. i - 1 \in 0 .. read_buf_left[core] - 1
    BY <1>1, <1>8
  <2>2. read_buf[core][read_buf_offset[core] + (i - 1)]
            = taken[core] - read_buf_left[core] + 1 + (i - 1)
    BY <1>7, <2>1
  <2>3. read_buf_offset[core] + (i - 1) = read_buf_offset[core] + i - 1
    BY <1>1
  <2>4. t[i] = taken[core] - read_buf_left[core] + 1 + (i - 1)
    BY <2>2, <2>3
  <2> HIDE DEF t
  <2> QED  BY <1>1, <1>7, <1>8, <2>4
<1>10. t \in Seq(Nat) /\ Len(t) = n
  <2>1. \A i \in 1 .. n : t[i] \in Nat
    <3> HIDE DEF t
    <3> QED  BY <1>1, <1>8, <1>9
  <2>2. t \in [1 .. n -> Nat]
    <3>1. t = [i \in 1 .. n |-> t[i]]
      OBVIOUS
    <3> HIDE DEF t
    <3> QED  BY <2>1, <3>1
  <2>3. n \in Nat
    BY <1>8
  <2> HIDE DEF t
  <2> QED  BY <2>2, <2>3, FunctionIsSeq
<1>11. \A i \in 1 .. Len(bytes) : bytes[i] = base + i
  <2>1. ASSUME NEW i \in 1 .. Len(bytes) PROVE bytes[i] = base + i
    <3>1. [j \in 1 .. Len(bytes) |-> delivered[core] * REC + j][i] = base + i
      BY <1>4
    <3> QED  BY <1>3, <3>1
  <2> QED  BY <2>1
<1>12. all = bytes \o t
  OBVIOUS
<1> HIDE DEF t
<1>13. /\ all = [i \in 1 .. Len(bytes) + Len(t) |-> base + i]
       /\ all \in Seq(Nat) /\ Len(all) = Len(bytes) + Len(t)
  <2>1. \A i \in 1 .. Len(t) : t[i] = base + Len(bytes) + i
    BY <1>9, <1>10
  <2>2. /\ bytes \o t = [i \in 1 .. Len(bytes) + Len(t) |-> base + i]
        /\ bytes \o t \in Seq(Nat) /\ Len(bytes \o t) = Len(bytes) + Len(t)
    BY <1>1, <1>10, <1>11, <2>1, Follow
  <2> QED  BY <1>12, <2>2
<1> QED  BY <1>4, <1>8, <1>10, <1>13

\* What a copy does, its bytes named.
LEMMA CopyFacts ==
    ASSUME CoresInv, Copy
    PROVE  \E n \in Nat \ {0}, all \in Seq(Nat) :
               /\ n <= read_buf_left[core] /\ Len(all) = Len(bytes) + n
               /\ all = [i \in 1 .. Len(all) |-> delivered[core] * REC + i]
               /\ bytes' = all
               /\ read_buf_left' = [read_buf_left EXCEPT ![core] = @ - n]
               /\ read_buf_offset' = [read_buf_offset EXCEPT ![core] = @ + n]
               /\ \/ /\ Len(all) < EndOfField
                     /\ UNCHANGED <<pc, core, running, field, delivered, record>>
                  \/ Len(all) = EndOfField /\ FieldDone(all)
<1> DEFINE n   == Least(field_bytes_left, read_buf_left[core])
           all == bytes \o [i \in 1 .. n |-> read_buf[core][read_buf_offset[core] + i - 1]]
<1>1. pc = "trace_read" /\ read_buf_left[core] > 0
  BY DEF Copy
<1>2. /\ bytes' = all
      /\ read_buf_left' = [read_buf_left EXCEPT ![core] = @ - n]
      /\ read_buf_offset' = [read_buf_offset EXCEPT ![core] = @ + n]
      /\ IF n < field_bytes_left
         THEN UNCHANGED <<pc, core, running, field, delivered, record>>
         ELSE FieldDone(all)
  BY DEF Copy
<1>3. /\ n \in Nat \ {0} /\ n <= read_buf_left[core] /\ Len(bytes) + n <= EndOfField
      /\ n < field_bytes_left <=> Len(bytes) + n < EndOfField
      /\ all \in Seq(Nat) /\ Len(all) = Len(bytes) + n
      /\ all = [i \in 1 .. Len(all) |-> delivered[core] * REC + i]
  BY <1>1, CopiedBytes
<1>4. EndOfField \in Nat /\ Len(bytes) \in Nat
  BY Sizes DEF CoresInv, CoresTypeOK
<1> HIDE DEF n, all
<1>5. \/ Len(all) < EndOfField /\ n < field_bytes_left
      \/ Len(all) = EndOfField /\ ~ n < field_bytes_left
  BY <1>3, <1>4
<1> QED  BY <1>2, <1>3, <1>5

\* The buffer of the core after a copy of n bytes, which become part of its records.
LEMMA CopiedCore ==
    ASSUME CoresInv, pc = "trace_read", NEW n \in Nat \ {0}, n <= read_buf_left[core],
           UNCHANGED <<taken, read_buf, done, verdict>>,
           read_buf_left'[core] = read_buf_left[core] - n,
           read_buf_offset'[core] = read_buf_offset[core] + n,
           NEW c \in Pipes, c = core,
           delivered'[c] * REC + Part(c)' = delivered[c] * REC + Part(c) + n
    PROVE  CoreInv(c)'
<1>1. /\ verdict[c] = "none" /\ CoreInv(c)
      /\ read_buf_left[c] \in Int /\ read_buf_offset[c] \in Nat /\ delivered[c] \in Nat
      /\ Part(c) = Len(bytes) /\ Len(bytes) \in Nat /\ BUFFER \in Nat
  BY Sizes DEF CoresInv, CallInv, CoresTypeOK, Part
<1>2. PICK base \in Nat : base = delivered[c] * REC + Part(c)
  <2>1. delivered[c] * REC \in Nat /\ Part(c) \in Nat
    BY <1>1, NextRecord
  <2> QED  BY <2>1
<1>3. /\ done[c] <=> verdict[c] # "none"
      /\ read_buf_left[c] >= 0 /\ read_buf_offset[c] + read_buf_left[c] <= BUFFER
      /\ taken[c] = base + read_buf_left[c]
      /\ \A i \in 0 .. read_buf_left[c] - 1 :
             read_buf[c][read_buf_offset[c] + i] = taken[c] - read_buf_left[c] + 1 + i
  BY <1>1, <1>2 DEF CoreInv
<1>4. /\ read_buf_left'[c] = read_buf_left[c] - n /\ read_buf_offset'[c] = read_buf_offset[c] + n
      /\ delivered'[c] * REC + Part(c)' = base + n
      /\ taken'[c] = taken[c] /\ read_buf'[c] = read_buf[c] /\ verdict'[c] = verdict[c]
      /\ done'[c] = done[c]
  BY <1>2
<1>5. taken'[c] = delivered'[c] * REC + Part(c)' + read_buf_left'[c]
  BY <1>1, <1>3, <1>4
<1>6. read_buf_left'[c] >= 0 /\ read_buf_offset'[c] + read_buf_left'[c] <= BUFFER
  BY <1>1, <1>3, <1>4
<1>7. ASSUME NEW i \in 0 .. read_buf_left'[c] - 1
      PROVE  read_buf'[c][read_buf_offset'[c] + i] = taken'[c] - read_buf_left'[c] + 1 + i
  <2>1. n + i \in 0 .. read_buf_left[c] - 1
    BY <1>1, <1>4
  <2>2. read_buf[c][read_buf_offset[c] + (n + i)] = taken[c] - read_buf_left[c] + 1 + (n + i)
    BY <1>3, <2>1
  <2>3. read_buf_offset[c] + (n + i) = read_buf_offset'[c] + i
    BY <1>1, <1>4
  <2>4. taken[c] \in Int /\ taken'[c] = taken[c]
    BY <1>1, <1>2, <1>3, <1>4
  <2>5. taken[c] - read_buf_left[c] + 1 + (n + i) = taken'[c] - read_buf_left'[c] + 1 + i
    BY <1>1, <1>4, <2>4
  <2> QED  BY <1>4, <2>2, <2>3, <2>5
<1> QED  BY <1>3, <1>4, <1>5, <1>6, <1>7 DEF CoreInv

LEMMA CopyKeeps ==
    ASSUME CoresInv, Copy
    PROVE  CoresInv'
<1>1. PICK n \in Nat \ {0}, all \in Seq(Nat) :
               /\ n <= read_buf_left[core] /\ Len(all) = Len(bytes) + n
               /\ all = [i \in 1 .. Len(all) |-> delivered[core] * REC + i]
               /\ bytes' = all
               /\ read_buf_left' = [read_buf_left EXCEPT ![core] = @ - n]
               /\ read_buf_offset' = [read_buf_offset EXCEPT ![core] = @ + n]
               /\ \/ /\ Len(all) < EndOfField
                     /\ UNCHANGED <<pc, core, running, field, delivered, record>>
                  \/ Len(all) = EndOfField /\ FieldDone(all)
  BY CopyFacts
<1>2. /\ pc = "trace_read" /\ UNCHANGED <<pipe_vars, read_buf, done, verdict>>
  BY DEF Copy
<1>3. /\ core \in Pipes /\ field \in 1 .. 3 /\ running \in BOOLEAN /\ Len(bytes) \in Nat
      /\ delivered \in [Pipes -> Nat] /\ record \in [Pipes -> Seq(Nat)]
      /\ read_buf_left \in [Pipes -> Int] /\ read_buf_offset \in [Pipes -> Nat]
      /\ pc \in {"trace_read"}
  BY <1>2 DEF CoresInv, CoresTypeOK
<1>4. /\ child[core] # "none" /\ verdict[core] = "none" /\ Len(bytes) < EndOfField
      /\ CoreInv(core) /\ Part(core) = Len(bytes)
  BY <1>2, <1>3 DEF CoresInv, CallInv, Part
<1>5. EndOfField \in Nat /\ REC \in Nat \ {0} /\ BUFFER \in Nat
  BY <1>3, Sizes
<1>6. PipeInv'
  BY <1>2 DEF CoresInv, pipe_vars, child_vars, PipeInv, PipeTypeOK, ChildInv
<1>7. UNCHANGED <<child, taken, writers>>
  BY <1>2 DEF pipe_vars
<1>8. CASE \/ Len(all) < EndOfField /\ UNCHANGED <<pc, core, running, field, delivered, record>>
           \/ Len(all) = EndOfField /\ FieldDone(all) /\ field < 3
  <2>1. /\ UNCHANGED <<pc, core, running, delivered, record>>
        /\ field' \in 1 .. 3 /\ Len(all) < EndOfField'
    <3>1. CASE Len(all) < EndOfField /\ UNCHANGED <<pc, core, running, field, delivered, record>>
      BY <1>3, <3>1 DEF EndOfField
    <3>2. CASE Len(all) = EndOfField /\ FieldDone(all) /\ field < 3
      <4>1. field' = field + 1 /\ UNCHANGED <<pc, core, running, delivered, record>>
        BY <3>2 DEF FieldDone
      <4>2. field \in 1 .. 2 /\ field' \in 1 .. 3
        BY <1>3, <3>2, <4>1
      <4>3. EndOfField' > EndOfField
        BY <4>1, <4>2, Sizes
      <4>4. EndOfField' \in Nat
        <5>1. field' = 2 \/ field' = 3
          BY <4>1, <4>2
        <5>2. inst_addr_size \in Nat /\ inst_type_size \in Nat /\ ldst_addr_size \in Nat
          <6>1. \A f \in 1 .. 3 : FIELDS[f] \in Nat
            BY BufferAssumption
          <6>2. FIELDS[1] \in Nat /\ FIELDS[2] \in Nat /\ FIELDS[3] \in Nat
            BY <6>1
          <6> QED  BY <6>2 DEF FIELDS
        <5> QED  BY <5>1, <5>2 DEF EndOfField, FIELDS, REC
      <4> QED  BY <1>5, <3>2, <4>1, <4>2, <4>3, <4>4
    <3> QED  BY <1>8, <3>1, <3>2
  <2>2. CoresTypeOK'
    <3>1. read_buf_left' \in [Pipes -> Int] /\ read_buf_offset' \in [Pipes -> Nat]
      BY <1>1, <1>3
    <3> QED  BY <1>1, <1>2, <2>1, <3>1 DEF CoresInv, CoresTypeOK
  <2>3. ASSUME NEW c \in Pipes PROVE CoreInv(c)'
    <3>1. CASE c # core
      <4>1. CoreInv(c) /\ Part(c) = 0 /\ Part(c)' = 0
        BY <2>1, <3>1 DEF CoresInv, Part
      <4>2. read_buf_left'[c] = read_buf_left[c] /\ read_buf_offset'[c] = read_buf_offset[c]
        BY <1>1, <1>3, <3>1
      <4> QED  BY <1>2, <1>7, <2>1, <4>1, <4>2, CoreKept
    <3>2. CASE c = core
      <4>1. Part(c)' = Len(bytes) + n
        BY <1>1, <1>2, <2>1, <3>2 DEF Part
      <4>2. /\ read_buf_left'[c] = read_buf_left[c] - n
            /\ read_buf_offset'[c] = read_buf_offset[c] + n
        BY <1>1, <1>3, <3>2
      <4>3. delivered'[c] * REC \in Nat /\ delivered'[c] = delivered[c]
        BY <1>3, <2>1, NextRecord
      <4>4. delivered'[c] * REC + Part(c)' = delivered[c] * REC + Part(c) + n
        <5>1. PICK base \in Nat : base = delivered[c] * REC
          BY <4>3
        <5>2. Part(c) = Len(bytes)
          BY <1>4, <3>2
        <5> QED  BY <1>3, <4>1, <4>3, <5>1, <5>2
      <4> QED  BY <1>1, <1>2, <1>7, <3>2, <4>2, <4>3, <4>4, CopiedCore
    <3> QED  BY <3>1, <3>2
  <2>4. CallInv'
    BY <1>1, <1>2, <1>4, <1>7, <2>1 DEF CallInv
  <2>5. OpenInv'
    BY <1>2, <1>7, <2>1 DEF CoresInv, OpenInv
  <2> QED  BY <1>6, <2>2, <2>3, <2>4, <2>5 DEF CoresInv
<1>9. CASE Len(all) = EndOfField /\ FieldDone(all) /\ field = 3
  <2>1. /\ delivered' = [delivered EXCEPT ![core] = @ + 1]
        /\ record' = [record EXCEPT ![core] = all]
        /\ Returned /\ field' = field /\ Len(all) = REC
    BY <1>9, Sizes DEF FieldDone
  <2>2. /\ pc' \in {"loop", "core_new"} /\ core' \in Pipes /\ running' \in BOOLEAN
        /\ pc' = "loop" => running'
        /\ running' => pc' = "loop" /\ \A c \in Pipes : child[c] # "none"
        /\ ~ running' => \A c \in Pipes : /\ c < core' => child[c] # "none"
                                          /\ c >= core' => c # core /\ verdict[c] = "none"
    BY <1>2, <2>1, ReturnedKeeps
  <2>3. CoresTypeOK'
    <3>1. read_buf_left' \in [Pipes -> Int] /\ read_buf_offset' \in [Pipes -> Nat]
      BY <1>1, <1>3
    <3>2. delivered' \in [Pipes -> Nat]
      BY <1>3, <2>1
    <3>3. record' \in [Pipes -> Seq(Nat)]
      BY <1>3, <2>1
    <3> QED  BY <1>1, <1>2, <1>3, <2>1, <2>2, <3>1, <3>2, <3>3 DEF CoresInv, CoresTypeOK
  <2>4. ASSUME NEW c \in Pipes PROVE CoreInv(c)'
    <3>1. CASE c # core
      <4>1. CoreInv(c) /\ Part(c) = 0 /\ Part(c)' = 0
        BY <2>2, <3>1 DEF CoresInv, Part
      <4>2. /\ read_buf_left'[c] = read_buf_left[c] /\ read_buf_offset'[c] = read_buf_offset[c]
            /\ delivered'[c] = delivered[c]
        BY <1>1, <1>3, <2>1, <3>1
      <4> QED  BY <1>2, <1>7, <4>1, <4>2, CoreKept
    <3>2. CASE c = core
      <4>1. Part(c)' = 0 /\ Len(bytes) + n = REC
        BY <1>1, <2>1, <2>2 DEF Part
      <4>2. /\ read_buf_left'[c] = read_buf_left[c] - n
            /\ read_buf_offset'[c] = read_buf_offset[c] + n
            /\ delivered'[c] = delivered[c] + 1
        BY <1>1, <1>3, <2>1, <3>2
      <4>3. PICK base \in Nat : base = delivered[c] * REC /\ (delivered[c] + 1) * REC = base + REC
        BY <1>3, NextRecord
      <4>4. delivered'[c] * REC + Part(c)' = delivered[c] * REC + Part(c) + n
        <5>1. Part(c) = Len(bytes)
          BY <1>4, <3>2
        <5>2. delivered'[c] * REC + Part(c)' = base + REC + 0
          BY <1>5, <4>1, <4>2, <4>3
        <5> QED  BY <1>3, <1>5, <4>1, <4>3, <5>1, <5>2
      <4> QED  BY <1>1, <1>2, <1>7, <3>2, <4>2, <4>4, CopiedCore
    <3> QED  BY <3>1, <3>2
  <2>5. CallInv'
    BY <2>2 DEF CallInv
  <2>6. OpenInv'
    <3>1. \A c \in Pipes : c \in Nat
      BY CoreNumbers
    <3>2. core' >= core' /\ \A c \in Pipes : c > core' => c >= core'
      BY <2>2, <3>1
    <3> QED  BY <1>2, <1>7, <2>2, <3>2 DEF OpenInv
  <2> QED  BY <1>6, <2>3, <2>4, <2>5, <2>6 DEF CoresInv
<1>10. field < 3 \/ field = 3
  BY <1>3
<1> QED  BY <1>1, <1>8, <1>9, <1>10

LEMMA AllDoneKeeps ==
    ASSUME CoresInv, AllDone
    PROVE  CoresInv'
<1>1. PipeInv'
  BY DEF CoresInv, AllDone, pipe_vars, child_vars, PipeInv, PipeTypeOK, ChildInv
<1>2. /\ pc = "loop" /\ pc' = "print_stats" /\ core' = 0 /\ running
      /\ UNCHANGED <<child, taken, writers, call_vars, core_vars>>
  BY DEF AllDone, pipe_vars, CoresInv, OpenInv
<1>3. CoresTypeOK'
  BY <1>2, CoreNumbers DEF CoresInv, CoresTypeOK, call_vars, core_vars
<1>4. ASSUME NEW c \in Pipes PROVE CoreInv(c)'
  <2>1. CoreInv(c) /\ Part(c)' = Part(c)
    BY <1>2 DEF CoresInv, Part
  <2> QED  BY <1>2, <2>1, CoreKept DEF core_vars
<1>5. CallInv' /\ OpenInv'
  BY <1>2 DEF CoresInv, CallInv, OpenInv, call_vars
<1> QED  BY <1>1, <1>3, <1>4, <1>5 DEF CoresInv

LEMMA EndKeeps ==
    ASSUME CoresInv, Close \/ Wait
    PROVE  CoresInv'
<1>1. core \in Pipes
  BY DEF CoresInv, CoresTypeOK
<1>2. PipeInv'
  BY <1>1, CloseInv DEF CoresInv, Close, Wait, pipe_vars, child_vars, PipeInv, PipeTypeOK, ChildInv
<1>3. /\ pc \in {"print_stats", "waitpid"} /\ running
      /\ pc' \in {"print_stats", "waitpid", "exited"}
      /\ UNCHANGED <<child, taken, writers, call_vars, core_vars>>
  BY DEF Close, CloseReadEnd, Wait, pipe_vars, CoresInv, OpenInv
<1>4. core' \in Pipes
  BY <1>1, CoreNumbers DEF Close, Wait
<1>5. CoresTypeOK'
  BY <1>3, <1>4 DEF CoresInv, CoresTypeOK, call_vars, core_vars
<1>6. ASSUME NEW c \in Pipes PROVE CoreInv(c)'
  <2>1. CoreInv(c) /\ Part(c)' = Part(c)
    BY <1>3 DEF CoresInv, Part
  <2> QED  BY <1>3, <2>1, CoreKept DEF core_vars
<1>7. CallInv' /\ OpenInv'
  BY <1>3 DEF CoresInv, CallInv, OpenInv, call_vars
<1> QED  BY <1>2, <1>5, <1>6, <1>7 DEF CoresInv

LEMMA ChildKeeps ==
    ASSUME CoresInv, NEW p \in Pipes, ChildStep(p)
    PROVE  CoresInv'
<1>1. /\ PipeInv' /\ UNCHANGED taken /\ child'[p] # "none"
      /\ \A q \in Pipes \ {p} : child'[q] = child[q]
  BY ChildStepInv DEF CoresInv, ChildStep
<1>2. UNCHANGED <<pc, core, call_vars, core_vars>>
  BY DEF ChildStep, main_vars
<1>3. ASSUME NEW c \in Pipes, Main \in writers[c] PROVE Main \in writers'[c]
  <2>1. Main # p
    BY MainIsNoPipe
  <2> QED
    BY <1>3, <2>1 DEF ChildStep, Child, Runs, Exec, Write, Exits, GivesUp, Killed, Ends, CoresInv,
       PipeInv, PipeTypeOK
<1>4. CoresTypeOK'
  BY <1>2 DEF CoresInv, CoresTypeOK, call_vars, core_vars
<1>5. ASSUME NEW c \in Pipes PROVE CoreInv(c)'
  <2>1. CoreInv(c) /\ Part(c)' = Part(c)
    BY <1>2 DEF CoresInv, Part, call_vars
  <2> QED  BY <1>1, <1>2, <2>1, CoreKept DEF core_vars
<1>6. core \in Pipes /\ \A c \in Pipes : child[c] # "none" => child'[c] # "none"
  BY <1>1 DEF CoresInv, CoresTypeOK
<1>7. CallInv'
  <2>1. EndOfField' = EndOfField
    BY <1>2 DEF EndOfField, call_vars
  <2> QED  BY <1>2, <1>6, <2>1 DEF CoresInv, CallInv, call_vars, core_vars
<1>8. OpenInv'
  BY <1>2, <1>3, <1>6 DEF CoresInv, OpenInv, call_vars, core_vars
<1> QED  BY <1>1, <1>4, <1>5, <1>7, <1>8 DEF CoresInv

LEMMA StepCoresInv == CoresInv /\ [Next]_vars => CoresInv'
<1> SUFFICES ASSUME CoresInv, [Next]_vars PROVE CoresInv'
  OBVIOUS
<1>1. CASE UNCHANGED vars
  <2>1. UNCHANGED <<pipe_vars, pc, core, call_vars, core_vars>>
    BY <1>1 DEF vars
  <2>2. PipeInv'
    BY <2>1 DEF CoresInv, pipe_vars, child_vars, PipeInv, PipeTypeOK, ChildInv
  <2>3. CoresTypeOK' /\ CallInv' /\ OpenInv'
    <3>1. EndOfField' = EndOfField
      BY <2>1 DEF EndOfField, call_vars
    <3> QED
      BY <2>1, <3>1 DEF CoresInv, CoresTypeOK, CallInv, OpenInv, pipe_vars, call_vars, core_vars
  <2>4. ASSUME NEW c \in Pipes PROVE CoreInv(c)'
    <3>1. CoreInv(c) /\ Part(c)' = Part(c)
      BY <2>1 DEF CoresInv, Part, call_vars
    <3> QED  BY <2>1, <3>1, CoreKept DEF core_vars, pipe_vars
  <2> QED  BY <2>2, <2>3, <2>4 DEF CoresInv
<1>2. CASE RefillEnd
  <2>1. PICK v \in {"end", "truncated", "error"} : RefillFails(0, v)
    BY <1>2 DEF RefillEnd
  <2> QED  BY <2>1, RefillFailsKeeps
<1>3. CASE RefillError
  <2>1. PICK v \in {"end", "truncated", "error"} : RefillFails(-1, v)
    BY <1>3 DEF RefillError
  <2> QED  BY <2>1, RefillFailsKeeps
<1>4. CASE \E p \in Pipes : ChildStep(p)
  BY <1>4, ChildKeeps
<1> QED
  BY <1>1, <1>2, <1>3, <1>4, OpenKeeps, OpenedKeeps, CoreCycleKeeps, AllDoneKeeps, RefillKeeps,
     CopyKeeps, EndKeeps DEF Next, MainStep, MainRuns

LEMMA CoresInvHolds == Spec => []CoresInv
<1>1. CoresInv /\ [Next]_vars => CoresInv'
  BY StepCoresInv
<1> QED  BY <1>1, InitInv, PTL DEF Spec

-----------------------------------------------------------------------------
(* The refinement of RecordStream, core by core. *)

LEMMA StreamsBegin == Init => \A c \in Pipes : Stream(c)!StreamInit
BY DEF Init, PipeInit, Stream!StreamInit

\* The steps of main of which no stream sees anything.
LEMMA MainStutters ==
    ASSUME CoresInv, NEW c \in Pipes,
           Open \/ CoreCycle \/ AllDone \/ Refill \/ Close \/ Wait
    PROVE  UNCHANGED Stream(c)!stream_vars
<1>1. UNCHANGED sent /\ UNCHANGED <<delivered, record, verdict>>
  BY DEF Open, Fork, CoreCycle, AllDone, Refill, Read, Close, CloseReadEnd, Wait, pipe_vars,
         core_vars
<1>2. (child'[c] # "none" /\ writers'[c] = {}) = (child[c] # "none" /\ writers[c] = {})
  <2>1. CASE Open
    BY <2>1, SMTT(30) DEF Open, Fork, CoresInv, PipeInv, PipeTypeOK, ChildInv
  <2>2. CASE CoreCycle \/ AllDone \/ Refill \/ Close \/ Wait
    <3>1. UNCHANGED <<child, writers>>
      BY <2>2 DEF CoreCycle, AllDone, Refill, Read, Close, CloseReadEnd, Wait, pipe_vars
    <3> QED  BY <3>1
  <2> QED  BY <2>1, <2>2
<1> QED  BY <1>1, <1>2 DEF Stream!stream_vars

\* Until main has closed its write end, and as long as the child lives, there can be more.
LEMMA Supplies ==
    ASSUME CoresInv, NEW p \in Pipes, ChildStep(p) \/ (Opened /\ p = core)
    PROVE  /\ Stream(p)!Supply
           /\ \A c \in Pipes \ {p} : UNCHANGED Stream(c)!stream_vars
<1>1. CASE ChildStep(p)
  <2>1. /\ p \in writers[p] /\ sent'[p] >= sent[p]
        /\ \A q \in Pipes \ {p} :
               sent'[q] = sent[q] /\ writers'[q] = writers[q] /\ child'[q] = child[q]
    BY <1>1, ChildStepInv DEF CoresInv, ChildStep
  <2>2. UNCHANGED <<delivered, record, verdict>>
    BY <1>1 DEF ChildStep, main_vars, core_vars
  <2> QED  BY <2>1, <2>2 DEF Stream!Supply, Stream!stream_vars
<1>2. CASE Opened /\ p = core
  <2>1. /\ Main \in writers[p] /\ sent' = sent /\ child' = child
        /\ \A q \in Pipes \ {p} : writers'[q] = writers[q]
        /\ UNCHANGED <<delivered, record, verdict>>
    BY <1>2 DEF Opened, CloseWriteEnd, core_vars, CoresInv, OpenInv, PipeInv, PipeTypeOK
  <2>2. sent[p] \in Nat
    BY DEF CoresInv, PipeInv, PipeTypeOK
  <2> QED  BY <2>1, <2>2 DEF Stream!Supply, Stream!stream_vars
<1> QED  BY <1>1, <1>2

\* A copy that ends the last field delivers a record.
LEMMA CopyDelivers ==
    ASSUME CoresInv, NEW k \in Pipes, k = core, Copy
    PROVE  \/ \A c \in Pipes : UNCHANGED Stream(c)!stream_vars
           \/ /\ Stream(k)!Deliver
              /\ \A c \in Pipes \ {k} : UNCHANGED Stream(c)!stream_vars
<1>1. PICK n \in Nat \ {0}, all \in Seq(Nat) :
               /\ n <= read_buf_left[core] /\ Len(all) = Len(bytes) + n
               /\ all = [i \in 1 .. Len(all) |-> delivered[core] * REC + i]
               /\ \/ /\ Len(all) < EndOfField
                     /\ UNCHANGED <<pc, core, running, field, delivered, record>>
                  \/ Len(all) = EndOfField /\ FieldDone(all)
  BY CopyFacts
<1>2. pc = "trace_read" /\ UNCHANGED <<sent, child, writers, verdict>>
  BY DEF Copy, pipe_vars
<1>3. /\ core \in Pipes /\ field \in 1 .. 3 /\ Len(bytes) \in Nat /\ REC \in Nat \ {0}
      /\ delivered \in [Pipes -> Nat] /\ record \in [Pipes -> Seq(Nat)]
      /\ read_buf_left[core] \in Int
  BY Sizes DEF CoresInv, CoresTypeOK
<1>4. CASE UNCHANGED <<delivered, record>>
  BY <1>2, <1>4 DEF Stream!stream_vars
<1>5. CASE Len(all) = EndOfField /\ FieldDone(all) /\ field = 3
  <2>1. /\ delivered' = [delivered EXCEPT ![core] = @ + 1]
        /\ record' = [record EXCEPT ![core] = all] /\ Len(all) = REC
    BY <1>5, Sizes DEF FieldDone
  <2>2. Stream(k)!Complete
    <3>1. PICK base \in Nat : /\ base = delivered[core] * REC
                              /\ (delivered[core] + 1) * REC = base + REC
      BY <1>3, NextRecord
    <3>2. CoreInv(core) /\ verdict[core] = "none" /\ Part(core) = Len(bytes)
      BY <1>2, <1>3 DEF CoresInv, CallInv, Part
    <3>3. taken[core] = base + Len(bytes) + read_buf_left[core]
      BY <3>1, <3>2 DEF CoreInv
    <3>4. taken[core] <= sent[core] /\ sent[core] \in Nat
      BY <1>3 DEF CoresInv, PipeInv, PipeTypeOK, ChildInv
    <3>5. sent[core] >= base + REC
      BY <1>1, <1>3, <2>1, <3>3, <3>4
    <3> QED  BY <3>1, <3>5 DEF Stream!Complete
  <2>3. /\ delivered'[core] = delivered[core] + 1
        /\ record'[core] = [i \in 1 .. REC |-> delivered[core] * REC + i]
        /\ \A c \in Pipes \ {k} : delivered'[c] = delivered[c] /\ record'[c] = record[c]
    BY <1>1, <1>3, <2>1
  <2>4. verdict[core] = "none"
    BY <1>2 DEF CoresInv, CallInv
  <2>5. Stream(k)!Deliver
    BY <1>2, <2>2, <2>3, <2>4 DEF Stream!Deliver
  <2> QED  BY <1>2, <2>3, <2>5 DEF Stream!stream_vars
<1>6. \/ UNCHANGED <<delivered, record>>
      \/ Len(all) = EndOfField /\ FieldDone(all) /\ field = 3
  BY <1>1, <1>3 DEF FieldDone
<1> QED  BY <1>4, <1>5, <1>6

\* A refill that gives nothing concludes that the bytes end where they do.
LEMMA RefillConcludes ==
    ASSUME CoresInv, NEW k \in Pipes, k = core, RefillEnd \/ RefillError
    PROVE  /\ Stream(k)!Conclude \/ Stream(k)!Fail
           /\ \A c \in Pipes \ {k} : UNCHANGED Stream(c)!stream_vars
<1>1. PICK got \in {0, -1}, v \in {"end", "truncated", "error"} :
          /\ RefillFails(got, v)
          /\ got = 0 => v = IF bytes = <<>> THEN "end" ELSE "truncated"
          /\ got = -1 => v = "error"
  BY DEF RefillEnd, RefillError
<1>2. /\ core \in Pipes /\ pc = "trace_read" /\ read_buf_left[core] = 0 /\ Read(core, BUFFER, got)
      /\ verdict' = [verdict EXCEPT ![core] = v] /\ UNCHANGED <<delivered, record>>
  BY <1>1 DEF RefillFails, CoresInv, CoresTypeOK
<1>3. UNCHANGED <<sent, child, writers>>
  BY <1>2 DEF Read
<1>4. /\ verdict'[core] = v /\ verdict[core] = "none" /\ child[core] # "none"
      /\ \A c \in Pipes \ {k} : verdict'[c] = verdict[c]
  BY <1>2 DEF CoresInv, CoresTypeOK, CallInv
<1>5. \A c \in Pipes \ {k} : UNCHANGED Stream(c)!stream_vars
  BY <1>2, <1>3, <1>4 DEF Stream!stream_vars
<1>6. CASE got = -1
  <2>1. Stream(k)!Fail
    BY <1>1, <1>2, <1>3, <1>4, <1>6 DEF Stream!Fail
  <2> QED  BY <1>5, <2>1
<1>7. CASE got = 0
  <2>1. /\ bytes \in Seq(Nat) /\ Len(bytes) \in Nat /\ field \in 1 .. 3 /\ delivered[core] \in Nat
        /\ CoreInv(core) /\ Part(core) = Len(bytes) /\ Len(bytes) < EndOfField /\ PipeInv
    BY <1>2 DEF CoresInv, CoresTypeOK, CallInv, Part
  <2>2. BUFFER \in Nat /\ BUFFER > 0 /\ REC \in Nat /\ EndOfField \in Nat /\ EndOfField <= REC
    BY <2>1, Sizes
  <2>3. sent[core] = taken[core] /\ writers[core] = {}
    <3>1. Read(core, BUFFER, 0)
      BY <1>2, <1>7
    <3> QED  BY <1>2, <2>1, <2>2, <3>1, ReadInv
  <2>4. PICK base \in Nat : /\ base = delivered[core] * REC
                            /\ (delivered[core] + 1) * REC = base + REC
    BY <2>1, NextRecord
  <2>5. sent[core] = base + Len(bytes) /\ Len(bytes) < REC
    <3>1. taken[core] = base + Len(bytes) + 0
      BY <1>2, <1>4, <2>1, <2>4 DEF CoreInv
    <3> QED  BY <2>1, <2>2, <2>3, <2>4, <3>1
  <2>6. ~ Stream(k)!Complete
    BY <2>1, <2>2, <2>4, <2>5 DEF Stream!Complete
  <2>7. bytes = <<>> <=> sent[core] = delivered[core] * REC
    <3>1. bytes = <<>> <=> Len(bytes) = 0
      BY <2>1
    <3> QED  BY <2>1, <2>4, <2>5, <3>1
  <2>8. v = IF sent[core] = delivered[core] * REC THEN "end" ELSE "truncated"
    BY <1>1, <1>7, <2>7
  <2>9. Stream(k)!Conclude
    BY <1>2, <1>3, <1>4, <2>3, <2>6, <2>8 DEF Stream!Conclude
  <2> QED  BY <1>5, <2>9
<1> QED  BY <1>6, <1>7

LEMMA StreamsGoOn ==
    CoresInv /\ [Next]_vars => \A c \in Pipes : [Stream(c)!StreamNext]_(Stream(c)!stream_vars)
<1> SUFFICES ASSUME CoresInv, [Next]_vars, NEW c \in Pipes
             PROVE  Stream(c)!StreamNext \/ UNCHANGED Stream(c)!stream_vars
  OBVIOUS
<1>1. CASE UNCHANGED vars
  BY <1>1 DEF vars, pipe_vars, core_vars, Stream!stream_vars
<1>2. core \in Pipes
  BY DEF CoresInv, CoresTypeOK
<1>3. CASE Open \/ CoreCycle \/ AllDone \/ Refill \/ Close \/ Wait
  BY <1>3, MainStutters
<1>4. CASE Opened
  <2>1. PICK k \in Pipes : k = core
    BY <1>2
  <2>2. Stream(k)!Supply /\ \A d \in Pipes \ {k} : UNCHANGED Stream(d)!stream_vars
    BY <1>4, <2>1, Supplies
  <2> QED  BY <2>2 DEF Stream!StreamNext
<1>5. CASE \E p \in Pipes : ChildStep(p)
  <2>1. PICK p \in Pipes : ChildStep(p)
    BY <1>5
  <2>2. Stream(p)!Supply /\ \A d \in Pipes \ {p} : UNCHANGED Stream(d)!stream_vars
    BY <2>1, Supplies
  <2> QED  BY <2>2 DEF Stream!StreamNext
<1>6. CASE Copy
  <2>1. PICK k \in Pipes : k = core
    BY <1>2
  <2>2. \/ \A d \in Pipes : UNCHANGED Stream(d)!stream_vars
        \/ /\ Stream(k)!Deliver
           /\ \A d \in Pipes \ {k} : UNCHANGED Stream(d)!stream_vars
    BY <1>6, <2>1, CopyDelivers
  <2> QED  BY <2>2 DEF Stream!StreamNext
<1>7. CASE RefillEnd \/ RefillError
  <2>1. PICK k \in Pipes : k = core
    BY <1>2
  <2>2. /\ Stream(k)!Conclude \/ Stream(k)!Fail
        /\ \A d \in Pipes \ {k} : UNCHANGED Stream(d)!stream_vars
    BY <1>7, <2>1, RefillConcludes
  <2> QED  BY <2>2 DEF Stream!StreamNext
<1> QED
  BY <1>1, <1>3, <1>4, <1>5, <1>6, <1>7 DEF Next, MainStep, MainRuns

(***************************************************************************)
(* Every core of Lab 4 reads its own trace as RecordStream says, wherever  *)
(* the buffer, short reads and refills cut the records: each record once,  *)
(* in its order and made of its own bytes, and done is set only at the end *)
(* of the bytes, in the middle of a last record, or at an error.           *)
(***************************************************************************)
THEOREM CoresReadTheirStreamsHolds == Spec => CoresReadTheirStreams
<1>1. Init => \A c \in Pipes : Stream(c)!StreamInit
  BY StreamsBegin
<1>2. CoresInv /\ [Next]_vars
          => [\A c \in Pipes : [Stream(c)!StreamNext]_(Stream(c)!stream_vars)]_vars
  BY StreamsGoOn
<1> QED  BY <1>1, <1>2, CoresInvHolds, PTL DEF Spec, CoresReadTheirStreams
=============================================================================
