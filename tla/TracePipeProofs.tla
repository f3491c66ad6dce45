-------------------------- MODULE TracePipeProofs ---------------------------
(***************************************************************************)
(* What is always true of a pipe and of the child that writes to it,       *)
(* whichever program has opened it: one lemma for each operation.  The     *)
(* proofs about the readers of the four labs rest on it.                   *)
(***************************************************************************)
EXTENDS TracePipe, TLAPS

PipeTypeOK ==
    /\ child \in [Pipes -> {"none", "forked", "running", "exited"}]
    /\ is_gunzip \in [Pipes -> BOOLEAN]
    /\ exit_status \in [Pipes -> Int]
    /\ size \in [Pipes -> Nat] /\ sent \in [Pipes -> Nat] /\ taken \in [Pipes -> Nat]
    /\ writers \in [Pipes -> SUBSET Processes] /\ readers \in [Pipes -> SUBSET Processes]

(***************************************************************************)
(* No byte is taken before it is sent.  Only main and the child itself can *)
(* write to a pipe, the child exactly as long as it lives.  What a child   *)
(* that could not exec has to write it writes at once; it ends with 127    *)
(* unless it is killed before, for which main must have let go of the read *)
(* end.                                                                    *)
(***************************************************************************)
ChildInv(p) ==
    /\ taken[p] <= sent[p] /\ sent[p] <= size[p]
    /\ writers[p] \subseteq {Main, p}
    /\ p \in writers[p] <=> child[p] \in {"forked", "running"}
    /\ child[p] = "none" => writers[p] = {}
    /\ child[p] \in {"none", "forked"} => sent[p] = 0 /\ ~ is_gunzip[p]
    /\ ~ is_gunzip[p] => sent[p] \in {0, size[p]}
    /\ child[p] = "exited" /\ ~ is_gunzip[p] =>
           IF sent[p] = size[p] THEN exit_status[p] = 127 ELSE Main \notin readers[p]

PipeInv == PipeTypeOK /\ \A p \in Pipes : ChildInv(p)

LEMMA MainIsNoPipe == Main \notin Pipes /\ \A p \in Pipes : {Main, p} \subseteq Processes
BY TracePipeAssumption DEF Main, Processes

LEMMA SizesAreNumbers ==
    TraceSizes \subseteq Nat /\ JunkSizes \subseteq Nat /\ Blocks \subseteq Nat \ {0}
<1>1. Blocks \subseteq 1 .. CAPACITY /\ JunkSizes \subseteq 0 .. CAPACITY
  BY TracePipeAssumption
<1>2. 1 .. CAPACITY \subseteq Nat \ {0} /\ 0 .. CAPACITY \subseteq Nat
  OBVIOUS
<1> QED  BY <1>1, <1>2, TracePipeAssumption

LEMMA PipeInitInv == PipeInit => PipeInv
<1> SUFFICES ASSUME PipeInit PROVE PipeInv
  OBVIOUS
<1>1. size \in [Pipes -> Nat]
  BY SizesAreNumbers DEF PipeInit
<1>2. PipeTypeOK
  BY <1>1 DEF PipeInit, PipeTypeOK
<1>3. ASSUME NEW p \in Pipes PROVE ChildInv(p)
  BY <1>1 DEF PipeInit, ChildInv
<1> QED  BY <1>2, <1>3 DEF PipeInv

LEMMA ForkInv ==
    ASSUME PipeInv, NEW p \in Pipes, Fork(p)
    PROVE  PipeInv'
<1>1. PipeTypeOK'
  BY MainIsNoPipe DEF PipeInv, PipeTypeOK, Fork, child_vars
<1>2. ASSUME NEW q \in Pipes PROVE ChildInv(q)'
  BY MainIsNoPipe DEF PipeInv, PipeTypeOK, ChildInv, Fork, child_vars
<1> QED  BY <1>1, <1>2 DEF PipeInv

LEMMA CloseInv ==
    ASSUME PipeInv, NEW p \in Pipes, CloseWriteEnd(p) \/ CloseReadEnd(p)
    PROVE  PipeInv'
BY MainIsNoPipe DEF PipeInv, PipeTypeOK, ChildInv, CloseWriteEnd, CloseReadEnd, child_vars

\* A read takes what is there, or nothing.
LEMMA ReadInv ==
    ASSUME PipeInv, NEW p \in Pipes, NEW n \in Nat, NEW got \in Int, Read(p, n, got)
    PROVE  /\ PipeInv'
           /\ got > 0 => got <= n /\ taken'[p] = taken[p] + got /\ taken[p] + got <= sent[p]
           /\ got <= 0 => UNCHANGED taken
           /\ got = 0 /\ n > 0 => sent[p] = taken[p] /\ writers[p] = {}
<1>1. got > 0 => got <= n /\ taken[p] + got <= sent[p]
  BY DEF PipeInv, PipeTypeOK, Read, Held, Least
<1>2. taken' = [taken EXCEPT ![p] = IF got > 0 THEN @ + got ELSE @]
  BY DEF Read
<1>3. PipeTypeOK'
  BY <1>2 DEF PipeInv, PipeTypeOK, Read, child_vars
<1>4. ASSUME NEW q \in Pipes PROVE ChildInv(q)'
  BY <1>1, <1>2 DEF PipeInv, PipeTypeOK, ChildInv, Read, child_vars
<1>5. got = 0 /\ n > 0 => sent[p] = taken[p] /\ writers[p] = {}
  BY DEF PipeInv, PipeTypeOK, Read, Held, Least
<1> QED  BY <1>1, <1>2, <1>3, <1>4, <1>5 DEF PipeInv, PipeTypeOK

-----------------------------------------------------------------------------
(* The child. *)

LEMMA ExecInv ==
    ASSUME PipeInv, NEW p \in Pipes, Exec(p)
    PROVE  PipeInv'
<1>1. PICK n \in Nat : \/ size' = [size EXCEPT ![p] = n] /\ is_gunzip' = is_gunzip
                       \/ is_gunzip' = [is_gunzip EXCEPT ![p] = TRUE] /\ size' = size
  <2>1. CASE is_gunzip' = [is_gunzip EXCEPT ![p] = TRUE] /\ size' = size
    BY <2>1
  <2>2. CASE is_gunzip' # [is_gunzip EXCEPT ![p] = TRUE] \/ size' # size
    BY <2>2, SizesAreNumbers DEF Exec
  <2> QED  BY <2>1, <2>2
<1>2. PipeTypeOK'
  BY <1>1, MainIsNoPipe DEF PipeInv, PipeTypeOK, Exec
<1>3. ASSUME NEW q \in Pipes PROVE ChildInv(q)'
  BY <1>1, MainIsNoPipe DEF PipeInv, PipeTypeOK, ChildInv, Exec
<1> QED  BY <1>2, <1>3 DEF PipeInv

LEMMA WriteInv ==
    ASSUME PipeInv, NEW p \in Pipes, Write(p)
    PROVE  PipeInv' /\ sent'[p] > sent[p]
<1>1. PICK b \in Nat \ {0} :
          sent' = [sent EXCEPT ![p] = @ + IF is_gunzip[p] THEN Least(b, size[p] - sent[p])
                                          ELSE size[p]]
  BY SizesAreNumbers DEF Write
<1>2. /\ sent'[p] > sent[p] /\ sent'[p] <= size[p] /\ sent'[p] \in Nat
      /\ ~ is_gunzip[p] => sent'[p] = size[p]
  BY <1>1 DEF PipeInv, PipeTypeOK, ChildInv, Write, Least
<1>3. sent' = [sent EXCEPT ![p] = sent'[p]]
  BY <1>1 DEF PipeInv, PipeTypeOK
<1>4. PipeTypeOK'
  BY <1>2, <1>3 DEF PipeInv, PipeTypeOK, Write, child_vars
<1>5. ASSUME NEW q \in Pipes PROVE ChildInv(q)'
  BY <1>2, <1>3 DEF PipeInv, PipeTypeOK, ChildInv, Write, child_vars
<1> QED  BY <1>2, <1>4, <1>5 DEF PipeInv

LEMMA EndsInv ==
    ASSUME PipeInv, NEW p \in Pipes, NEW s \in Int, Ends(p, s), child[p] = "running",
           ~ is_gunzip[p] => IF sent[p] = size[p] THEN s = 127 ELSE Main \notin readers[p]
    PROVE  PipeInv'
<1>1. PipeTypeOK'
  BY MainIsNoPipe DEF PipeInv, PipeTypeOK, Ends
<1>2. ASSUME NEW q \in Pipes PROVE ChildInv(q)'
  BY MainIsNoPipe DEF PipeInv, PipeTypeOK, ChildInv, Ends
<1> QED  BY <1>1, <1>2 DEF PipeInv

(***************************************************************************)
(* A step of a child adds to what was written, and the end of writing is   *)
(* never seen before a write: as long as it lives the child holds the end. *)
(***************************************************************************)
LEMMA ChildStepInv ==
    ASSUME PipeInv, NEW p \in Pipes, Child(p)
    PROVE  /\ PipeInv'
           /\ UNCHANGED taken
           /\ p \in writers[p] /\ child[p] # "none" /\ child'[p] \in {"running", "exited"}
           /\ sent'[p] >= sent[p]
           /\ \A q \in Pipes \ {p} :
                  sent'[q] = sent[q] /\ writers'[q] = writers[q] /\ child'[q] = child[q]
           /\ \A q \in Pipes : Main \in readers'[q] <=> Main \in readers[q]
           /\ child[p] # "forked" => is_gunzip' = is_gunzip /\ size' = size
<1>1. CASE Exec(p)
  <2>1. sent[p] = 0 /\ ~ is_gunzip[p] /\ p \in writers[p]
    BY <1>1 DEF Exec, PipeInv, ChildInv
  <2>2. \A q \in Pipes : Main \in readers'[q] <=> Main \in readers[q]
    BY <1>1, MainIsNoPipe DEF Exec, PipeInv, PipeTypeOK
  <2>3. child'[p] = "running" /\ \A q \in Pipes \ {p} : child'[q] = child[q]
    BY <1>1 DEF Exec, PipeInv, PipeTypeOK
  <2>4. PipeInv'
    BY <1>1, ExecInv
  <2> QED
    BY <1>1, <2>1, <2>2, <2>3, <2>4 DEF Exec
<1>2. CASE Write(p)
  <2>1. PICK n : sent' = [sent EXCEPT ![p] = n]
    BY <1>2 DEF Write
  <2>2. PipeInv' /\ sent'[p] > sent[p] /\ sent'[p] \in Nat /\ sent[p] \in Nat
    BY <1>2, WriteInv DEF PipeInv, PipeTypeOK
  <2>3. \A q \in Pipes \ {p} : sent'[q] = sent[q]
    BY <2>1 DEF PipeInv, PipeTypeOK
  <2>4. child[p] = "running" /\ p \in writers[p]
    BY <1>2 DEF Write, PipeInv, ChildInv
  <2> QED
    BY <1>2, <2>2, <2>3, <2>4 DEF Write, child_vars
<1>3. ASSUME NEW s \in Int, Ends(p, s), child[p] = "running",
             ~ is_gunzip[p] => IF sent[p] = size[p] THEN s = 127 ELSE Main \notin readers[p]
      PROVE  /\ PipeInv'
             /\ UNCHANGED taken
             /\ p \in writers[p] /\ child[p] # "none" /\ child'[p] \in {"running", "exited"}
             /\ sent'[p] >= sent[p]
             /\ \A q \in Pipes \ {p} :
                  sent'[q] = sent[q] /\ writers'[q] = writers[q] /\ child'[q] = child[q]
             /\ \A q \in Pipes : Main \in readers'[q] <=> Main \in readers[q]
             /\ is_gunzip' = is_gunzip /\ size' = size
  <2>1. PipeInv'
    BY <1>3, EndsInv
  <2>2. \A q \in Pipes \ {p} : writers[q] \ {p} = writers[q]
    BY MainIsNoPipe DEF PipeInv, ChildInv
  <2> QED
    BY <1>3, <2>1, <2>2, MainIsNoPipe DEF Ends, PipeInv, PipeTypeOK, ChildInv
<1>4. CASE Exits(p)
  BY <1>3, <1>4 DEF Exits
<1>5. CASE GivesUp(p)
  BY <1>3, <1>5 DEF GivesUp
<1>6. CASE Killed(p)
  BY <1>3, <1>6 DEF Killed, PipeInv, PipeTypeOK
<1> QED  BY <1>1, <1>2, <1>4, <1>5, <1>6 DEF Child, Runs
=============================================================================
