----------------------------- MODULE MemRecency ----------------------------
(***************************************************************************)
(* The simulator with a history of the use of the second level: for each   *)
(* line the cycle in which it was last read there or written back to it.   *)
(***************************************************************************)
EXTENDS MemProperties

VARIABLE l2_used      \* a partial function from line addresses to cycles

\* A core's own caches; in modes A to C all cores share the first pair.
Own(k) == IF SIM_MODE = "DEF" THEN k ELSE 0

\* The lines that core k's next instruction asks for and its caches do not hold.
L2Reads(k) ==
    {AskedLine(n) : n \in {n \in {"icache", "dcache"} \X {k} :
                              Asks(n) /\ HitWays(sys[n[1]][Own(k)], AskedLine(n), k) = {}}}

\* The dirty lines that leave core k's data cache in a step.
DirtyLines(c) ==
    UNION {{LineAddr(c, c.sets[s][w].tag, s) : w \in {w \in Ways(c) : c.sets[s][w].dirty}} :
               s \in Sets(c)}
Leaving(k) == {l \in DirtyLines(sys.dcache[Own(k)]) : HitWays(sys'.dcache[Own(k)], l, k) = {}}

\* U once the lines L have been used at time t.
Stamped(U, L, t) == [l \in L \cup DOMAIN U |-> IF l \in L THEN t ELSE U[l]]

RecencyInit == Init /\ l2_used = <<>>

RecencyNext ==
    \/ /\ CoreExecutes
       /\ LET lines == IF SIM_MODE = "A" THEN {} ELSE L2Reads(i) \cup Leaving(i)
          IN  l2_used' = Stamped(l2_used, lines, current_cycle)
    \/ /\ CoreIdle \/ EndCycle
       /\ UNCHANGED l2_used

RecencySpec == RecencyInit /\ [][RecencyNext]_<<vars, l2_used>>

(***************************************************************************)
(* The policy of cache.h, "Evict the least recently used line", as far as  *)
(* cycles can tell: under LRU a line that the second level does not hold   *)
(* was last used no later than any line of its set.  An instruction may    *)
(* use it three times in one cycle, to read for itself and for its data    *)
(* and to write a victim back; among these the code, which keeps cycles    *)
(* only, cannot tell which was the last.                                   *)
(***************************************************************************)
LinesIn(c, s) == {LineAddr(c, c.sets[s][w].tag, s) : w \in {w \in Ways(c) : c.sets[s][w].valid}}

SecondLevelIsLRU ==
    LET c == sys.l2cache IN
    c.replacement_policy = "LRU" /\ SIM_MODE # "A" =>
        /\ UNION {LinesIn(c, s) : s \in Sets(c)} \subseteq DOMAIN l2_used
        /\ \A l \in DOMAIN l2_used :
               LET held == LinesIn(c, IndexOf(c, l))
               IN  l \notin held =>
                       /\ Cardinality(held) = Cardinality(Ways(c))
                       /\ \A h \in held : l2_used[l] <= l2_used[h]
=============================================================================
