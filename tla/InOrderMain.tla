----------------------------- MODULE InOrderMain -----------------------------
(***************************************************************************)
(* main of Lab 2 (sim.cpp) around the pipeline, with the number of cycles, *)
(* which is what a run is for, and check_heartbeat, which gives a run up   *)
(* if no instruction has been retired between two heartbeats.              *)
(***************************************************************************)
EXTENDS InOrderProperties

CONSTANT HEARTBEAT_CYCLES

ASSUME HeartbeatAssumption == HEARTBEAT_CYCLES \in Nat \ {0}

VARIABLES stat_num_cycle, last_hbeat_inst,
          status        \* what check_heartbeat has returned last

heart_vars == <<stat_num_cycle, last_hbeat_inst, status>>

MainInit == Init /\ stat_num_cycle = 0 /\ last_hbeat_inst = 0 /\ status = 0

\* Slip: nothing is compared.
check_heartbeat_Never == UNCHANGED <<last_hbeat_inst, status>>

\* Slip: the heartbeat's count is brought up to date in every cycle.
check_heartbeat_EveryCycle ==
    /\ last_hbeat_inst' = stat_retired_inst'
    /\ status' = IF /\ stat_num_cycle' % HEARTBEAT_CYCLES = 0
                    /\ stat_retired_inst' = last_hbeat_inst THEN 1 ELSE 0

check_heartbeat ==
    IF stat_num_cycle' % HEARTBEAT_CYCLES # 0 THEN UNCHANGED <<last_hbeat_inst, status>>
    ELSE IF stat_retired_inst' = last_hbeat_inst THEN status' = 1 /\ UNCHANGED last_hbeat_inst
    ELSE last_hbeat_inst' = stat_retired_inst' /\ UNCHANGED status

\* Fetch is the last stage of a cycle.
CycleEnds == stage = "IF" /\ stage' = "WB"

MainStep ==
    /\ status = 0
    /\ Next
    /\ IF CycleEnds THEN stat_num_cycle' = stat_num_cycle + 1 /\ check_heartbeat
       ELSE UNCHANGED heart_vars

MainSpec == MainInit /\ [][MainStep]_<<vars, heart_vars>> /\ WF_<<vars, heart_vars>>(MainStep)

-----------------------------------------------------------------------------
(***************************************************************************)
(* The number of cycles, from the trace alone.  An instruction is fetched  *)
(* as soon as the one PIPE_WIDTH before it has left the IF latch and no    *)
(* mispredicted branch is waited for, which takes until its write back; it *)
(* leaves the IF latch in the first cycle after that, not before the one   *)
(* ahead of it, in which the last writer of each register it reads has     *)
(* retired, or is where its result can be forwarded from.                  *)
(* (BPRED_POLICY is one whose predictions do not depend on the past.)      *)
(***************************************************************************)
Surprising(n) ==
    BPRED_POLICY = "ALWAYS_TAKEN" /\ trace[n].op_type = "OP_CBR" /\ ~ trace[n].br_dir

FetchCycle(T, n) ==
    Max({1} \cup (IF n > 1 THEN {T[n - 1].fetch} ELSE {})
            \cup (IF n > PIPE_WIDTH THEN {T[n - PIPE_WIDTH].issue} ELSE {})
            \cup (IF n > 1 /\ Surprising(n - 1) THEN {T[n - 1].issue + 3} ELSE {}))

\* The result of m, which issues in cycle i, can be had by an instruction that issues in c.
Available(m, i, c) ==
    \/ c >= i + 3
    \/ c = i + 2 /\ ENABLE_MEM_FWD
    \/ c = i + 1 /\ ENABLE_EXE_FWD /\ trace[m].op_type # "OP_LD"

IssueCycle(T, n, fetch) ==
    LET first == IF n > 1 THEN Max({fetch + 1, T[n - 1].issue}) ELSE fetch + 1
    IN  Min({c \in first .. first + 3 :
                \A r \in trace[n].reads :
                    LET m == LastWriter(n, r) IN m = 0 \/ Available(m, T[m].issue, c)})

Times ==
    LET T[n \in 1 .. Len(trace)] ==
            LET f == FetchCycle(T, n) IN [fetch |-> f, issue |-> IssueCycle(T, n, f)]
    IN  T

(***************************************************************************)
(* The pipeline keeps those times in every cycle, though it never computes *)
(* them: they come of five stages that see each other's latches half       *)
(* moved, and of lanes that stall each other.  An instruction that issued  *)
(* earlier would compute with an old value, one that issued later would    *)
(* make the cycles per instruction wrong; and the number of cycles that is *)
(* printed is that of the last instruction's retirement, three stages      *)
(* after its issue.                                                        *)
(***************************************************************************)
LastRetires(T) == IF trace = <<>> THEN 1 ELSE T[Len(trace)].issue + 3

KeepsTime ==
    stage = "WB" /\ BPRED_POLICY # "GSHARE" =>
        LET T == Times IN
        /\ Ids("ID_LATCH") = {n \in 1 .. Len(trace) : T[n].issue = stat_num_cycle}
        /\ \A n \in 1 .. Len(trace) : T[n].fetch <= stat_num_cycle
        /\ ~ trace_end => FetchCycle(T, Len(trace) + 1) > stat_num_cycle
        /\ halt => stat_num_cycle = LastRetires(T)

(***************************************************************************)
(* The loop of main ends with every instruction of the trace retired,      *)
(* whichever of the pipeline and the heartbeat ends it; and the heartbeat  *)
(* gives up only what cannot go on: there is nothing left whose retirement *)
(* could halt the pipeline, which comes of a misprediction.                *)
(***************************************************************************)
EndsWithTheTrace ==
    /\ status = 1 \/ (halt /\ stage = "WB") => trace_end /\ stat_retired_inst = last_op_id
    /\ status = 1 => ~ halt /\ BPRED_POLICY # "PERFECT"

(***************************************************************************)
(* And it ends: where the pipeline does not halt (see Halts), the          *)
(* heartbeat sees to it that no run takes more than one heartbeat for each *)
(* instruction that has been retired and one more.                         *)
(***************************************************************************)
EndsInTime ==
    status = 0 /\ ~ halt => stat_num_cycle < HEARTBEAT_CYCLES * (stat_retired_inst + 1)
=============================================================================
