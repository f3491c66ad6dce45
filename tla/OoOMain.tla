------------------------------- MODULE OoOMain -------------------------------
(***************************************************************************)
(* main of Lab 3 (sim.cpp) around the pipeline: cycles are counted, and    *)
(* check_heartbeat gives a run up as deadlocked if no instruction has been *)
(* retired between two heartbeats.                                         *)
(***************************************************************************)
EXTENDS OoOProperties

CONSTANT HEARTBEAT_CYCLES

ASSUME HeartbeatAssumption == HEARTBEAT_CYCLES \in Nat \ {0}

VARIABLES
    stat_num_cycle,     \* modulo HEARTBEAT_CYCLES, as check_heartbeat takes it
    last_hbeat_inst,
    status              \* what check_heartbeat has returned last

heart_vars == <<stat_num_cycle, last_hbeat_inst, status>>

MainInit == Init /\ stat_num_cycle = 0 /\ last_hbeat_inst = 0 /\ status = 0

\* Slip: the heartbeat's count is brought up to date in every cycle.
check_heartbeat_EveryCycle ==
    /\ last_hbeat_inst' = stat_retired_inst'
    /\ status' = IF stat_num_cycle' = 0 /\ stat_retired_inst' = last_hbeat_inst THEN 1 ELSE 0

check_heartbeat ==
    IF stat_num_cycle' # 0 THEN UNCHANGED <<last_hbeat_inst, status>>
    ELSE IF stat_retired_inst' = last_hbeat_inst THEN status' = 1 /\ UNCHANGED last_hbeat_inst
    ELSE last_hbeat_inst' = stat_retired_inst' /\ UNCHANGED status

\* Fetch is the last stage of a cycle.
CycleEnds == stage = "fetch" /\ stage' # "fetch"

MainStep ==
    /\ status = 0
    /\ Step
    /\ IF CycleEnds
       THEN stat_num_cycle' = (stat_num_cycle + 1) % HEARTBEAT_CYCLES /\ check_heartbeat
       ELSE UNCHANGED heart_vars

MainOver == (status # 0 \/ stage \in {"halted", "crashed"}) /\ UNCHANGED <<vars, heart_vars>>

MainNext == MainStep \/ MainOver

MainSpec == MainInit /\ [][MainNext]_<<vars, heart_vars>> /\ WF_<<vars, heart_vars>>(MainStep)

-----------------------------------------------------------------------------
(***************************************************************************)
(* A run that makes progress is not given up: "pipeline is deadlocked"     *)
(* (sim.cpp:281) is not said of a trace that the pipeline would finish.    *)
(* It holds as long as a heartbeat is longer than the time from the fetch  *)
(* of a load to its commit; -loadlatency does not see to that.             *)
(***************************************************************************)
HealthyRunsGoOn == status = 0
=============================================================================
