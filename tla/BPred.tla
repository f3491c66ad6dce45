------------------------------- MODULE BPred -------------------------------
(***************************************************************************)
(* Lab 2: the branch predictor (bpred.h, bpred.cpp).  A predictor is a     *)
(* value.  Of an address and of the global history register only the low   *)
(* bits count; a number of that many bits is the set of the positions in   *)
(* which it has a 1, so that exclusive or is symmetric difference.         *)
(***************************************************************************)
EXTENDS Integers

CONSTANTS KEY_BITS,      \* 12 in the code
          STAT_SPAN      \* 2^32: a statistic goes through a 32-bit result

ASSUME BPredAssumption == KEY_BITS \in Nat \ {0} /\ STAT_SPAN \in Nat \ {0}

BPredPolicies == {"PERFECT", "ALWAYS_TAKEN", "GSHARE"}

Keys == SUBSET (0 .. KEY_BITS - 1)

\* The states in the order in which a taken branch goes through them.
STRONGLY_NOTTAKEN == 0
WEAKLY_NOTTAKEN   == 1
WEAKLY_TAKEN      == 2
STRONGLY_TAKEN    == 3

\* An entry that is not in the table yet reads as the reset state.
BPredNew == [pattern_history_table |-> [k \in Keys |-> WEAKLY_TAKEN],
             global_history_register |-> {},
             stat_num_branches |-> 0, stat_num_mispred |-> 0]

get_pht_key(b, pc) == (pc \ b.global_history_register) \cup (b.global_history_register \ pc)

predict(policy, b, pc) ==
    policy = "GSHARE" => b.pattern_history_table[get_pht_key(b, pc)] >= WEAKLY_TAKEN

sat_increment(x) == (x + 1) % STAT_SPAN

Trained(state, taken) ==
    IF taken THEN IF state = STRONGLY_TAKEN THEN state ELSE state + 1
    ELSE IF state = STRONGLY_NOTTAKEN THEN state ELSE state - 1

\* Slip: the history keeps what it shifts out of the key.
Shifted_NoMask(ghr, taken) == {b + 1 : b \in ghr} \cup (IF taken THEN {0} ELSE {})

Shifted(ghr, taken) ==
    ({b + 1 : b \in ghr} \cap 0 .. KEY_BITS - 1) \cup (IF taken THEN {0} ELSE {})

\* Slip: the history moves on first, so another entry is trained.
update_HistoryFirst(policy, b, pc, prediction, resolution) ==
    LET moved == [b EXCEPT !.stat_num_branches = sat_increment(@),
                           !.global_history_register = Shifted(@, resolution)]
    IN  [moved EXCEPT
            !.pattern_history_table[get_pht_key(moved, pc)] = Trained(@, resolution)]

\* update: the table is trained under the key of the prediction, before the
\* history moves on.
update(policy, b, pc, prediction, resolution) ==
    LET counted == [b EXCEPT !.stat_num_branches = sat_increment(@),
                             !.stat_num_mispred = IF prediction # resolution
                                                  THEN sat_increment(@) ELSE @]
    IN  IF policy # "GSHARE" THEN counted
        ELSE [counted EXCEPT
                !.pattern_history_table[get_pht_key(b, pc)] = Trained(@, resolution),
                !.global_history_register = Shifted(@, resolution)]
=============================================================================
