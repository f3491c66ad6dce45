-------------------------------- MODULE RAT ---------------------------------
(***************************************************************************)
(* The register alias table (rat.h, rat.cpp): for each architectural       *)
(* register, whether its latest value is still to be produced by a         *)
(* reorder-buffer entry (valid), and by which (prf_id).                    *)
(***************************************************************************)
EXTENDS Instructions

RATType == [ArfRegs -> [valid : BOOLEAN, prf_id : Nat]]

rat_init == [r \in ArfRegs |-> [valid |-> FALSE, prf_id |-> 0]]

rat_get_remap(rat, r) == IF rat[r].valid THEN rat[r].prf_id ELSE -1

rat_set_remap(rat, r, id) == [rat EXCEPT ![r] = [valid |-> TRUE, prf_id |-> id]]

rat_reset_entry(rat, r) == [rat EXCEPT ![r] = [valid |-> FALSE, prf_id |-> 0]]

=============================================================================
