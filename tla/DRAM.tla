------------------------------- MODULE DRAM --------------------------------
(***************************************************************************)
(* Lab 4: the DRAM module (dram.h, dram.cpp): one row buffer per bank and  *)
(* the delay of an access.  As in module Cache the contents are the        *)
(* model's own: stale is the set of lines of which DRAM does not hold what *)
(* the last store wrote.                                                   *)
(***************************************************************************)
EXTENDS Integers

CONSTANTS SIM_MODES,            \* the modes to choose from: "A", "B", "C", "DEF"
          DRAM_PAGE_POLICIES,   \* "OPEN_PAGE", "CLOSE_PAGE"
          CACHE_LINESIZE, ROW_BUFFER_SIZE, NUM_BANKS,
          DELAY_SIM_MODE_B, DELAY_ACT, DELAY_CAS, DELAY_PRE, DELAY_BUS

ASSUME DRAMAssumption ==
    /\ SIM_MODES \subseteq {"A", "B", "C", "DEF"}
    /\ DRAM_PAGE_POLICIES \subseteq {"OPEN_PAGE", "CLOSE_PAGE"}
    /\ {CACHE_LINESIZE, ROW_BUFFER_SIZE, NUM_BANKS} \subseteq {2 ^ k : k \in 0 .. 12}
    /\ {DELAY_SIM_MODE_B, DELAY_ACT, DELAY_CAS, DELAY_PRE, DELAY_BUS} \subseteq Nat

VARIABLES SIM_MODE, DRAM_PAGE_POLICY      \* set on the command line

dram_new ==
    [row_buffer_array |-> [b \in 0 .. NUM_BANKS - 1 |-> [valid |-> FALSE, row_id |-> 0]],
     stat_read_access |-> 0, stat_read_delay |-> 0,
     stat_write_access |-> 0, stat_write_delay |-> 0,
     stale |-> {}]

\* Consecutive lines share a row; consecutive rows are in consecutive banks.
RowOf(l)  == ((l * CACHE_LINESIZE) \div ROW_BUFFER_SIZE) \div NUM_BANKS
BankOf(l) == ((l * CACHE_LINESIZE) \div ROW_BUFFER_SIZE) % NUM_BANKS

\* The part of a CDEF access that the row buffer decides.
RowDelay(d, l) ==
    LET rb == d.row_buffer_array[BankOf(l)]
    IN  IF DRAM_PAGE_POLICY = "CLOSE_PAGE" \/ ~ rb.valid THEN DELAY_ACT
        ELSE IF rb.row_id = RowOf(l) THEN 0 ELSE DELAY_PRE + DELAY_ACT

dram_access_mode_CDEF(d, l) ==
    [delay |-> RowDelay(d, l) + DELAY_CAS + DELAY_BUS,
     dram  |-> IF DRAM_PAGE_POLICY = "CLOSE_PAGE" THEN d
               ELSE [d EXCEPT !.row_buffer_array[BankOf(l)] =
                                  [valid |-> TRUE, row_id |-> RowOf(l)]]]

\* dram_access; a write puts data, current or not, into line l.
dram_access(d, l, is_dram_write, data) ==
    LET r == IF SIM_MODE = "B" THEN [delay |-> DELAY_SIM_MODE_B, dram |-> d]
             ELSE dram_access_mode_CDEF(d, l)
    IN  [delay |-> r.delay,
         dram  |-> IF is_dram_write
                   THEN [r.dram EXCEPT !.stat_write_access = @ + 1,
                                       !.stat_write_delay = @ + r.delay,
                                       !.stale = IF data THEN @ \ {l} ELSE @ \cup {l}]
                   ELSE [r.dram EXCEPT !.stat_read_access = @ + 1,
                                       !.stat_read_delay = @ + r.delay]]
=============================================================================
