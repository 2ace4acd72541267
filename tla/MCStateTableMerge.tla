------------------------- MODULE MCStateTableMerge -------------------------
(* The instance of StateTableMerge for TLC: an odd number of workers, so that *)
(* a table is left without a partner.                                         *)
EXTENDS StateTableMerge

=============================================================================
