------------------------------- MODULE MCLedger -------------------------------
(* Two processes share a window of two rows, so that the third and fourth    *)
(* rows are evicted by one process while the other has them in memory.       *)
EXTENDS Ledger, TLC

Symmetry == Permutations(Procs)
===============================================================================
