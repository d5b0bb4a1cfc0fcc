----------------------------- MODULE MCBackups -----------------------------
(* Two siblings; a ring of two, and sizes of which one is above the cap, one  *)
(* takes most of it and one always fits.                                      *)
EXTENDS Backups, TLC
CONSTANTS p1, p2
Siblings == Permutations({p1, p2})
=============================================================================
