------------------------------ MODULE MCSettings ------------------------------
(* Two processes and two rows: the one with two owners and one that defaults *)
(* to off.                                                                   *)
EXTENDS Settings, TLC
CONSTANTS p1, p2
Symmetry == Permutations({p1, p2})
===============================================================================
