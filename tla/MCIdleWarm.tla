------------------------------ MODULE MCIdleWarm ------------------------------
(* A lifetime of 10 ticks has its refresh due at 8, and the grace of 3 takes *)
(* the deferral past the expiry, as 300 s, 260 s and 30 s do.               *)
EXTENDS IdleWarm
===============================================================================
