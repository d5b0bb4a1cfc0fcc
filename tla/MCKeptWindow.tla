----------------------------- MODULE MCKeptWindow -----------------------------
(* Messages of one token or four, budgets of one and two tokens doubled: an  *)
(* oversized message alone is over the cap of one and fills that of the      *)
(* other, and two small ones are under both.                                 *)
EXTENDS KeptWindow
===============================================================================
