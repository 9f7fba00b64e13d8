----------------------------- MODULE MCGraphTurn -----------------------------
(***************************************************************************)
(* Three turns: one that may break off or dispatch a flow, one that starts *)
(* from what it left, and one more.  MaxRetries is the code's.             *)
(***************************************************************************)
EXTENDS GraphTurn
=============================================================================
