---------------------------- MODULE MCLeadMemory ----------------------------
(* Instance of LeadMemory for TLC. *)
EXTENDS LeadMemory
=============================================================================
