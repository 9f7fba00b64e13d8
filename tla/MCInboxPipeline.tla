--------------------------- MODULE MCInboxPipeline ---------------------------
(***************************************************************************)
(* Two leads.  m1 and m2 are a burst of lead a, m3 is a message of lead b. *)
(* Evolution delivers m1 twice.                                            *)
(***************************************************************************)
EXTENDS InboxPipeline

CONSTANTS a, b, m1, m2, m3, d1, d1again, d2, d3

MCLeadOf == m1 :> a @@ m2 :> a @@ m3 :> b
MCMsgOf == d1 :> m1 @@ d1again :> m1 @@ d2 :> m2 @@ d3 :> m3
=============================================================================
