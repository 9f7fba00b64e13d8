------------------------------ MODULE MCFollowUp ------------------------------
(***************************************************************************)
(* A lead who writes twice and is given up after two follow-ups (10 in the *)
(* code), with one call that QStash repeats, one intervention and one      *)
(* expiry of last_from.                                                    *)
(***************************************************************************)
EXTENDS FollowUp
=============================================================================
