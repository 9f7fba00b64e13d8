---------------------------- MODULE MCConversation ----------------------------
(* An instance of Conversation: the relations between the limits are those of the
   code, Keep < Threshold < Limit < Window. *)
EXTENDS Conversation
=============================================================================
