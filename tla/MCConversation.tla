--------------------------- MODULE MCConversation ---------------------------
(* Conversation on small instances: the .cfg files give the bounds. *)
EXTENDS Conversation
=============================================================================
