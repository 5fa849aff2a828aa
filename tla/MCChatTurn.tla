----------------------------- MODULE MCChatTurn -----------------------------
(* One thread, two messages, one of which asks for a repository operation. *)
EXTENDS ChatTurn
=============================================================================
