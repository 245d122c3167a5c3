---------------------------- MODULE MCChatBridge ----------------------------
(* ChatBridge for model checking. *)
EXTENDS ChatBridge
=============================================================================
