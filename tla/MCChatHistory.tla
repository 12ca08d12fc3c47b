---------------------------- MODULE MCChatHistory ----------------------------
(* ChatHistory on small instances: the bounds are in the configurations.   *)
EXTENDS ChatHistory
=============================================================================
