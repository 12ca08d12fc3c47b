----------------------------- MODULE MCPresence ----------------------------
(* Presence on small instances: the bounds are in the configurations.      *)
EXTENDS Presence
=============================================================================
