----------------------------- MODULE MCUserStore ----------------------------
(* UserStore on small instances: the bounds are in the configuration.      *)
EXTENDS UserStore
=============================================================================
