----------------------------- MODULE MCTextChat -----------------------------
(* TextChat on small instances: the bounds are in the configurations.      *)
EXTENDS TextChat
=============================================================================
