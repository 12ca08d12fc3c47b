----------------------------- MODULE MCAckPool -----------------------------
(* AckPool and its refinement of the Courier on small instances: the bounds *)
(* are in the configurations.                                               *)
EXTENDS AckPoolImpl
=============================================================================
