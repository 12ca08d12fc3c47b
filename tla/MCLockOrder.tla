----------------------------- MODULE MCLockOrder -----------------------------
(* LockOrder on small instances: the bounds are in the configurations.     *)
EXTENDS LockOrder
=============================================================================
