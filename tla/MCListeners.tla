----------------------------- MODULE MCListeners ----------------------------
(* Listeners on small instances: the numbers of sockets are alike.         *)
EXTENDS Listeners, TLC

NumberSymmetry == Permutations(Numbers)
=============================================================================
