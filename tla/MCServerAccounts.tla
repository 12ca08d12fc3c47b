-------------------------- MODULE MCServerAccounts --------------------------
(* ServerAccounts on small instances: the threads are alike.               *)
EXTENDS ServerAccounts, TLC

ThreadSymmetry == Permutations(Threads)
=============================================================================
