----------------------------- MODULE AckPoolImpl ---------------------------
(***************************************************************************)
(* The pool implements the Courier: the mapping reads a message's phase    *)
(* off the pool, the mids handed out and the deletions.  A message in the  *)
(* storage of a process that has crashed keeps the phase it was given.     *)
(***************************************************************************)
EXTENDS AckPool

PhaseOf(m) ==
    IF ~Issued(m) THEN "unsent"
    ELSE IF m \in deleted THEN IF Eternal(m) THEN "withdrawn" ELSE "confirmed"
    ELSE IF m \notin DOMAIN pool THEN "failed"
    ELSE IF Eternal(m) THEN "repeating" ELSE "limited"

C == INSTANCE Courier WITH
        Ids      <- Mids,
        Limit    <- MaxTryTimes + 1,
        phase    <- [m \in Mids |-> PhaseOf(m)],
        attempts <- [m \in Mids |-> sends[m]],
        halted   <- crashed

\* The pool keeps the Courier's promise of safety: in-order numbers, one end
\* per message, failure after exactly MaxTryTimes + 1 datagrams, heartbeats
\* never timed out (AddMsg, DeleteMsg, TraverseAllMsg).
ImplementsCourierSafety == C!CourierSafety

\* ... and, with a Loop thread that runs, its promise that every limited
\* message ends.
ImplementsCourier == C!CourierSpec
=============================================================================
