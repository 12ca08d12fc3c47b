------------------------------ MODULE Courier ------------------------------
(***************************************************************************)
(* What WaitACKMsgSender promises to the code that queues messages         *)
(* (README.txt:37: messages in the pool are sent again until they time out *)
(* or are deleted), with no pool, no clock and no iterator:                *)
(*   - numbers are given out in order, each once;                          *)
(*   - a limited message ends confirmed, or failed after exactly Limit     *)
(*     attempts, and then nothing happens to it any more;                  *)
(*   - a repeating message (the heartbeat) ends only when it is deleted,    *)
(*     which is no verdict on it ("withdrawn");                            *)
(*   - every limited message ends.                                         *)
(* Any number of messages may move in one step.  "halted" is the end of    *)
(* the process, after which no promise can be kept.                        *)
(***************************************************************************)
EXTENDS Integers

CONSTANTS
    Ids,        \* the numbers a process may give out, an interval from 0
    Limit       \* attempts before a limited message fails

VARIABLES phase, attempts, halted

courierVars == <<phase, attempts, halted>>

Phases == {"unsent", "limited", "repeating", "confirmed", "failed", "withdrawn"}

CourierTypeOK ==
    /\ phase \in [Ids -> Phases]
    /\ attempts \in [Ids -> 0 .. Limit]
    /\ halted \in BOOLEAN

CourierInit ==
    /\ phase = [m \in Ids |-> "unsent"]
    /\ attempts = [m \in Ids |-> 0]
    /\ halted = FALSE

Moves(m, from, to) == phase[m] = from /\ phase'[m] = to

Rests(m) == phase'[m] = phase[m] /\ attempts'[m] = attempts[m]

Posted(m) ==
    \/ Moves(m, "unsent", "limited")   /\ attempts'[m] = 1
    \/ Moves(m, "unsent", "repeating") /\ attempts'[m] = 0

Retried(m) ==
    /\ Moves(m, "limited", "limited")
    /\ attempts'[m] = attempts[m] + 1
    /\ attempts'[m] < Limit

Ended(m) ==
    \/ Moves(m, "limited", "confirmed")   /\ attempts'[m] = attempts[m]
    \/ Moves(m, "repeating", "withdrawn") /\ attempts'[m] = attempts[m]
    \/ Moves(m, "limited", "failed")      /\ attempts'[m] = attempts[m] + 1
                                          /\ attempts'[m] = Limit

InOrder(ph) == \A m, n \in Ids : n < m /\ ph[m] # "unsent" => ph[n] # "unsent"

CourierNext ==
    /\ ~halted
    /\ halted' \in BOOLEAN
    /\ DOMAIN phase' = Ids /\ DOMAIN attempts' = Ids
    /\ \A m \in Ids : Rests(m) \/ Posted(m) \/ Retried(m) \/ Ended(m)
    /\ InOrder(phase')

CourierSafety == CourierInit /\ [][CourierNext]_courierVars

\* Every limited message ends.
AllEnd == \A m \in Ids : phase[m] = "limited" ~> (phase[m] # "limited" \/ halted)

CourierSpec == CourierSafety /\ AllEnd
=============================================================================
