---------------------------- MODULE Conversation ----------------------------
(***************************************************************************)
(* What the program promises to the user who writes texts to a friend,     *)
(* with no datagram, no pool and no mid:                                   *)
(*   - a text that was written stays open until one verdict on it is       *)
(*     given, and there is never a second one;                             *)
(*   - only a text the friend has taken is confirmed, unless the writer's  *)
(*     program was started again;                                          *)
(*   - a text that is given up is reported as failed, unless the writer    *)
(*     does not list the friend any more;                                  *)
(*   - only a restart drops open texts without a verdict;                  *)
(*   - the friend's history has only texts that it took, each at most as   *)
(*     often as the writer may send it and the network copies it.          *)
(* It does not promise that a text which was taken gets into the friend's  *)
(* history: a text is acknowledged before it is recorded.                  *)
(***************************************************************************)
EXTENDS Integers

CONSTANTS
    Texts,
    Limit       \* how often the writer's program sends one text

VARIABLES
    written,    \* texts the user has written
    open,       \* written, without a verdict, not given up
    confirmed,  \* texts reported as received
    failed,     \* texts reported as not received
    taken,      \* texts the friend's program has taken
    recorded,   \* how often the friend's history has each text
    extra,      \* copies the network has made
    restarted,  \* the writer's program was started again
    listed      \* the writer lists the friend

writerVars == <<written, open, confirmed, failed, restarted, listed>>
conversationVars == <<writerVars, taken, recorded, extra>>

ConversationInit ==
    /\ written = {} /\ open = {} /\ confirmed = {} /\ failed = {}
    /\ taken = {}
    /\ recorded = [t \in Texts |-> 0]
    /\ extra = 0
    /\ restarted = FALSE
    /\ listed = TRUE

Write(t) ==
    /\ listed
    /\ t \notin written
    /\ written' = written \union {t}
    /\ open' = open \union {t}
    /\ UNCHANGED <<confirmed, failed, taken, recorded, extra, restarted, listed>>

\* An acknowledgement that does not come from a former life is about a text
\* that was taken.
ConfirmText(t) ==
    /\ t \in open
    /\ t \in taken \/ restarted
    /\ open' = open \ {t}
    /\ confirmed' = confirmed \union {t}
    /\ UNCHANGED <<written, failed, taken, recorded, extra, restarted, listed>>

\* Several texts may be given up at once.
GiveUp(S) ==
    /\ S # {}
    /\ S \subseteq open
    /\ open' = open \ S
    /\ failed' = IF listed THEN failed \union S ELSE failed
    /\ UNCHANGED <<written, confirmed, taken, recorded, extra, restarted, listed>>

Restart ==
    /\ open' = {}
    /\ restarted' = TRUE
    /\ UNCHANGED <<written, confirmed, failed, taken, recorded, extra, listed>>

Unlist ==
    /\ listed
    /\ listed' = FALSE
    /\ UNCHANGED <<written, open, confirmed, failed, taken, recorded, extra, restarted>>

Take(t) ==
    /\ t \in written
    /\ taken' = taken \union {t}
    /\ UNCHANGED <<writerVars, recorded, extra>>

Record(t) ==
    /\ t \in taken
    /\ recorded[t] < Limit + extra
    /\ recorded' = [recorded EXCEPT ![t] = @ + 1]
    /\ UNCHANGED <<writerVars, taken, extra>>

CopyInNetwork ==
    /\ extra' = extra + 1
    /\ UNCHANGED <<writerVars, taken, recorded>>

ConversationNext ==
    \/ \E t \in Texts : Write(t) \/ ConfirmText(t) \/ Take(t) \/ Record(t)
    \/ \E S \in SUBSET Texts : GiveUp(S)
    \/ Restart \/ Unlist \/ CopyInNetwork

ConversationSpec == ConversationInit /\ [][ConversationNext]_conversationVars

\* What the user may rely on: one verdict at most; while the program runs on,
\* a confirmed text was taken; and a written text without a verdict is still
\* open, unless the program was restarted or the friend deleted.
Reliable ==
    /\ confirmed \intersect failed = {}
    /\ open \intersect (confirmed \union failed) = {}
    /\ open \union confirmed \union failed \union taken \subseteq written
    /\ ~restarted => confirmed \subseteq taken
    /\ ~restarted /\ listed => written = open \union confirmed \union failed
    /\ \A t \in Texts : recorded[t] > 0 => t \in taken
=============================================================================
