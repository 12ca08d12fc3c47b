------------------------------ MODULE TextChat ------------------------------
(***************************************************************************)
(* Texts from program A to its friend B, end to end: ChatWithText, the     *)
(* pool of A (AckPool), UDP, OnChatWithTextMsg at B, its acknowledgement,  *)
(* OnNormalAckMsg at A.                                                    *)
(*                                                                         *)
(* B acknowledges a text before it looks for files in it and records it,   *)
(* which may take long (each file is fetched over TCP), and it records     *)
(* every copy it gets.  An acknowledgement carries nothing but the mid,    *)
(* and each start of A counts mids from 0 again.  The pool lives in        *)
(* memory; the histories are in the databases and survive a restart.       *)
(*                                                                         *)
(* The network loses, duplicates and reorders datagrams.  A shows B online *)
(* all the time, so that no callback starts a heartbeat: Presence is the   *)
(* model of that.                                                          *)
(***************************************************************************)
EXTENDS AckPool

CONSTANTS
    Texts,      \* the texts the user of A writes
    MaxMishaps, \* bound of the model: restarts of A and duplicated datagrams
    NoText

ASSUME TextAssumption ==
    /\ MaxMishaps \in Nat
    /\ NoText \notin Texts

VARIABLES
    textOf,     \* A: the text of each mid handed out since A started
    lives,      \* A: how often it has started
    aLists,     \* B is in the user list of A
    notices,    \* A: texts its history says were not received
    midOf,      \* the mid in the datagrams of a text
    net,        \* copies of each text in the network
    acks,       \* acknowledgements of each mid in the network
    dups,       \* copies the network has made
    bLists,     \* A is in the user list of B
    bUp,        \* B is running
    handling,   \* B: handlers of each text between acknowledging and recording
    recorded,   \* B: how often its history has each text
    bLost,      \* history: B stopped while it was handling a text
    received,   \* history: texts B has acknowledged
    confirmed   \* history: texts A was told were received

aVars == <<textOf, lives, aLists, notices, midOf>>
netVars == <<net, acks, dups>>
bVars == <<bLists, bUp, handling, recorded, bLost, received>>
chatVars == <<poolVars, aVars, netVars, bVars, confirmed>>

ChatTypeOK ==
    /\ TypeOK
    /\ textOf \in [Mids -> Texts \union {NoText}]
    /\ lives \in 1 .. MaxMishaps + 1
    /\ aLists \in BOOLEAN
    /\ notices \subseteq Texts
    /\ midOf \in [Texts -> Mids \union {-1}]
    /\ net \in [Texts -> Nat]
    /\ acks \in [Mids -> Nat]
    /\ dups \in 0 .. MaxMishaps
    /\ bLists \in BOOLEAN
    /\ bUp \in BOOLEAN
    /\ handling \in [Texts -> Nat]
    /\ recorded \in [Texts -> Nat]
    /\ bLost \subseteq Texts
    /\ received \subseteq Texts
    /\ confirmed \subseteq Texts
    /\ \A m \in Mids : textOf[m] # NoText => midOf[textOf[m]] = m

ChatInit ==
    /\ PoolInit
    /\ textOf = [m \in Mids |-> NoText]
    /\ lives = 1
    /\ aLists = TRUE
    /\ notices = {}
    /\ midOf = [t \in Texts |-> -1]
    /\ net = [t \in Texts |-> 0]
    /\ acks = [m \in Mids |-> 0]
    /\ dups = 0
    /\ bLists \in BOOLEAN
    /\ bUp \in BOOLEAN
    /\ handling = [t \in Texts |-> 0]
    /\ recorded = [t \in Texts |-> 0]
    /\ bLost = {}
    /\ received = {}
    /\ confirmed = {}

Mishap == lives - 1 + dups < MaxMishaps

-----------------------------------------------------------------------------
(* A *)

\* What the pool sends in this step, a datagram for each mid whose count of
\* sends grows, goes into the network or is lost; one of more than 1024 bytes
\* is not sent at all, and AddMsg and TraverseAllMsg do not look at that.
Transmit ==
    \E kept \in SUBSET {t \in Texts :
                          \E m \in Mids : textOf'[m] = t /\ sends'[m] > sends[m]} :
        net' = [t \in Texts |-> IF t \in kept THEN net[t] + 1 ELSE net[t]]

\* ChatWithText of text t, when its SendTextThread comes to AddMsg: the
\* threads of two texts may overtake each other.
ChatWithText(t) ==
    /\ aLists
    /\ midOf[t] = -1
    /\ AddMsg("chat")
    /\ textOf' = [textOf EXCEPT ![midCount] = t]
    /\ midOf' = [midOf EXCEPT ![t] = midCount]
    /\ Transmit
    /\ UNCHANGED <<lives, aLists, notices, acks, dups, bVars, confirmed>>

\* Variant: AfterChatWithTextMsg does nothing on failure.
PoolPassSilent ==
    /\ TraverseAllMsg
    /\ UNCHANGED <<textOf, lives, aLists, notices, midOf, acks, dups, bVars, confirmed>>
    /\ Transmit

\* A pass of the pool: AfterChatWithTextMsg(false) puts a notice into the
\* history with B, if B is still in the list.
PoolPass ==
    /\ TraverseAllMsg
    /\ notices' = IF aLists
                  THEN notices \union {textOf[m] : m \in {n \in Mids : told'[n].fail > told[n].fail}}
                  ELSE notices
    /\ UNCHANGED <<textOf, lives, aLists, midOf, acks, dups, bVars, confirmed>>
    /\ Transmit

PoolTick == Tick /\ UNCHANGED <<aVars, netVars, bVars, confirmed>>

\* Variant: an acknowledgement settles the oldest message of the pool.
OnNormalAckMsgOldest(m) ==
    /\ acks[m] > 0
    /\ acks' = [acks EXCEPT ![m] = @ - 1]
    /\ \/ DOMAIN pool = {} /\ UNCHANGED <<poolVars, confirmed>>
       \/ \E n \in DOMAIN pool :
            /\ \A q \in DOMAIN pool : n <= q
            /\ Confirm(n)
            /\ confirmed' = confirmed \union {textOf[n]}
    /\ UNCHANGED <<aVars, net, dups, bVars>>

\* OnNormalAckMsg: FindMsg, DeleteMsg, AfterChatWithTextMsg(true).
OnNormalAckMsg(m) ==
    /\ acks[m] > 0
    /\ acks' = [acks EXCEPT ![m] = @ - 1]
    /\ \/ m \notin DOMAIN pool /\ UNCHANGED <<poolVars, confirmed>>
       \/ Confirm(m) /\ confirmed' = confirmed \union {textOf[m]}
    /\ UNCHANGED <<aVars, net, dups, bVars>>

\* The user of A deletes B.
DeleteFriendA ==
    /\ aLists
    /\ aLists' = FALSE
    /\ UNCHANGED <<poolVars, textOf, lives, notices, midOf, netVars, bVars, confirmed>>

\* A ends and is started again, on the port it had (Start, Listen); datagrams
\* and acknowledgements of its last life may still be under way.
RestartA ==
    /\ Mishap
    /\ lives' = lives + 1
    /\ textOf' = [m \in Mids |-> NoText]
    /\ pool' = [m \in {} |-> NewEntry("chat")]
    /\ midCount' = 0
    /\ kind' = [m \in Mids |-> "none"]
    /\ awake' = TRUE
    /\ crashed' = FALSE
    /\ sends' = [m \in Mids |-> 0]
    /\ told' = [m \in Mids |-> [ok |-> 0, fail |-> 0]]
    /\ deleted' = {}
    /\ UNCHANGED <<aLists, notices, midOf, netVars, bVars, confirmed>>

-----------------------------------------------------------------------------
(* The network *)

Duplicate ==
    /\ Mishap
    /\ dups' = dups + 1
    /\ \/ \E t \in Texts : net[t] > 0 /\ net' = [net EXCEPT ![t] = @ + 1] /\ UNCHANGED acks
       \/ \E m \in Mids : acks[m] > 0 /\ acks' = [acks EXCEPT ![m] = @ + 1] /\ UNCHANGED net
    /\ UNCHANGED <<poolVars, aVars, bVars, confirmed>>

-----------------------------------------------------------------------------
(* B *)

\* OnChatWithTextMsg up to NormalMsgAck: a text of a friend is acknowledged,
\* by a datagram that may be lost.
OnChatWithTextMsg(t) ==
    /\ bUp
    /\ bLists
    /\ net[t] > 0
    /\ net' = [net EXCEPT ![t] = @ - 1]
    /\ acks' \in {acks, [acks EXCEPT ![midOf[t]] = @ + 1]}
    /\ handling' = [handling EXCEPT ![t] = @ + 1]
    /\ received' = received \union {t}
    /\ UNCHANGED <<poolVars, aVars, dups, bLists, bUp, recorded, bLost, confirmed>>

\* A text of somebody else is dropped without an answer.
IgnoreText(t) ==
    /\ bUp
    /\ ~bLists
    /\ net[t] > 0
    /\ net' = [net EXCEPT ![t] = @ - 1]
    /\ UNCHANGED <<poolVars, aVars, acks, dups, bVars, confirmed>>

Handled == {t \in Texts : handling[t] > 0}

\* B is gone, and the texts it had in hand with it.
StopB ==
    /\ bUp' = FALSE
    /\ handling' = [t \in Texts |-> 0]
    /\ bLost' = bLost \union Handled
    /\ UNCHANGED <<bLists, recorded, received>>

\* UpdateChatContent: the text is recorded; if A was deleted meanwhile,
\* users[uid] makes an empty Handle, and its -> throws in a thread that
\* catches nothing.
UpdateChatContent(t) ==
    /\ bUp
    /\ handling[t] > 0
    /\ \/ /\ bLists
          /\ handling' = [handling EXCEPT ![t] = @ - 1]
          /\ recorded' = [recorded EXCEPT ![t] = @ + 1]
          /\ UNCHANGED <<bLists, bUp, bLost, received>>
       \/ ~bLists /\ StopB
    /\ UNCHANGED <<poolVars, aVars, netVars, confirmed>>

\* The user of B deletes A.
DeleteFriendB ==
    /\ bUp
    /\ bLists
    /\ bLists' = FALSE
    /\ UNCHANGED <<poolVars, aVars, netVars, bUp, handling, recorded, bLost, received, confirmed>>

\* B is closed, or started again.
SwitchB ==
    /\ \/ bUp /\ StopB
       \/ ~bUp /\ bUp' = TRUE /\ UNCHANGED <<bLists, handling, recorded, bLost, received>>
    /\ UNCHANGED <<poolVars, aVars, netVars, confirmed>>

-----------------------------------------------------------------------------
ChatNext ==
    \/ \E t \in Texts : \/ ChatWithText(t)
                        \/ OnChatWithTextMsg(t)
                        \/ IgnoreText(t)
                        \/ UpdateChatContent(t)
    \/ \E m \in Mids : OnNormalAckMsg(m)
    \/ PoolPass \/ PoolTick
    \/ DeleteFriendA \/ RestartA
    \/ Duplicate
    \/ DeleteFriendB \/ SwitchB

\* The threads of A and B run; the network promises nothing.  A handler of B
\* that waits for a file comes to its end here; the pull whose connection
\* falls silent, which does not, is PullStalls of ChatFiles.
ChatFairness ==
    /\ WF_chatVars(PoolPass)
    /\ WF_chatVars(PoolTick)
    /\ \A t \in Texts : WF_chatVars(UpdateChatContent(t))

ChatSpec == ChatInit /\ [][ChatNext]_chatVars /\ ChatFairness

-----------------------------------------------------------------------------
(* Properties *)

\* WaitACKMsgSender.h:8 ("the first argument says whether it was received"):
\* a text the callback of A reports received was received by B.
ConfirmedWasReceived == confirmed \subseteq received

\* What holds instead when A restarts: a report of success goes back to a
\* text that B did receive under the same mid, so that within one life of A
\* the report is about the right text (OnNormalAckMsg knows only the mid).
ConfirmationHasCause ==
    \A t \in confirmed :
        \E u \in received : midOf[u] = midOf[t] /\ (lives = 1 => u = t)

\* What may excuse A from telling its user that t did not arrive: A was
\* started again or its user deleted B, or B stopped with the text in hand.
Excused(t) == lives > 1 \/ ~aLists \/ t \in bLost

\* No text is lost in silence: B's history has it in the end, or A's history
\* says it was not received - through lost datagrams and acknowledgements,
\* texts too long to send, friends that do not list A and programs that are
\* not running.
NoSilentLoss ==
    \A t \in Texts :
        midOf[t] # -1 ~> (recorded[t] > 0 \/ t \in notices \/ Excused(t))

-----------------------------------------------------------------------------
(* The conversation the two users see *)

Written == {t \in Texts : midOf[t] # -1}

\* A still knows the mid of t, and t is queued.
Open == {t \in Written : textOf[midOf[t]] = t /\ midOf[t] \in DOMAIN pool}

Conv == INSTANCE Conversation WITH
    Limit     <- MaxTryTimes + 1,
    written   <- Written,
    open      <- Open,
    failed    <- notices,
    taken     <- received,
    extra     <- dups,
    restarted <- lives > 1,
    listed    <- aLists

\* The pool, the mids, the network and the handlers of B together keep the
\* promises of the Conversation: at most one verdict on each text
\* (AfterChatWithTextMsg is called with true or with false, once), success
\* only of a text that B took, failure told while B is listed, and B records
\* a text at most MaxTryTimes + 1 times plus what the network copies.
ImplementsConversation == Conv!ConversationSpec
=============================================================================
