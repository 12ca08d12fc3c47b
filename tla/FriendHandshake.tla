--------------------------- MODULE FriendHandshake ---------------------------
(***************************************************************************)
(* How the user of program A makes a friend of the user of program B.      *)
(*                                                                         *)
(* A's user asks (AddP2PFriend); B acknowledges the request and puts a     *)
(* prompt on its unread stack (OnAddUserAskMsg); the acknowledgement makes *)
(* A remember B in TempUserList (AfterAddP2PUserMsg); B's user agrees or   *)
(* refuses (AddFriendAck), the reply is sent and, on yes, A is entered in  *)
(* B's list; A takes a reply only from somebody in TempUserList and, on    *)
(* yes, enters B in its own list (OnReplyAddUserMsg).                      *)
(*                                                                         *)
(* Every datagram runs in a thread of its own, so the handlers of A        *)
(* interleave between their calls.  The network is the set of what was     *)
(* ever sent: a datagram in it may arrive at any time, any number of times *)
(* or never.  That covers what the pools of both sides send again; of      *)
(* A's pool only the requests still in it matter here (AckPool is the      *)
(* model of the pool), of B's nothing, as its reply has no callback.       *)
(***************************************************************************)
EXTENDS Integers

CONSTANTS
    MaxAsks,        \* bound of the model: requests in one life of A
    MaxPrompts,     \* bound of the model: prompts on B's stack
    MaxHandlers     \* bound of the model: handlers of replies at a time

ASSUME HandshakeAssumption ==
    /\ MaxAsks \in Nat
    /\ MaxPrompts \in Nat
    /\ MaxHandlers \in Nat

VARIABLES
    asked,      \* A: how many requests its user made since A started
    open,       \* A: mids of the requests that are in the pool
    temp,       \* A: entries of TempUserList for B
    found,      \* A: handlers of a reply past FindUser, by what the reply says
    added,      \* A: handlers past AddUser that have not called DeleteUser
    aLists,     \* A: B is in the user list (and in the database)
    prompts,    \* B: requests of A on the unread stack
    adding,     \* B: the UI is in AddFriendAck, between reply and AddUser
    bLists,     \* B: A is in the user list (and in the database)
    askNet,     \* requests in the network, by mid
    ackNet,     \* acknowledgements of requests in the network, by mid
    replyNet,   \* replies in the network
    agreed,     \* history: B's user said yes at some time
    bDropped    \* history: the entry the last yes was to make in B's list was
                \* not made, or was deleted

aVars == <<asked, open, temp, found, added, aLists>>
bVars == <<prompts, adding, bLists, agreed, bDropped>>
netVars == <<askNet, ackNet, replyNet>>
handshakeVars == <<aVars, bVars, netVars>>

Mids == 0 .. MaxAsks - 1

Replies == {"yes", "no"}

HandshakeTypeOK ==
    /\ asked \in 0 .. MaxAsks
    /\ open \subseteq 0 .. asked - 1
    /\ temp \in Nat
    /\ found \in [Replies -> Nat]
    /\ added \in Nat
    /\ aLists \in BOOLEAN
    /\ prompts \in Nat
    /\ adding \in BOOLEAN
    /\ bLists \in BOOLEAN
    /\ askNet \subseteq Mids
    /\ ackNet \subseteq Mids
    /\ replyNet \subseteq Replies
    /\ agreed \in BOOLEAN
    /\ bDropped \in BOOLEAN

HandshakeInit ==
    /\ asked = 0
    /\ open = {}
    /\ temp = 0
    /\ found = [reply \in Replies |-> 0]
    /\ added = 0
    /\ aLists = FALSE
    /\ prompts = 0
    /\ adding = FALSE
    /\ bLists = FALSE
    /\ askNet = {}
    /\ ackNet = {}
    /\ replyNet = {}
    /\ agreed = FALSE
    /\ bDropped = FALSE

-----------------------------------------------------------------------------
(* A *)

\* A's user asks, whether or not there is a request or an entry already.
AddP2PFriend ==
    /\ asked < MaxAsks
    /\ asked' = asked + 1
    /\ open' = open \union {asked}
    /\ askNet' = askNet \union {asked}
    /\ UNCHANGED <<temp, found, added, aLists, bVars, ackNet, replyNet>>

\* An acknowledgement arrives; if the request is still in the pool it is
\* taken out and AfterAddP2PUserMsg(true) adds an entry to TempUserList.
AfterAddP2PUserMsg(m) ==
    /\ m \in ackNet \intersect open
    /\ open' = open \ {m}
    /\ temp' = temp + 1
    /\ UNCHANGED <<asked, found, added, aLists, bVars, netVars>>

\* The pool gives a request up; the callback does nothing then.
GiveUpAsk(m) ==
    /\ m \in open
    /\ open' = open \ {m}
    /\ UNCHANGED <<asked, temp, found, added, aLists, bVars, netVars>>

\* Variant: the temporary list is not asked.
FindUserAlways(reply) ==
    /\ reply \in replyNet
    /\ found["yes"] + found["no"] + added < MaxHandlers
    /\ found' = [found EXCEPT ![reply] = @ + 1]
    /\ UNCHANGED <<asked, open, temp, added, aLists, bVars, netVars>>

\* OnReplyAddUserMsg, FindUser: a reply of somebody who is not in TempUserList
\* is dropped, without an acknowledgement.
FindUser(reply) ==
    /\ reply \in replyNet
    /\ temp > 0
    /\ found["yes"] + found["no"] + added < MaxHandlers
    /\ found' = [found EXCEPT ![reply] = @ + 1]
    /\ UNCHANGED <<asked, open, temp, added, aLists, bVars, netVars>>

\* Variant: the reply is taken for a yes whatever it says.
AddUserAnyReply(reply) ==
    /\ found[reply] > 0
    /\ found' = [found EXCEPT ![reply] = @ - 1]
    /\ added' = added + 1
    /\ aLists' = TRUE
    /\ UNCHANGED <<asked, open, temp, bVars, netVars>>

\* OnReplyAddUserMsg, AddUser: on yes (the reply has my_info) B is entered,
\* unless it is there or the database refuses.
AddUser(reply) ==
    /\ found[reply] > 0
    /\ found' = [found EXCEPT ![reply] = @ - 1]
    /\ added' = added + 1
    /\ \/ reply = "yes" /\ aLists' = TRUE
       \/ UNCHANGED aLists
    /\ UNCHANGED <<asked, open, temp, bVars, netVars>>

\* Variant: the entry is taken off without being looked for.
DeleteUserBlindly ==
    /\ added > 0
    /\ added' = added - 1
    /\ temp' = temp - 1
    /\ UNCHANGED <<asked, open, found, aLists, bVars, netVars>>

\* OnReplyAddUserMsg, DeleteUser: the first entry for B, if there is one,
\* leaves TempUserList.
DeleteUser ==
    /\ added > 0
    /\ added' = added - 1
    /\ temp' = IF temp > 0 THEN temp - 1 ELSE temp
    /\ UNCHANGED <<asked, open, found, aLists, bVars, netVars>>

\* A's user deletes B.
DeleteFriendA ==
    /\ aLists
    /\ aLists' = FALSE
    /\ UNCHANGED <<asked, open, temp, found, added, bVars, netVars>>

\* A ends and starts again: only the database is left, and mids begin at 0.
RestartA ==
    /\ asked' = 0
    /\ open' = {}
    /\ temp' = 0
    /\ found' = [reply \in Replies |-> 0]
    /\ added' = 0
    /\ UNCHANGED <<aLists, bVars, netVars>>

-----------------------------------------------------------------------------
(* B *)

\* A request arrives: it is acknowledged and put on the stack, every copy.
OnAddUserAskMsg(m) ==
    /\ m \in askNet
    /\ prompts < MaxPrompts
    /\ prompts' = prompts + 1
    /\ ackNet' = ackNet \union {m}
    /\ UNCHANGED <<aVars, adding, bLists, agreed, bDropped, askNet, replyNet>>

\* B's user answers a prompt: the reply is sent.  A refusal is all there is
\* to do (DeleteUnreadMessage follows in the same call of the UI).
AddFriendAck(reply) ==
    /\ prompts > 0
    /\ ~adding
    /\ replyNet' = replyNet \union {reply}
    /\ \/ reply = "yes" /\ adding' = TRUE /\ agreed' = TRUE /\ UNCHANGED prompts
       \/ reply = "no" /\ prompts' = prompts - 1 /\ UNCHANGED <<adding, agreed>>
    /\ UNCHANGED <<aVars, bLists, bDropped, askNet, ackNet>>

\* Variant: B leaves it to A's answer to enter A in the list.
AddFriendAckEndNoEntry ==
    /\ adding
    /\ adding' = FALSE
    /\ prompts' = prompts - 1
    /\ UNCHANGED <<aVars, bLists, agreed, bDropped, netVars>>

\* The rest of AddFriendAck after a yes: A is entered, unless it is there or
\* the database refuses; then DeleteUnreadMessage.
AddFriendAckEnd ==
    /\ adding
    /\ adding' = FALSE
    /\ prompts' = prompts - 1
    /\ \/ bLists' = TRUE /\ bDropped' = FALSE
       \/ ~bLists /\ bDropped' = TRUE /\ UNCHANGED bLists
    /\ UNCHANGED <<aVars, agreed, netVars>>

\* B's user deletes A.
DeleteFriendB ==
    /\ bLists
    /\ ~adding
    /\ bLists' = FALSE
    /\ bDropped' = TRUE
    /\ UNCHANGED <<aVars, prompts, adding, agreed, netVars>>

\* B ends and starts again.
RestartB ==
    /\ prompts' = 0
    /\ adding' = FALSE
    /\ bDropped' = IF adding /\ ~bLists THEN TRUE ELSE bDropped
    /\ UNCHANGED <<aVars, bLists, agreed, netVars>>

-----------------------------------------------------------------------------
HandshakeNext ==
    \/ AddP2PFriend
    \/ \E m \in Mids : AfterAddP2PUserMsg(m) \/ GiveUpAsk(m) \/ OnAddUserAskMsg(m)
    \/ \E reply \in Replies : FindUser(reply) \/ AddUser(reply) \/ AddFriendAck(reply)
    \/ DeleteUser
    \/ DeleteFriendA \/ RestartA
    \/ AddFriendAckEnd \/ DeleteFriendB \/ RestartB

HandshakeSpec == HandshakeInit /\ [][HandshakeNext]_handshakeVars

-----------------------------------------------------------------------------
(* Properties *)

\* Nobody is made a friend against his will: B is in A's list only if B's
\* user said yes to a request (AddFriendAck), through any delay, copy or
\* restart; a refusal in the same conversation does not enter anybody.
FriendWasAgreed == aLists => agreed

\* ClientMsgListener.cpp:294 ("looks in the temporary list, to make sure that
\* a request was sent"): B is entered only if A's user asked since A started,
\* although the reply is checked in one step and acted on in another, and
\* replies are still on their way when A is started again.
AddedWasAskedStep == ~aLists /\ aLists' => asked > 0
AddedWasAsked == [][AddedWasAskedStep]_handshakeVars

\* Friendship is not one-sided on A's part: if A lists B, then B lists A, or
\* B's UI is just about to enter A (it replies first, LuaV6Chat3App.cpp:799),
\* or the entry was deleted, refused by the database, or lost with the
\* process in between.
MutualOrDropped == aLists /\ ~bLists => adding \/ bDropped
=============================================================================
