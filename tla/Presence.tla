------------------------------ MODULE Presence -----------------------------
(***************************************************************************)
(* Who is online: the user list (kernel/User/UserList, P2PUserInfo), the   *)
(* UDP handlers that move a friend's state (ClientMsgListener) and the     *)
(* heartbeats and questions they keep in the pool of AckPool.              *)
(*                                                                         *)
(* A friend that goes online gets a heartbeat: an eternal message whose    *)
(* mid is P2PUserInfo::ackMsgid (0: none).  A friend that goes offline     *)
(* loses it.  The handlers run in a thread for each datagram, in any       *)
(* order; the callbacks of the pool put friends online from inside         *)
(* DeleteMsg; the Loop of UserList puts friends offline that were silent.  *)
(*                                                                         *)
(* Each UpdateUserState, TraverseAllUsers and DeleteUser holds the list's  *)
(* lock throughout and is one action, with the pool calls it makes.        *)
(* OnOnlineAckMsg works in two holds and is two actions.  Datagrams from a *)
(* friend may come late, twice or never: a handler may run whenever the    *)
(* friend can be heard.                                                    *)
(*                                                                         *)
(* The model is one run of the program.  Mids begin at 0 in every run and  *)
(* the handlers of acknowledgements delete whatever has the mid they are   *)
(* given, so that an acknowledgement of an earlier run that comes late may *)
(* name any message: any mid is acknowledged by anybody at any time.       *)
(* Friends are added in FriendHandshake's part of the code and not here.   *)
(***************************************************************************)
EXTENDS AckPool, FiniteSets

CONSTANTS
    Friends,    \* the P2P rows of the profile database
    LiveTime,   \* LIVE_TIME in periods of the pool's Loop: 7
    MaxHandlers, \* bound of the model: OnOnlineAckMsg threads between their holds
    NoFriend    \* an address that is not a friend's, and of a mid not yet used

ASSUME PresenceAssumption ==
    /\ LiveTime \in Nat
    /\ MaxHandlers \in Nat
    /\ NoFriend \notin Friends

VARIABLES
    listed,     \* UserList::users
    hasInit,    \* UserList::hasInit
    state,      \* UserInfo::state
    ackMsgid,   \* P2PUserInfo::ackMsgid
    idle,       \* periods since lastActiveTime
    rest,       \* periods the UserList Loop still sleeps
    peer,       \* destination of each pool message: peerIp
    handlers,   \* OnOnlineAckMsg threads between their two holds
    heard,      \* environment: the friends whose datagrams arrive
    lost        \* history: the heartbeats that an acknowledgement deleted

listVars == <<listed, hasInit, state, ackMsgid, idle, rest>>
presVars == <<poolVars, listVars, peer, handlers, heard, lost>>

PresTypeOK ==
    /\ TypeOK
    /\ listed \subseteq Friends
    /\ hasInit \in BOOLEAN
    /\ state \in [Friends -> {"online", "offline"}]
    /\ ackMsgid \in [Friends -> {0} \union Mids]
    /\ idle \in [Friends -> 0 .. LiveTime + 1]
    /\ rest \in 0 .. LiveTime
    /\ peer \in [Mids -> Friends \union {NoFriend}]
    /\ handlers \subseteq Friends \X Mids
    /\ heard \subseteq Friends
    /\ lost \subseteq Mids

PresInit ==
    /\ PoolInit
    /\ listed = {}
    /\ hasInit = FALSE
    /\ state = [f \in Friends |-> "offline"]
    /\ ackMsgid = [f \in Friends |-> 0]
    /\ idle = [f \in Friends |-> 0]
    /\ rest = 0
    /\ peer = [m \in Mids |-> NoFriend]
    /\ handlers = {}
    /\ heard \in SUBSET Friends
    /\ lost = {}

-----------------------------------------------------------------------------
(* Pieces of the operations *)

\* AddMsg of a message to f, as seen by the network.
Address(f) == peer' = [peer EXCEPT ![midCount] = f]

Unaddressed == UNCHANGED peer

\* Bound of the model: the last ids are kept for the rows still to be loaded.
Room == midCount + Cardinality(Friends \ listed) < MaxMids

\* P2PUserInfo::SetState(user_online) for f, apart from the heartbeat.
Refresh(f) ==
    /\ state' = [state EXCEPT ![f] = "online"]
    /\ idle' = [idle EXCEPT ![f] = 0]

\* Variant: KeepOnlineMsg returns the counter after AddMsg, not the mid.
SetOnlineNextMid(f) ==
    /\ f \in listed
    /\ Refresh(f)
    /\ IF ackMsgid[f] = 0
       THEN /\ Room
            /\ AddMsg("keep")
            /\ ackMsgid' = [ackMsgid EXCEPT ![f] = midCount']
            /\ Address(f)
       ELSE UNCHANGED <<poolVars, ackMsgid>> /\ Unaddressed

\* UserList::UpdateUserState(f, user_online): a friend without
\* a heartbeat gets one.
SetOnline(f) ==
    /\ f \in listed
    /\ Refresh(f)
    /\ IF ackMsgid[f] = 0
       THEN /\ Room
            /\ AddMsg("keep")
            /\ ackMsgid' = [ackMsgid EXCEPT ![f] = midCount]
            /\ Address(f)
       ELSE UNCHANGED <<poolVars, ackMsgid>> /\ Unaddressed

\* Variant: SetState(user_offline) forgets the heartbeat and leaves it queued.
SetOfflineKeepsHeartbeat(S) ==
    /\ state' = [f \in Friends |-> IF f \in S THEN "offline" ELSE state[f]]
    /\ idle' = [f \in Friends |-> IF f \in S THEN 0 ELSE idle[f]]
    /\ ackMsgid' = [f \in Friends |-> IF f \in S THEN 0 ELSE ackMsgid[f]]
    /\ UNCHANGED poolVars
    /\ Unaddressed

\* Variant: going offline drops everything queued for the friend.
SetOfflineDropsAll(S) ==
    /\ state' = [f \in Friends |-> IF f \in S THEN "offline" ELSE state[f]]
    /\ idle' = [f \in Friends |-> IF f \in S THEN 0 ELSE idle[f]]
    /\ ackMsgid' = [f \in Friends |-> IF f \in S THEN 0 ELSE ackMsgid[f]]
    /\ ~crashed
    /\ pool' = Without({m \in DOMAIN pool : peer[m] \in S})
    /\ deleted' = deleted \union {m \in DOMAIN pool : peer[m] \in S}
    /\ UNCHANGED <<midCount, kind, awake, crashed, sends, told>>
    /\ Unaddressed

\* P2PUserInfo::SetState(user_offline) for each friend in S.
SetOffline(S) ==
    /\ state' = [f \in Friends |-> IF f \in S THEN "offline" ELSE state[f]]
    /\ idle' = [f \in Friends |-> IF f \in S THEN 0 ELSE idle[f]]
    /\ ackMsgid' = [f \in Friends |-> IF f \in S THEN 0 ELSE ackMsgid[f]]
    /\ Withdraw({ackMsgid[f] : f \in {g \in S : ackMsgid[g] # 0}} \intersect DOMAIN pool)
    /\ Unaddressed

-----------------------------------------------------------------------------
(* Start, and the user *)

\* Variant: the row is inserted and the friend asked only afterwards, by hand.
LoadSilently(f) ==
    /\ ~hasInit
    /\ f \notin listed
    /\ ~crashed
    /\ listed' = listed \union {f}
    /\ UNCHANGED <<poolVars, hasInit, state, ackMsgid, idle, rest, handlers, heard, lost>>
    /\ Unaddressed

\* UserList::Init, one row: ask the friend whether it is online, insert it.
\* The listener is running by then.
Load(f) ==
    /\ ~hasInit
    /\ f \notin listed
    /\ AddMsg("online")
    /\ Address(f)
    /\ listed' = listed \union {f}
    /\ UNCHANGED <<hasInit, state, ackMsgid, idle, rest, handlers, heard, lost>>

InitDone ==
    /\ ~crashed
    /\ ~hasInit
    /\ listed = Friends
    /\ hasInit' = TRUE
    /\ UNCHANGED <<poolVars, listed, state, ackMsgid, idle, rest, peer, handlers, heard, lost>>

\* LuaV6Chat3App::ChatWithText, when its SendTextThread comes to AddMsg: the
\* friend was in the list at the call and may be deleted by now.
ChatWithText(f) ==
    /\ hasInit
    /\ \E m \in Mids : peer[m] = f
    /\ AddMsg("chat")
    /\ Address(f)
    /\ UNCHANGED <<listVars, handlers, heard, lost>>

\* UserList::DeleteUser: the friend goes offline; when the database refuses,
\* it stays in the list.
DeleteUser(f) ==
    /\ hasInit
    /\ f \in listed
    /\ SetOffline({f})
    /\ listed' \in {listed, listed \ {f}}
    /\ UNCHANGED <<hasInit, rest, handlers, heard, lost>>

-----------------------------------------------------------------------------
(* The UDP handlers *)

\* OnOnlineMsg: friend f announces itself.  The port it announces goes to
\* UserInfo::udpPort afterwards, in UpdateUserPort; ports are not modelled.
OnOnlineMsg(f) ==
    /\ f \in heard
    /\ SetOnline(f)
    /\ UNCHANGED <<listed, hasInit, rest, handlers, heard, lost>>

\* OnKeepOnlineMsg and OnKeepOnlineAckMsg: a heartbeat of f, or its answer to
\* ours; either refreshes f and leaves our heartbeat in the pool.
OnKeepOnlineMsg(f) ==
    /\ f \in heard
    /\ SetOnline(f)
    /\ UNCHANGED <<listed, hasInit, rest, handlers, heard, lost>>

\* OnOfflineMsg: f says goodbye.
OnOfflineMsg(f) ==
    /\ f \in heard
    /\ f \in listed
    /\ SetOffline({f})
    /\ UNCHANGED <<listed, hasInit, rest, handlers, heard, lost>>

\* OnOnlineAckMsg up to UpdateUserState, whatever m is.
OnOnlineAckMsg(f, m) ==
    /\ f \in heard
    /\ SetOnline(f)
    /\ handlers' = handlers \union {<<f, m>>}
    /\ Cardinality(handlers') <= MaxHandlers
    /\ UNCHANGED <<listed, hasInit, rest, heard, lost>>

\* DeleteMsg(true, m, ..., ip of f), whosever message m is: its callback,
\* AfterOnlineMsg or AfterChatWithTextMsg, puts f online while DeleteMsg has
\* its iterator.  A heartbeat has no callback and is gone.
Acknowledge(f, m) ==
    /\ lost' = IF m \in DOMAIN pool /\ Eternal(m) THEN lost \union {m} ELSE lost
    /\ \/ /\ m \notin DOMAIN pool
          /\ UNCHANGED <<poolVars, state, idle, ackMsgid>>
          /\ Unaddressed
       \/ /\ m \in DOMAIN pool
          /\ f \notin listed \/ Eternal(m)
          /\ Confirm(m)
          /\ UNCHANGED <<state, idle, ackMsgid>>
          /\ Unaddressed
       \/ /\ m \in DOMAIN pool
          /\ f \in listed
          /\ ~Eternal(m)
          /\ Refresh(f)
          /\ IF ackMsgid[f] = 0
             THEN /\ Room
                  /\ ConfirmAndRevive(m)
                  /\ ackMsgid' = [ackMsgid EXCEPT ![f] = midCount]
                  /\ Address(f)
             ELSE Confirm(m) /\ UNCHANGED ackMsgid /\ Unaddressed

\* OnOnlineAckMsg from DeleteMsg on.
FinishOnlineAck(f, m) ==
    /\ ~crashed
    /\ <<f, m>> \in handlers
    /\ handlers' = handlers \ {<<f, m>>}
    /\ Acknowledge(f, m)
    /\ UNCHANGED <<listed, hasInit, rest, heard>>

\* OnNormalAckMsg: FindMsg, then DeleteMsg; who sent it is not looked at.
OnNormalAckMsg(f, m) ==
    /\ f \in heard \union {NoFriend}
    /\ m \in DOMAIN pool
    /\ Acknowledge(f, m)
    /\ UNCHANGED <<listed, hasInit, rest, handlers, heard>>

-----------------------------------------------------------------------------
(* Threads and time *)

\* CheckOnline finds f silent for more than LIVE_TIME.
Silent(f) == state[f] = "online" /\ idle[f] > LiveTime

\* Variant: only silence of exactly LIVE_TIME is noticed.
TraverseAllUsersOnTime ==
    /\ hasInit
    /\ rest = 0
    /\ rest' = LiveTime
    /\ SetOffline({f \in listed : state[f] = "online" /\ idle[f] = LiveTime})
    /\ UNCHANGED <<listed, hasInit, handlers, heard, lost>>

\* UserList::TraverseAllUsers with CheckOnline, and the Loop's Sleep.
TraverseAllUsers ==
    /\ hasInit
    /\ rest = 0
    /\ rest' = LiveTime
    /\ SetOffline({f \in listed : Silent(f)})
    /\ UNCHANGED <<listed, hasInit, handlers, heard, lost>>

PoolPass == TraverseAllMsg /\ UNCHANGED <<listVars, peer, handlers, heard, lost>>

PresTick ==
    /\ Tick
    /\ idle' = [f \in Friends |->
                  IF state[f] = "online" /\ idle[f] <= LiveTime THEN idle[f] + 1 ELSE idle[f]]
    /\ rest' = IF rest > 0 THEN rest - 1 ELSE 0
    /\ UNCHANGED <<listed, hasInit, state, ackMsgid, peer, handlers, heard, lost>>

\* The network or the friend's program comes and goes.
Reach ==
    /\ ~crashed
    /\ heard' \in SUBSET Friends
    /\ UNCHANGED <<poolVars, listVars, peer, handlers, lost>>

PresCrashed == crashed /\ UNCHANGED presVars

PresNext ==
    \/ \E f \in Friends : \/ Load(f)
                          \/ ChatWithText(f)
                          \/ DeleteUser(f)
                          \/ OnOnlineMsg(f)
                          \/ OnKeepOnlineMsg(f)
                          \/ OnOfflineMsg(f)
                          \/ \E m \in Mids : OnOnlineAckMsg(f, m) \/ FinishOnlineAck(f, m)
    \/ \E f \in Friends \union {NoFriend}, m \in Mids : OnNormalAckMsg(f, m)
    \/ InitDone
    \/ TraverseAllUsers
    \/ PoolPass
    \/ PresTick
    \/ Reach
    \/ PresCrashed

\* The threads of the program run and time passes; nothing is asked of the
\* network or of the friends.
PresFairness ==
    /\ WF_presVars(InitDone)
    /\ \A f \in Friends : WF_presVars(Load(f))
    /\ \A f \in Friends, m \in Mids : WF_presVars(FinishOnlineAck(f, m))
    /\ WF_presVars(TraverseAllUsers)
    /\ WF_presVars(PoolPass)
    /\ WF_presVars(PresTick)

PresSafety == PresInit /\ [][PresNext]_presVars
PresSpec == PresSafety /\ PresFairness

-----------------------------------------------------------------------------
(* Properties *)

\* The list and the pool agree: a friend is online exactly when it has a
\* heartbeat, which is eternal and addressed to it, and which is queued unless
\* an acknowledgement deleted it - whatever order handlers, callbacks and both
\* Loop threads take.  Heartbeats are answered by OnKeepOnlineAckMsg, which
\* deletes nothing: the acknowledgement was of an earlier run, and the friend
\* hears nothing of us until it goes offline here and comes back.
HeartbeatMatchesState ==
    ~crashed => \A f \in listed :
        /\ state[f] = "online" <=> ackMsgid[f] # 0
        /\ ackMsgid[f] # 0 => /\ ackMsgid[f] \in DOMAIN pool \union lost
                              /\ Eternal(ackMsgid[f])
                              /\ peer[ackMsgid[f]] = f

\* No heartbeat is orphaned: an eternal message in the pool belongs to a
\* friend in the list, for an eternal message nobody owns would be sent until
\* the process ends (it would if ackMsgid could be mid 0, the "none" of
\* P2PUserInfo.cpp:50 and 59).
NoOrphanHeartbeat ==
    ~crashed => \A m \in DOMAIN pool :
        Eternal(m) => \E f \in listed : ackMsgid[f] = m

\* What the program does to the pool is what AckPool says its clients may do.
ImplementsPool == PoolSafety

\* A friend that is not heard any more is shown offline in the end, for good:
\* late callbacks and handlers may bring it back, but not for ever.
SilentGoesOffline ==
    \A f \in Friends : <>[](f \notin heard) => <>[](crashed \/ state[f] = "offline")
=============================================================================
