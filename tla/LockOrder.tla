------------------------------ MODULE LockOrder ------------------------------
(***************************************************************************)
(* The critical sections of the singletons (kernel/Lock and the aCritSect  *)
(* of each list) and the orders in which the threads of the program nest   *)
(* them.  A section belongs to one thread at a time and that thread may    *)
(* enter it again (Win32 CRITICAL_SECTION); SimpleCriticalSection leaves   *)
(* it at the end of the scope.                                             *)
(*                                                                         *)
(* A thread runs jobs, one after the other; of a job only the entering and *)
(* leaving of sections is kept.  X::Instance() enters the section of X, so *)
(* a call of Instance alone is an entry too.                               *)
(***************************************************************************)
EXTENDS Integers, Sequences

CONSTANTS
    Handlers,       \* threads of datagrams, connections, texts and sessions at
                    \* one time
    NoThread

Loops == {"pool loop", "user loop"}
Threads == Loops \union {"ui"} \union Handlers
Locks == {"pool", "users", "servers", "unread", "listener", "temp", "sent files", "received files"}

VARIABLES
    owner,      \* the thread inside a section
    depth,      \* how often it has entered it
    todo        \* entries and exits left of each thread's job

lockVars == <<owner, depth, todo>>

-----------------------------------------------------------------------------
(* The jobs *)

\* The section of l around what body does.
Within(l, body) == << <<"enter", l>> >> \o body \o << <<"leave", l>> >>
Touch(l) == Within(l, <<>>)

\* WaitACKMsgSender::AddMsg asks the listener for its sockets.
AddMsg == Within("pool", Touch("listener"))

\* TraverseAllMsg gives up a text: AfterChatWithTextMsg(false) records it with
\* the friend and puts it on the unread stack.
GiveUp == Within("pool", Touch("listener") \o Touch("users") \o Touch("unread"))

\* DeleteMsg with AfterOnlineMsg or AfterChatWithTextMsg(true); a friend that
\* was offline gets a heartbeat.
Acknowledged == Within("pool", Within("users", AddMsg))

\* DeleteMsg with AfterAddP2PUserMsg: the friend that was asked is noted.
AskArrived == Within("pool", Touch("temp"))

\* UpdateUserState(online): the heartbeat is made while the list is held.
GoOnline == Within("users", AddMsg)

\* UpdateUserState(offline), TraverseAllUsers or DeleteUser: the heartbeat is
\* deleted while the list is held.
GoOffline == Within("users", Touch("pool"))

\* DeleteUser of a friend on a server.
DeleteOnServer == Within("users", Touch("servers"))

\* AddUserAskMsg or UpdateChatContent and ShowChatContent in a handler.
ShowUnread == Touch("users") \o Touch("unread")

\* OnReplyAddUserMsg: find, add, delete.
ReplyArrived == Touch("temp") \o Touch("users") \o Touch("temp")

\* SendTextThread: the files of a text, then the text is sent.
SendText == Touch("sent files") \o AddMsg

\* OnChatWithTextMsg and OnSendFileMsg: who it is, the files, the text.
TextArrived == Touch("users") \o Touch("received files") \o ShowUnread

\* A session of an account: its state, its friends, a text or a request.
InSession == Touch("servers") \o ShowUnread

\* ChatWithText: RecordChatText, then the text is sent.
ChatWithText == Touch("users") \o AddMsg

\* AddFriendAck: the stack, the reply, AddUser, the question.
AddFriendAck == Touch("unread") \o AddMsg \o Touch("users") \o AddMsg

Jobs(t) ==
    CASE t = "pool loop" -> {GiveUp}
      [] t = "user loop" -> {GoOffline}
      [] t = "ui"        -> {GoOffline, DeleteOnServer, ChatWithText, AddFriendAck}
      [] OTHER           -> {Acknowledged, AskArrived, GoOnline, GoOffline, ShowUnread,
                             ReplyArrived, SendText, TextArrived, InSession}

-----------------------------------------------------------------------------
(* Threads *)

LockInit ==
    /\ owner = [l \in Locks |-> NoThread]
    /\ depth = [l \in Locks |-> 0]
    /\ todo = [t \in Threads |-> <<>>]

Idle(t) == todo[t] = <<>>
Step(t) == Head(todo[t])

Begin(t) ==
    /\ Idle(t)
    /\ \E job \in Jobs(t) : todo' = [todo EXCEPT ![t] = job]
    /\ UNCHANGED <<owner, depth>>

Enter(t) ==
    /\ ~Idle(t)
    /\ Step(t)[1] = "enter"
    /\ LET l == Step(t)[2]
       IN  /\ owner[l] \in {NoThread, t}
           /\ owner' = [owner EXCEPT ![l] = t]
           /\ depth' = [depth EXCEPT ![l] = @ + 1]
    /\ todo' = [todo EXCEPT ![t] = Tail(@)]

Leave(t) ==
    /\ ~Idle(t)
    /\ Step(t)[1] = "leave"
    /\ LET l == Step(t)[2]
       IN  /\ depth' = [depth EXCEPT ![l] = @ - 1]
           /\ owner' = [owner EXCEPT ![l] = IF depth[l] = 1 THEN NoThread ELSE t]
    /\ todo' = [todo EXCEPT ![t] = Tail(@)]

LockNext == \E t \in Threads : Begin(t) \/ Enter(t) \/ Leave(t)

\* The two Loops come round again; a thread in a job goes on, and gets a
\* section that is free again and again.
LockFairness ==
    /\ \A t \in Loops : WF_lockVars(Begin(t))
    /\ \A t \in Threads : SF_lockVars(Enter(t)) /\ WF_lockVars(Leave(t))

LockSpec == LockInit /\ [][LockNext]_lockVars /\ LockFairness

-----------------------------------------------------------------------------
(* Properties *)

\* The section thread t waits for, while another thread is inside it.
WaitsFor(t, l) ==
    /\ ~Idle(t)
    /\ Step(t) = <<"enter", l>>
    /\ owner[l] \notin {NoThread, t}

\* Some threads of which each waits for another of them: none of them goes on.
Circle(D) ==
    /\ D # {}
    /\ \A t \in D : \E l \in Locks : WaitsFor(t, l) /\ owner[l] \in D

\* Jobs nest sections in many orders, but there is one way only to wait in a
\* circle: a callback of the pool (WaitACKMsgSender.cpp:91, :131) waits for the
\* user list, and a heartbeat made or deleted in the user list
\* (UserList.cpp:497, :543, :592) waits for the pool.
OneCircle ==
    \A D \in SUBSET Threads : Circle(D) =>
        /\ {owner["pool"], owner["users"]} \subseteq D
        /\ WaitsFor(owner["pool"], "users")
        /\ WaitsFor(owner["users"], "pool")

\* README.txt:37: the messages of the pool are sent again until they time out
\* or are deleted; so the loop that does it always comes round again.
PoolComesRound == []<>Idle("pool loop")
=============================================================================
