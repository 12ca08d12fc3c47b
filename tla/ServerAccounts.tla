--------------------------- MODULE ServerAccounts ---------------------------
(***************************************************************************)
(* An account on an XMPP server: ServerInfo and its place in ServerList,   *)
(* XmppClientInner with the client of the gloox library it holds, and the  *)
(* callbacks of ServerMsgListener.                                         *)
(*                                                                         *)
(* Connect starts a thread, which makes a client, connects it and stays in *)
(* the session until it ends.  The state the user sees, the flag hasLogin  *)
(* and the pointer c are set by callbacks in that thread and by the user   *)
(* interface, without a lock; ServerList locks only its table, and a       *)
(* callback for an account that is not in the table is lost.               *)
(*                                                                         *)
(* Each thread makes one client, which has the name of its thread here.    *)
(* What a program does after it used a client that was deleted, or none,   *)
(* is undefined: the model stops there (harm).                             *)
(***************************************************************************)
EXTENDS Integers, FiniteSets

CONSTANTS
    Threads,    \* connect threads, each started at most once
    NoClient,   \* the pointer NULL
    MaxChanges  \* bound of the model: changes of the account by the user

ASSUME AccountAssumption ==
    /\ NoClient \notin Threads
    /\ MaxChanges \in Nat

VARIABLES
    listed,     \* the account is in ServerList::servers
    ui,         \* where the user interface is in AddServer or ChangeServerInfo
    state,      \* ServerInfo::state
    hasLogin,   \* XmppClientInner::hasLogin
    c,          \* XmppClientInner::c
    alive,      \* clients that are made and not deleted
    link,       \* the connection of each client
    step,       \* what each thread does next
    runs,       \* the client each thread called connect of
    ft,         \* the client XmppFT::ft was made for
    started,    \* StartServer was called
    changes,    \* bound: changes of the account
    harm,       \* history: a deleted client or none was used
    twice,      \* history: a thread was started while another was at work
    broken      \* history: since the last session that came up, a send failed
                \* before the onConnect of its client was done

accountVars == <<listed, ui, state, hasLogin, c, alive, link, step, runs, ft, started,
                 changes, harm, twice, broken>>

Pointer == Threads \union {NoClient}

\* A thread that is in the library or in a callback with its client.
InClient(t) == step[t] \in {"connecting", "dropping", "dropped", "greeting", "greeted",
                            "session", "leaving"}
LoggingIn(t) == InClient(t) /\ step[t] \notin {"session", "leaving"}
Orphaned(t) == InClient(t) /\ runs[t] \notin alive
Working(t) == step[t] \notin {"none", "over"} /\ ~Orphaned(t)

AccountTypeOK ==
    /\ listed \in BOOLEAN
    /\ ui \in {"free", "adding", "closing", "deleting", "connecting", "failing"}
    /\ state \in {"server_disconnect", "server_connected"}
    /\ hasLogin \in BOOLEAN
    /\ c \in Pointer
    /\ alive \subseteq Threads
    /\ link \in [Threads -> {"none", "connecting", "up", "cut"}]
    /\ step \in [Threads -> {"none", "new", "made", "connecting", "dropping", "dropped",
                             "greeting", "greeted", "session", "leaving", "over"}]
    /\ runs \in [Threads -> Pointer]
    /\ ft \in Pointer
    /\ started \in BOOLEAN
    /\ changes \in 0 .. MaxChanges
    /\ harm \in BOOLEAN
    /\ twice \in BOOLEAN
    /\ broken \in BOOLEAN
    /\ c = NoClient \/ c \in alive

\* The account comes from the database, or the user has yet to add it.
AccountInit ==
    /\ listed \in BOOLEAN
    /\ ui = "free"
    /\ state = "server_disconnect"
    /\ hasLogin = FALSE
    /\ c = NoClient
    /\ alive = {}
    /\ link = [t \in Threads |-> "none"]
    /\ step = [t \in Threads |-> "none"]
    /\ runs = [t \in Threads |-> NoClient]
    /\ ft = NoClient
    /\ started = FALSE
    /\ changes = 0
    /\ harm = FALSE
    /\ twice = FALSE
    /\ broken = FALSE

-----------------------------------------------------------------------------
(* Pieces of the operations *)

\* ServerInfo::Connect starts a thread unless the account is connected.
Connect ==
    IF state = "server_disconnect"
    THEN /\ \E t \in Threads :
                /\ step[t] = "none"
                /\ step' = [step EXCEPT ![t] = "new"]
         /\ twice' = (twice \/ \E t \in Threads : Working(t))
    ELSE UNCHANGED <<step, twice>>

\* Variant: without the lock.
SetServerStateAtOnce(s) == state' = IF listed THEN s ELSE state

\* ServerList::SetServerState waits for the lock, which AddServer holds, and
\* finds the account only in the table.
SetServerState(s) ==
    /\ ui # "adding"
    /\ state' = IF listed THEN s ELSE state

-----------------------------------------------------------------------------
(* The user interface *)

\* Variant: a send that fails is not reported to the listener.
SendFailsQuietly(k) ==
    /\ k # NoClient
    /\ link[k] \in {"connecting", "up"}
    /\ link' = [link EXCEPT ![k] = "cut"]
    /\ ui' = "failing"
    /\ broken' = (broken \/ \E t \in Threads : LoggingIn(t) /\ runs[t] = k)
    /\ UNCHANGED state

\* A send of client k fails: the library cuts the link and calls onDisconnect
\* in the thread of the sender, which sets the state ...
SendFails(k) ==
    /\ k # NoClient
    /\ link[k] \in {"connecting", "up"}
    /\ link' = [link EXCEPT ![k] = "cut"]
    /\ SetServerState("server_disconnect")
    /\ ui' = "failing"
    /\ broken' = (broken \/ \E t \in Threads : LoggingIn(t) /\ runs[t] = k)

\* ... and clears the flag.
SendFailsEnd ==
    /\ ~harm
    /\ ui = "failing"
    /\ hasLogin' = FALSE
    /\ ui' = "free"
    /\ UNCHANGED <<listed, state, c, alive, link, step, runs, ft, started, changes, harm,
                   twice, broken>>

StartServer ==
    /\ ~harm
    /\ ui = "free"
    /\ ~started
    /\ started' = TRUE
    /\ IF listed THEN Connect ELSE UNCHANGED <<step, twice>>
    /\ UNCHANGED <<listed, ui, state, hasLogin, c, alive, link, runs, ft, changes, harm,
                   broken>>

\* AddServer: the row is in the database, the account connects ...
AddServer ==
    /\ ~harm
    /\ ui = "free"
    /\ started
    /\ ~listed
    /\ Connect
    /\ ui' = "adding"
    /\ UNCHANGED <<listed, state, hasLogin, c, alive, link, runs, ft, started, changes,
                   harm, broken>>

\* ... and then enters the table.
AddServerEnd ==
    /\ ~harm
    /\ ui = "adding"
    /\ listed' = TRUE
    /\ ui' = "free"
    /\ UNCHANGED <<state, hasLogin, c, alive, link, step, runs, ft, started, changes, harm,
                   twice, broken>>

\* ChangeServerInfo: haschange is never reset, so every call of it after a
\* first change connects anew.
ChangeServerInfo ==
    /\ ~harm
    /\ ui = "free"
    /\ listed
    /\ changes < MaxChanges
    /\ changes' = changes + 1
    /\ ui' = "closing"
    /\ UNCHANGED <<listed, state, hasLogin, c, alive, link, step, runs, ft, started, harm,
                   twice, broken>>

\* Variant: the listener is not called back for a disconnect of one's own.
DisconnectQuietly ==
    /\ ~harm
    /\ ui = "closing"
    /\ ui' = "deleting"
    /\ harm' = (hasLogin /\ c = NoClient)
    /\ link' = IF hasLogin /\ c # NoClient THEN [link EXCEPT ![c] = "cut"] ELSE link
    /\ hasLogin' = FALSE
    /\ UNCHANGED <<listed, state, c, alive, step, runs, ft, started, changes, twice,
                   broken>>

\* XmppClientInner::Close: a client that has logged in is disconnected, and
\* its listener is called back in this thread, unless the link is cut ...
Disconnect ==
    /\ ~harm
    /\ ui = "closing"
    /\ ui' = "deleting"
    /\ IF hasLogin /\ c = NoClient
       THEN /\ harm' = TRUE
            /\ UNCHANGED <<state, link, hasLogin>>
       ELSE /\ IF hasLogin /\ link[c] \in {"connecting", "up"}
               THEN /\ link' = [link EXCEPT ![c] = "cut"]
                    /\ SetServerState("server_disconnect")
               ELSE UNCHANGED <<link, state>>
            /\ hasLogin' = FALSE
            /\ harm' = harm
    /\ UNCHANGED <<listed, c, alive, step, runs, ft, started, changes, twice, broken>>

\* Variant: the pointer is not reset.
DeleteOnly ==
    /\ ~harm
    /\ ui = "deleting"
    /\ ui' = "connecting"
    /\ alive' = alive \ {c}
    /\ UNCHANGED <<listed, state, hasLogin, c, link, step, runs, ft, started, changes,
                   harm, twice, broken>>

\* ... and is deleted, whatever its thread is doing.
Delete ==
    /\ ~harm
    /\ ui = "deleting"
    /\ ui' = "connecting"
    /\ alive' = alive \ {c}
    /\ c' = NoClient
    /\ UNCHANGED <<listed, state, hasLogin, link, step, runs, ft, started, changes, harm,
                   twice, broken>>

ConnectAgain ==
    /\ ~harm
    /\ ui = "connecting"
    /\ Connect
    /\ ui' = "free"
    /\ UNCHANGED <<listed, state, hasLogin, c, alive, link, runs, ft, started, changes,
                   harm, broken>>

\* SendText, AskUserInfo, AddUser and DeleteUser use the client while the
\* account is shown as connected.
UseClient ==
    /\ ~harm
    /\ ui = "free"
    /\ listed
    /\ state = "server_connected"
    /\ \/ /\ harm' = (c = NoClient)
          /\ UNCHANGED <<ui, state, link, broken>>
       \/ /\ SendFails(c)
          /\ harm' = harm
    /\ UNCHANGED <<listed, hasLogin, c, alive, step, runs, ft, started, changes, twice>>

\* ServerInfo::SendFile looks neither at the state nor at the client.
SendFile ==
    /\ ~harm
    /\ ui = "free"
    /\ listed
    /\ \/ /\ harm' = (ft \notin alive)
          /\ UNCHANGED <<ui, state, link, broken>>
       \/ /\ ft \in alive
          /\ SendFails(ft)
          /\ harm' = harm
    /\ UNCHANGED <<listed, hasLogin, c, alive, step, runs, ft, started, changes, twice>>

-----------------------------------------------------------------------------
(* The thread that connects *)

\* XmppClientInner::Start overwrites the pointer.
MakeClient(t) ==
    /\ ~harm
    /\ step[t] = "new"
    /\ c' = t
    /\ alive' = alive \union {t}
    /\ step' = [step EXCEPT ![t] = "made"]
    /\ UNCHANGED <<listed, ui, state, hasLogin, link, runs, ft, started, changes, harm,
                   twice, broken>>

\* Start calls connect of whatever client c points to; one that connects
\* already returns at once.
CallConnect(t) ==
    /\ ~harm
    /\ step[t] = "made"
    /\ IF c = NoClient
       THEN /\ harm' = TRUE
            /\ UNCHANGED <<link, step, runs>>
       ELSE /\ IF link[c] \in {"connecting", "up"}
               THEN /\ step' = [step EXCEPT ![t] = "over"]
                    /\ UNCHANGED <<link, runs>>
               ELSE /\ step' = [step EXCEPT ![t] = "connecting"]
                    /\ link' = [link EXCEPT ![c] = "connecting"]
                    /\ runs' = [runs EXCEPT ![t] = c]
            /\ harm' = harm
    /\ UNCHANGED <<listed, ui, state, hasLogin, c, alive, ft, started, changes, twice,
                   broken>>

\* Client::rosterFilled sends the presence and goes on to onConnect even when
\* that fails, after onDisconnect has set the state and cleared the flag.
PresenceFails(t) ==
    /\ ~harm
    /\ step[t] = "connecting"
    /\ runs[t] \in alive
    /\ link[runs[t]] = "connecting"
    /\ link' = [link EXCEPT ![runs[t]] = "cut"]
    /\ SetServerState("server_disconnect")
    /\ step' = [step EXCEPT ![t] = "dropping"]
    /\ broken' = TRUE
    /\ UNCHANGED <<listed, ui, hasLogin, c, alive, runs, ft, started, changes, harm, twice>>

\* The server logs the client in: onConnect calls the listener first, which
\* sets the state ...
OnConnect(t) ==
    /\ ~harm
    /\ step[t] \in {"connecting", "dropped"}
    /\ runs[t] \in alive
    /\ link' = [link EXCEPT ![runs[t]] = IF @ = "connecting" THEN "up" ELSE @]
    /\ SetServerState("server_connected")
    /\ step' = [step EXCEPT ![t] = "greeting"]
    /\ UNCHANGED <<listed, ui, hasLogin, c, alive, runs, ft, started, changes, harm, twice,
                   broken>>

\* ... and starts the file transfer: it is made once, for the first client.
StartFileTransfer(t) ==
    /\ ~harm
    /\ step[t] = "greeting"
    /\ runs[t] \in alive
    /\ IF listed /\ state = "server_connected" /\ ft = NoClient
       THEN /\ ft' = c
            /\ harm' = (c = NoClient)
       ELSE UNCHANGED <<ft, harm>>
    /\ step' = [step EXCEPT ![t] = "greeted"]
    /\ UNCHANGED <<listed, ui, state, hasLogin, c, alive, link, runs, started, changes,
                   twice, broken>>

\* The flag is set last.
OnConnectEnd(t) ==
    /\ ~harm
    /\ step[t] = "greeted"
    /\ runs[t] \in alive
    /\ hasLogin' = TRUE
    /\ step' = [step EXCEPT ![t] = "session"]
    /\ broken' = (broken /\ link[runs[t]] # "up")
    /\ UNCHANGED <<listed, ui, state, c, alive, link, runs, ft, started, changes, harm,
                   twice>>

\* The connection is refused, the login fails or the session ends:
\* onDisconnect calls the listener, which sets the state ...
OnDisconnect(t) ==
    /\ ~harm
    /\ step[t] \in {"connecting", "session"}
    /\ runs[t] \in alive
    /\ link[runs[t]] \in {"connecting", "up"}
    /\ link' = [link EXCEPT ![runs[t]] = "cut"]
    /\ SetServerState("server_disconnect")
    /\ step' = [step EXCEPT ![t] = "leaving"]
    /\ UNCHANGED <<listed, ui, hasLogin, c, alive, runs, ft, started, changes, harm, twice,
                   broken>>

\* ... and clears the flag.
OnDisconnectEnd(t) ==
    /\ ~harm
    /\ runs[t] \in alive
    /\ hasLogin' = FALSE
    /\ \/ /\ step[t] = "leaving"
          /\ step' = [step EXCEPT ![t] = "over"]
       \/ /\ step[t] = "dropping"
          /\ step' = [step EXCEPT ![t] = "dropped"]
    /\ UNCHANGED <<listed, ui, state, c, alive, link, runs, ft, started, changes, harm,
                   twice, broken>>

\* The thread sees that Close or a failing send has cut the link.
Leave(t) ==
    /\ ~harm
    /\ step[t] \in {"connecting", "session"}
    /\ runs[t] \in alive
    /\ link[runs[t]] = "cut"
    /\ step' = [step EXCEPT ![t] = "over"]
    /\ UNCHANGED <<listed, ui, state, hasLogin, c, alive, link, runs, ft, started, changes,
                   harm, twice, broken>>

\* The thread was receiving when the socket was closed: it calls onDisconnect
\* once more.
ReceiveFails(t) ==
    /\ ~harm
    /\ step[t] \in {"connecting", "session"}
    /\ runs[t] \in alive
    /\ link[runs[t]] = "cut"
    /\ SetServerState("server_disconnect")
    /\ step' = [step EXCEPT ![t] = "leaving"]
    /\ UNCHANGED <<listed, ui, hasLogin, c, alive, link, runs, ft, started, changes, harm,
                   twice, broken>>

\* The thread goes on with a client that was deleted.
UseDeleted(t) ==
    /\ ~harm
    /\ Orphaned(t)
    /\ harm' = TRUE
    /\ UNCHANGED <<listed, ui, state, hasLogin, c, alive, link, step, runs, ft, started,
                   changes, twice, broken>>

-----------------------------------------------------------------------------

UserStep ==
    \/ StartServer
    \/ AddServer
    \/ AddServerEnd
    \/ ChangeServerInfo
    \/ Disconnect
    \/ Delete
    \/ ConnectAgain
    \/ UseClient
    \/ SendFile
    \/ SendFailsEnd

ThreadStep(t) ==
    \/ MakeClient(t)
    \/ CallConnect(t)
    \/ PresenceFails(t)
    \/ OnConnect(t)
    \/ StartFileTransfer(t)
    \/ OnConnectEnd(t)
    \/ OnDisconnect(t)
    \/ OnDisconnectEnd(t)
    \/ Leave(t)
    \/ ReceiveFails(t)
    \/ UseDeleted(t)

AccountNext == UserStep \/ \E t \in Threads : ThreadStep(t)

AccountSpec == AccountInit /\ [][AccountNext]_accountVars

-----------------------------------------------------------------------------
(* Properties *)

\* No thread is between two steps of a callback or runs on a deleted client.
Settled ==
    /\ ui = "free"
    /\ \A t \in Threads :
           /\ step[t] \in {"none", "new", "made", "connecting", "session", "over"}
           /\ ~Orphaned(t)

InSession(t) == step[t] = "session" /\ link[runs[t]] = "up"

\* ServerInfo::state, hasLogin and c are set by the callbacks and by Close in
\* different orders: still, when no callback is under way, a session that is up
\* is shown as connected, Close would end it and texts are sent through it;
\* and the account is shown as connected only then, unless a send failed
\* before onConnect was done: onConnect shows the account as connected, or sets
\* the flag, after onDisconnect did the contrary.
ShownIsReal ==
    (Settled /\ ~twice) =>
        /\ \A t \in Threads : InSession(t) =>
               /\ state = "server_connected"
               /\ hasLogin
               /\ runs[t] = c
        /\ ~broken =>
               /\ state = "server_connected" => \E t \in Threads : InSession(t)
               /\ hasLogin => state = "server_connected"

\* ServerInfo::Connect does nothing for an account that is shown as connected:
\* Close has shown it as disconnected before, so that a changed account is
\* never left without a thread, unless a send failed before onConnect was done
\* (Close makes no callback for a link that is cut) or two threads were at work
\* (one shows the other's session as its own).  A thread that was at work
\* already may go on, with the old name and password, or run on a deleted
\* client.
ChangeIsTried ==
    [][ConnectAgain => \/ (broken \/ twice) /\ state = "server_connected"
                       \/ \E t \in Threads : step'[t] \notin {"none", "over"}]_accountVars
=============================================================================
