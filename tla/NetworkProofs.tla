---------------------------- MODULE NetworkProofs ----------------------------
(***************************************************************************)
(* The safety properties of ServerAccounts, for any number of connect      *)
(* threads and changes, and of Listeners, for any number of tries, sockets *)
(* and uses of Winsock.                                                    *)
(*                                                                         *)
(* ShownIsReal speaks of states in which nothing is under way.  It is      *)
(* carried there by what holds at every step of the one thread that is at  *)
(* work and of a send of the user that fails (Sole), as long as no thread  *)
(* runs on a deleted client: a thread that does never finds its client     *)
(* again, because a client is made once (MadeOnce).                        *)
(*                                                                         *)
(* PortsStayOpen is carried by what Winsock counts: without a half built   *)
(* port release_socket and the thread whose own listener failed each give  *)
(* back the use of the listener they close, and the count never falls      *)
(* below the listeners that are left (Opened).                             *)
(***************************************************************************)
EXTENDS ServerAccounts, Listeners, TLAPS

-----------------------------------------------------------------------------
(* Accounts: the invariant *)

\* Before a thread has made its client, nothing knows the client.
MadeOnce ==
    \A t \in Threads : step[t] \in {"none", "new"} =>
        /\ t \notin alive
        /\ link[t] = "none"
        /\ \A u \in Threads : runs[u] # t

\* A thread in the library has a client, and one that was started belongs to
\* an account that is, or is about to be, in the table.
Placed ==
    /\ \A t \in Threads : InClient(t) => runs[t] \in Threads
    /\ \A t \in Threads : step[t] # "none" => listed \/ ui = "adding"
    /\ ui \in {"closing", "deleting", "connecting"} => listed

Busy(t) == step[t] \notin {"none", "over"}

Clean == ~twice /\ \A t \in Threads : ~Orphaned(t)

\* What the thread at work, the pointer, the flag and the state have to do
\* with each other at each step of the thread and of a send that fails.
Sole ==
    /\ \A t, u \in Threads : Busy(t) /\ Busy(u) => t = u
    /\ \A t \in Threads : step[t] = "made" => link[t] = "none" /\ c \in {t, NoClient}
    /\ \A t \in Threads : InClient(t) => runs[t] = c
    /\ \A k \in alive : link[k] \in {"connecting", "up"} =>
           /\ k = c
           /\ \E t \in Threads :
                  step[t] \in {"connecting", "greeting", "greeted", "session"}
    /\ \A t \in Threads : step[t] = "connecting" => link[c] \in {"connecting", "cut"}
    /\ \A t \in Threads : step[t] \in {"dropping", "dropped", "leaving"} => link[c] = "cut"
    /\ \A t \in Threads : step[t] \in {"greeting", "greeted", "session"} =>
           \/ link[c] = "cut"
           \/ link[c] = "up" /\ state = "server_connected"
    /\ \A t \in Threads : step[t] = "session" /\ link[c] = "up" => hasLogin
    /\ ui = "failing" => \A t \in Threads : Busy(t) => InClient(t) /\ link[c] = "cut"

\* What a send that fails before onConnect is done may break.
Whole ==
    /\ \A t \in Threads : step[t] \notin {"dropping", "dropped"}
    /\ \A t \in Threads : LoggingIn(t) => link[c] # "cut"
    /\ state = "server_connected" =>
           \E t \in Threads : step[t] \in {"greeting", "greeted", "session"} /\ link[c] = "up"
    /\ hasLogin =>
           \/ ui = "failing"
           \/ \E t \in Threads : \/ step[t] = "session" /\ link[c] = "up"
                                 \/ step[t] = "leaving"

AccountInv ==
    /\ AccountTypeOK
    /\ MadeOnce
    /\ Placed
    /\ Clean => Sole
    /\ Clean /\ ~broken => Whole

-----------------------------------------------------------------------------
(* Accounts: types, clients and places *)

\* A step of a thread moves that thread only.
LEMMA AccountTypes == AccountTypeOK /\ [AccountNext]_accountVars => AccountTypeOK'
<1> SUFFICES ASSUME AccountTypeOK, [AccountNext]_accountVars
             PROVE  AccountTypeOK'
  OBVIOUS
<1> USE AccountAssumption DEF Pointer
<1>1. CASE UNCHANGED accountVars
  BY <1>1 DEF accountVars, AccountTypeOK
<1>2. CASE UserStep
  <2>1. step' \in [Threads -> {"none", "new", "made", "connecting", "dropping", "dropped",
                               "greeting", "greeted", "session", "leaving", "over"}]
    BY <1>2 DEF UserStep, StartServer, AddServer, AddServerEnd, ChangeServerInfo,
                Disconnect, Delete, ConnectAgain, UseClient, SendFile, SendFails,
                SendFailsEnd, Connect, AccountTypeOK
  <2>2. link' \in [Threads -> {"none", "connecting", "up", "cut"}]
    BY <1>2 DEF UserStep, StartServer, AddServer, AddServerEnd, ChangeServerInfo,
                Disconnect, Delete, ConnectAgain, UseClient, SendFile, SendFails,
                SendFailsEnd, AccountTypeOK
  <2>3. /\ ui' \in {"free", "adding", "closing", "deleting", "connecting", "failing"}
        /\ state' \in {"server_disconnect", "server_connected"}
        /\ c' \in Pointer /\ alive' \subseteq Threads /\ (c' = NoClient \/ c' \in alive')
        /\ changes' \in 0 .. MaxChanges
        /\ runs' = runs /\ ft' = ft
    BY <1>2 DEF UserStep, StartServer, AddServer, AddServerEnd, ChangeServerInfo,
                Disconnect, Delete, ConnectAgain, UseClient, SendFile, SendFails,
                SendFailsEnd, SetServerState,
                AccountTypeOK
  <2>4. listed' \in BOOLEAN /\ hasLogin' \in BOOLEAN /\ started' \in BOOLEAN
    BY <1>2, Zenon
    DEF UserStep, StartServer, AddServer, AddServerEnd, ChangeServerInfo,
        Disconnect, Delete, ConnectAgain, UseClient, SendFile, SendFails, SendFailsEnd,
        AccountTypeOK
  <2>5. harm' \in BOOLEAN
    BY <1>2, Zenon
    DEF UserStep, StartServer, AddServer, AddServerEnd, ChangeServerInfo,
        Disconnect, Delete, ConnectAgain, UseClient, SendFile, SendFails, SendFailsEnd,
        AccountTypeOK
  <2>6. twice' \in BOOLEAN
    BY <1>2, Zenon
    DEF UserStep, StartServer, AddServer, AddServerEnd, ChangeServerInfo,
        Disconnect, Delete, ConnectAgain, UseClient, SendFile, SendFails, SendFailsEnd,
        Connect, AccountTypeOK
  <2>7. broken' \in BOOLEAN
    BY <1>2, Zenon
    DEF UserStep, StartServer, AddServer, AddServerEnd, ChangeServerInfo,
        Disconnect, Delete, ConnectAgain, UseClient, SendFile, SendFails, SendFailsEnd,
        AccountTypeOK
  <2> QED
    BY <2>1, <2>2, <2>3, <2>4, <2>5, <2>6, <2>7, Zenon DEF AccountTypeOK
<1>3. ASSUME NEW t \in Threads, ThreadStep(t)
      PROVE  AccountTypeOK'
  <2>1. step' \in [Threads -> {"none", "new", "made", "connecting", "dropping", "dropped",
                               "greeting", "greeted", "session", "leaving", "over"}]
    BY <1>3 DEF ThreadStep, MakeClient, CallConnect, PresenceFails, OnConnect,
                StartFileTransfer,
                OnConnectEnd, OnDisconnect, OnDisconnectEnd, Leave, ReceiveFails,
                UseDeleted, AccountTypeOK
  <2>2. link' \in [Threads -> {"none", "connecting", "up", "cut"}]
    BY <1>3 DEF ThreadStep, MakeClient, CallConnect, PresenceFails, OnConnect,
                StartFileTransfer,
                OnConnectEnd, OnDisconnect, OnDisconnectEnd, Leave, ReceiveFails,
                UseDeleted, AccountTypeOK
  <2>3. /\ state' \in {"server_disconnect", "server_connected"}
        /\ c' \in Pointer /\ alive' \subseteq Threads /\ (c' = NoClient \/ c' \in alive')
        /\ runs' \in [Threads -> Pointer] /\ ft' \in Pointer
        /\ UNCHANGED <<listed, ui, started, changes, twice>>
    BY <1>3 DEF ThreadStep, MakeClient, CallConnect, PresenceFails, OnConnect,
                StartFileTransfer,
                OnConnectEnd, OnDisconnect, OnDisconnectEnd, Leave, ReceiveFails,
                UseDeleted,
                SetServerState, AccountTypeOK
  <2>4. hasLogin' \in BOOLEAN
    BY <1>3, Zenon
    DEF ThreadStep, MakeClient, CallConnect, PresenceFails, OnConnect, StartFileTransfer,
        OnConnectEnd, OnDisconnect, OnDisconnectEnd, Leave, ReceiveFails, UseDeleted,
        AccountTypeOK
  <2>5. harm' \in BOOLEAN
    BY <1>3, Zenon
    DEF ThreadStep, MakeClient, CallConnect, PresenceFails, OnConnect, StartFileTransfer,
        OnConnectEnd, OnDisconnect, OnDisconnectEnd, Leave, ReceiveFails, UseDeleted,
        AccountTypeOK
  <2>6. broken' \in BOOLEAN
    BY <1>3, Zenon
    DEF ThreadStep, MakeClient, CallConnect, PresenceFails, OnConnect, StartFileTransfer,
        OnConnectEnd, OnDisconnect, OnDisconnectEnd, Leave, ReceiveFails, UseDeleted,
        AccountTypeOK
  <2> QED
    BY <2>1, <2>2, <2>3, <2>4, <2>5, <2>6, Zenon DEF AccountTypeOK
<1> QED
  BY <1>1, <1>2, <1>3 DEF AccountNext

\* A client is made once, so that a thread never gets back one that was
\* deleted.
LEMMA ClientsStep ==
  ASSUME AccountInv, [AccountNext]_accountVars
  PROVE  MadeOnce' /\ Placed' /\ (Clean' => Clean)
<1> USE AccountAssumption
    DEF AccountInv, AccountTypeOK, Pointer, MadeOnce, Placed, Clean, Orphaned, InClient
<1>1. CASE UNCHANGED accountVars
  BY <1>1 DEF accountVars
<1>2. ASSUME UserStep
      PROVE  /\ alive' \subseteq alive /\ runs' = runs
             /\ \A t \in Threads : link'[t] = link[t] \/ t \in alive
             /\ \A t \in Threads : \/ step'[t] = step[t]
                                   \/ step[t] = "none" /\ step'[t] = "new"
             /\ (twice => twice')
  BY <1>2 DEF UserStep, StartServer, AddServer, AddServerEnd, ChangeServerInfo,
              Disconnect, Delete, ConnectAgain, UseClient, SendFile, SendFails,
              SendFailsEnd, Connect
<1>3. CASE UserStep
  <2>1. MadeOnce'
    BY <1>2, <1>3
  <2>2. Placed'
    BY <1>3 DEF UserStep, StartServer, AddServer, AddServerEnd, ChangeServerInfo,
                Disconnect, Delete, ConnectAgain, UseClient, SendFile, SendFails,
                SendFailsEnd, Connect
  <2>3. Clean' => Clean
    BY <1>2, <1>3
  <2> QED
    BY <2>1, <2>2, <2>3
<1>4. ASSUME NEW t \in Threads, ThreadStep(t)
      PROVE  MadeOnce' /\ Placed' /\ (Clean' => Clean)
  <2>1. CASE MakeClient(t)
    BY <2>1 DEF MakeClient
  <2>2. CASE CallConnect(t)
    <3>1. MadeOnce'
      BY <2>2 DEF CallConnect
    <3>2. Placed'
      BY <2>2 DEF CallConnect
    <3>3. Clean' => Clean
      BY <2>2 DEF CallConnect
    <3> QED
      BY <3>1, <3>2, <3>3
  <2>3. CASE \/ PresenceFails(t) \/ OnConnect(t) \/ StartFileTransfer(t)
             \/ OnConnectEnd(t) \/ OnDisconnect(t) \/ OnDisconnectEnd(t)
             \/ Leave(t) \/ ReceiveFails(t) \/ UseDeleted(t)
    <3>1. /\ UNCHANGED <<listed, ui, alive, runs, twice>>
          /\ \A u \in Threads : link'[u] = link[u] \/ u \in alive
          /\ \A u \in Threads :
                \/ step'[u] = step[u]
                \/ InClient(u) /\ runs[u] \in alive /\ InClient(u)'
                \/ InClient(u) /\ runs[u] \in alive /\ step'[u] = "over"
      BY <2>3 DEF PresenceFails, OnConnect, StartFileTransfer, OnConnectEnd, OnDisconnect,
                  OnDisconnectEnd, Leave, ReceiveFails, UseDeleted
    <3> QED
      BY <3>1
  <2> QED
    BY <1>4, <2>1, <2>2, <2>3 DEF ThreadStep
<1> QED
  BY <1>1, <1>3, <1>4 DEF AccountNext

\* The thread at work, in each of its steps and in those of the user.
LEMMA SoleStep ==
  ASSUME AccountInv, [AccountNext]_accountVars, Clean'
  PROVE  Sole' /\ (~broken' => Whole')
<1> DEFINE Good == Sole' /\ (~broken' => Whole')
<1> SUFFICES Good
  OBVIOUS
<1> HIDE DEF Good
<1> USE AccountAssumption DEF AccountInv, AccountTypeOK, Pointer
<1>1. Clean /\ Sole /\ (~broken => Whole)
  BY ClientsStep
<1>2. \A t \in Threads : InClient(t) => runs[t] \in alive
  BY <1>1 DEF Clean, Orphaned
<1>3. CASE UNCHANGED accountVars
  BY <1>1, <1>3 DEF accountVars, Good, Sole, Whole, Busy, InClient, LoggingIn
<1>4. CASE StartServer \/ AddServer \/ ConnectAgain
  <2>1. /\ UNCHANGED <<state, hasLogin, c, alive, link, runs, broken>>
        /\ ui # "failing" /\ ui' # "failing"
    BY <1>4 DEF StartServer, AddServer, ConnectAgain
  <2>2. CASE step' = step
    BY <1>1, <2>1, <2>2 DEF Good, Sole, Whole, Busy, InClient, LoggingIn
  <2>3. CASE step' # step
    <3>1. PICK t \in Threads : step[t] = "none" /\ step' = [step EXCEPT ![t] = "new"]
      BY <1>4, <2>3 DEF StartServer, AddServer, ConnectAgain, Connect
    <3>2. (\A u \in Threads : ~Working(u)) /\ state = "server_disconnect"
      BY <1>4, <2>3 DEF StartServer, AddServer, ConnectAgain, Connect, Clean
    <3>3. \A u \in Threads : ~Busy(u)
      BY <1>1, <3>2 DEF Working, Clean, Busy
    <3>4. Sole'
      BY <1>1, <2>1, <3>1, <3>3 DEF Sole, Busy, InClient
    <3>5. ~broken' => Whole'
      BY <1>1, <2>1, <3>1, <3>2, <3>3 DEF Whole, Busy, InClient, LoggingIn
    <3> QED
      BY <3>4, <3>5 DEF Good
  <2> QED
    BY <2>2, <2>3
<1>5. CASE AddServerEnd \/ ChangeServerInfo
  BY <1>1, <1>5 DEF AddServerEnd, ChangeServerInfo, Good, Sole, Whole, Busy, InClient,
                    LoggingIn
<1>6. ASSUME NEW k \in alive, SendFails(k), listed, ui = "free",
             UNCHANGED <<hasLogin, c, alive, step, runs>>
      PROVE  Good
  <2>1. /\ link' = [link EXCEPT ![k] = "cut"] /\ state' = "server_disconnect"
        /\ ui' = "failing"
        /\ link[k] \in {"connecting", "up"}
    BY <1>6 DEF SendFails, SetServerState
  <2>2. PICK t \in Threads : step[t] \in {"connecting", "greeting", "greeted", "session"}
    BY <1>1, <2>1 DEF Sole
  <2>3. k = c /\ Busy(t) /\ InClient(t) /\ runs[t] = c
    BY <1>1, <2>1, <2>2 DEF Sole, Busy, InClient
  <2>4. link'[c] = "cut"
    BY <2>1, <2>3
  <2>5. \A u \in Threads : Busy(u) => u = t
    BY <1>1, <2>3 DEF Sole
  <2>6. Sole'
    BY <1>1, <1>6, <2>1, <2>3, <2>4, <2>5 DEF Sole, Busy, InClient
  <2>7. LoggingIn(t) => broken'
    BY <1>6, <2>3 DEF SendFails
  <2>8. broken => broken'
    BY <1>6 DEF SendFails
  <2>9. ~broken' => Whole'
    BY <1>1, <1>6, <2>1, <2>2, <2>5, <2>7, <2>8 DEF Whole, Busy, InClient, LoggingIn
  <2> QED
    BY <2>6, <2>9 DEF Good
<1>7. CASE UseClient
  <2>1. CASE SendFails(c)
    <3>1. c \in alive
      BY <2>1 DEF SendFails
    <3>2. /\ listed /\ ui = "free"
          /\ UNCHANGED <<hasLogin, c, alive, step, runs>>
      BY <1>7 DEF UseClient
    <3> QED
      BY <1>6, <2>1, <3>1, <3>2, Zenon
  <2>2. CASE UNCHANGED <<ui, state, link, broken>>
    BY <1>1, <1>7, <2>2 DEF UseClient, Good, Sole, Whole, Busy, InClient, LoggingIn
  <2> QED
    BY <1>7, <2>1, <2>2 DEF UseClient
<1>8. CASE SendFile
  <2>1. CASE ft \in alive /\ SendFails(ft)
    <3>1. /\ listed /\ ui = "free"
          /\ UNCHANGED <<hasLogin, c, alive, step, runs>>
      BY <1>8 DEF SendFile
    <3> QED
      BY <1>6, <2>1, <3>1, Zenon
  <2>2. CASE UNCHANGED <<ui, state, link, broken>>
    BY <1>1, <1>8, <2>2 DEF SendFile, Good, Sole, Whole, Busy, InClient, LoggingIn
  <2> QED
    BY <1>8, <2>1, <2>2 DEF SendFile
<1>9. CASE SendFailsEnd
  <2>1. ui = "failing" /\ ui' = "free" /\ hasLogin' = FALSE
        /\ UNCHANGED <<state, c, alive, link, step, runs, broken>>
    BY <1>9 DEF SendFailsEnd
  <2>2. \A t \in Threads : Busy(t) => link[c] = "cut"
    BY <1>1, <2>1 DEF Sole
  <2>3. Sole'
    BY <1>1, <2>1, <2>2 DEF Sole, Busy, InClient
  <2>4. ~broken' => Whole'
    BY <1>1, <2>1, <2>2 DEF Whole, Busy, InClient, LoggingIn
  <2> QED
    BY <2>3, <2>4 DEF Good
<1>10. CASE Disconnect
  <2>1. /\ UNCHANGED <<listed, c, alive, step, runs, broken>>
        /\ listed /\ ui = "closing" /\ ui' = "deleting"
    BY <1>10 DEF Disconnect, Placed
  <2>2. CASE hasLogin /\ c = NoClient
    <3>1. UNCHANGED <<state, link, hasLogin>>
      BY <1>10, <2>2 DEF Disconnect
    <3> QED
      BY <1>1, <2>1, <3>1 DEF Good, Sole, Whole, Busy, InClient, LoggingIn
  <2>3. CASE c # NoClient /\ hasLogin /\ link[c] \in {"connecting", "up"}
    <3>1. /\ link' = [link EXCEPT ![c] = "cut"] /\ state' = "server_disconnect"
          /\ hasLogin' = FALSE
      BY <1>10, <2>1, <2>3 DEF Disconnect, SetServerState
    <3>2. link'[c] = "cut" /\ \A k \in alive : k # c => link'[k] = link[k]
      BY <2>3, <3>1
    <3>3. Sole'
      BY <1>1, <2>1, <2>3, <3>1, <3>2 DEF Sole, Busy, InClient
    <3>4. ~broken => \A t \in Threads : ~LoggingIn(t)
      <4> SUFFICES ASSUME ~broken, NEW t \in Threads, LoggingIn(t)
                   PROVE  FALSE
        OBVIOUS
      <4>1. PICK u \in Threads : step[u] \in {"session", "leaving"}
        BY <1>1, <2>1, <2>3 DEF Whole
      <4> QED
        BY <1>1, <4>1 DEF Sole, Busy, LoggingIn, InClient
    <3>5. ~broken' => Whole'
      BY <1>1, <2>1, <3>1, <3>4 DEF Whole, InClient, LoggingIn
    <3> QED
      BY <3>3, <3>5 DEF Good
  <2>4. CASE ~(hasLogin /\ c = NoClient) /\ ~(hasLogin /\ link[c] \in {"connecting", "up"})
    <3>1. UNCHANGED <<state, link>> /\ hasLogin' = FALSE
      BY <1>10, <2>4 DEF Disconnect
    <3>2. \A t \in Threads : step[t] = "session" => link[c] # "up"
      BY <1>1, <2>4 DEF Sole
    <3> QED
      BY <1>1, <2>1, <3>1, <3>2 DEF Good, Sole, Whole, Busy, InClient, LoggingIn
  <2> QED
    BY <2>2, <2>3, <2>4
<1>11. CASE Delete
  <2>1. /\ alive' = alive \ {c} /\ c' = NoClient
        /\ ui # "failing" /\ ui' # "failing"
        /\ UNCHANGED <<state, hasLogin, link, step, runs, broken>>
    BY <1>11 DEF Delete
  <2>2. \A t \in Threads : ~InClient(t)
    BY <1>1, <2>1 DEF Sole, Clean, Orphaned, InClient
  <2>3. Sole'
    BY <1>1, <2>1, <2>2 DEF Sole, Busy, InClient
  <2>4. ~broken' => Whole'
    BY <1>1, <2>1, <2>2 DEF Whole, InClient, LoggingIn
  <2> QED
    BY <2>3, <2>4 DEF Good
<1>12. ASSUME NEW t \in Threads, MakeClient(t)
       PROVE  Good
  <2>1. /\ step[t] = "new" /\ c' = t /\ alive' = alive \union {t}
        /\ step' = [step EXCEPT ![t] = "made"]
        /\ UNCHANGED <<ui, state, hasLogin, link, runs, broken>>
    BY <1>12 DEF MakeClient
  <2>2. /\ link[t] = "none"
        /\ \A u \in Threads : Busy(u) => u = t
        /\ \A u \in Threads : ~InClient(u)
        /\ ui # "failing"
    BY <1>1, <2>1 DEF MadeOnce, Sole, Busy, InClient
  <2>3. Sole'
    BY <1>1, <2>1, <2>2 DEF Sole, Busy, InClient
  <2>4. ~broken' => Whole'
    BY <1>1, <2>1, <2>2 DEF Whole, InClient, LoggingIn
  <2> QED
    BY <2>3, <2>4 DEF Good
<1>13. ASSUME NEW t \in Threads, CallConnect(t)
       PROVE  Good
  <2>1. /\ step[t] = "made" /\ link[t] = "none" /\ c \in {t, NoClient}
        /\ \A u \in Threads : Busy(u) => u = t
        /\ \A u \in Threads : ~InClient(u)
        /\ ui # "failing"
    BY <1>1, <1>13 DEF CallConnect, Sole, Busy, InClient
  <2>2. UNCHANGED <<ui, state, hasLogin, c, alive, broken>>
    BY <1>13 DEF CallConnect
  <2>3. CASE c = NoClient
    <3>1. UNCHANGED <<link, step, runs>>
      BY <1>13, <2>3 DEF CallConnect
    <3> QED
      BY <1>1, <2>2, <3>1 DEF Good, Sole, Whole, Busy, InClient, LoggingIn
  <2>4. CASE c # NoClient
    <3>1. /\ c = t
          /\ step' = [step EXCEPT ![t] = "connecting"]
          /\ link' = [link EXCEPT ![t] = "connecting"]
          /\ runs' = [runs EXCEPT ![t] = t]
      BY <1>13, <2>1, <2>4 DEF CallConnect
    <3>2. Sole'
      BY <1>1, <2>1, <2>2, <3>1 DEF Sole, Busy, InClient
    <3>3. ~broken' => Whole'
      BY <1>1, <2>1, <2>2, <3>1 DEF Whole, InClient, LoggingIn
    <3> QED
      BY <3>2, <3>3 DEF Good
  <2> QED
    BY <2>3, <2>4
<1>14. ASSUME NEW t \in Threads,
              \/ PresenceFails(t) \/ OnConnect(t) \/ StartFileTransfer(t)
              \/ OnConnectEnd(t) \/ OnDisconnect(t) \/ OnDisconnectEnd(t)
              \/ Leave(t) \/ ReceiveFails(t)
       PROVE  Good
  <2>1. /\ InClient(t) /\ Busy(t) /\ runs[t] = c /\ c \in alive /\ c \in Threads
        /\ listed \/ ui = "adding"
        /\ \A u \in Threads : Busy(u) => u = t
    BY <1>1, <1>14
    DEF PresenceFails, OnConnect, StartFileTransfer, OnConnectEnd, OnDisconnect,
        OnDisconnectEnd, Leave, ReceiveFails, Placed, Sole, Busy, InClient
  <2>2. CASE PresenceFails(t)
    <3>1. /\ step[t] = "connecting" /\ link[c] = "connecting" /\ broken'
          /\ link' = [link EXCEPT ![c] = "cut"]
          /\ step' = [step EXCEPT ![t] = "dropping"]
          /\ UNCHANGED <<ui, hasLogin, c, alive, runs>>
      BY <2>1, <2>2 DEF PresenceFails
    <3> QED
      BY <1>1, <2>1, <3>1 DEF Good, Sole, Busy, InClient
  <2>3. CASE OnConnect(t)
    <3>1. /\ step[t] \in {"connecting", "dropped"} /\ state' = "server_connected"
          /\ link' = [link EXCEPT ![c] = IF @ = "connecting" THEN "up" ELSE @]
          /\ step' = [step EXCEPT ![t] = "greeting"]
          /\ UNCHANGED <<ui, hasLogin, c, alive, runs, broken>>
      BY <2>1, <2>3 DEF OnConnect, SetServerState
    <3>2. link[c] = "cut" \/ (link[c] = "connecting" /\ link'[c] = "up")
      BY <1>1, <2>1, <3>1 DEF Sole
    <3>3. link[c] = "cut" => broken /\ link'[c] = "cut"
      BY <1>1, <2>1, <3>1 DEF Whole, LoggingIn, InClient
    <3>4. Sole'
      BY <1>1, <2>1, <3>1, <3>2, <3>3 DEF Sole, Busy, InClient
    <3>5. ~broken' => Whole'
      BY <1>1, <2>1, <3>1, <3>2, <3>3 DEF Whole, Busy, InClient, LoggingIn
    <3> QED
      BY <3>4, <3>5 DEF Good
  <2>4. CASE StartFileTransfer(t)
    <3>1. /\ step[t] = "greeting" /\ step' = [step EXCEPT ![t] = "greeted"]
          /\ UNCHANGED <<ui, state, hasLogin, c, alive, link, runs, broken>>
      BY <2>4 DEF StartFileTransfer
    <3>2. Sole'
      BY <1>1, <2>1, <3>1 DEF Sole, Busy, InClient
    <3>3. ~broken' => Whole'
      BY <1>1, <2>1, <3>1 DEF Whole, Busy, InClient, LoggingIn
    <3> QED
      BY <3>2, <3>3 DEF Good
  <2>5. CASE OnConnectEnd(t)
    <3>1. /\ step[t] = "greeted" /\ step' = [step EXCEPT ![t] = "session"] /\ hasLogin'
          /\ broken' = (broken /\ link[c] # "up")
          /\ UNCHANGED <<ui, state, c, alive, link, runs>>
      BY <2>1, <2>5 DEF OnConnectEnd
    <3>2. Sole'
      BY <1>1, <2>1, <3>1 DEF Sole, Busy, InClient
    <3>3. ~broken' => link[c] = "up"
      BY <1>1, <2>1, <3>1 DEF Sole, Whole, LoggingIn
    <3>4. ~broken' => Whole'
      BY <1>1, <2>1, <3>1, <3>3 DEF Whole, Busy, InClient, LoggingIn
    <3> QED
      BY <3>2, <3>4 DEF Good
  <2>6. CASE OnDisconnect(t)
    <3>1. /\ step[t] \in {"connecting", "session"} /\ state' = "server_disconnect"
          /\ link' = [link EXCEPT ![c] = "cut"]
          /\ step' = [step EXCEPT ![t] = "leaving"]
          /\ UNCHANGED <<ui, hasLogin, c, alive, runs, broken>>
      BY <2>1, <2>6 DEF OnDisconnect, SetServerState
    <3>2. Sole'
      BY <1>1, <2>1, <3>1 DEF Sole, Busy, InClient
    <3>3. ~broken' => Whole'
      BY <1>1, <2>1, <3>1 DEF Whole, Busy, InClient, LoggingIn
    <3> QED
      BY <3>2, <3>3 DEF Good
  <2>7. CASE OnDisconnectEnd(t)
    <3>1. /\ hasLogin' = FALSE
          /\ \/ step[t] = "leaving" /\ step' = [step EXCEPT ![t] = "over"]
             \/ step[t] = "dropping" /\ step' = [step EXCEPT ![t] = "dropped"]
          /\ UNCHANGED <<ui, state, c, alive, link, runs, broken>>
      BY <2>7 DEF OnDisconnectEnd
    <3>2. link[c] = "cut"
      BY <1>1, <2>1, <3>1 DEF Sole
    <3>3. Sole'
      BY <1>1, <2>1, <3>1, <3>2 DEF Sole, Busy, InClient
    <3>4. ~broken' => Whole'
      BY <1>1, <2>1, <3>1, <3>2 DEF Whole, Busy, InClient, LoggingIn
    <3> QED
      BY <3>3, <3>4 DEF Good
  <2>8. CASE Leave(t)
    <3>1. /\ step[t] \in {"connecting", "session"} /\ link[c] = "cut"
          /\ step' = [step EXCEPT ![t] = "over"]
          /\ UNCHANGED <<ui, state, hasLogin, c, alive, link, runs, broken>>
      BY <2>1, <2>8 DEF Leave
    <3>2. Sole'
      BY <1>1, <2>1, <3>1 DEF Sole, Busy, InClient
    <3>3. ~broken' => Whole'
      BY <1>1, <2>1, <3>1 DEF Whole, Busy, InClient, LoggingIn
    <3> QED
      BY <3>2, <3>3 DEF Good
  <2>9. CASE ReceiveFails(t)
    <3>1. /\ step[t] \in {"connecting", "session"} /\ link[c] = "cut"
          /\ step' = [step EXCEPT ![t] = "leaving"] /\ state' = "server_disconnect"
          /\ UNCHANGED <<ui, hasLogin, c, alive, link, runs, broken>>
      BY <2>1, <2>9 DEF ReceiveFails, SetServerState
    <3>2. Sole'
      BY <1>1, <2>1, <3>1 DEF Sole, Busy, InClient
    <3>3. ~broken' => Whole'
      BY <1>1, <2>1, <3>1 DEF Whole, Busy, InClient, LoggingIn
    <3> QED
      BY <3>2, <3>3 DEF Good
  <2> QED
    BY <1>14, <2>2, <2>3, <2>4, <2>5, <2>6, <2>7, <2>8, <2>9
<1>15. ASSUME NEW t \in Threads, UseDeleted(t)
       PROVE  Good
  BY <1>1, <1>15 DEF UseDeleted, Clean
<1>16. CASE UserStep
  BY <1>4, <1>5, <1>7, <1>8, <1>9, <1>10, <1>11, <1>16, Zenon DEF UserStep
<1>17. ASSUME NEW t \in Threads, ThreadStep(t)
       PROVE  Good
  BY <1>12, <1>13, <1>14, <1>15, <1>17, Zenon DEF ThreadStep
<1> QED
  BY <1>3, <1>16, <1>17, Zenon DEF AccountNext

-----------------------------------------------------------------------------
(* Accounts: the theorems *)

LEMMA AccountInitInv == AccountInit => AccountInv
<1> SUFFICES ASSUME AccountInit
             PROVE  AccountInv
  OBVIOUS
<1> USE AccountAssumption DEF AccountInit, Pointer
<1>1. AccountTypeOK
  <2>1. /\ listed \in BOOLEAN /\ hasLogin \in BOOLEAN /\ started \in BOOLEAN
        /\ harm \in BOOLEAN /\ twice \in BOOLEAN /\ broken \in BOOLEAN
    BY Zenon
  <2>2. /\ link \in [Threads -> {"none", "connecting", "up", "cut"}]
        /\ step \in [Threads -> {"none", "new", "made", "connecting", "dropping",
                                 "dropped", "greeting", "greeted", "session", "leaving",
                                 "over"}]
        /\ runs \in [Threads -> Pointer]
    OBVIOUS
  <2>3. /\ ui = "free" /\ state = "server_disconnect" /\ changes \in 0 .. MaxChanges
        /\ alive = {} /\ c = NoClient /\ ft = NoClient
    OBVIOUS
  <2> QED
    BY <2>1, <2>2, <2>3 DEF AccountTypeOK
<1>2. MadeOnce /\ Placed
  BY DEF MadeOnce, Placed, InClient
<1>3. Sole /\ Whole
  BY DEF Sole, Whole, Busy, InClient, LoggingIn
<1> QED
  BY <1>1, <1>2, <1>3 DEF AccountInv

LEMMA AccountInvariant == AccountSpec => []AccountInv
<1>1. AccountInv /\ [AccountNext]_accountVars => AccountInv'
  BY AccountTypes, ClientsStep, SoleStep DEF AccountInv
<1> QED
  BY <1>1, AccountInitInv, PTL DEF AccountSpec

\* The account, its threads and its clients keep their types, and the pointer
\* of XmppClientInner is NULL or a client that was not deleted.
THEOREM AccountTypeCorrect == AccountSpec => []AccountTypeOK
<1>1. AccountInv => AccountTypeOK
  BY DEF AccountInv
<1> QED
  BY <1>1, AccountInvariant, PTL

\* For any number of threads and changes, a session that is up is shown, and
\* Close would end it, and without a send that failed before onConnect was
\* done nothing else is shown - unless two threads were at work or one runs on
\* a deleted client.
THEOREM ShownIsRealHolds == AccountSpec => []ShownIsReal
<1>1. AccountInv => ShownIsReal
  <2> SUFFICES ASSUME AccountInv, Settled, ~twice
               PROVE  /\ \A t \in Threads : InSession(t) =>
                             state = "server_connected" /\ hasLogin /\ runs[t] = c
                      /\ ~broken =>
                             /\ state = "server_connected" =>
                                    \E t \in Threads : InSession(t)
                             /\ hasLogin => state = "server_connected"
    BY DEF ShownIsReal
  <2>1. Sole /\ (~broken => Whole)
    BY DEF AccountInv, Settled, Clean
  <2>2. \A t \in Threads : step[t] = "session" => runs[t] = c
    BY <2>1 DEF Sole, InClient
  <2>3. ASSUME NEW t \in Threads, InSession(t)
        PROVE  state = "server_connected" /\ hasLogin /\ runs[t] = c
    BY <2>1, <2>2, <2>3 DEF Sole, InSession
  <2>4. ASSUME ~broken, state = "server_connected"
        PROVE  \E t \in Threads : InSession(t)
    BY <2>1, <2>2, <2>4 DEF Whole, Settled, InSession
  <2>5. ASSUME ~broken, hasLogin
        PROVE  state = "server_connected"
    BY <2>1, <2>5 DEF Sole, Whole, Settled
  <2> QED
    BY <2>3, <2>4, <2>5
<1> QED
  BY <1>1, AccountInvariant, PTL

\* For any number of threads and changes, ServerInfo::Connect after a change
\* leaves no account without a thread, unless a send failed before onConnect
\* was done or two threads were at work.
THEOREM ChangeIsTriedHolds == AccountSpec => ChangeIsTried
<1> DEFINE Tried == ConnectAgain =>
                        \/ (broken \/ twice) /\ state = "server_connected"
                        \/ \E t \in Threads : step'[t] \notin {"none", "over"}
<1>1. AccountInv /\ [AccountNext]_accountVars => [Tried]_accountVars
  <2> SUFFICES ASSUME AccountInv, ConnectAgain,
                      ~((broken \/ twice) /\ state = "server_connected")
               PROVE  \E t \in Threads : step'[t] \notin {"none", "over"}
    OBVIOUS
  <2>1. CASE state = "server_disconnect"
    BY <2>1 DEF AccountInv, AccountTypeOK, ConnectAgain, Connect
  <2>2. CASE state # "server_disconnect"
    <3>1. step' = step /\ state = "server_connected" /\ ~broken /\ ~twice
      BY <2>2 DEF AccountInv, AccountTypeOK, ConnectAgain, Connect
    <3>2. CASE \E t \in Threads : Orphaned(t)
      BY <3>1, <3>2 DEF Orphaned, InClient
    <3>3. CASE \A t \in Threads : ~Orphaned(t)
      BY <3>1, <3>3 DEF AccountInv, Clean, Whole
    <3> QED
      BY <3>2, <3>3
  <2> QED
    BY <2>1, <2>2
<1> QED
  BY <1>1, AccountInvariant, PTL DEF AccountSpec, ChangeIsTried

-----------------------------------------------------------------------------
(* Listening sockets: the invariant *)

\* The attempts that Listen has not come to, or has not finished.
Ahead(a) ==
    /\ stage.step # "done"
    /\ \/ /\ a[1] = stage.family
          /\ a[2] > stage.try \/ (a[2] = stage.try /\ stage.step # "judge")
       \/ stage.family = "v4" /\ a[1] = "v6"

\* A family that has its port is behind Listen, and an attempt ahead has no
\* thread.
Order ==
    /\ \A a \in Attempts : Ahead(a) => threads[a].step = "none"
    /\ \A f \in Families : won[f] # 0 /\ stage.step # "done" =>
           f = "v4" /\ stage.family = "v6"

NoHalf == \A a \in Attempts : ~HalfBuilt(a)

IsOpen(n, kind, f, try) == n \in Numbers /\ socks[n] = <<kind, f, try>>

\* The thread of the UDP listener taken for f has closed it.
Ended(f) == threads[<<f, won[f]>>].step = "over"

\* The uses of the listeners that were taken and are left.
Kept(f) == IF won[f] = 0 THEN 0 ELSE IF Ended(f) THEN 1 ELSE 2
Base == Kept("v4") + Kept("v6")

\* The uses of those that were built for the port Listen is at.
TcpUse == IF stage.step \in {"udp", "judge"} /\ Tcp # NoSocket THEN 1 ELSE 0
UdpUse == IF stage.step = "judge" /\ threads[Attempt].step \notin {"none", "over"} THEN 1 ELSE 0

\* The listeners of a port that was taken are open, and so are those that were
\* built for the port Listen is at, unless their own thread has ended.
TakenOpen ==
    \A f \in Families, k \in Kinds :
        won[f] # 0 => \/ IsOpen(member[<<k, f>>], k, f, won[f])
                      \/ k = "udp" /\ Ended(f)

PendingOpen ==
    /\ stage.step \in {"udp", "judge"} /\ Tcp # NoSocket =>
           IsOpen(Tcp, "tcp", stage.family, stage.try)
    /\ stage.step = "judge" /\ Udp # NoSocket =>
           /\ threads[Attempt].step # "none"
           /\ \/ IsOpen(Udp, "udp", stage.family, stage.try)
              \/ threads[Attempt].step = "over"

\* A thread that has not closed its socket has it open.
ThreadsOpen ==
    \A a \in Attempts : threads[a].step \notin {"none", "over"} =>
        IsOpen(threads[a].number, "udp", a[1], a[2])

\* Winsock has counted each of those listeners.
UsesKept == uses >= Base + TcpUse + UdpUse

Opened == TakenOpen /\ PendingOpen /\ ThreadsOpen /\ UsesKept

ListenersInv ==
    /\ ListenersTypeOK
    /\ Order
    /\ NoHalf => Opened

-----------------------------------------------------------------------------
(* Listening sockets: types and order *)

LEMMA StageFacts ==
  ASSUME ListenersTypeOK, stage.step # "done"
  PROVE  /\ stage.family \in Families /\ stage.try \in 1 .. Tries
         /\ stage.step \in {"tcp", "udp", "judge"}
         /\ stage \in [family: Families, try: 1 .. Tries, step: {"tcp", "udp", "judge"}]
         /\ Attempt \in Attempts
         /\ Tries \in Nat
<1>1. stage \in [family: Families, try: 1 .. Tries, step: {"tcp", "udp", "judge"}]
  BY DEF ListenersTypeOK, Done
<1> QED
  BY <1>1, ListenAssumption DEF Attempt, Attempts

\* Where Listen goes on after it has judged a port.
LEMMA NextStage ==
  ASSUME ListenersTypeOK, stage.step = "judge",
         stage' = NextTry \/ stage' = NextFamily
  PROVE  /\ stage' \in [family: Families, try: 1 .. Tries, step: {"tcp", "udp", "judge"}]
                          \union {Done}
         /\ stage'.step \in {"tcp", "done"}
         /\ \/ stage'.step = "done" /\ stage.family = "v6"
            \/ stage'.step = "tcp" /\ stage'.family = "v6" /\ stage.family = "v4"
            \/ /\ stage' = NextTry
               /\ stage'.step = "tcp" /\ stage'.family = stage.family
               /\ stage'.try = stage.try + 1
<1> USE ListenAssumption
<1>1. /\ stage \in [family: Families, try: 1 .. Tries, step: {"tcp", "udp", "judge"}]
      /\ stage.family \in {"v4", "v6"} /\ stage.try \in 1 .. Tries
  BY StageFacts DEF Families
<1>2. CASE stage' = NextFamily
  <2>1. CASE stage.family = "v4"
    <3>1. stage' = [family |-> "v6", try |-> 1, step |-> "tcp"]
      BY <1>2, <2>1 DEF NextFamily
    <3> QED
      BY <2>1, <3>1 DEF Families
  <2>2. CASE stage.family = "v6"
    <3>1. stage' = Done
      BY <1>2, <2>2 DEF NextFamily
    <3> QED
      BY <2>2, <3>1 DEF Done
  <2> QED
    BY <1>1, <2>1, <2>2
<1>3. CASE stage' = NextTry /\ stage.try < Tries
  <2>1. stage' = [stage EXCEPT !.try = @ + 1, !.step = "tcp"]
    BY <1>3 DEF NextTry
  <2>2. stage.try + 1 \in 1 .. Tries
    BY <1>1, <1>3
  <2> QED
    BY <1>1, <1>3, <2>1, <2>2
<1>4. CASE stage' = NextTry /\ ~(stage.try < Tries)
  BY <1>2, <1>4 DEF NextTry
<1> QED
  BY <1>2, <1>3, <1>4

LEMMA ListenersTypes ==
  ListenersTypeOK /\ [ListenersNext]_listenVars => ListenersTypeOK'
<1> SUFFICES ASSUME ListenersTypeOK, [ListenersNext]_listenVars
             PROVE  ListenersTypeOK'
  OBVIOUS
<1> USE ListenAssumption
<1> DEFINE Stages == [family: Families, try: 1 .. Tries, step: {"tcp", "udp", "judge"}]
           Members == [Kinds \X Families -> Numbers \union {NoSocket}]
           Sockets == [Numbers -> Listener \union {Closed}]
           States == [Attempts -> [number: Numbers \union {NoSocket},
                                   step: {"none", "lookup", "receive", "fail", "over"}]]
<1>0. /\ member \in Members /\ socks \in Sockets /\ threads \in States
      /\ uses \in 0 .. MaxUses /\ MaxUses \in Nat
      /\ hasListen \in BOOLEAN /\ won \in [Families -> 0 .. Tries]
  BY DEF ListenersTypeOK
<1>1. CASE UNCHANGED listenVars
  BY <1>1 DEF listenVars, ListenersTypeOK
<1>2. ASSUME NEW kind \in Kinds, stage.step # "done", Built(kind)
      PROVE  /\ uses' \in 0 .. MaxUses /\ socks' \in Sockets /\ member' \in Members
             /\ member'[<<kind, stage.family>>] \in Numbers
  <2>1. stage.family \in Families /\ stage.try \in 1 .. Tries
    BY <1>2, StageFacts
  <2>2. PICK n \in Numbers :
          /\ socks' = [socks EXCEPT ![n] = <<kind, stage.family, stage.try>>]
          /\ member' = [member EXCEPT ![<<kind, stage.family>>] = n]
    BY <1>2 DEF Built
  <2>3. <<kind, stage.family, stage.try>> \in Listener
    BY <2>1 DEF Listener
  <2>4. socks' \in Sockets
    BY <1>0, <2>2, <2>3
  <2>5. member' \in Members /\ member'[<<kind, stage.family>>] = n
    BY <1>0, <2>1, <2>2
  <2>6. uses' \in 0 .. MaxUses
    BY <1>0, <1>2 DEF Built
  <2> QED
    BY <2>4, <2>5, <2>6
<1>3. ASSUME NEW kind \in Kinds, NotBuilt(kind)
      PROVE  uses' \in 0 .. MaxUses /\ socks' \in Sockets /\ member' \in Members
  <2>1. uses' \in 0 .. MaxUses
    BY <1>0, <1>3 DEF NotBuilt
  <2>2. member' \in Members
    BY <1>0, <1>3 DEF NotBuilt
  <2> QED
    BY <1>0, <1>3, <2>1, <2>2 DEF NotBuilt
<1>4. CASE BuildTcp
  <2>1. stage' \in Stages
    BY <1>4, StageFacts DEF BuildTcp
  <2>2. uses' \in 0 .. MaxUses /\ socks' \in Sockets /\ member' \in Members
    BY <1>2, <1>3, <1>4 DEF BuildTcp, Kinds
  <2> QED
    BY <1>0, <1>4, <2>1, <2>2 DEF BuildTcp, ListenersTypeOK
<1>5. CASE BuildUdp
  <2>1. stage' \in Stages /\ Attempt \in Attempts /\ stage.step # "done"
    BY <1>5, StageFacts DEF BuildUdp
  <2>2. uses' \in 0 .. MaxUses /\ socks' \in Sockets /\ member' \in Members
    BY <1>2, <1>3, <1>5, <2>1 DEF BuildUdp, Kinds
  <2>3. threads' \in States
    <3>1. CASE threads' = threads
      BY <1>0, <3>1
    <3>2. CASE Built("udp") /\ threads' = [threads EXCEPT ![Attempt] =
                             [number |-> member'[<<"udp", stage.family>>],
                              step |-> "lookup"]]
      <4>1. member'[<<"udp", stage.family>>] \in Numbers
        BY <1>2, <2>1, <3>2 DEF Kinds
      <4> QED
        BY <1>0, <2>1, <3>2, <4>1
    <3> QED
      BY <1>5, <3>1, <3>2 DEF BuildUdp
  <2> QED
    BY <1>0, <1>5, <2>1, <2>2, <2>3 DEF BuildUdp, ListenersTypeOK
<1>6. ASSUME NEW S \in Sockets, Cleanup(S)
      PROVE  uses' \in 0 .. MaxUses /\ socks' \in Sockets
  BY <1>0, <1>6 DEF Cleanup
<1>7. \A n : Without(n) \in Sockets
  BY <1>0 DEF Without
<1>8. CASE TakePort
  <2>1. stage' \in Stages \union {Done}
    BY <1>8, NextStage DEF TakePort
  <2>2. won' \in [Families -> 0 .. Tries]
    BY <1>0, <1>8, StageFacts DEF TakePort
  <2> QED
    BY <1>0, <1>8, <2>1, <2>2 DEF TakePort, ListenersTypeOK
<1>9. CASE ReleaseOne \/ NoneBuilt
  <2>1. stage' \in Stages \union {Done}
    BY <1>9, NextStage DEF ReleaseOne, NoneBuilt
  <2>2. uses' \in 0 .. MaxUses /\ socks' \in Sockets
    BY <1>0, <1>6, <1>7, <1>9 DEF ReleaseOne, NoneBuilt
  <2> QED
    BY <1>0, <1>9, <2>1, <2>2 DEF ReleaseOne, NoneBuilt, ListenersTypeOK
<1>10. ASSUME NEW a \in Attempts, UdpThread(a)
       PROVE  ListenersTypeOK'
  <2>1. threads' \in States
    BY <1>0, <1>10 DEF UdpThread, LookUp, Fail, CloseAgain
  <2>2. uses' \in 0 .. MaxUses /\ socks' \in Sockets
    BY <1>0, <1>6, <1>7, <1>10 DEF UdpThread, LookUp, Fail, CloseAgain
  <2> QED
    BY <1>0, <1>10, <2>1, <2>2
    DEF UdpThread, LookUp, Fail, CloseAgain, ListenersTypeOK
<1> QED
  BY <1>1, <1>4, <1>5, <1>8, <1>9, <1>10 DEF ListenersNext, ListenStep

\* A port that is half built stays so.
LEMMA OrderStep ==
  ASSUME ListenersInv, [ListenersNext]_listenVars
  PROVE  Order' /\ (NoHalf' => NoHalf)
<1> USE ListenAssumption DEF ListenersInv
<1>0. threads \in [Attempts -> [number: Numbers \union {NoSocket},
                                step: {"none", "lookup", "receive", "fail", "over"}]]
  BY DEF ListenersTypeOK
<1>1. CASE UNCHANGED listenVars
  BY <1>1 DEF listenVars, Order, NoHalf, HalfBuilt, Ahead, Attempt
<1>2. CASE BuildTcp
  <2>1. /\ stage.step = "tcp" /\ stage'.step = "udp"
        /\ stage'.family = stage.family /\ stage'.try = stage.try
        /\ UNCHANGED <<threads, won>>
    BY <1>2, StageFacts DEF BuildTcp
  <2> QED
    BY <2>1 DEF Order, NoHalf, HalfBuilt, Ahead, Attempt
<1>3. CASE BuildUdp
  <2>1. /\ stage.step = "udp" /\ stage'.step = "judge"
        /\ stage'.family = stage.family /\ stage'.try = stage.try
        /\ won' = won /\ Attempt \in Attempts
    BY <1>3, StageFacts DEF BuildUdp
  <2>2. \A a \in Attempts : a # Attempt => threads'[a] = threads[a]
    BY <1>0, <1>3 DEF BuildUdp
  <2>3. \A a \in Attempts : Ahead(a)' => Ahead(a) /\ a # Attempt
    BY <2>1, StageFacts DEF Ahead, Attempt
  <2>4. Order'
    BY <2>1, <2>2, <2>3 DEF Order
  <2>5. threads[Attempt].step = "none"
    BY <2>1 DEF Order, Ahead, Attempt
  <2>6. \A a \in Attempts : HalfBuilt(a) => HalfBuilt(a)'
    BY <2>1, <2>2, <2>5 DEF HalfBuilt, Attempt
  <2> QED
    BY <2>4, <2>6 DEF NoHalf
<1>4. ASSUME stage.step = "judge", UNCHANGED threads, stage' = NextTry \/ stage' = NextFamily,
             \/ won' = won
             \/ won' = [won EXCEPT ![stage.family] = stage.try] /\ stage' = NextFamily
      PROVE  Order' /\ (NoHalf' => NoHalf)
  <2>1. /\ stage'.step \in {"tcp", "done"}
        /\ \/ stage'.step = "done" /\ stage.family = "v6"
           \/ stage'.step = "tcp" /\ stage'.family = "v6" /\ stage.family = "v4"
           \/ /\ stage' = NextTry
              /\ stage'.step = "tcp" /\ stage'.family = stage.family
              /\ stage'.try = stage.try + 1
    BY <1>4, NextStage
  <2>2. /\ stage.family \in {"v4", "v6"} /\ stage.try \in 1 .. Tries /\ Tries \in Nat
        /\ won \in [Families -> 0 .. Tries]
    BY <1>4, StageFacts DEF ListenersTypeOK, Families
  <2>3. \A a \in Attempts : a[2] \in Nat /\ a[1] \in {"v4", "v6"}
    BY <2>2 DEF Attempts, Families
  <2>4. \A a \in Attempts : Ahead(a)' => Ahead(a)
    BY <1>4, <2>1, <2>2, <2>3 DEF Ahead
  <2>5. Order'
    <3>1. ASSUME NEW f \in Families, won'[f] # 0, stage'.step # "done"
          PROVE  f = "v4" /\ stage'.family = "v6"
      <4>1. CASE won' = won
        BY <1>4, <2>1, <3>1, <4>1 DEF Order
      <4>2. CASE /\ won' = [won EXCEPT ![stage.family] = stage.try]
                 /\ stage' = NextFamily
        <5>1. stage.family = "v4" /\ stage'.family = "v6"
          BY <2>2, <3>1, <4>2 DEF NextFamily, Done
        <5> QED
          BY <1>4, <2>2, <3>1, <4>2, <5>1 DEF Order
      <4> QED
        BY <1>4, <4>1, <4>2
    <3> QED
      BY <1>4, <2>4, <3>1 DEF Order
  <2>6. \A a \in Attempts : HalfBuilt(a) => HalfBuilt(a)'
    <3> SUFFICES ASSUME NEW a \in Attempts, HalfBuilt(a)
                 PROVE  HalfBuilt(a)'
      OBVIOUS
    <3>1. a # Attempt
      BY <1>4 DEF HalfBuilt
    <3>2. ~(a[1] = stage.family /\ a[2] = stage.try)
      BY <3>1 DEF Attempt, Attempts
    <3>3. won'[a[1]] # a[2]
      BY <1>4, <2>2, <2>3, <3>2 DEF HalfBuilt, Families
    <3> QED
      BY <1>4, <2>1, <3>3 DEF HalfBuilt
  <2> QED
    BY <2>5, <2>6 DEF NoHalf
<1>5. CASE TakePort \/ ReleaseOne \/ NoneBuilt
  BY <1>4, <1>5 DEF TakePort, ReleaseOne, NoneBuilt
<1>6. ASSUME NEW a \in Attempts, UdpThread(a)
      PROVE  Order' /\ (NoHalf' => NoHalf)
  <2>1. UNCHANGED <<stage, won>>
    BY <1>6 DEF UdpThread, LookUp, Fail, CloseAgain
  <2>2. \A b \in Attempts : threads'[b].step = "none" <=> threads[b].step = "none"
    BY <1>0, <1>6 DEF UdpThread, LookUp, Fail, CloseAgain
  <2> QED
    BY <2>1, <2>2 DEF Order, NoHalf, HalfBuilt, Ahead, Attempt
<1> QED
  BY <1>1, <1>2, <1>3, <1>5, <1>6 DEF ListenersNext, ListenStep

-----------------------------------------------------------------------------
(* Listening sockets: what is open *)

\* A listener gets a number that stands for nothing, and a use.
LEMMA BuiltOpens ==
  ASSUME ListenersTypeOK, NEW kind \in Kinds, stage.step # "done", Built(kind)
  PROVE  \E m \in Numbers :
            /\ uses' = uses + 1
            /\ member'[<<kind, stage.family>>] = m
            /\ socks'[m] = <<kind, stage.family, stage.try>>
            /\ \A k \in Kinds, f \in Families :
                  <<k, f>> # <<kind, stage.family>> => member'[<<k, f>>] = member[<<k, f>>]
            /\ \A n \in Numbers : socks[n] # Closed => socks'[n] = socks[n]
<1>1. PICK m \in Numbers :
        /\ socks[m] = Closed
        /\ socks' = [socks EXCEPT ![m] = <<kind, stage.family, stage.try>>]
        /\ member' = [member EXCEPT ![<<kind, stage.family>>] = m]
  BY DEF Built
<1>2. /\ member \in [Kinds \X Families -> Numbers \union {NoSocket}]
      /\ socks \in [Numbers -> Listener \union {Closed}]
      /\ stage.family \in Families
  BY StageFacts DEF ListenersTypeOK
<1>3. member'[<<kind, stage.family>>] = m
  BY <1>1, <1>2
<1>4. \A k \in Kinds, f \in Families :
         <<k, f>> # <<kind, stage.family>> => member'[<<k, f>>] = member[<<k, f>>]
  BY <1>1, <1>2
<1>5. /\ socks'[m] = <<kind, stage.family, stage.try>>
      /\ \A n \in Numbers : socks[n] # Closed => socks'[n] = socks[n]
  BY <1>1, <1>2
<1> QED
  BY <1>3, <1>4, <1>5 DEF Built

\* Building changes nothing of the ports that were taken.
LEMMA BuildStep ==
  ASSUME ListenersInv, Opened, BuildTcp \/ BuildUdp
  PROVE  Opened'
<1> USE ListenAssumption DEF ListenersInv
<1> DEFINE kind == IF stage.step = "tcp" THEN "tcp" ELSE "udp"
<1>1. /\ stage.step \in {"tcp", "udp"} /\ stage.step # "done" /\ kind \in Kinds
      /\ stage.family \in Families /\ Attempt \in Attempts
  BY StageFacts DEF BuildTcp, BuildUdp, Kinds
<1>2. /\ stage'.family = stage.family /\ stage'.try = stage.try
      /\ stage.step = "tcp" => stage'.step = "udp"
      /\ stage.step = "udp" => stage'.step = "judge"
      /\ won' = won
  BY StageFacts DEF BuildTcp, BuildUdp
<1>3. /\ member \in [Kinds \X Families -> Numbers \union {NoSocket}]
      /\ uses \in Nat
      /\ threads \in [Attempts -> [number: Numbers \union {NoSocket},
                                   step: {"none", "lookup", "receive", "fail", "over"}]]
  BY DEF ListenersTypeOK
<1>4. \A k \in Kinds, f \in Families :
         <<k, f>> # <<kind, stage.family>> => member'[<<k, f>>] = member[<<k, f>>]
  BY <1>1, <1>3, BuiltOpens DEF BuildTcp, BuildUdp, NotBuilt
<1>5. \A n \in Numbers : socks[n] # Closed => socks'[n] = socks[n]
  BY <1>1, BuiltOpens DEF BuildTcp, BuildUdp, NotBuilt
<1>6. \A n, k, f, try : f # "none" /\ IsOpen(n, k, f, try) => n \in Numbers /\ socks'[n] = <<k, f, try>>
  BY <1>5 DEF IsOpen, Closed
<1> DEFINE Nothing ==
               /\ member'[<<kind, stage.family>>] = NoSocket
               /\ uses' \in {uses, uses + 1}
               /\ threads' = threads
           Something ==
               /\ member'[<<kind, stage.family>>] \in Numbers
               /\ socks'[member'[<<kind, stage.family>>]] = <<kind, stage.family, stage.try>>
               /\ uses' = uses + 1
               /\ kind = "tcp" => threads' = threads
               /\ kind = "udp" => threads' = [threads EXCEPT ![Attempt] =
                                      [number |-> member'[<<"udp", stage.family>>],
                                       step |-> "lookup"]]
<1>7. Nothing \/ Something
  <2>1. ASSUME NotBuilt(kind), threads' = threads
        PROVE  Nothing
    BY <1>1, <1>3, <2>1 DEF NotBuilt
  <2>2. CASE BuildTcp
    <3>1. kind = "tcp" /\ threads' = threads
      BY <2>2 DEF BuildTcp
    <3>2. CASE Built("tcp")
      <4>1. PICK m \in Numbers :
              /\ uses' = uses + 1
              /\ member'[<<kind, stage.family>>] = m
              /\ socks'[m] = <<kind, stage.family, stage.try>>
        BY <1>1, <3>1, <3>2, BuiltOpens
      <4> QED
        BY <3>1, <4>1
    <3> QED
      BY <2>1, <2>2, <3>1, <3>2 DEF BuildTcp
  <2>3. CASE BuildUdp
    <3>1. kind = "udp"
      BY <2>3 DEF BuildUdp
    <3>2. CASE Built("udp") /\ threads' = [threads EXCEPT ![Attempt] =
                                  [number |-> member'[<<"udp", stage.family>>],
                                   step |-> "lookup"]]
      <4>1. PICK m \in Numbers :
              /\ uses' = uses + 1
              /\ member'[<<kind, stage.family>>] = m
              /\ socks'[m] = <<kind, stage.family, stage.try>>
        BY <1>1, <3>1, <3>2, BuiltOpens
      <4> QED
        BY <3>1, <3>2, <4>1
    <3> QED
      BY <2>1, <2>3, <3>1, <3>2 DEF BuildUdp
  <2> QED
    BY <2>2, <2>3
<1>8. (kind = "tcp" /\ stage.step = "tcp") \/ (kind = "udp" /\ stage.step = "udp")
  BY <1>1
<1>9. \A f \in Families : won[f] # 0 =>
          f = "v4" /\ stage.family = "v6" /\ (Ended(f)' <=> Ended(f))
  <2> SUFFICES ASSUME NEW f \in Families, won[f] # 0
               PROVE  f = "v4" /\ stage.family = "v6" /\ (Ended(f)' <=> Ended(f))
    OBVIOUS
  <2>1. f = "v4" /\ stage.family = "v6"
    BY <1>1 DEF Order
  <2>2. <<f, won[f]>> \in Attempts /\ <<f, won[f]>> # Attempt
    BY <2>1 DEF ListenersTypeOK, Attempts, Attempt
  <2>3. threads'[<<f, won[f]>>] = threads[<<f, won[f]>>]
    BY <1>3, <1>7, <1>8, <2>2
  <2> QED
    BY <1>2, <2>1, <2>3 DEF Ended
<1>10. Base' = Base /\ Base \in Nat
  <2>1. \A f \in Families : Kept(f)' = Kept(f) /\ Kept(f) \in Nat
    BY <1>2, <1>9 DEF Kept
  <2> QED
    BY <2>1 DEF Base, Families
<1> HIDE DEF kind
<1>11. TakenOpen'
  <2> SUFFICES ASSUME NEW f \in Families, NEW k \in Kinds, won'[f] # 0
               PROVE  (IsOpen(member[<<k, f>>], k, f, won[f]) \/ (k = "udp" /\ Ended(f)))'
    BY DEF TakenOpen
  <2>1. f = "v4" /\ stage.family = "v6" /\ (Ended(f)' <=> Ended(f))
    BY <1>2, <1>9
  <2>2. member'[<<k, f>>] = member[<<k, f>>]
    BY <1>4, <2>1
  <2>3. IsOpen(member[<<k, f>>], k, f, won[f]) \/ (k = "udp" /\ Ended(f))
    BY <1>2 DEF Opened, TakenOpen, IsOpen, Ended
  <2> QED
    BY <1>2, <1>6, <2>1, <2>2, <2>3 DEF IsOpen
<1>12. ThreadsOpen'
  <2> SUFFICES ASSUME NEW a \in Attempts, threads'[a].step \notin {"none", "over"}
               PROVE  IsOpen(threads[a].number, "udp", a[1], a[2])'
    BY DEF ThreadsOpen
  <2>1. CASE threads'[a] = threads[a]
    <3>1. IsOpen(threads[a].number, "udp", a[1], a[2])
      BY <2>1 DEF Opened, ThreadsOpen
    <3>2. a[1] # "none"
      BY DEF Attempts, Families
    <3> QED
      BY <1>6, <2>1, <3>1, <3>2 DEF IsOpen
  <2>2. CASE threads'[a] # threads[a]
    <3>1. /\ Something /\ kind = "udp" /\ a = Attempt
          /\ threads'[a] = [number |-> member'[<<"udp", stage.family>>], step |-> "lookup"]
      BY <1>1, <1>3, <1>7, <1>8, <2>2
    <3>2. a[1] = stage.family /\ a[2] = stage.try
      BY <3>1 DEF Attempt
    <3> QED
      BY <3>1, <3>2 DEF IsOpen
  <2> QED
    BY <2>1, <2>2
<1>13. CASE stage.step = "tcp"
  <2>1. kind = "tcp" /\ Tcp' = member'[<<kind, stage.family>>] /\ stage'.step = "udp"
    BY <1>2, <1>13, <1>8 DEF Tcp
  <2>2. PendingOpen'
    <3>1. Tcp' # NoSocket => IsOpen(Tcp, "tcp", stage.family, stage.try)'
      BY <1>2, <1>7, <2>1 DEF IsOpen
    <3> QED
      BY <2>1, <3>1 DEF PendingOpen
  <2>3. UsesKept'
    <3>1. UdpUse' = 0 /\ UdpUse = 0 /\ TcpUse = 0
      BY <1>13, <2>1 DEF UdpUse, TcpUse
    <3>2. uses >= Base
      BY <1>3, <1>10, <3>1 DEF Opened, UsesKept
    <3>3. TcpUse' \in {0, 1} /\ (Nothing => TcpUse' = 0)
      BY <2>1 DEF TcpUse
    <3> QED
      BY <1>3, <1>7, <1>10, <3>1, <3>2, <3>3 DEF UsesKept
  <2> QED
    BY <1>11, <1>12, <2>2, <2>3 DEF Opened
<1>14. CASE stage.step = "udp"
  <2>1. /\ kind = "udp" /\ Udp' = member'[<<kind, stage.family>>] /\ stage'.step = "judge"
    BY <1>2, <1>14, <1>8 DEF Udp
  <2>2. Tcp' = Tcp
    BY <1>1, <1>2, <1>4, <2>1 DEF Tcp, Kinds
  <2>3. stage.family # "none"
    BY <1>1 DEF Families
  <2>4. PendingOpen'
    <3>1. Tcp # NoSocket => IsOpen(Tcp, "tcp", stage.family, stage.try)
      BY <1>14 DEF Opened, PendingOpen
    <3>2. Tcp' # NoSocket => IsOpen(Tcp, "tcp", stage.family, stage.try)'
      BY <1>2, <1>6, <2>2, <2>3, <3>1 DEF IsOpen
    <3>3. Udp' # NoSocket => IsOpen(Udp, "udp", stage.family, stage.try)'
      BY <1>2, <1>7, <2>1 DEF IsOpen
    <3>4. Udp' # NoSocket => threads'[Attempt].step = "lookup"
      BY <1>1, <1>3, <1>7, <2>1
    <3>5. Attempt' = Attempt
      BY <1>2 DEF Attempt
    <3> QED
      BY <3>2, <3>3, <3>4, <3>5 DEF PendingOpen
  <2>5. UsesKept'
    <3>1. TcpUse' = TcpUse /\ TcpUse \in {0, 1} /\ UdpUse = 0
      BY <1>14, <2>1, <2>2 DEF TcpUse, UdpUse
    <3>2. uses >= Base + TcpUse
      BY <1>3, <1>10, <3>1 DEF Opened, UsesKept
    <3>3. threads[Attempt].step = "none"
      BY <1>1, <1>14, StageFacts DEF Order, Ahead, Attempt
    <3>4. Attempt' = Attempt
      BY <1>2 DEF Attempt
    <3>5. UdpUse' \in {0, 1} /\ (Nothing => UdpUse' = 0)
      BY <3>3, <3>4 DEF UdpUse
    <3> QED
      BY <1>3, <1>7, <1>10, <3>1, <3>2, <3>5 DEF UsesKept
  <2> QED
    BY <1>11, <1>12, <2>4, <2>5 DEF Opened
<1> QED
  BY <1>1, <1>13, <1>14

\* After Listen has judged a port, nothing is pending.
LEMMA JudgedStep ==
  ASSUME ListenersInv, Opened, TakePort \/ ReleaseOne \/ NoneBuilt
  PROVE  /\ stage.step = "judge" /\ stage'.step \in {"tcp", "done"}
         /\ stage.family \in Families /\ stage.try \in 1 .. Tries
         /\ member' = member /\ threads' = threads
         /\ PendingOpen'
         /\ uses \in Nat /\ Base \in Nat
         /\ uses' >= Base' => UsesKept'
<1> USE ListenAssumption DEF ListenersInv
<1>1. stage.step = "judge" /\ stage'.step \in {"tcp", "done"}
  BY NextStage DEF TakePort, ReleaseOne, NoneBuilt
<1>2. stage.family \in Families /\ stage.try \in 1 .. Tries
  BY <1>1, StageFacts
<1>3. member' = member /\ threads' = threads
  BY DEF TakePort, ReleaseOne, NoneBuilt
<1>4. PendingOpen'
  BY <1>1 DEF PendingOpen
<1>5. uses \in Nat /\ Base \in Nat
  BY DEF ListenersTypeOK, Base, Kept
<1>6. ASSUME uses' >= Base'
      PROVE  UsesKept'
  <2>1. TcpUse' = 0 /\ UdpUse' = 0 /\ Base' \in Nat
    BY <1>1 DEF TcpUse, UdpUse, Base, Kept
  <2>2. uses' \in Nat
    BY ListenersTypes DEF ListenersTypeOK, ListenersNext, ListenStep
  <2>3. Base' + TcpUse' + UdpUse' = Base'
    <3>1. \A p \in Nat : p + 0 + 0 = p
      OBVIOUS
    <3> QED
      BY <2>1, <3>1
  <2> QED
    BY <1>6, <2>3 DEF UsesKept
<1> QED
  BY <1>1, <1>2, <1>3, <1>4, <1>5, <1>6

\* The port is taken with both its listeners open.
LEMMA TakePortStep ==
  ASSUME ListenersInv, Opened, TakePort
  PROVE  Opened'
<1> USE ListenAssumption DEF ListenersInv
<1>1. /\ stage.step = "judge" /\ stage.family \in Families /\ stage.try \in 1 .. Tries
      /\ member' = member /\ threads' = threads /\ socks' = socks /\ uses' = uses
      /\ Tcp # NoSocket /\ Udp # NoSocket
      /\ PendingOpen' /\ (uses' >= Base' => UsesKept')
      /\ uses \in Nat /\ Base \in Nat
  BY JudgedStep DEF TakePort
<1>2. /\ won \in [Families -> 0 .. Tries]
      /\ won' = [won EXCEPT ![stage.family] = stage.try]
  BY DEF TakePort, ListenersTypeOK
<1>3. TakenOpen'
  <2> SUFFICES ASSUME NEW f \in Families, NEW k \in Kinds, won'[f] # 0
               PROVE  (IsOpen(member[<<k, f>>], k, f, won[f]) \/ (k = "udp" /\ Ended(f)))'
    BY DEF TakenOpen
  <2>1. CASE f = stage.family
    <3>1. /\ IsOpen(Tcp, "tcp", stage.family, stage.try)
          /\ \/ IsOpen(Udp, "udp", stage.family, stage.try)
             \/ threads[Attempt].step = "over"
      BY <1>1 DEF Opened, PendingOpen
    <3>2. IsOpen(member[<<k, f>>], k, f, stage.try) \/ (k = "udp" /\ threads[Attempt].step = "over")
      BY <2>1, <3>1 DEF Kinds, Tcp, Udp, IsOpen
    <3>3. won'[f] = stage.try /\ (Ended(f)' <=> threads[Attempt].step = "over")
      BY <1>1, <1>2, <2>1 DEF Ended, Attempt
    <3> QED
      BY <1>1, <2>1, <3>2, <3>3 DEF IsOpen
  <2>2. CASE f # stage.family
    <3>1. won'[f] = won[f] /\ (Ended(f)' <=> Ended(f))
      BY <1>1, <1>2, <2>2 DEF Ended
    <3>2. IsOpen(member[<<k, f>>], k, f, won[f]) \/ (k = "udp" /\ Ended(f))
      BY <3>1 DEF Opened, TakenOpen, IsOpen, Ended
    <3> QED
      BY <1>1, <3>1, <3>2 DEF IsOpen
  <2> QED
    BY <2>1, <2>2
<1>4. ThreadsOpen'
  BY <1>1 DEF Opened, ThreadsOpen, IsOpen
<1>5. uses' >= Base'
  <2>1. threads[Attempt].step # "none" /\ TcpUse = 1
    BY <1>1 DEF Opened, PendingOpen, TcpUse
  <2>2. PICK g \in Families : g = stage.family
    BY <1>1
  <2>3. Kept(g)' = TcpUse + UdpUse /\ Kept(g) = 0
    <3>1. won[g] = 0 /\ won'[g] = stage.try /\ stage.try # 0
      BY <1>1, <1>2, <2>2 DEF Order
    <3>2. Ended(g)' <=> threads[Attempt].step = "over"
      BY <1>1, <2>2, <3>1 DEF Ended, Attempt
    <3>3. UdpUse = IF threads[Attempt].step = "over" THEN 0 ELSE 1
      BY <1>1, <2>1 DEF UdpUse
    <3> QED
      BY <2>1, <3>1, <3>2, <3>3 DEF Kept
  <2>4. ASSUME NEW f \in Families, f # g
        PROVE  Kept(f)' = Kept(f) /\ Kept(f) \in Nat
    <3>1. won'[f] = won[f]
      BY <1>2, <2>2, <2>4
    <3> QED
      BY <1>1, <3>1 DEF Kept, Ended
  <2>5. Base = Kept("v4") + Kept("v6") /\ Base' = Kept("v4")' + Kept("v6")'
    BY DEF Base
  <2>6. Base' = Base + TcpUse + UdpUse
    <3>1. \A p \in Nat, q \in {0, 1} :
            p + (1 + q) = p + 0 + 1 + q /\ (1 + q) + p = 0 + p + 1 + q
      OBVIOUS
    <3>2. UdpUse \in {0, 1}
      BY DEF UdpUse
    <3> QED
      BY <2>1, <2>2, <2>3, <2>4, <2>5, <3>1, <3>2 DEF Families
  <2> QED
    BY <1>1, <2>6 DEF Opened, UsesKept
<1> QED
  BY <1>1, <1>3, <1>4, <1>5 DEF Opened

\* Unless a UDP listener is left behind, release_socket closes only the TCP
\* listener it is given.
LEMMA ReleaseOneStep ==
  ASSUME ListenersInv, Opened, ReleaseOne, NoHalf, NoHalf'
  PROVE  Opened'
<1> USE ListenAssumption DEF ListenersInv
<1>1. PICK n \in {Tcp, Udp} \ {NoSocket} :
        {Tcp, Udp} = {n, NoSocket} /\ Cleanup(Without(n))
  BY DEF ReleaseOne
<1>2. /\ stage.step = "judge" /\ stage.family \in Families
      /\ stage'.step \in {"tcp", "done"}
      /\ member' = member /\ threads' = threads /\ won' = won
      /\ PendingOpen' /\ (uses' >= Base' => UsesKept')
      /\ uses \in Nat /\ Base \in Nat /\ Base' = Base
  BY JudgedStep DEF ReleaseOne, Base, Kept, Ended
<1>3. Udp = NoSocket
  <2> SUFFICES ASSUME Udp # NoSocket
               PROVE  FALSE
    OBVIOUS
  <2>1. threads[Attempt].step # "none" /\ Attempt \in Attempts
    BY <1>2, StageFacts DEF Opened, PendingOpen
  <2>2. won[stage.family] = 0 /\ stage.try # 0
    BY <1>2, StageFacts DEF Order
  <2>3. PICK a \in Attempts : a = Attempt
    BY <2>1
  <2>4. HalfBuilt(a)'
    <3>1. a[1] = stage.family /\ a[2] = stage.try
      BY <2>3 DEF Attempt
    <3> QED
      BY <1>2, <2>1, <2>2, <2>3, <3>1 DEF HalfBuilt
  <2> QED
    BY <2>4 DEF NoHalf
<1>4. n = Tcp /\ n \in Numbers /\ socks[n] = <<"tcp", stage.family, stage.try>>
  BY <1>1, <1>2, <1>3 DEF Opened, PendingOpen, IsOpen
<1>5. uses >= Base + 1
  <2>1. TcpUse = 1 /\ UdpUse \in {0, 1}
    BY <1>1, <1>2, <1>4 DEF TcpUse, UdpUse
  <2> QED
    BY <1>2, <2>1 DEF Opened, UsesKept
<1>6. uses' = uses - 1
  BY <1>1, <1>2, <1>5 DEF Cleanup
<1>7. ASSUME NEW f \in Families, won[f] # 0, NEW m, NEW k, NEW try, IsOpen(m, k, f, try)
      PROVE  m \in Numbers /\ socks'[m] = <<k, f, try>>
  <2>1. f # stage.family
    BY <1>2, <1>7 DEF Order
  <2>2. Kept(f) >= 1 /\ Kept("v4") \in Nat /\ Kept("v6") \in Nat
    BY <1>7 DEF Kept
  <2>3. uses > 1
    BY <1>2, <1>5, <2>2 DEF Base, Families
  <2>4. socks' = [socks EXCEPT ![n] = Closed]
    BY <1>1, <1>2, <2>3 DEF Cleanup, Without
  <2>5. m # n
    BY <1>4, <1>7, <2>1 DEF IsOpen
  <2> QED
    BY <1>7, <2>4, <2>5 DEF IsOpen, ListenersTypeOK
<1>8. TakenOpen'
  <2> SUFFICES ASSUME NEW f \in Families, NEW k \in Kinds, won'[f] # 0
               PROVE  (IsOpen(member[<<k, f>>], k, f, won[f]) \/ (k = "udp" /\ Ended(f)))'
    BY DEF TakenOpen
  <2>1. IsOpen(member[<<k, f>>], k, f, won[f]) \/ (k = "udp" /\ Ended(f))
    BY <1>2 DEF Opened, TakenOpen, IsOpen, Ended
  <2>2. Ended(f)' <=> Ended(f)
    BY <1>2 DEF Ended
  <2> QED
    BY <1>2, <1>7, <2>1, <2>2 DEF IsOpen
<1>9. ThreadsOpen'
  <2> SUFFICES ASSUME NEW a \in Attempts, threads'[a].step \notin {"none", "over"}
               PROVE  IsOpen(threads[a].number, "udp", a[1], a[2])'
    BY DEF ThreadsOpen
  <2>1. IsOpen(threads[a].number, "udp", a[1], a[2])
    BY <1>2 DEF Opened, ThreadsOpen
  <2>2. won[a[1]] = a[2]
    BY <1>2 DEF NoHalf, HalfBuilt
  <2>3. a[1] \in Families /\ won[a[1]] # 0
    BY <2>2 DEF Attempts
  <2> QED
    BY <1>2, <1>7, <2>1, <2>3 DEF IsOpen
<1> QED
  BY <1>2, <1>5, <1>6, <1>8, <1>9 DEF Opened

\* A thread that looks up addresses or fails to receive has closed nothing.
LEMMA ThreadMovesOn ==
  ASSUME ListenersInv, Opened, NEW t \in Attempts, LookUp(t) \/ Fail(t)
  PROVE  Opened'
<1> USE ListenAssumption DEF ListenersInv
<1>1. /\ uses \in Nat /\ uses' \in {uses, uses + 1}
      /\ stage' = stage /\ member' = member /\ socks' = socks /\ won' = won
  BY DEF LookUp, Fail, ListenersTypeOK
<1>2. \A a \in Attempts :
         /\ threads'[a].number = threads[a].number
         /\ threads'[a].step = "none" <=> threads[a].step = "none"
         /\ threads'[a].step = "over" <=> threads[a].step = "over"
  BY DEF LookUp, Fail, ListenersTypeOK
<1>3. Tcp' = Tcp /\ Udp' = Udp /\ Attempt' = Attempt
      /\ (stage.step = "judge" => Attempt \in Attempts)
  BY <1>1, StageFacts DEF Tcp, Udp, Attempt
<1>4. \A f \in Families : won[f] # 0 => (Ended(f)' <=> Ended(f))
  <2>1. \A f \in Families : won[f] # 0 => <<f, won[f]>> \in Attempts
    BY DEF ListenersTypeOK, Attempts
  <2> QED
    BY <1>1, <1>2, <2>1 DEF Ended
<1>5. TakenOpen'
  BY <1>1, <1>4 DEF Opened, TakenOpen, IsOpen
<1>6. PendingOpen'
  BY <1>1, <1>2, <1>3 DEF Opened, PendingOpen, IsOpen
<1>7. ThreadsOpen'
  BY <1>1, <1>2 DEF Opened, ThreadsOpen, IsOpen
<1>8. UsesKept'
  <2>1. \A f \in Families : Kept(f)' = Kept(f) /\ Kept(f) \in Nat
    BY <1>1, <1>4 DEF Kept
  <2>2. Base' = Base /\ Base \in Nat
    BY <2>1 DEF Base, Families
  <2>3. TcpUse' = TcpUse /\ UdpUse' = UdpUse /\ TcpUse \in {0, 1} /\ UdpUse \in {0, 1}
    BY <1>1, <1>2, <1>3 DEF TcpUse, UdpUse
  <2> QED
    BY <1>1, <2>2, <2>3 DEF Opened, UsesKept
<1> QED
  BY <1>5, <1>6, <1>7, <1>8 DEF Opened

\* A thread whose port is not half built closes its own listener and gives
\* back the use of that one.
LEMMA CloseAgainStep ==
  ASSUME ListenersInv, Opened, NoHalf, NEW t \in Attempts, CloseAgain(t)
  PROVE  Opened'
<1> USE ListenAssumption DEF ListenersInv
<1> DEFINE n == threads[t].number
<1>1. /\ threads[t].step = "fail" /\ Cleanup(Without(n))
      /\ threads' = [threads EXCEPT ![t].step = "over"]
      /\ stage' = stage /\ member' = member /\ won' = won
      /\ uses \in Nat
  BY DEF CloseAgain, ListenersTypeOK
<1>2. /\ n \in Numbers /\ socks[n] = <<"udp", t[1], t[2]>>
      /\ t[1] \in Families /\ t[2] \in 1 .. Tries /\ t = <<t[1], t[2]>>
  BY <1>1 DEF Opened, ThreadsOpen, IsOpen, Attempts
<1>3. /\ threads'[t].step = "over"
      /\ \A a \in Attempts : a # t => threads'[a] = threads[a]
  BY <1>1 DEF ListenersTypeOK
<1>4. /\ Tcp' = Tcp /\ Udp' = Udp /\ Attempt' = Attempt
      /\ stage.step = "judge" => Attempt \in Attempts
  BY <1>1, StageFacts DEF Tcp, Udp, Attempt
<1>5. \A f \in Families : won[f] # 0 =>
         /\ <<f, won[f]>> \in Attempts
         /\ Ended(f)' <=> (Ended(f) \/ <<f, won[f]>> = t)
  <2>1. \A f \in Families : won[f] # 0 => <<f, won[f]>> \in Attempts
    BY DEF ListenersTypeOK, Attempts
  <2> QED
    BY <1>1, <1>3, <2>1 DEF Ended
<1>6. /\ Base \in Nat /\ Base' \in Nat
      /\ \A f \in Families : Kept(f) \in {0, 1, 2} /\ Kept(f)' \in {0, 1, 2}
      /\ TcpUse' = TcpUse /\ TcpUse \in {0, 1} /\ UdpUse \in {0, 1} /\ UdpUse' \in {0, 1}
  BY <1>1, <1>4 DEF Base, Kept, TcpUse, UdpUse
<1>7. Base' + UdpUse' = Base + UdpUse - 1
  <2>1. CASE won[t[1]] = t[2]
    <3>1. won[t[1]] # 0 /\ ~Ended(t[1]) /\ Ended(t[1])'
      BY <1>1, <1>2, <1>5, <2>1 DEF Ended
    <3>2. Kept(t[1]) = 2 /\ Kept(t[1])' = 1
      BY <1>1, <3>1 DEF Kept
    <3>3. ASSUME NEW f \in Families, f # t[1]
          PROVE  Kept(f)' = Kept(f)
      <4>1. <<f, won[f]>> # t
        BY <1>2, <3>3
      <4> QED
        BY <1>1, <1>5, <4>1 DEF Kept
    <3>4. Base' = Base - 1
      BY <1>2, <1>6, <3>2, <3>3 DEF Base, Families
    <3>5. stage.step = "judge" => Attempt # t
      BY <1>2, <3>1 DEF Order, Attempt, Families
    <3>6. UdpUse' = UdpUse
      BY <1>1, <1>3, <1>4, <3>5 DEF UdpUse
    <3> QED
      BY <1>6, <3>4, <3>6
  <2>2. CASE won[t[1]] # t[2]
    <3>1. stage.step = "judge" /\ Attempt = t
      BY <1>1, <2>2 DEF NoHalf, HalfBuilt
    <3>2. UdpUse = 1 /\ UdpUse' = 0
      BY <1>1, <1>3, <1>4, <3>1 DEF UdpUse
    <3>3. ASSUME NEW f \in Families
          PROVE  Kept(f)' = Kept(f)
      <4>1. <<f, won[f]>> # t
        BY <1>2, <2>2
      <4> QED
        BY <1>1, <1>5, <4>1 DEF Kept
    <3>4. Base' = Base
      BY <3>3 DEF Base, Families
    <3> QED
      BY <1>6, <3>2, <3>4
  <2> QED
    BY <2>1, <2>2
<1>8. uses >= 1 /\ uses' = uses - 1
  <2>1. uses >= Base + TcpUse + UdpUse
    BY DEF Opened, UsesKept
  <2>2. uses >= 1
    BY <1>1, <1>6, <1>7, <2>1
  <2> QED
    BY <1>1, <2>2 DEF Cleanup
<1>9. UsesKept'
  BY <1>1, <1>6, <1>7, <1>8 DEF Opened, UsesKept
<1>10. ASSUME NEW m, NEW k, NEW f, NEW try, IsOpen(m, k, f, try),
              <<k, f, try>> # <<"udp", t[1], t[2]>>, Base' + TcpUse' + UdpUse' >= 1
       PROVE  IsOpen(m, k, f, try)'
  <2>1. uses > 1
    BY <1>1, <1>6, <1>8, <1>9, <1>10 DEF UsesKept
  <2>2. socks' = [socks EXCEPT ![n] = Closed]
    BY <1>1, <2>1 DEF Cleanup, Without
  <2>3. m # n
    BY <1>2, <1>10 DEF IsOpen
  <2> QED
    BY <1>10, <2>2, <2>3 DEF IsOpen, ListenersTypeOK
<1>11. ASSUME NEW f \in Families, won[f] # 0
       PROVE  Base' + TcpUse' + UdpUse' >= 1
  <2>1. Kept(f)' >= 1
    BY <1>1, <1>11 DEF Kept
  <2> QED
    BY <1>6, <2>1 DEF Base, Families
<1>12. TakenOpen'
  <2> SUFFICES ASSUME NEW f \in Families, NEW k \in Kinds, won[f] # 0
               PROVE  (IsOpen(member[<<k, f>>], k, f, won[f]) \/ (k = "udp" /\ Ended(f)))'
    BY <1>1 DEF TakenOpen
  <2>1. CASE k = "udp" /\ <<f, won[f]>> = t
    BY <1>5, <2>1
  <2>2. CASE ~(k = "udp" /\ <<f, won[f]>> = t)
    <3>1. <<k, f, won[f]>> # <<"udp", t[1], t[2]>>
      BY <1>2, <2>2
    <3>2. IsOpen(member[<<k, f>>], k, f, won[f]) \/ (k = "udp" /\ Ended(f))
      BY DEF Opened, TakenOpen, IsOpen, Ended
    <3>3. IsOpen(member[<<k, f>>], k, f, won[f]) => IsOpen(member[<<k, f>>], k, f, won[f])'
      BY <1>1, <1>10, <1>11, <3>1 DEF IsOpen
    <3> QED
      BY <1>5, <3>2, <3>3
  <2> QED
    BY <2>1, <2>2
<1>13. PendingOpen'
  <2>1. ASSUME stage.step \in {"udp", "judge"}, Tcp # NoSocket
        PROVE  IsOpen(Tcp, "tcp", stage.family, stage.try)'
    <3>1. IsOpen(Tcp, "tcp", stage.family, stage.try)
      BY <2>1 DEF Opened, PendingOpen
    <3>2. TcpUse' = 1
      BY <1>1, <1>4, <2>1 DEF TcpUse
    <3>3. Base' + TcpUse' + UdpUse' >= 1
      <4>1. \A p \in Nat, r \in {0, 1} : p + 1 + r >= 1
        OBVIOUS
      <4> QED
        BY <1>6, <3>2, <4>1
    <3>4. <<"tcp", stage.family, stage.try>> # <<"udp", t[1], t[2]>>
      OBVIOUS
    <3> QED
      BY <1>1, <1>4, <1>10, <3>1, <3>3, <3>4 DEF IsOpen
  <2>2. ASSUME stage.step = "judge", Udp # NoSocket
        PROVE  /\ threads'[Attempt].step # "none"
               /\ \/ IsOpen(Udp, "udp", stage.family, stage.try)'
                  \/ threads'[Attempt].step = "over"
    <3>1. CASE Attempt = t
      BY <1>3, <3>1
    <3>2. CASE Attempt # t
      <4>1. /\ threads'[Attempt] = threads[Attempt] /\ threads[Attempt].step # "none"
            /\ \/ IsOpen(Udp, "udp", stage.family, stage.try)
               \/ threads[Attempt].step = "over"
        BY <1>3, <1>4, <2>2, <3>2 DEF Opened, PendingOpen
      <4>2. <<"udp", stage.family, stage.try>> # <<"udp", t[1], t[2]>>
        BY <1>2, <3>2 DEF Attempt
      <4>3. won[t[1]] = t[2] /\ t[2] # 0
        BY <1>1, <1>2, <3>2 DEF NoHalf, HalfBuilt
      <4>4. Base' + TcpUse' + UdpUse' >= 1
        BY <1>2, <1>11, <4>3
      <4>5. IsOpen(Udp, "udp", stage.family, stage.try) =>
                IsOpen(Udp, "udp", stage.family, stage.try)'
        BY <1>1, <1>4, <1>10, <4>2, <4>4 DEF IsOpen
      <4> QED
        BY <4>1, <4>5
    <3> QED
      BY <3>1, <3>2
  <2> QED
    BY <1>1, <1>4, <2>1, <2>2 DEF PendingOpen
<1>14. ThreadsOpen'
  <2> SUFFICES ASSUME NEW a \in Attempts, threads'[a].step \notin {"none", "over"}
               PROVE  IsOpen(threads[a].number, "udp", a[1], a[2])'
    BY DEF ThreadsOpen
  <2>1. a # t /\ threads'[a] = threads[a]
    BY <1>3
  <2>2. IsOpen(threads[a].number, "udp", a[1], a[2])
    BY <2>1 DEF Opened, ThreadsOpen
  <2>3. a = <<a[1], a[2]>> /\ a[1] \in Families /\ a[2] \in 1 .. Tries
    BY DEF Attempts
  <2>4. <<"udp", a[1], a[2]>> # <<"udp", t[1], t[2]>>
    BY <1>2, <2>1, <2>3
  <2>5. Base' + TcpUse' + UdpUse' >= 1
    <3>1. CASE won[a[1]] = a[2]
      BY <1>11, <2>3, <3>1
    <3>2. CASE won[a[1]] # a[2]
      <4>1. stage.step = "judge" /\ Attempt = a
        BY <2>1, <3>2 DEF NoHalf, HalfBuilt
      <4>2. UdpUse' = 1
        BY <1>1, <1>4, <4>1 DEF UdpUse
      <4>3. \A p \in Nat, q \in {0, 1} : p + q + 1 >= 1
        OBVIOUS
      <4> QED
        BY <1>6, <4>2, <4>3
    <3> QED
      BY <3>1, <3>2
  <2> QED
    BY <1>10, <2>1, <2>2, <2>4, <2>5 DEF IsOpen
<1> QED
  BY <1>9, <1>12, <1>13, <1>14 DEF Opened

-----------------------------------------------------------------------------
(* Listening sockets: the theorems *)

LEMMA ListenersInvariant == ListenersSpec => []ListenersInv
<1>1. ListenersInit => ListenersInv
  <2> SUFFICES ASSUME ListenersInit
               PROVE  ListenersInv
    OBVIOUS
  <2> USE ListenAssumption DEF ListenersInit
  <2>1. /\ stage \in [family: Families, try: 1 .. Tries, step: {"tcp", "udp", "judge"}]
        /\ Closed \in Listener \union {Closed}
        /\ 0 \in 0 .. MaxUses /\ 0 \in 0 .. Tries
    BY DEF Families
  <2>2. ListenersTypeOK
    BY <2>1 DEF ListenersTypeOK
  <2>3. Order
    BY DEF Order
  <2>4. Opened
    BY DEF Opened, TakenOpen, PendingOpen, ThreadsOpen, UsesKept, Base, Kept, TcpUse,
           UdpUse, Families
  <2> QED
    BY <2>2, <2>3, <2>4 DEF ListenersInv
<1>2. ListenersInv /\ [ListenersNext]_listenVars => ListenersInv'
  <2> SUFFICES ASSUME ListenersInv, [ListenersNext]_listenVars
               PROVE  ListenersInv'
    OBVIOUS
  <2>1. ListenersTypeOK'
    BY ListenersTypes DEF ListenersInv
  <2>2. Order' /\ (NoHalf' => NoHalf)
    BY OrderStep
  <2>3. ASSUME NoHalf'
        PROVE  Opened'
    <3>1. Opened
      BY <2>2, <2>3 DEF ListenersInv
    <3>2. CASE UNCHANGED listenVars
      BY <3>1, <3>2
      DEF listenVars, Opened, TakenOpen, PendingOpen, ThreadsOpen, UsesKept,
          IsOpen, Base, Kept, Ended, TcpUse, UdpUse, Tcp, Udp, Attempt
    <3>3. CASE BuildTcp \/ BuildUdp
      BY <3>1, <3>3, BuildStep
    <3>4. CASE TakePort
      BY <3>1, <3>4, TakePortStep
    <3>5. CASE ReleaseOne
      BY <2>2, <2>3, <3>1, <3>5, ReleaseOneStep
    <3>6. CASE NoneBuilt
      <4>1. /\ UNCHANGED <<member, socks, uses, threads, won>>
            /\ PendingOpen' /\ (uses' >= Base' => UsesKept')
        BY <3>1, <3>6, JudgedStep DEF NoneBuilt
      <4>2. TakenOpen' /\ ThreadsOpen'
        BY <3>1, <4>1 DEF Opened, TakenOpen, ThreadsOpen, IsOpen, Ended
      <4>3. uses' >= Base'
        <5>1. Base' = Base /\ Base \in Nat /\ TcpUse \in {0, 1} /\ UdpUse \in {0, 1}
          BY <4>1 DEF Base, Kept, Ended, TcpUse, UdpUse
        <5>2. uses \in Nat
          BY DEF ListenersInv, ListenersTypeOK
        <5> QED
          BY <3>1, <4>1, <5>1, <5>2 DEF Opened, UsesKept
      <4> QED
        BY <4>1, <4>2, <4>3 DEF Opened
    <3>7. ASSUME NEW a \in Attempts, UdpThread(a)
          PROVE  Opened'
      BY <2>2, <2>3, <3>1, <3>7, ThreadMovesOn, CloseAgainStep DEF UdpThread
    <3> QED
      BY <3>2, <3>3, <3>4, <3>5, <3>6, <3>7 DEF ListenersNext, ListenStep
  <2> QED
    BY <2>1, <2>2, <2>3 DEF ListenersInv
<1> QED
  BY <1>1, <1>2, PTL DEF ListenersSpec

\* For any number of tries, sockets and uses, the members, socket numbers,
\* threads and Winsock's count of ClientMsgListener::Listen have their types.
THEOREM ListenersTypeCorrect == ListenersSpec => []ListenersTypeOK
<1>1. ListenersInv => ListenersTypeOK
  BY DEF ListenersInv
<1> QED
  BY <1>1, ListenersInvariant, PTL

\* For any number of tries, sockets and uses: while no port was left with its
\* UDP listener built and released, both listeners of each port that
\* ClientMsgListener::Listen took stay open, however receiving fails: a UDP
\* listener is closed by its own thread only, and the TCP listener never.
THEOREM PortsStayOpenHolds == ListenersSpec => []PortsStayOpen
<1>1. ListenersInv => PortsStayOpen
  <2> SUFFICES ASSUME ListenersInv, NoHalf
               PROVE  \A f \in Families : won[f] # 0 => Listens(f)
    BY DEF PortsStayOpen, NoHalf
  <2> QED
    BY DEF ListenersInv, Opened, TakenOpen, IsOpen, Ended, Listens
<1> QED
  BY <1>1, ListenersInvariant, PTL

=============================================================================
