# V6Chat in TLA+

V6Chat is a serverless chat program for Windows. Programs find each other by IP address, exchange JSON datagrams over UDP, push and pull files over TCP, keep their friends and histories in SQLite, and show everything in a Lua user interface. It can also hold XMPP accounts. This directory is a set of TLA+ models of its core, the TLC configurations that check them, and proofs for the parts where a small instance says too little.

The interesting code is in `kernel/`. It has no central loop. Every datagram and every TCP connection is handled in a thread of its own, two `Loop` threads wake up periodically, each text that is sent has a thread, and the UI thread calls in through the Lua bridge. All of them meet in singletons with one critical section each. Almost every property below is about what happens when these threads and the network take an order nobody wrote a test for.

Sources are named relative to `src/`; the C++ files and their comments are in GB18030.

## 1. The system

### Threads

| Thread | Code | What it does |
|---|---|---|
| UI | Lua, `kernel/LuaV6Chat3App.cpp` | user's actions, posted window messages |
| pool loop | `WaitACKMsgSender::Loop` | every 5 s: sends unacknowledged messages again, gives up |
| user loop | `UserList::Loop` | every 35 s: puts silent friends offline |
| datagram | `udp_listen_thread`, `ClientMsgListener::ListenerCallBack` | one thread for each datagram received |
| connection | `tcp_child_listen_thread`, `ListenerWithSocketCallBack` | one thread for each TCP connection accepted |
| text | `ClientMsgSender::SendTextThread` | one thread for each text sent: pushes its files, then queues it |
| server | `ServerInfo::Connect`, gloox | one thread for each connection of an XMPP account: makes a client, connects it, stays in the session |
| listen | `listen_thread`, `udp_listen_thread`, `tcp_listen_thread` | tries ports once; then one thread for each listener that was built |

### Components

| Component | State | Operations | What has to hold |
|---|---|---|---|
| Pool of unacknowledged messages (`WaitACKMsgSender`) | vector of messages with tries and age, `midCount` | `AddMsg`, `DeleteMsg`, `TraverseAllMsg` | one verdict for each message, after the promised number of tries; nothing is lost or comes back; everything ends |
| Presence (`UserList`, `P2PUserInfo`) | map of friends, `state`, `ackMsgid`, `lastActiveTime` | online, keep-alive and offline handlers, `UpdateUserState`, `TraverseAllUsers`, `DeleteUser` | a friend is online exactly while it has a heartbeat, which is in the pool unless an acknowledgement took it; silent friends go offline |
| Texts (`ClientMsgSender`, `ClientMsgListener`) | pool entries, histories, datagrams under way | `ChatWithText`, `OnChatWithTextMsg`, `OnNormalAckMsg`, callbacks | the sender is told the truth about each text; none is lost in silence |
| Files in texts (`SendFileList`, `RecvFileList`) | numbers of files on both sides, transfers | `SelectChatFile`, `SendFileMsg`, `GetFileMsg`, `OnSendFileMsg`, `OnGetFileMsg` | a text shows the files its writer meant |
| Making friends (`TempUserList`) | requests, temporary entries, prompts, two user lists | `AddP2PFriend`, `OnAddUserAskMsg`, `AddFriendAck`, `OnReplyAddUserMsg` | nobody is listed who did not agree or was not asked; friendship is mutual |
| Unread messages (`UnreadMsgList`, tips) | stack, posted window messages, tip window | `AddUnreadMsg`, `DisplayMsg`, the click, `DeleteUnreadMsg` | a click finds a message; nothing is forgotten on the stack |
| History pages (`GetChatHistory`, `db_interface`) | records, the page shown | open, previous, following | pages are seamless while records arrive |
| Critical sections (`Lock`) | owner and depth of each section | enter, leave | no thread waits for ever |
| Friends in memory and in the database (`UserList`, `db_interface`) | `users` by uid, `hasChange`, rows of `peers_profile`, its sequence, tables `chat_with_<uid>` | `Init`, `AddUser`, `AddUsers`, `UpdateUser`, `DeleteUser`, `Store`, `RecordText` | memory and table name the same friend for each uid; nobody is listed twice or pushed out; a history belongs to one friend |
| Server accounts (`Server`, `ServerMsgListener`, `xmpp_interface`) | `state`, `hasLogin`, the client `c`, the table of accounts, the client of `XmppFT` | `Connect`, `Close`, `AddServer`, `ChangeServerInfo`, `DeleteServer`, callbacks of a session | what is shown of an account is what its client is; a changed account is tried again |
| Listeners (`Listen`, `build_*_listener`, `release_socket`) | four members with socket numbers, Winsock's count of uses, the UDP threads | build, judge, release, look up addresses, receive | a port that was taken stays open |
| Sockets otherwise (`socket_interface`) | none beyond a call | datagrams, framed TCP strings, small files | its promises are the assumptions of the models |
| Database otherwise (`db_interface`) | tables of accounts and of the own profile | queries | appears where its answers matter |
| Own profile, Lua bridge, UI layout, handles, utilities, shell | | | not modelled; see section 7 |

### How they interact

The UI and the handlers queue messages in the pool. The pool calls back into the user list, the unread stack and the temporary list while it holds its own lock. The user list makes and withdraws heartbeats in the pool while it holds its own. Handlers push unread messages and post to the UI thread, which reads the stack again when the user clicks. An acknowledgement carries only the `mid` of the message it answers, and mids begin at 0 each time a program starts; the program deletes whatever message has the mid, with no look at its kind or at who answers. A text names files by the sender's numbers, which the receiver replaces by its own. A roster that an account receives at login is entered in the user list with uids that are predicted and only then written to the database; texts are kept under the uid. An account is shown by callbacks of its connect thread and changed by the UI, without a lock between them. A UDP thread knows its listener by number only.

What makes this hard: callbacks inside critical sections; state that is looked up, unlocked and used later (a uid across a file transfer, the top of a stack across a click, a client across its session, a socket across a look-up of addresses); datagrams that are lost, copied, or arrive after a restart; connections without time-outs.

## 2. The modules

| Module | Models | Uses |
|---|---|---|
| `AckPool` | `WaitACKMsgSender` | |
| `Courier` | abstract: what the pool promises | |
| `AckPoolImpl` | the refinement mapping from the pool to the Courier | `AckPool`, `Courier` |
| `AckPoolProofs` | proofs about the pool | `AckPoolImpl` |
| `Presence` | `UserList`, `P2PUserInfo`, the presence handlers, composed with the pool | `AckPool` |
| `PresenceProofs` | proofs about it | `Presence`, `AckPoolProofs` |
| `Conversation` | abstract: what the program promises to the user who writes texts | |
| `TextChat` | a text from one program to another, end to end, composed with the pool | `AckPool`, `Conversation` |
| `TextChatProofs` | proofs about it | `TextChat` |
| `ChatFiles` | the files named in texts | |
| `ChatFilesProofs` | proofs about it | `ChatFiles` |
| `FriendHandshake` | making friends, both programs | |
| `FriendHandshakeProofs` | proofs about it | `FriendHandshake` |
| `UnreadTips` | unread stack and tip window | |
| `ChatHistory` | leafing through the history | |
| `UserStore` | friends in memory and in the database, and their histories | |
| `UserStoreProofs` | proofs about it | `UserStore` |
| `ServerAccounts` | one account, its connect threads and its clients | |
| `Listeners` | the listening sockets | |
| `NetworkProofs` | proofs about accounts and listeners | `ServerAccounts`, `Listeners` |
| `LockOrder` | critical sections and the jobs of the threads | |
| `WindowAndLockProofs` | proofs about tips, history and locks | `UnreadTips`, `ChatHistory`, `LockOrder` |

Each `MC*` module gives a specification the constants TLC needs; the `.cfg` files hold the bounds. A definition whose comment begins with "Variant" is a form of the following operation that the code does not have. No specification uses it; it stands there to show what a property would catch.

**AckPool.** Each public operation holds the pool's critical section from first to last statement and is one action. The vector is always in the order of mids, so the pool is a function from mids to entries (`left`: tries left, -1 for eternal; `age`: periods since it was sent, which stops just past the limit it is compared with). `TraverseAllMsg` keeps the code's way through the vector: after `erase` the iterator is on the next element already and `++iter` steps over it (`IsWalk`). `ConfirmAndRevive` is `DeleteMsg` with a callback that puts a friend online and so pushes a heartbeat into the same vector. If that moves the storage, the iterator `erase` uses is a dangling one; the model lets the process end there (`crashed`) or go well, as the allocation decides. `sends`, `told` and `deleted` are history.

**Courier** has no pool, clock or iterator: numbers are given out in order; a limited message is confirmed, or fails after exactly `Limit` attempts; a repeating one ends only by withdrawal; limited ones end. `AckPoolImpl` reads the phase of a message off the pool.

**Presence** adds the user list. `UpdateUserState`, `TraverseAllUsers` and `DeleteUser` hold the list's lock throughout and are single actions including the pool calls they make. `OnOnlineAckMsg` uses two holds and is two actions; `Init` loads friends one by one while the listener is running already. Friends can be heard or not (`heard`), and whatever they say may come late, twice or never. The model is one run of the program. `OnOnlineAckMsg` and `OnNormalAckMsg` delete whatever message has the mid they are given, and mids begin at 0 in each run, so an acknowledgement of an earlier run may name any message of this one: any mid is acknowledged by anybody at any time, a friend or not (`NoFriend`). `lost` is history: the heartbeats that went that way. Ports are left out.

**TextChat** puts the pool of A, a network of counted copies and the handlers of B together. B acknowledges in one step and records in another; it may be closed, or A may be deleted there, in between. `UpdateChatContent` on a deleted friend throws in a thread that catches nothing, which ends B. A may restart: the pool and the mids are new, the datagrams are not.

**Conversation** knows no datagram, pool or mid: a text is open from when it is written until one verdict on it; only a text the friend has taken is confirmed, unless the writer's program was restarted; and the friend's history has only texts that were taken, each at most as often as it may be sent and the network copies it. `TextChat` maps onto it (`ImplementsConversation`): open are the texts the pool still holds.

**ChatFiles** has one step for each try of a push, each pushed file's handler at B, each look for a pushed file, each pull. The text travels freely, as TextChat explains how. `Used` gives the numbers of a text in the order they stand in it, which is the order they are pushed in. They are replaced in the order of their names in a JSON object, which is that of strings (`Rank`; "10" comes before "9"). `Replace` is the `regex_replace` on the text as it stands by then.

**FriendHandshake** treats the network as the set of what was ever sent, so that anything may arrive any number of times, at any time, or never. The three calls of `OnReplyAddUserMsg` (find, add, delete) are three actions, and any number of its threads interleave. Both programs may restart, and either user may delete the other.

**UnreadTips** separates the push from the post, as the handlers do, and the click into the answer, the pop and the post for the rest, as the Lua closure does. **ChatHistory** models the queries (`limit`), the positions passed from Lua, and the page ends the window keeps. **LockOrder** keeps of each job only the order in which it enters and leaves sections; a section may be entered again by its owner. The sections are those of the pool, the user list, the temporary users, the accounts, the unread stack, the listeners and the two lists of files.

**UserStore.** `AddUser` inserts a row and takes the uid SQLite gave it (`seq` is the AUTOINCREMENT sequence, so a uid never comes back). `AddUsers` reads the last uid given out, enters the new friends of a roster in memory with the uids after it, and then writes the rows in a transaction. It holds the list's lock throughout, but the process can be killed between any two of its steps, so it is several actions (`batch`), of which each row is one; `txn` is what the transaction sees, and the table keeps its old contents if the process ends first. A name is put into the SQL text as it stands: a friend in `Refused` has an apostrophe in the name and never gets a row. `last_insert_peerProfileUid` returns 0 when the database does not answer (`faults`). Handlers find a uid in one step and record under it in another. `slip` remembers when a row that `AddUsers` counted on was not written.

**ServerAccounts** has one step for each callback or assignment of a connect thread: make the client, connect it, show the account as connected (`onConnect` calls the listener first), set `hasLogin`, the session, and its end. `Close` reads `hasLogin` and then disconnects or deletes the client. The UI is in the middle of `AddServer`, of `ChangeServerInfo` or of a failing send where these hold a lock, start a thread or call back (`ui`). A send that fails cuts the link and calls `onDisconnect` in the thread that sends: of the UI (`SendFails`, `SendFailsEnd`, at any moment a text, a question or a file is sent), or of the login, where gloox goes on to `onConnect` all the same (`PresenceFails`). A thread that was receiving meanwhile calls it once more (`ReceiveFails`). What happens after a deleted client was used is undefined, and the model stops there (`harm`). `twice` and `broken` are history: two threads were at work; a send failed before the `onConnect` of its client was done, and no session has come up since.

**Listeners** has one step for each half of a port, one for the verdict of `Listen`, and for each UDP thread the look-up of addresses, the failure of `recvfrom`, and the closing that follows it. `recvfrom` may fail at any time, on a number that stands for something else by then or on a listener that is open: the code ends the thread at every error, and on Windows a datagram longer than the buffer of 1024 bytes is one. `socks` says which listener a number stands for now; `uses` counts `WSAStartup` less `WSACleanup`, of which the last closes every socket of the process.

## 3. What is checked

| Run | Properties | States | Shows |
|---|---|---|---|
| `ack_pool` | `TypeOK`, `OneVerdict`, `Accounted`, `Headway`, `Settles`, `ImplementsCourier` | 43 000 | the pool keeps its promises under every order of sends, acknowledgements, withdrawals, passes and ticks, although the pass skips elements; a message it misses has one fewer before it |
| `presence` | `PresTypeOK`, `HeartbeatMatchesState`, `NoOrphanHeartbeat`, `ImplementsPool`, `SilentGoesOffline` | 451 000 | list and pool agree, whatever is acknowledged: a friend is online exactly when it has a heartbeat of its own, which is queued unless an acknowledgement deleted it; no heartbeat outlives its friend; the user list uses the pool only as `AckPool` allows; a friend that falls silent is offline in the end |
| `text_chat` | `ChatTypeOK`, `ConfirmationHasCause`, `ImplementsConversation`, `NoSilentLoss` | 606 000 | confirmations go back to something B received; both programs and the network together keep the promises of `Conversation`; a text is recorded or the user is told, unless a restart, a deletion or a stop of B excuses it |
| `chat_files` | `FilesTypeOK`, `NoDangling`, `ShownIsOfText`, `TakenIsShown` | 430 000 | what a text names is in B's list; in the place of a file a text shows that file or a later one of its own, or none; a text that was taken is shown, unless its pull falls silent |
| `friend_handshake` | `HandshakeTypeOK`, `FriendWasAgreed`, `MutualOrDropped`, `AddedWasAsked` | 89 000 | nobody is listed who did not agree or was not asked in this run; one-sidedness on A's part has a reason |
| `unread_tips` | `UnreadTypeOK`, `ChoiceHasMessage`, `NeverForgotten`, `EveryMessageSettled` | 403 000 | the unguarded `pop` always has an element, the one the user chose on or a later one; nothing that can be shown is forgotten; every message leaves the stack, unless a text of a deleted friend is on top |
| `chat_history` | `HistoryTypeOK`, `BackIsSeamless`, `ForwardGoesOn` | 375 | leafing back is seamless from any page while texts arrive; leafing forward goes on and skips at most one record |
| `user_store` | `StoreTypeOK`, `OneUidEach`, `MemoryMatchesRows`, `HistoryIsOwn`, `NobodyVanishes` | 715 000 | list and table agree on every uid although one side chooses it in `AddUser` and the other in `AddUsers`, through kills at any step; nobody is listed twice or pushed out of the list; a history belongs to one friend. A row `AddUsers` counted on and that was not written is the only excuse, and `slip` names it |
| `server_accounts` | `AccountTypeOK`, `ShownIsReal`, `ChangeIsTried` | 503 000 | when no callback is under way, a session that is up is shown as connected, with `hasLogin` set and `c` leading to it, so that `Close` would end it; the account is shown as connected, and `hasLogin` is set, only then; a changed account has a thread at work. Excused are a thread that runs on a deleted client, two threads at once, and, for what is shown without a session, a send that failed before `onConnect` was done. The code permits all three; TLC finds each property violated when its excuse is taken away |
| `listeners` | `ListenersTypeOK`, `PortsStayOpen` | 571 000 | a port that was taken keeps both its listeners, whatever fails for other ports and the other family, as long as no UDP listener was built and released; a failure to receive costs the UDP listener of its own thread and nothing else |

The runs that end in a counterexample:

| Run | Property | The counterexample |
|---|---|---|
| `lock_order` | `PoolComesRound` | the pool loop gives up a text and waits for the user list, while a thread in the user list waits for the pool. It is the only circle there is (`OneCircle`, section 6) |
| `listen_ports` | `OtherPortWorks` | a first port can be had for UDP and not for TCP; its UDP listener is released and its number goes to a listener of the port `Listen` changes to; the thread of the released one comes to receive, fails, and closes that number |

### Findings

1. `kernel/User/UserList.cpp:497`: user list and pool take each other's lock in both orders (`lock_order`). Everything the other models say about progress holds only while this does not happen. It is also all that has to be mended: no other circle of waiting threads is possible (`OneCircleHolds`).
2. `socket_interface/socket_interface.cpp:613`: the thread of a UDP listener closes its socket again and gives back a use of Winsock once more (`listen_ports`), against the promise of `kernel/Listener/ClientMsgListener.h:36` that a taken port is changed for another.

Two definitions state what the code does not keep. They are in no configuration, because a run of them only ends in the known counterexample; naming one in the `.cfg` shows it:

- `ConfirmedWasReceived` of `TextChat` (`kernel/Sender/WaitACKMsgSender.cpp:44`): A restarts, mids begin at 0 again; the acknowledgement of an old text carries the mid of a new one, whose callback reports success.
- `SettledWasShown` of `UnreadTips` (`kernel/LuaV6Chat3App.cpp:795`): a message is pushed after the tip was shown; the click answers and pops the new one. `ChoiceHasMessage` says that it is always a newer one, and that the one that was shown stays.

Three more are stated for their theorems (section 6) and are in no configuration either, because they hold on every instance: `OneCircle` of `LockOrder`, `NeverIdle` and `Advance` of `ChatFiles`. Naming them in the `.cfg` of `lock_order` or `chat_files` checks them.

Seen while modelling, without a run of their own:

- `kernel/Sender/WaitACKMsgSender.cpp:91`: a friend is offline; an acknowledgement puts it online inside `DeleteMsg`; the heartbeat this queues moves the vector; `erase` uses the iterator from before. `Accounted` says that nothing else keeps a deleted message in the pool.
- `kernel/Listener/ClientMsgListener.cpp:233` and `:439`: an acknowledgement of an earlier run that comes late carries the mid of a heartbeat, which is then deleted. The friend stays online here and hears nothing of us until it goes offline here and comes back. `HeartbeatMatchesState` says that there is no other way to lose one.
- `xmpp_interface/gloox/connectiontcpbase.cpp:139`: a send of the user fails while the connect thread is in `onConnect`, between the call of the listener and `hasLogin = true` (`xmpp_interface/XmppClientInner.cpp:109`): the account is shown as disconnected, has no link, and `hasLogin` stays set. In the other order, and when the presence sent at login fails (`xmpp_interface/gloox/client.cpp:558`), the account is shown as connected without a session. `Close` then finds a link that is cut and calls nobody back, so that `ChangeServerInfo` deletes the client and starts no thread, and the next text is sent through `NULL`. `ShownIsReal` and `ChangeIsTried` except exactly this (`broken`).
- `xmpp_interface/XmppClientInner.cpp:90`: `Close` tests `hasLogin` without waiting for the thread that is about to set it; when the flag is set afterwards, the client it would have disconnected is deleted already.
- `socket_interface/socket_interface.cpp:528`: the thread of a UDP listener ends at any error of `recvfrom`. A datagram of more than 1024 bytes, from anywhere, is such an error on Windows: the program then hears no datagram on that port until it is started again. `PortsStayOpen` says that the other listeners stay.
- `kernel/Listener/ClientMsgListener.cpp:415`: two pushed files are recorded in the other order; `<1>` becomes `<2>`, and then both become `<1>`. `ShownIsOfText` says how far this can go: the file of a later number of the same text.
- `db_interface/db_interface.h:56`, `kernel/User/UserList.h:26`: a friend of a roster whose name has an apostrophe is in the list under the uid that was predicted, and has no row; the next row gets that uid. After a restart two friends' texts are in one history, and a friend that was still in the roster is entered a second time. `MemoryMatchesRows` and `HistoryIsOwn` except exactly this (`slip`).
- `kernel/Listener/ServerMsgListener.cpp:264`: a text from somebody who is in no list has uid 0, for which `UpdateChatContent` throws.
- `kernel/Listener/ServerMsgListener.cpp:33`: the friends of an account stay as they were shown when the account is disconnected.
- `kernel/Listener/ServerMsgListener.cpp:318`: a file of an account is marked as downloaded however the transfer ended.
- `xmpp_interface/XmppFT.cpp:8`: `XmppFT` keeps the client it was first made for; a later client of the account is never given to it.
- `kernel/Server/ServerInfo.cpp:11`: an account that is changed while its thread has not yet made a client keeps a thread that connects with the old name and password. `ChangeIsTried` says only that a thread is at work.
- `socket_interface/socket_interface.cpp:888`: the thread of a TCP listener that was released goes on calling `accept`, which fails each time.
- `kernel/User/UserList.cpp:90`: `Init` passes a TCP and a UDP port to a constructor that takes them in the other order; harmless as long as they are equal, which they are.
- `kernel/Listener/ClientMsgListener.cpp:206`: the port a friend announces is stored, but texts go through a sender that keeps the port the friend was loaded with (`kernel/User/P2PUserInfo.h:15`).
- `Debug/XAR/Chat/layout/MainWnd.xml.lua:385`: the page after asks for `endMid + 1`, which the query takes as an offset from 0, so one record is on no page. `ForwardGoesOn` shows that it is never more than one.
- `Debug/XAR/Chat/layout/MainWnd.xml.lua:44`: the test for a failed file compares the string `"0"` of a received text with the number 0 and never holds, so a failed file is shown as one that is still coming.
- `kernel/FileList/RecvFileList.cpp:90`: after a restart of the sender its numbers begin again, and the search finds the file of the earlier run; a first part of a broken push is found before the complete file of the next try. `ShownIsOfText` excludes both by name.
- `socket_interface/socket_interface.cpp:1079`: a pull has no time-out. The text was acknowledged before, so its sender believes it was received while it is never shown.

## 4. The bounds

| Constant | Program | Runs | Why it is enough |
|---|---|---|---|
| `MaxTryTimes` | 3 | 2, 1 in `text_chat` | the code tests the last try and the others; 2 has one of each. With 1 a text is sent twice, so retransmission, duplicates and giving up all occur. The proofs hold for every value |
| `ResendWait` | 3 periods | 1, 0 in `text_chat` | only "due" and "not due" are told apart; 1 has a state of each. With 0 every second pass is due |
| `MaxMids` | unbounded | 3, 4, 2 | the skip in the pass needs two neighbours and one after them; a friend that goes online, offline and online again and gets a text uses 4 mids |
| `Friends` | any | 1 | operations on two friends touch disjoint parts of the list and disjoint entries of the pool, but for acknowledgements, and any mid is acknowledged by a sender who is no friend as well; that the pool keeps several messages apart is checked in `ack_pool` |
| `MaxHandlers` in `presence` | any | 1 | one `OnOnlineAckMsg` between its two holds, while `OnNormalAckMsg` acknowledges any mid in one; the proofs hold for every value |
| `LiveTime` | 7 periods | 1 | silence is compared with one limit |
| `Texts` | any | 2 | one text may be taken for another |
| `MaxMishaps` | any | 1 | one restart, or one duplicated datagram, or one broken or silent transfer; the violations of section 3 need no more than one |
| `MaxFiles`, `MaxNumber`, `MaxCopies`, `MaxStrangers` | any | 2, 3, 1, 1 | two files may change places; a third number is nobody's; another friend's file has the same number or shifts the numbers of B |
| `Used`, `Rank` in `chat_files` | any | `<<2, 1>>` and `<<1, 3>>`; names of one digit | a text whose files are pushed in another order than they are replaced in, and one with a number that is nobody's. The proofs hold for every order |
| `MaxAsks`, `MaxPrompts`, `MaxHandlers` | any | 3, 2, 3 | a request that is answered, one asked again, one after a restart; two prompts; three handlers of replies at once, one in each of its steps. The proofs hold for every value |
| `MaxMsgs` | any | 4 | two on the stack, one being shown, one pushed during a click |
| `PageSize`, `MaxRecords` | 20, any | 3, 10 | three full pages and a part of one |
| `Handlers` in `lock_order` | any | 1 | with the two loops and the UI there are four threads for the sections; `OneCircleHolds` is for any number |
| `Friends`, `Refused` in `user_store` | any | 3, 1 | the refused friend comes first in a roster, so that two others are behind the uid it takes |
| `Handlers`, `MaxUid`, `MaxTexts`, `MaxFaults` | any | 1, 3, 2, 1 | one thread that found a uid, while the list's lock orders all others; a uid for each friend, one more after a deletion while two are listed; two texts are the least that can share a history; one silence of the database. The proofs hold for every value |
| `Threads`, `MaxChanges` | any | 3, 2 | a thread that is left over, the one after it, and one after both; a change while the first change is still under way. The proofs hold for every value |
| `Tries`, `Numbers` | 2 x `MAX_TRY_TIMES`, any | 2, 4 | a port that fails and one after it, for each family; four listeners are open at once when everything succeeds. The proofs hold for every value |
| `MaxUses` | any | 5 | the four listeners and one use that is kept when no address is found |

Connect threads and socket numbers are interchangeable and are reduced by symmetry; both runs check safety only.

`CHECK_DEADLOCK FALSE` stands where the system may stop: in `chat_files`, when the bounded texts have been shown and nothing is left to do; in `server_accounts`, when threads and changes are used up; in `listeners` and `listen_ports`, when `Listen` has ended and the threads wait for datagrams; and in `lock_order`, whose subject is that it does.

## 5. Fairness

Nothing is ever asked of the network or of another program's user: datagrams may stay away for ever, friends may never answer. Weak fairness is assumed for

- the pass and the tick of the pool (`PoolFairness`): `Loop` is `while` with a `Sleep`, and time passes;
- the user loop, the loading of friends at start, and the second holds of handlers in `Presence`, which are threads that only have a lock to wait for;
- the end of B's handlers in `TextChat` and each step of them in `ChatFiles`: each connection attempt and each wait is bounded, except a `recv` on a connection that falls silent. That one is an action of its own (`PullStalls`), and `TakenIsShown` says so;
- the UI thread, which handles what is posted to it, and in `UnreadTips` the user, who does not leave a tip up for ever;
- in `LockOrder`, strong fairness of entering a section: a section that is free again and again is given to a thread that waits for it. The counterexample does not depend on it, as no section involved is ever free again.

`UserStore`, `ServerAccounts`, `ChatHistory` and `Listeners` assume no fairness and claim no progress: a roster may never come, a server may never answer, a process may be killed at every step.

In all modules but `LockOrder` an operation under a lock is one step and does end. That is justified by the critical sections, as long as the threads do not wait for each other in a circle; `lock_order` shows that they can.

## 6. What is proved

The proofs assume nothing but the constants' assumptions, which are named in the modules that declare them: at least one try, natural numbers as bounds, friends that are numbers, and model values that differ from the special ones. Bounds are constants too, so each theorem holds for every bound.

### The pool (`AckPoolProofs`)

`OneVerdict` and `Accounted` are not inductive: that a message did not hear a verdict twice depends on what its history was when it left the pool. `PoolInv` therefore fixes, for every mid, the history that belongs to the place where the message is now:

- `IssuedBelow`: a mid has been given out exactly if it is below `midCount`;
- `Budget`: a queued message has cost as many datagrams as it has used tries, and an eternal one has -1 left;
- `DeletedLeft`: a deleted message is still stored only in a process that is lost;
- `Spent`: one that left without being deleted is not eternal and has used `MaxTryTimes + 1` datagrams;
- `ToldRight`: its callback has heard exactly what belongs to that place.

Each operation preserves it (one lemma each; `DeleteMsg` for a message of any kind, as the program deletes whatever has the mid), and it implies

- `TypeCorrect`, `OneVerdictHolds`, `AccountedHolds`: the invariants, for any number of messages and tries;
- `StaysOutHolds`: nothing that left is queued, sent or reported on again;
- `HeadwayHolds`: the argument behind `Settles`, which itself is only model-checked. A pass sends a due message, or it has erased one before it; and nothing is ever put before it, as `push_back` adds at the end. So it misses at most as many passes as messages were before it, and then uses one of its tries. The proof follows the pass (`TraverseHeadway`): the element skipped after an erase has its predecessor erased;
- `PoolImplementsCourier`: initial states map to initial states and each step to a step of the Courier or to none. `Budget` gives that a message fails after exactly `MaxTryTimes + 1` attempts, `IssuedBelow` that numbers are given out in order.

### Making friends (`FriendHandshakeProofs`)

The properties speak of A's list, but the entry is only the last step of a reply that has been on its way for long. `HandshakeInv` says of a "yes" in the network, or in the hands of a handler, what the properties say of the entry:

- `YesIsMeant`, `YesIsEntered`: while a yes is out, B's user agreed, and B lists A, is about to, or the entry was dropped;
- `TempWasAsked`: a temporary entry, or a handler that has seen one, means that A's user asked in this run. The entry itself may be gone when the handler goes on, so it must be said of the handler;
- `AddingHasPrompt`: the UI of B answers a prompt that exists, so the counter of prompts stays natural.

They yield `HandshakeTypeCorrect`, `FriendWasAgreedHolds`, `MutualOrDroppedHolds` and `AddedWasAskedHolds` for any number of requests, prompts and handlers.

### Presence (`PresenceProofs`)

`HeartbeatMatchesState` is about listed friends. To be kept by callbacks and by `DeleteUser`, it has to be said of all friends, and in both directions: a friend is online exactly if its `ackMsgid` is not 0 (`BeatWhileOnline`), `ackMsgid` is then the mid of an eternal entry of its own, and the friend is listed (`BeatIsOwn`), and each eternal entry has such an owner (`BeatHasOwner`). The code tests `ackMsgid` against 0 although 0 is a mid; that is right only because mid 0 always goes to the question whether the first friend is online (`LoadedHasMid`). An acknowledgement may delete any message, a heartbeat too, for which nobody then makes another; so `BeatOf` says of a heartbeat that it is queued or was deleted that way (`lost`), and nothing has to be known of the mids that handlers carry. The pool's variables change only through operations of `AckPool`, so the lemmas about the pool carry over, and `PresenceImplementsPool` follows: each step of the program is a step of the pool or leaves it alone. So everything the pool promises by itself holds in the program, without a second proof: `PoolInPresence` (one verdict, nothing lost, nothing that comes back, headway), and, as refinements compose, `PresenceImplementsCourier`. `PresTypeCorrect`, `HeartbeatMatchesStateHolds` and `NoOrphanHeartbeatHolds` are the other results.

### Texts (`TextChatProofs`)

An acknowledgement knows only a mid. `ChatInv` has three parts beyond types and the pool:

- `MidsRight`: the pool of A holds texts only, a mid and its text point at each other, and in its first life A has not forgotten the text of any mid (`FirstLife`, which is what makes a report true of the right text);
- `ArrivalsRight`: what is under way or was received has been sent, and an acknowledgement under way answers a text that B received under that mid (`AckHasCause`);
- `CopiesRight`: copies under way, in hand and in B's history are together at most what the pool sent of the mid and the network duplicated, while A knows the mid; the pool's own budget bounds what it sent.

They yield `ChatTypeCorrect`, `ConfirmationHasCauseHolds` and `ChatImplementsConversation`: initial states map to initial states, and each step of A, of B or of the network to a step of `Conversation` or to none. `FirstLife` gives that a confirmed text was taken unless A was restarted, the copies that none is recorded more often than it could arrive, and the pool that an open text gets one verdict. What the user may rely on is then proved of `Conversation` alone, where it is short, and carried over: `VerdictsReliable`. In each life of A its pool is used as `AckPool` says (`ChatUsesPool`), so that texts on their way make headway too: `PoolInChat`.

### Unread messages (`WindowAndLockProofs`)

A click reads and pops without looking. That the message the tip was made for is still there has to be kept from the moment the tip is made, which is what `ChoiceHasMessage` says; that the top is this one or a later one follows from the order in which messages arrive (`Pushed`). `OneEach` says that each message that arrived has at most one call, post or tip that is still to come to an end, which bounds the counts; `ClickHasTip` that a click in progress has its tip. `NeverForgotten` is inductive with these. Results: `UnreadTypeCorrect`, `ChoiceHasMessageHolds`, `NeverForgottenHolds`.

### History pages (`WindowAndLockProofs`)

Pages are intervals of ids. The lemmas say which interval a query returns for each position and cut-off (`PageBefore` and its like), and the ends that the window keeps follow. Results: `HistoryTypeCorrect`, `BackIsSeamlessHolds`, `ForwardGoesOnHolds`, for every page size and any number of records.

### Files in texts (`ChatFilesProofs`)

What a text shows comes to light last and is decided early. The invariant follows a number from the text of A to the text of B:

- `WrittenRight`: which numbers of a text are files is settled when it is written; a number above the last file is none for ever;
- `ListedRight`: while A works through a text, its files are listed or still to be, and nothing else is listed;
- `EntriesRight`: what A pushed is a file of A, under way and in the list of B, and the one of its number as long as A was not restarted and nothing broke off;
- `HandlersRight`: in the hands of B, the numbers that were handled come before those that are left in the order of their names, a number that is left stands for itself, and one that was handled is 0 or a position that answers it.

The last is delicate, as `regex_replace` acts on the text as it stands: a position put for one number can equal a number that is still left, and is then replaced with it. It leads to a file of A in any case, which is all that `NoDangling` says. For `ShownIsOfText` the invariant says where it leads (`Answers`): to the whole file of the number itself or of one that comes later in the order, as a position that equals a number still left can only be replaced by that number's own answer. Going through the numbers is going through a sequence (`Todo`, `HeadAndTail`). Positions stay valid because the list only grows until a restart of B, which ends the handlers. Results: `FilesTypeCorrect`, `NoDanglingHolds`, `ShownIsOfTextHolds`.

`AdvanceHolds` is the argument behind `TakenIsShown`, which itself is only model-checked. A handler that is busy always has a next thing to do (`NeverIdle`): a number that comes first in the order of names, by the well-foundedness of the natural numbers (`Least`), which is listed as pushed or by name; or the text to show. And what it does leaves it fewer numbers, or a look fewer at the first one (`Advance`), while no step of A, of other handlers or of arriving files gives it more.

### Friends in memory and in the database (`UserStoreProofs`)

`MemoryMatchesRows` speaks of states without a batch. Everything rests on the uids up to `seq` being used up. While `AddUsers` is at work, its entries in memory are exactly those after `seq` up to the last it gave out, and the transaction has written them up to some point, each where its entry already is (`Batching`). A uid that was given out names the friend it was given to or nobody, and so does a uid that a handler found (`JobsRight`) or that has a history (`HistoryRight`). A kill in the middle falls back to the table, for which all of this holds by itself; `Loading` carries it through the next start. As long as every row was written these parts are inductive together (`Agreed`); `OneUidEach` needs no such excuse within a run. Results: `StoreTypeCorrect`, `OneUidEachHolds`, `MemoryMatchesRowsHolds`, `HistoryIsOwnHolds`, `NobodyVanishesHolds`.

### Accounts and listeners (`NetworkProofs`)

`ShownIsReal` compares state, flag and pointer, which three different callbacks set. As long as no thread runs on a deleted client and never two were at work, there is at most one thread at work, and the invariant says for each of its steps, and for a send of the user that is failing, what flag, pointer and connection are (`Sole`): it is what a session that is up is shown by. The converse, that nothing is shown without a session, is what a send that fails before `onConnect` is done may break, so it is carried by a part of its own (`Whole`) that holds while `broken` does not. A client is made once (`MadeOnce`), so a thread whose client was deleted never finds it again, and the step at which it is excused lasts. `ChangeIsTriedHolds` follows from the same invariant: an account that is shown as connected, with neither excuse, has a thread that is not over. Results: `AccountTypeCorrect`, `ShownIsRealHolds`, `ChangeIsTriedHolds`.

`PortsStayOpen` is carried by Winsock's count. Without a half-built port two things close a socket and give a use back: `release_socket` for a TCP half, and the thread of a UDP listener that failed to receive, for its own. `UsesKept` says that a use is counted for each listener of a port that was taken (`Kept`) and each half that is pending (`TcpUse`, `UdpUse`), but for a UDP listener whose thread is over (`Ended`). So the last use is never given back while one of them is left, and what is closed is the listener meant (`Opened`; `ThreadsOpen` says that a thread that has not closed yet has its own listener open). That a half-built port stays one (`Order`, `NoHalf`) makes the excuse permanent, so that `NoHalf => Opened` is inductive. Results: `ListenersTypeCorrect`, `PortsStayOpenHolds`.

### Locks (`WindowAndLockProofs`)

The jobs nest sections in many orders, so that one cannot simply number the sections. What `LockInv` says instead is that six of the eight sections (`Leaves`) are left in the step after they are entered: the rest of every job has this form (`LeafShort`), which joining and nesting of jobs keep. A thread inside one of them is about to leave it and waits for nothing (`LeafOwner`), so threads that wait in a circle wait for the pool and the user list only. `OneCircleHolds` follows for any number of threads. It has a hypothesis of its own, that `NoThread` is not a thread; TLC evaluates assumptions in passing runs only, and the run of `LockOrder` ends in its counterexample.

### Only model-checked

Liveness (`Settles`, the liveness of the Courier, `SilentGoesOffline`, `NoSilentLoss`, `TakenIsShown`, `EveryMessageSettled`) is outside what the prover handles; of `ImplementsCourier` the safety part is proved, and of the arguments behind `Settles` and `TakenIsShown` the part that is about single steps (`HeadwayHolds`, `AdvanceHolds`). The two counterexamples are TLC's.

## 7. What is not modelled

- **Friends of server accounts**: presences and cards of an account's friends, requests to be a friend over XMPP, and the files of accounts. They call the user list and the lists of files in the ways that are modelled, and add only data of gloox; the transfers themselves run inside gloox.
- **Groups, cards and profile updates of friends**: data of a friend that no property depends on. That a changed friend is stored is in `UserStore`.
- **Sockets**: system calls and framing beyond the listeners. The models assume what they promise: a datagram is lost, copied or late, and this program sends none over 1024 bytes (one that comes from elsewhere ends the thread of the UDP listener, which is in `Listeners`); TCP breaks off or falls silent.
- **Tables of accounts and of the own profile**: read at the start and written when the user changes them.
- **Data races**: reference counts of `Handle`, and the container that `Init` fills without the lock while handlers look it up. That a friend is looked up before all are entered is modelled.
- **Multicast search, own profile, head images, image conversion, IP location**: data that no property depends on.
- **Lua bridge and layouts**: conversions and drawing; the calls that change state are modelled with their component.
- **Mutexes inside gloox**: they guard single sends and receives and are left before the callbacks are called; `LockOrder` does not have them.
- **gloox, SQLite, JSON, libpng, libjpeg, the IP database**: third-party code.

## 8. Plan

Done, in the order of importance: pool, presence, lock order, unread messages, history, texts end to end, making friends, files in texts, friends in the database, accounts, listeners; and the proofs of section 6.

Next:

1. The composition of `ServerAccounts` and `UserStore`: the roster arrives in the session, and the friends of an account keep their uids through reconnections.
2. Files of accounts in the lists `ChatFiles` models, with a transfer whose end is reported wrongly.
3. An abstract specification of friendship between two users that `FriendHandshake` implements.
