------------------------------ MODULE UserStore ------------------------------
(***************************************************************************)
(* The friends in memory (UserList::users) and in the database             *)
(* (peers_profile), and the histories that are kept by uid                 *)
(* (chat_with_<uid>).                                                      *)
(*                                                                         *)
(* AddUser inserts a row first and takes the uid the database gave it.     *)
(* AddUsers, which enters the roster an account received at login, does    *)
(* the opposite: it reads the last uid the table has given out, gives the  *)
(* uids after it to the new friends in memory, and then inserts the rows   *)
(* in a transaction, in which a row that fails is passed over.  A name is  *)
(* put into the statement as it stands, so that a name with an apostrophe  *)
(* never gets a row.                                                       *)
(*                                                                         *)
(* Friends are numbers in the order of the roster, which is the order of   *)
(* their accounts.  The operations hold the lock of the list; AddUsers     *)
(* holds it over several steps here (batch), because the process can end   *)
(* between any two of them.                                                *)
(***************************************************************************)
EXTENDS Naturals, FiniteSets

CONSTANTS
    Friends,    \* accounts that may become friends, in the order of a roster
    Refused,    \* those whose name or group contains an apostrophe
    Handlers,   \* threads that call back from the network
    MaxUid,     \* bound of the model: uids given out
    MaxTexts,   \* bound of the model: entries of histories
    MaxFaults   \* bound of the model: times the database does not answer

ASSUME StoreAssumption ==
    /\ Friends \subseteq Nat \ {0}
    /\ Refused \subseteq Friends
    /\ MaxUid \in Nat
    /\ MaxTexts \in Nat
    /\ MaxFaults \in Nat

VARIABLES
    phase,      \* "off", "starting" until UserList::hasInit, "up"
    toLoad,     \* rows Init has read and not yet entered
    users,      \* UserList::users: the friend of each uid
    changed,    \* uids whose UserInfo::hasChange is set
    rows,       \* peers_profile: the friend of each uid
    seq,        \* sqlite_sequence of peers_profile
    history,    \* pairs of a uid and the writer of a text in its history
    batch,      \* AddUsers: what it has done and what it has left
    txn,        \* rows and seq as the transaction of AddUsers sees them
    job,        \* what each handler does next
    slip,       \* history: "now" or "before" when AddUsers met a failure
    faults      \* bound: times the database did not answer

storeVars == <<phase, toLoad, users, changed, rows, seq, history, batch, txn,
               job, slip, faults>>

NoOne == 0
Uids == 1 .. MaxUid
Table == [Uids -> Friends \union {NoOne}]
Empty == [u \in Uids |-> NoOne]

NoBatch == [step |-> "idle", left |-> {}, last |-> 0, at |-> 0]
NoTxn == [rows |-> Empty, seq |-> 0]
NoJob == [op |-> "none", list |-> {}, who |-> NoOne, uid |-> 0]

StoreTypeOK ==
    /\ phase \in {"off", "starting", "up"}
    /\ toLoad \subseteq Uids
    /\ users \in Table
    /\ changed \subseteq Uids
    /\ rows \in Table
    /\ seq \in 0 .. MaxUid
    /\ \A u \in Uids : u > seq => rows[u] = NoOne
    /\ history \subseteq Uids \X Friends
    /\ batch \in [step: {"idle", "list", "write"}, left: SUBSET Friends,
                  last: 0 .. MaxUid, at: 0 .. MaxUid]
    /\ txn \in [rows: Table, seq: 0 .. MaxUid]
    /\ job \in [Handlers -> [op: {"none", "add", "record"}, list: SUBSET Friends,
                             who: Friends \union {NoOne}, uid: 0 .. MaxUid]]
    /\ slip \in {"none", "now", "before"}
    /\ faults \in 0 .. MaxFaults

StoreInit ==
    /\ phase = "off"
    /\ toLoad = {}
    /\ users = Empty
    /\ changed = {}
    /\ rows = Empty
    /\ seq = 0
    /\ history = {}
    /\ batch = NoBatch
    /\ txn = NoTxn
    /\ job = [h \in Handlers |-> NoJob]
    /\ slip = "none"
    /\ faults = 0

-----------------------------------------------------------------------------
(* Pieces of the operations *)

Unlocked == batch.step = "idle"
Running == phase \in {"starting", "up"}

Slipped == IF slip = "before" THEN "before" ELSE "now"

\* FindUser and GetUserUidByServerIdAndUid: the first entry of the friend,
\* 0 if there is none.
Listed(f) == \E u \in Uids : users[u] = f
Finds(f, u) ==
    \/ /\ u = 0
       /\ ~Listed(f)
    \/ /\ u \in Uids
       /\ users[u] = f
       /\ \A v \in Uids : users[v] = f => u <= v

\* Variant: the highest uid in the table, "select max(uid)".
ReadsHighest(last) ==
    /\ last \in {0} \union {u \in Uids : rows[u] # NoOne}
    /\ \A u \in Uids : rows[u] # NoOne => u <= last
    /\ UNCHANGED <<slip, faults>>

\* Variant: one too low.
ReadsLastButOne(last) ==
    /\ last = IF seq = 0 THEN 0 ELSE seq - 1
    /\ UNCHANGED <<slip, faults>>

\* last_insert_peerProfileUid: the last uid the table has given out, or 0
\* if the database does not answer.
ReadsLast(last) ==
    \/ /\ last = seq
       /\ faults' = faults
       /\ slip' = slip
    \/ /\ last = 0
       /\ seq # 0
       /\ faults < MaxFaults
       /\ faults' = faults + 1
       /\ slip' = Slipped

-----------------------------------------------------------------------------
(* Start and end of the program *)

\* Start lets Init read the table; the accounts connect only afterwards.
Start ==
    /\ phase = "off"
    /\ phase' = "starting"
    /\ toLoad' = {u \in Uids : rows[u] # NoOne}
    /\ slip' = IF slip = "none" THEN "none" ELSE "before"
    /\ UNCHANGED <<users, changed, rows, seq, history, batch, txn, job, faults>>

\* UserList::Init enters the rows one by one, without the lock.
Load(u) ==
    /\ phase = "starting"
    /\ u \in toLoad
    /\ \A v \in toLoad : u <= v
    /\ toLoad' = toLoad \ {u}
    /\ users' = [users EXCEPT ![u] = rows[u]]
    /\ UNCHANGED <<phase, changed, rows, seq, history, batch, txn, job, slip, faults>>

InitDone ==
    /\ phase = "starting"
    /\ toLoad = {}
    /\ phase' = "up"
    /\ UNCHANGED <<toLoad, users, changed, rows, seq, history, batch, txn, job, slip,
                   faults>>

\* What a program that has ended leaves behind.
Gone ==
    /\ phase' = "off"
    /\ toLoad' = {}
    /\ users' = Empty
    /\ changed' = {}
    /\ batch' = NoBatch
    /\ txn' = NoTxn
    /\ job' = [h \in Handlers |-> NoJob]

\* update_peerProfile inserts or replaces the row of the uid; a row with a
\* uid above the sequence moves the sequence.
Kept == {u \in changed : users[u] # NoOne /\ users[u] \notin Refused}
Replaced == [u \in Uids |-> IF u \in Kept THEN users[u] ELSE rows[u]]

\* Variant: a table whose sequence does not follow its uids.
QuitBlindly ==
    /\ phase = "up"
    /\ Unlocked
    /\ rows' = Replaced
    /\ Gone
    /\ UNCHANGED <<seq, history, slip, faults>>

\* V6Chat3App::Quit with UserList::Store.
Quit ==
    /\ phase = "up"
    /\ Unlocked
    /\ rows' = Replaced
    /\ seq' \in {s \in {seq} \union Kept : s >= seq /\ \A u \in Kept : s >= u}
    /\ Gone
    /\ UNCHANGED <<history, slip, faults>>

\* The process is ended at any other moment: a transaction that was not
\* committed is lost.
Kill ==
    /\ Running
    /\ Gone
    /\ UNCHANGED <<rows, seq, history, slip, faults>>

-----------------------------------------------------------------------------
(* One friend *)

\* AddUser: RosterAdded, AddFriendAck and OnReplyAddUserMsg enter one friend.
AddUser(f) ==
    /\ phase = "up"
    /\ Unlocked
    /\ ~Listed(f)
    /\ f \notin Refused
    /\ seq < MaxUid
    /\ seq' = seq + 1
    /\ rows' = [rows EXCEPT ![seq + 1] = f]
    /\ users' = [users EXCEPT ![seq + 1] = f]
    /\ changed' = changed \ {seq + 1}
    /\ UNCHANGED <<phase, toLoad, history, batch, txn, job, slip, faults>>

\* UpdateUser: a presence, a group or a port that is new is only marked.
UpdateUser(u) ==
    /\ Running
    /\ Unlocked
    /\ users[u] # NoOne
    /\ changed' = changed \union {u}
    /\ UNCHANGED <<phase, toLoad, users, rows, seq, history, batch, txn, job, slip,
                   faults>>

\* Variant: only the entry in memory is deleted.
DeleteUserInMemory(u) ==
    /\ phase = "up"
    /\ Unlocked
    /\ users[u] # NoOne
    /\ users' = [users EXCEPT ![u] = NoOne]
    /\ changed' = changed \ {u}
    /\ UNCHANGED <<phase, toLoad, rows, seq, history, batch, txn, job, slip, faults>>

\* DeleteUser with UserInfo::Delete and delete_peerProfile.
DeleteUser(u) ==
    /\ phase = "up"
    /\ Unlocked
    /\ users[u] # NoOne
    /\ rows' = [rows EXCEPT ![u] = NoOne]
    /\ users' = [users EXCEPT ![u] = NoOne]
    /\ changed' = changed \ {u}
    /\ UNCHANGED <<phase, toLoad, seq, history, batch, txn, job, slip, faults>>

-----------------------------------------------------------------------------
(* The roster of an account *)

\* RecvAllRosters looks each account up and collects those it does not find.
RecvAllRosters(h) ==
    /\ phase = "up"
    /\ Unlocked
    /\ job[h].op = "none"
    /\ \E roster \in SUBSET Friends :
           LET strangers == {f \in roster : ~Listed(f)}
           IN  /\ strangers # {}
               /\ job' = [job EXCEPT ![h] = [NoJob EXCEPT !.op = "add",
                                                          !.list = strangers]]
    /\ UNCHANGED <<phase, toLoad, users, changed, rows, seq, history, batch, txn, slip,
                   faults>>

\* AddUsers begins; hasInit is always set by then.
AddUsers(h) ==
    /\ phase = "up"
    /\ Unlocked
    /\ job[h].op = "add"
    /\ seq + Cardinality(job[h].list) <= MaxUid
    /\ job' = [job EXCEPT ![h] = NoJob]
    /\ \E last \in 0 .. MaxUid :
           /\ ReadsLast(last)
           /\ batch' = [step |-> "list", left |-> job[h].list,
                        last |-> last, at |-> last]
    /\ UNCHANGED <<phase, toLoad, users, changed, rows, seq, history, txn>>

\* Variant: without the second look under the lock.
AddToListUnchecked ==
    /\ batch.step = "list"
    /\ batch.last < MaxUid
    /\ \E f \in batch.left :
           /\ \A g \in batch.left : f <= g
           /\ users' = [users EXCEPT ![batch.last + 1] = f]
           /\ changed' = changed \ {batch.last + 1}
           /\ batch' = [batch EXCEPT !.left = @ \ {f}, !.last = @ + 1]
    /\ UNCHANGED <<phase, toLoad, rows, seq, history, txn, job, slip, faults>>

\* The loop over the list: the next friend is looked up again, and gets the
\* uid the database is expected to choose for it.
AddToList ==
    /\ batch.step = "list"
    /\ batch.last < MaxUid
    /\ \E f \in batch.left :
           /\ \A g \in batch.left : f <= g
           /\ IF Listed(f)
              THEN /\ batch' = [batch EXCEPT !.left = @ \ {f}]
                   /\ UNCHANGED <<users, changed>>
              ELSE /\ users' = [users EXCEPT ![batch.last + 1] = f]
                   /\ changed' = changed \ {batch.last + 1}
                   /\ batch' = [batch EXCEPT !.left = @ \ {f}, !.last = @ + 1]
    /\ UNCHANGED <<phase, toLoad, rows, seq, history, txn, job, slip, faults>>

\* insert_peersProfile begins its transaction, or cannot open the database.
BeginTransaction ==
    /\ batch.step = "list"
    /\ batch.left = {}
    /\ \/ /\ batch' = [batch EXCEPT !.step = "write"]
          /\ txn' = [rows |-> rows, seq |-> seq]
          /\ UNCHANGED <<slip, faults>>
       \/ /\ faults < MaxFaults
          /\ faults' = faults + 1
          /\ slip' = Slipped
          /\ batch' = NoBatch
          /\ txn' = txn
    /\ UNCHANGED <<phase, toLoad, users, changed, rows, seq, history, job>>

\* One insert of the transaction: the database chooses the uid after the
\* last it has given out; a statement that fails is passed over.
InsertRow ==
    /\ batch.step = "write"
    /\ batch.at < batch.last
    /\ LET f == users[batch.at + 1]
       IN  IF f \in Refused
           THEN /\ slip' = Slipped
                /\ txn' = txn
           ELSE /\ txn.seq < MaxUid
                /\ txn' = [rows |-> [txn.rows EXCEPT ![txn.seq + 1] = f],
                           seq |-> txn.seq + 1]
                /\ slip' = slip
    /\ batch' = [batch EXCEPT !.at = @ + 1]
    /\ UNCHANGED <<phase, toLoad, users, changed, rows, seq, history, job, faults>>

Commit ==
    /\ batch.step = "write"
    /\ batch.at = batch.last
    /\ rows' = txn.rows
    /\ seq' = txn.seq
    /\ batch' = NoBatch
    /\ txn' = NoTxn
    /\ UNCHANGED <<phase, toLoad, users, changed, history, job, slip, faults>>

-----------------------------------------------------------------------------
(* Texts *)

\* RecvText and OnChatWithTextMsg look the writer up; the second ignores
\* strangers, and runs already while Init loads the list ...
RecvText(h, f) ==
    /\ Running
    /\ Unlocked
    /\ job[h].op = "none"
    /\ \E u \in 0 .. MaxUid :
           /\ Finds(f, u)
           /\ u = 0 => phase = "up"
           /\ job' = [job EXCEPT ![h] = [op |-> "record", list |-> {}, who |-> f,
                                         uid |-> u]]
    /\ UNCHANGED <<phase, toLoad, users, changed, rows, seq, history, batch, txn, slip,
                   faults>>

\* ... and UpdateChatContent records the text under the uid in a second hold.
\* An entry that is not there makes an empty Handle, which throws.
UpdateChatContent(h) ==
    /\ Running
    /\ Unlocked
    /\ job[h].op = "record"
    /\ IF job[h].uid \in Uids /\ users[job[h].uid] # NoOne
       THEN /\ Cardinality(history) < MaxTexts
            /\ history' = history \union {<<job[h].uid, job[h].who>>}
            /\ job' = [job EXCEPT ![h] = NoJob]
            /\ UNCHANGED <<phase, toLoad, users, changed, batch, txn>>
       ELSE /\ Gone
            /\ history' = history
    /\ UNCHANGED <<rows, seq, slip, faults>>

-----------------------------------------------------------------------------

StoreNext ==
    \/ Start
    \/ \E u \in Uids : Load(u) \/ UpdateUser(u) \/ DeleteUser(u)
    \/ InitDone
    \/ Quit
    \/ Kill
    \/ \E f \in Friends : AddUser(f)
    \/ \E h \in Handlers : RecvAllRosters(h) \/ AddUsers(h) \/ UpdateChatContent(h)
    \/ \E h \in Handlers, f \in Friends : RecvText(h, f)
    \/ AddToList
    \/ BeginTransaction
    \/ InsertRow
    \/ Commit

StoreSpec == StoreInit /\ [][StoreNext]_storeVars

-----------------------------------------------------------------------------
(* Properties *)

\* UserList::AddUser and AddUsers: a friend is in the list once, whatever
\* handlers, rosters and requests enter it at the same time, and however
\* AddUsers failed in this run.  (After a failure in an earlier run the
\* table itself can hold a friend twice.)
OneUidEach ==
    slip # "before" =>
        \A u, v \in Uids : users[u] = users[v] /\ users[u] # NoOne => u = v

\* UserList::AddUsers, Store and Init: memory and table name the same friend
\* for each uid, although one side chooses the uids in AddUser and the other
\* in AddUsers, and although the process may end in the middle of it.  Only
\* a row that AddUsers counted on and that was not written excuses them.
MemoryMatchesRows ==
    (phase = "up" /\ Unlocked /\ slip = "none") => users = rows

\* UserInfo::RecordText and insert_chatItem: the history of a uid holds the
\* texts of one friend, even after friends were deleted and others were
\* entered: a uid never comes back.
HistoryIsOwn ==
    slip = "none" =>
        \A p, q \in history : p[1] = q[1] => p[2] = q[2]

\* UserList::AddUsers: a friend leaves the list only when it is deleted or
\* the program ends; entering others never takes its place.
NobodyVanishes ==
    [][(slip = "none" /\ phase' # "off") =>
          \A u \in Uids : users[u] # NoOne /\ users'[u] # users[u] => DeleteUser(u)]_storeVars
=============================================================================
