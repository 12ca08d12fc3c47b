--------------------------- MODULE UserStoreProofs ---------------------------
(***************************************************************************)
(* The safety properties of UserStore for any number of friends, handlers, *)
(* uids, texts and failures of the database.                               *)
(*                                                                         *)
(* Everything rests on the uids below seq being used up: the entries that  *)
(* AddUsers makes in memory are all above seq (Batching), a row that is    *)
(* written goes to the place its entry already has, and a uid that a job   *)
(* or a history knows names its friend or nobody (JobsRight,               *)
(* HistoryRight).                                                          *)
(***************************************************************************)
EXTENDS UserStore, TLAPS

TxnBelow == \A u \in Uids : u > txn.seq => txn.rows[u] = NoOne

Writers == \A h \in Handlers : job[h].op = "record" => job[h].who \in Friends

\* What the phases allow: AddUsers runs only when the list is loaded, and a
\* failure of this run cannot be older than the list.
Phases ==
    /\ phase # "up" => Unlocked
    /\ phase = "starting" => slip # "now"
    /\ phase = "off" => users = Empty

RowsDistinct ==
    \A u, v \in Uids : rows[u] = rows[v] /\ rows[u] # NoOne => u = v

\* The entries Init has not come to are empty.
Loading ==
    phase = "starting" =>
        \A u \in Uids : users[u] = IF u \in toLoad THEN NoOne ELSE rows[u]

\* AddUsers at work: the entries after seq, up to last, are its own, and the
\* transaction has written those up to at.
Batching ==
    ~Unlocked =>
        /\ seq <= batch.at
        /\ batch.at <= batch.last
        /\ \A u \in Uids : u <= seq => users[u] = rows[u]
        /\ \A u \in Uids : seq < u /\ u <= batch.last => users[u] # NoOne
        /\ \A u \in Uids : u > batch.last => users[u] = NoOne
        /\ batch.step = "list" => batch.at = seq
        /\ batch.step = "write" =>
              /\ txn.seq = batch.at
              /\ \A u \in Uids : u <= batch.at => txn.rows[u] = users[u]

UpAgrees == phase = "up" /\ Unlocked => users = rows

\* A uid that was given out names its friend or nobody.
Means(u, f) == u <= seq /\ rows[u] \in {f, NoOne}

JobsRight ==
    \A h \in Handlers :
        job[h].op = "record" /\ job[h].uid \in Uids => Means(job[h].uid, job[h].who)

HistoryRight == \A p \in history : Means(p[1], p[2])

\* What holds as long as every row that was counted on was written.
Agreed ==
    /\ RowsDistinct
    /\ Loading
    /\ Batching
    /\ UpAgrees
    /\ JobsRight
    /\ HistoryRight
    /\ HistoryIsOwn

TypesHold == StoreTypeOK /\ TxnBelow /\ Writers

Consistent == Phases /\ OneUidEach /\ (slip = "none" => Agreed)

StoreInv == TypesHold /\ Consistent

-----------------------------------------------------------------------------
(* Types *)

LEMMA Constants ==
  /\ NoOne = 0
  /\ \A f \in Friends : f \in Nat /\ f # NoOne
  /\ Empty \in Table
  /\ MaxUid \in Nat
  /\ 0 \in 0 .. MaxUid
  /\ NoBatch \in [step: {"idle", "list", "write"}, left: SUBSET Friends,
                  last: 0 .. MaxUid, at: 0 .. MaxUid]
  /\ NoTxn \in [rows: Table, seq: 0 .. MaxUid]
  /\ NoJob \in [op: {"none", "add", "record"}, list: SUBSET Friends,
                who: Friends \union {NoOne}, uid: 0 .. MaxUid]
<1>1. /\ NoOne = 0
      /\ \A f \in Friends : f \in Nat /\ f # NoOne
      /\ MaxUid \in Nat
      /\ 0 \in 0 .. MaxUid
  BY StoreAssumption DEF NoOne
<1>2. Empty \in Table
  BY DEF Empty, Table
<1> QED
  BY <1>1, <1>2 DEF NoBatch, NoTxn, NoJob

\* The steps that leave the table alone, or restore it.
LEMMA TypesOfRunning ==
  ASSUME TypesHold,
         \/ Start \/ InitDone \/ Kill
         \/ \E u \in Uids : Load(u) \/ UpdateUser(u)
         \/ UNCHANGED storeVars
  PROVE  TypesHold'
<1> USE Constants DEF TypesHold, TxnBelow, Writers, Uids
<1>1. CASE Start
  BY <1>1 DEF Start, StoreTypeOK
<1>2. CASE InitDone
  BY <1>2 DEF InitDone, StoreTypeOK
<1>3. CASE Kill
  <2>1. /\ job' \in [Handlers -> [op: {"none", "add", "record"}, list: SUBSET Friends,
                                  who: Friends \union {NoOne}, uid: 0 .. MaxUid]]
        /\ txn' = NoTxn /\ batch' = NoBatch /\ users' = Empty
        /\ toLoad' = {} /\ changed' = {} /\ phase' = "off"
        /\ UNCHANGED <<rows, seq, history, slip, faults>>
    BY <1>3 DEF Kill, Gone
  <2>2. Writers'
    BY <1>3 DEF Kill, Gone, NoJob
  <2> QED
    BY <2>1, <2>2 DEF StoreTypeOK, NoTxn, Empty
<1>4. ASSUME NEW u \in Uids, Load(u)
      PROVE  TypesHold'
  <2>1. users' \in Table
    BY <1>4 DEF Load, StoreTypeOK, Table
  <2> QED
    BY <1>4, <2>1 DEF Load, StoreTypeOK
<1>5. ASSUME NEW u \in Uids, UpdateUser(u)
      PROVE  TypesHold'
  BY <1>5 DEF UpdateUser, StoreTypeOK
<1>6. CASE UNCHANGED storeVars
  BY <1>6 DEF storeVars, StoreTypeOK
<1> QED
  BY <1>1, <1>2, <1>3, <1>4, <1>5, <1>6

LEMMA TypesOfQuit ==
  ASSUME TypesHold, Quit
  PROVE  TypesHold'
<1> USE Constants DEF TypesHold, TxnBelow, Writers
<1>1. /\ rows' = Replaced
      /\ seq' \in {seq} \union Kept /\ seq' >= seq /\ \A u \in Kept : seq' >= u
      /\ phase' = "off" /\ toLoad' = {} /\ users' = Empty /\ changed' = {}
      /\ batch' = NoBatch /\ txn' = NoTxn
      /\ job' = [h \in Handlers |-> NoJob]
      /\ UNCHANGED <<history, slip, faults>>
  BY DEF Quit, Gone
<1>2. Kept \subseteq Uids /\ \A u \in Kept : users[u] \in Friends
  BY DEF Kept, StoreTypeOK, Table
<1>3. rows' \in Table
  BY <1>1, <1>2 DEF Replaced, StoreTypeOK, Table
<1>4. seq' \in 0 .. MaxUid
  BY <1>1, <1>2 DEF StoreTypeOK, Uids
<1>5. \A u \in Uids : u > seq' => rows'[u] = NoOne
  BY <1>1, <1>2, <1>4 DEF Replaced, StoreTypeOK, Uids
<1>6. job' \in [Handlers -> [op: {"none", "add", "record"}, list: SUBSET Friends,
                             who: Friends \union {NoOne}, uid: 0 .. MaxUid]]
  BY <1>1
<1>7. Writers'
  BY <1>1 DEF NoJob
<1> QED
  BY <1>1, <1>3, <1>4, <1>5, <1>6, <1>7 DEF StoreTypeOK, NoTxn, Empty

LEMMA TypesOfOne ==
  ASSUME TypesHold,
         \/ \E f \in Friends : AddUser(f)
         \/ \E u \in Uids : DeleteUser(u)
  PROVE  TypesHold'
<1> USE Constants DEF TypesHold, TxnBelow, Writers
<1>1. ASSUME NEW f \in Friends, AddUser(f)
      PROVE  TypesHold'
  <2>1. seq + 1 \in Uids
    BY <1>1 DEF AddUser, StoreTypeOK, Uids
  <2>2. rows' \in Table /\ users' \in Table
    BY <1>1, <2>1 DEF AddUser, StoreTypeOK, Table
  <2>3. seq' \in 0 .. MaxUid
    BY <1>1 DEF AddUser, StoreTypeOK
  <2>4. \A u \in Uids : u > seq' => rows'[u] = NoOne
    BY <1>1, <2>1 DEF AddUser, StoreTypeOK, Table, Uids
  <2> QED
    BY <1>1, <2>2, <2>3, <2>4 DEF AddUser, StoreTypeOK
<1>2. ASSUME NEW u \in Uids, DeleteUser(u)
      PROVE  TypesHold'
  <2>1. rows' \in Table /\ users' \in Table
    BY <1>2 DEF DeleteUser, StoreTypeOK, Table
  <2>2. \A v \in Uids : v > seq' => rows'[v] = NoOne
    BY <1>2 DEF DeleteUser, StoreTypeOK, Table
  <2> QED
    BY <1>2, <2>1, <2>2 DEF DeleteUser, StoreTypeOK
<1> QED
  BY <1>1, <1>2

LEMMA TypesOfJobs ==
  ASSUME TypesHold, NEW h \in Handlers,
         \/ RecvAllRosters(h)
         \/ AddUsers(h)
         \/ UpdateChatContent(h)
         \/ \E f \in Friends : RecvText(h, f)
  PROVE  TypesHold'
<1> USE Constants DEF TypesHold, TxnBelow, Writers
<1> DEFINE Jobs == [op: {"none", "add", "record"}, list: SUBSET Friends,
                    who: Friends \union {NoOne}, uid: 0 .. MaxUid]
<1>0. job \in [Handlers -> Jobs] /\ NoJob \in Jobs
  BY DEF StoreTypeOK
<1>1. CASE RecvAllRosters(h)
  <2>1. PICK list \in SUBSET Friends :
          job' = [job EXCEPT ![h] = [NoJob EXCEPT !.op = "add", !.list = list]]
    BY <1>1 DEF RecvAllRosters
  <2>2. [NoJob EXCEPT !.op = "add", !.list = list] \in Jobs
    BY <1>0
  <2>3. job' \in [Handlers -> Jobs] /\ Writers'
    BY <1>0, <2>1, <2>2
  <2> QED
    BY <1>1, <2>3 DEF RecvAllRosters, StoreTypeOK
<1>2. CASE AddUsers(h)
  <2>1. job' \in [Handlers -> Jobs]
    BY <1>0, <1>2 DEF AddUsers
  <2>2. PICK last \in 0 .. MaxUid :
          /\ ReadsLast(last)
          /\ batch' = [step |-> "list", left |-> job[h].list, last |-> last, at |-> last]
    BY <1>2 DEF AddUsers
  <2>3. batch' \in [step: {"idle", "list", "write"}, left: SUBSET Friends,
                    last: 0 .. MaxUid, at: 0 .. MaxUid]
    BY <1>0, <2>2
  <2>4. slip' \in {"none", "now", "before"} /\ faults' \in 0 .. MaxFaults
    BY <2>2, StoreAssumption DEF ReadsLast, Slipped, StoreTypeOK
  <2>5. Writers'
    BY <1>0, <1>2 DEF AddUsers, NoJob
  <2> QED
    BY <1>2, <2>1, <2>3, <2>4, <2>5 DEF AddUsers, StoreTypeOK
<1>3. CASE UpdateChatContent(h)
  <2>1. CASE job[h].uid \in Uids /\ users[job[h].uid] # NoOne
    <3>1. job' \in [Handlers -> Jobs]
      BY <1>0, <1>3, <2>1 DEF UpdateChatContent
    <3>2. job[h].who \in Friends
      BY <1>3 DEF UpdateChatContent
    <3>3. history' \subseteq Uids \X Friends
      BY <1>3, <2>1, <3>2 DEF UpdateChatContent, StoreTypeOK
    <3>4. Writers'
      BY <1>0, <1>3, <2>1 DEF UpdateChatContent, NoJob
    <3> QED
      BY <1>3, <2>1, <3>1, <3>3, <3>4 DEF UpdateChatContent, StoreTypeOK
  <2>2. CASE ~(job[h].uid \in Uids /\ users[job[h].uid] # NoOne)
    BY <1>3, <2>2, TypesOfRunning DEF UpdateChatContent, Kill
  <2> QED
    BY <2>1, <2>2
<1>4. ASSUME NEW f \in Friends, RecvText(h, f)
      PROVE  TypesHold'
  <2>1. job' \in [Handlers -> Jobs]
    BY <1>0, <1>4 DEF RecvText
  <2> QED
    BY <1>4, <2>1 DEF RecvText, StoreTypeOK
<1> QED
  BY <1>1, <1>2, <1>3, <1>4

LEMMA TypesOfBatch ==
  ASSUME TypesHold,
         AddToList \/ BeginTransaction \/ InsertRow \/ Commit
  PROVE  TypesHold'
<1> USE Constants DEF TypesHold, TxnBelow, Writers
<1> DEFINE Batches == [step: {"idle", "list", "write"}, left: SUBSET Friends,
                       last: 0 .. MaxUid, at: 0 .. MaxUid]
<1>0. batch \in Batches /\ NoBatch \in Batches
  BY DEF StoreTypeOK
<1>1. CASE AddToList
  <2>1. PICK f \in batch.left :
          IF Listed(f)
          THEN /\ batch' = [batch EXCEPT !.left = @ \ {f}]
               /\ UNCHANGED <<users, changed>>
          ELSE /\ users' = [users EXCEPT ![batch.last + 1] = f]
               /\ changed' = changed \ {batch.last + 1}
               /\ batch' = [batch EXCEPT !.left = @ \ {f}, !.last = @ + 1]
    BY <1>1 DEF AddToList
  <2>2. /\ f \in Friends
        /\ batch.last \in 0 .. MaxUid /\ batch.last < MaxUid
        /\ batch.last + 1 \in Uids
    <3>1. f \in Friends /\ batch.last \in 0 .. MaxUid
      BY <1>0
    <3>2. batch.last < MaxUid
      BY <1>1 DEF AddToList
    <3> QED
      BY <3>1, <3>2 DEF Uids
  <2>3. users' \in Table /\ changed' \subseteq Uids
    BY <2>1, <2>2 DEF StoreTypeOK, Table
  <2>4. batch' \in Batches
    <3>1. batch.last + 1 \in 0 .. MaxUid
      BY <2>2
    <3>2. [batch EXCEPT !.left = @ \ {f}, !.last = @ + 1] \in Batches
      BY <1>0, <3>1
    <3>3. [batch EXCEPT !.left = @ \ {f}] \in Batches
      BY <1>0
    <3> QED
      BY <2>1, <3>2, <3>3
  <2> QED
    BY <1>1, <2>3, <2>4 DEF AddToList, StoreTypeOK
<1>2. CASE BeginTransaction
  <2>1. batch' \in Batches
    BY <1>0, <1>2 DEF BeginTransaction
  <2>2. txn' \in [rows: Table, seq: 0 .. MaxUid]
    BY <1>2 DEF BeginTransaction, StoreTypeOK
  <2>3. \A u \in Uids : u > txn'.seq => txn'.rows[u] = NoOne
    BY <1>2 DEF BeginTransaction, StoreTypeOK
  <2>4. slip' \in {"none", "now", "before"} /\ faults' \in 0 .. MaxFaults
    BY <1>2, StoreAssumption DEF BeginTransaction, Slipped, StoreTypeOK
  <2> QED
    BY <1>2, <2>1, <2>2, <2>3, <2>4 DEF BeginTransaction, StoreTypeOK
<1>3. CASE InsertRow
  <2>1. batch.at + 1 \in Uids /\ users[batch.at + 1] \in Friends \union {NoOne}
    BY <1>0, <1>3 DEF InsertRow, StoreTypeOK, Table, Uids
  <2>2. batch' \in Batches
    BY <1>0, <1>3, <2>1 DEF InsertRow, Uids
  <2>3. slip' \in {"none", "now", "before"}
    BY <1>3 DEF InsertRow, Slipped, StoreTypeOK
  <2>4. \/ txn' = txn
        \/ /\ txn.seq < MaxUid
           /\ txn' = [rows |-> [txn.rows EXCEPT ![txn.seq + 1] = users[batch.at + 1]],
                      seq |-> txn.seq + 1]
    BY <1>3 DEF InsertRow
  <2>5. txn' \in [rows: Table, seq: 0 .. MaxUid]
    <3>1. txn.rows \in Table /\ txn.seq \in 0 .. MaxUid
      BY DEF StoreTypeOK
    <3>2. [txn.rows EXCEPT ![txn.seq + 1] = users[batch.at + 1]] \in Table
      BY <2>1, <3>1 DEF Table
    <3>3. txn.seq < MaxUid => txn.seq + 1 \in 0 .. MaxUid
      BY <3>1
    <3> QED
      BY <2>4, <3>2, <3>3 DEF StoreTypeOK
  <2>6. \A u \in Uids : u > txn'.seq => txn'.rows[u] = NoOne
    <3>1. txn.rows \in Table /\ txn.seq \in 0 .. MaxUid
      BY DEF StoreTypeOK
    <3>2. \A u \in Uids : u > txn.seq + 1 =>
             [txn.rows EXCEPT ![txn.seq + 1] = users[batch.at + 1]][u] = NoOne
      BY <3>1 DEF Table, Uids
    <3>3. CASE txn' = txn
      BY <3>3
    <3>4. CASE txn' = [rows |-> [txn.rows EXCEPT ![txn.seq + 1] = users[batch.at + 1]],
                       seq |-> txn.seq + 1]
      BY <3>2, <3>4
    <3> QED
      BY <2>4, <3>3, <3>4
  <2> QED
    BY <1>3, <2>2, <2>3, <2>5, <2>6 DEF InsertRow, StoreTypeOK
<1>4. CASE Commit
  BY <1>4 DEF Commit, StoreTypeOK, NoTxn, Empty
<1> QED
  BY <1>1, <1>2, <1>3, <1>4

-----------------------------------------------------------------------------
(* Memory, table, jobs and histories *)

\* The table of types in the form the steps below need.
LEMMA Tables ==
  ASSUME StoreInv
  PROVE  /\ \A u \in Uids : u \in Nat /\ u # 0 /\ u <= MaxUid
         /\ users \in [Uids -> Friends \union {NoOne}]
         /\ rows \in [Uids -> Friends \union {NoOne}]
         /\ seq \in Nat
         /\ \A u \in Uids : u > seq => rows[u] = NoOne
         /\ history \subseteq Uids \X Friends
         /\ \A f \in Friends : f # NoOne
BY Constants DEF StoreInv, TypesHold, StoreTypeOK, Table, Uids

\* A program that ends leaves the table and the histories as they are.
LEMMA KillStep ==
  ASSUME StoreInv, Gone, UNCHANGED <<rows, seq, history, slip, faults>>
  PROVE  Consistent'
<1> USE DEF StoreInv, Consistent, Gone
<1>1. Phases'
  BY DEF Phases, Unlocked, NoBatch, Empty
<1>2. OneUidEach'
  BY DEF OneUidEach, Empty
<1>3. ASSUME slip' = "none"
      PROVE  Agreed'
  BY <1>3 DEF Agreed, RowsDistinct, Loading, Batching, UpAgrees, JobsRight, HistoryRight,
              HistoryIsOwn, Means, Unlocked, NoBatch, NoJob
<1> QED
  BY <1>1, <1>2, <1>3

\* Store writes what the table has, unless a row was lost before.
LEMMA QuitStep ==
  ASSUME StoreInv, Quit
  PROVE  Consistent'
<1> USE DEF StoreInv, Consistent
<1>1. Gone /\ phase = "up" /\ Unlocked /\ rows' = Replaced /\ seq' >= seq
      /\ UNCHANGED <<history, slip>>
  BY DEF Quit
<1>2. Phases'
  BY <1>1 DEF Phases, Unlocked, NoBatch, Empty, Gone
<1>3. OneUidEach'
  BY <1>1 DEF OneUidEach, Empty, Gone
<1>4. ASSUME slip' = "none"
      PROVE  Agreed'
  <2>1. Agreed /\ users = rows
    BY <1>1, <1>4 DEF Agreed, UpAgrees
  <2>2. rows' = rows
    BY <1>1, <2>1, Tables DEF Replaced
  <2>3. seq' \in Nat
    <3>1. seq' \in {seq} \union Kept
      BY DEF Quit
    <3>2. Kept \subseteq Uids
      BY DEF Kept, TypesHold, StoreTypeOK
    <3>3. \A u \in Kept : u \in Nat
      BY <3>2, Tables
    <3> QED
      BY <3>1, <3>3, Tables
  <2>4. \A u \in Uids : u <= seq => u <= seq'
    BY <1>1, <2>3, Tables
  <2>5. HistoryRight'
    BY <1>1, <2>1, <2>2, <2>4, Tables DEF Agreed, HistoryRight, Means
  <2> QED
    <3>1. RowsDistinct' /\ HistoryIsOwn'
      BY <1>1, <1>4, <2>1, <2>2 DEF Agreed, RowsDistinct, HistoryIsOwn
    <3>2. Loading' /\ Batching' /\ UpAgrees' /\ JobsRight'
      BY <1>1 DEF Loading, Batching, UpAgrees, JobsRight, Unlocked, NoBatch, NoJob, Gone
    <3> QED
      BY <2>5, <3>1, <3>2 DEF Agreed
<1> QED
  BY <1>2, <1>3, <1>4

\* Start and Load: the list becomes what the table is.
LEMMA StartStep ==
  ASSUME StoreInv, Start \/ InitDone \/ \E u \in Uids : Load(u)
  PROVE  Consistent'
<1> USE DEF StoreInv, Consistent
<1>1. CASE Start
  <2>1. users = Empty /\ Unlocked
    BY <1>1 DEF Start, Phases
  <2>2. Phases'
    BY <1>1, <2>1 DEF Start, Phases, Unlocked
  <2>3. OneUidEach'
    BY <1>1, <2>1 DEF Start, OneUidEach, Empty
  <2>4. ASSUME slip' = "none"
        PROVE  Agreed'
    <3>1. Agreed
      BY <1>1, <2>4 DEF Start
    <3>2. Loading'
      BY <1>1, <2>1 DEF Start, Loading, Empty
    <3> QED
      BY <1>1, <2>1, <3>1, <3>2
      DEF Start, Agreed, RowsDistinct, Batching, UpAgrees, JobsRight, HistoryRight,
          HistoryIsOwn, Means, Unlocked
  <2> QED
    BY <2>2, <2>3, <2>4
<1>2. CASE InitDone
  <2>1. Unlocked
    BY <1>2 DEF InitDone, Phases
  <2>2. Phases' /\ OneUidEach'
    BY <1>2, <2>1 DEF InitDone, Phases, OneUidEach, Unlocked
  <2>3. ASSUME slip' = "none"
        PROVE  Agreed'
    <3>1. Agreed
      BY <1>2, <2>3 DEF InitDone
    <3>2. users = rows
      BY <1>2, <3>1, Tables DEF InitDone, Agreed, Loading
    <3> QED
      BY <1>2, <2>1, <3>1, <3>2
      DEF InitDone, Agreed, RowsDistinct, Loading, Batching, UpAgrees, JobsRight,
          HistoryRight, HistoryIsOwn, Means, Unlocked
  <2> QED
    BY <2>2, <2>3
<1>3. ASSUME NEW u \in Uids, Load(u)
      PROVE  Consistent'
  <2>1. /\ phase = "starting" /\ phase' = "starting"
        /\ toLoad' = toLoad \ {u} /\ users' = [users EXCEPT ![u] = rows[u]]
        /\ UNCHANGED <<rows, seq, history, batch, txn, job, slip>>
    BY <1>3 DEF Load
  <2>2. Phases' /\ Unlocked
    BY <2>1 DEF Phases, Unlocked
  <2>3. ASSUME slip # "before"
        PROVE  Agreed' /\ OneUidEach'
    <3>1. Agreed
      BY <2>1, <2>3 DEF Phases, TypesHold, StoreTypeOK
    <3>2. Loading'
      BY <2>1, <3>1, Tables DEF Agreed, Loading
    <3>3. OneUidEach'
      BY <2>1, <3>1, <3>2 DEF Agreed, Loading, RowsDistinct, OneUidEach
    <3> QED
      BY <2>1, <2>2, <3>1, <3>2, <3>3
      DEF Agreed, RowsDistinct, Batching, UpAgrees, JobsRight, HistoryRight,
          HistoryIsOwn, Means, Unlocked
  <2> QED
    BY <2>1, <2>2, <2>3 DEF OneUidEach
<1> QED
  BY <1>1, <1>2, <1>3

\* A friend alone: the database chooses its uid, and deletes by uid.
LEMMA OneFriendStep ==
  ASSUME StoreInv,
         \/ \E f \in Friends : AddUser(f)
         \/ \E u \in Uids : DeleteUser(u) \/ UpdateUser(u)
  PROVE  Consistent'
<1> USE DEF StoreInv, Consistent
<1>1. ASSUME NEW f \in Friends, AddUser(f)
      PROVE  Consistent'
  <2>1. /\ phase = "up" /\ phase' = "up" /\ Unlocked /\ Unlocked' /\ ~Listed(f)
        /\ seq' = seq + 1
        /\ rows' = [rows EXCEPT ![seq + 1] = f]
        /\ users' = [users EXCEPT ![seq + 1] = f]
        /\ UNCHANGED <<history, job, slip>>
    BY <1>1 DEF AddUser, Unlocked
  <2>2. seq + 1 \in Uids
    BY <1>1, Constants, Tables DEF AddUser, Uids
  <2>3. Phases'
    BY <2>1 DEF Phases
  <2>4. OneUidEach'
    BY <2>1, <2>2, Tables DEF OneUidEach, Listed
  <2>5. ASSUME slip' = "none"
        PROVE  Agreed'
    <3>1. Agreed /\ users = rows
      BY <2>1, <2>5 DEF Agreed, UpAgrees
    <3>2. RowsDistinct'
      BY <2>1, <2>2, <3>1, Tables DEF Agreed, RowsDistinct, Listed
    <3>3. \A u \in Uids, g \in Friends : Means(u, g) => Means(u, g)'
      BY <2>1, <2>2, Tables DEF Means
    <3>4. JobsRight'
      BY <2>1, <3>1, <3>3 DEF Agreed, JobsRight, TypesHold, Writers
    <3>5. HistoryRight'
      BY <2>1, <3>1, <3>3, Tables DEF Agreed, HistoryRight
    <3>6. Loading' /\ Batching' /\ UpAgrees'
      BY <2>1, <3>1 DEF Loading, Batching, UpAgrees
    <3> QED
      BY <2>1, <3>1, <3>2, <3>4, <3>5, <3>6 DEF Agreed, HistoryIsOwn
  <2> QED
    BY <2>3, <2>4, <2>5
<1>2. ASSUME NEW u \in Uids, DeleteUser(u)
      PROVE  Consistent'
  <2>1. /\ phase = "up" /\ phase' = "up" /\ Unlocked /\ Unlocked'
        /\ rows' = [rows EXCEPT ![u] = NoOne]
        /\ users' = [users EXCEPT ![u] = NoOne]
        /\ UNCHANGED <<seq, history, job, slip>>
    BY <1>2 DEF DeleteUser, Unlocked
  <2>2. Phases'
    BY <2>1 DEF Phases
  <2>3. OneUidEach'
    BY <2>1, Tables DEF OneUidEach
  <2>4. ASSUME slip' = "none"
        PROVE  Agreed'
    <3>1. Agreed /\ users = rows
      BY <2>1, <2>4 DEF Agreed, UpAgrees
    <3>2. RowsDistinct'
      BY <2>1, <3>1, Tables DEF Agreed, RowsDistinct
    <3>3. \A v \in Uids, g \in Friends : Means(v, g) => Means(v, g)'
      BY <2>1, Tables DEF Means
    <3>4. JobsRight'
      BY <2>1, <3>1, <3>3 DEF Agreed, JobsRight, TypesHold, Writers
    <3>5. HistoryRight'
      BY <2>1, <3>1, <3>3, Tables DEF Agreed, HistoryRight
    <3>6. Loading' /\ Batching' /\ UpAgrees'
      BY <2>1, <3>1 DEF Loading, Batching, UpAgrees
    <3> QED
      BY <2>1, <3>1, <3>2, <3>4, <3>5, <3>6 DEF Agreed, HistoryIsOwn
  <2> QED
    BY <2>2, <2>3, <2>4
<1>3. ASSUME NEW u \in Uids, UpdateUser(u)
      PROVE  Consistent'
  BY <1>3 DEF UpdateUser, Phases, OneUidEach, Agreed, RowsDistinct, Loading, Batching,
              UpAgrees, JobsRight, HistoryRight, HistoryIsOwn, Means, Unlocked
<1> QED
  BY <1>1, <1>2, <1>3

\* The entries AddUsers makes are above seq, where the table has none.
LEMMA BatchStep ==
  ASSUME StoreInv, AddToList \/ BeginTransaction \/ InsertRow \/ Commit
  PROVE  Consistent'
<1> USE DEF StoreInv, Consistent
<1>0. /\ batch.step \in {"idle", "list", "write"}
      /\ batch.last \in 0 .. MaxUid /\ batch.at \in 0 .. MaxUid
      /\ batch.left \subseteq Friends
      /\ batch \in [step: {"idle", "list", "write"}, left: SUBSET Friends,
                    last: 0 .. MaxUid, at: 0 .. MaxUid]
      /\ MaxUid \in Nat
  BY Constants DEF TypesHold, StoreTypeOK
<1>1. ~Unlocked /\ phase = "up"
  BY DEF AddToList, BeginTransaction, InsertRow, Commit, Unlocked, Phases
<1>2. CASE AddToList
  <2>1. PICK f \in batch.left :
          IF Listed(f)
          THEN /\ batch' = [batch EXCEPT !.left = @ \ {f}]
               /\ UNCHANGED <<users, changed>>
          ELSE /\ users' = [users EXCEPT ![batch.last + 1] = f]
               /\ changed' = changed \ {batch.last + 1}
               /\ batch' = [batch EXCEPT !.left = @ \ {f}, !.last = @ + 1]
    BY <1>2 DEF AddToList
  <2>2. /\ batch.step = "list" /\ batch.last < MaxUid
        /\ UNCHANGED <<phase, toLoad, rows, seq, history, txn, job, slip>>
    BY <1>2 DEF AddToList
  <2>3. batch'.step = "list" /\ batch'.at = batch.at
    BY <1>0, <2>1, <2>2
  <2>4. batch.last + 1 \in Uids /\ f \in Friends
    BY <1>0, <2>2 DEF Uids
  <2>5. Phases'
    BY <1>1, <2>2 DEF Phases
  <2>6. OneUidEach'
    BY <2>1, <2>2, <2>4, Tables DEF OneUidEach, Listed
  <2>7. ASSUME slip' = "none"
        PROVE  Agreed'
    <3>1. Agreed
      BY <2>2, <2>7
    <3>2. Batching'
      <4>1. /\ seq = batch.at /\ batch.at <= batch.last
            /\ \A u \in Uids : u <= seq => users[u] = rows[u]
            /\ \A u \in Uids : seq < u /\ u <= batch.last => users[u] # NoOne
            /\ \A u \in Uids : u > batch.last => users[u] = NoOne
        BY <1>1, <2>2, <3>1 DEF Agreed, Batching
      <4>2. CASE Listed(f)
        <5>1. batch'.last = batch.last /\ users' = users
          BY <1>0, <2>1, <4>2
        <5> QED
          BY <2>2, <2>3, <4>1, <5>1, Tables DEF Batching
      <4>3. CASE ~Listed(f)
        <5>1. batch'.last = batch.last + 1 /\ users' = [users EXCEPT ![batch.last + 1] = f]
          BY <1>0, <2>1, <4>3
        <5>2. \A u \in Uids : u <= seq => users'[u] = rows[u]
          BY <1>0, <4>1, <5>1, Tables
        <5>3. \A u \in Uids : seq < u /\ u <= batch.last + 1 => users'[u] # NoOne
          BY <1>0, <2>4, <4>1, <5>1, Tables
        <5>4. \A u \in Uids : u > batch.last + 1 => users'[u] = NoOne
          BY <1>0, <4>1, <5>1, Tables
        <5>5. batch.at <= batch.last + 1
          BY <1>0, <4>1
        <5> QED
          BY <2>2, <2>3, <4>1, <5>1, <5>2, <5>3, <5>4, <5>5, Tables DEF Batching
      <4> QED
        BY <4>2, <4>3
    <3>3. Loading' /\ UpAgrees'
      BY <1>1, <2>2, <2>3 DEF Loading, UpAgrees, Unlocked
    <3> QED
      BY <2>2, <3>1, <3>2, <3>3
      DEF Agreed, RowsDistinct, JobsRight, HistoryRight, HistoryIsOwn, Means
  <2> QED
    BY <2>5, <2>6, <2>7
<1>3. CASE BeginTransaction
  <2>1. /\ batch.step = "list"
        /\ UNCHANGED <<phase, toLoad, users, rows, seq, history, job>>
    BY <1>3 DEF BeginTransaction
  <2>2. \/ /\ batch' = [batch EXCEPT !.step = "write"]
           /\ txn' = [rows |-> rows, seq |-> seq]
           /\ slip' = slip
        \/ slip' = Slipped /\ batch' = NoBatch
    BY <1>3 DEF BeginTransaction
  <2>3. Phases' /\ OneUidEach'
    BY <1>1, <2>1, <2>2 DEF Phases, OneUidEach, Slipped
  <2>4. ASSUME slip' = "none"
        PROVE  Agreed'
    <3>1. /\ batch' = [batch EXCEPT !.step = "write"]
          /\ txn' = [rows |-> rows, seq |-> seq]
          /\ slip = "none"
      BY <2>2, <2>4 DEF Slipped
    <3>2. /\ batch'.step = "write" /\ batch'.at = batch.at /\ batch'.last = batch.last
          /\ txn'.rows = rows /\ txn'.seq = seq
      BY <1>0, <3>1
    <3>3. Batching'
      BY <1>1, <2>1, <3>1, <3>2 DEF Agreed, Batching
    <3>4. Loading' /\ UpAgrees'
      BY <1>1, <2>1, <3>2 DEF Loading, UpAgrees, Unlocked
    <3> QED
      BY <2>1, <3>1, <3>3, <3>4
      DEF Agreed, RowsDistinct, JobsRight, HistoryRight, HistoryIsOwn, Means
  <2> QED
    BY <2>3, <2>4
<1>4. CASE InsertRow
  <2>1. /\ batch.step = "write" /\ batch.at < batch.last
        /\ batch' = [batch EXCEPT !.at = @ + 1]
        /\ UNCHANGED <<phase, toLoad, users, rows, seq, history, job>>
    BY <1>4 DEF InsertRow
  <2>2. \/ slip' = Slipped
        \/ /\ slip' = slip /\ txn.seq < MaxUid
           /\ txn' = [rows |-> [txn.rows EXCEPT ![txn.seq + 1] = users[batch.at + 1]],
                      seq |-> txn.seq + 1]
    BY <1>4 DEF InsertRow
  <2>3. Phases' /\ OneUidEach'
    BY <1>1, <2>1, <2>2 DEF Phases, OneUidEach, Slipped
  <2>4. ASSUME slip' = "none"
        PROVE  Agreed'
    <3>1. /\ slip = "none" /\ Agreed
          /\ txn' = [rows |-> [txn.rows EXCEPT ![txn.seq + 1] = users[batch.at + 1]],
                     seq |-> txn.seq + 1]
      BY <2>2, <2>4 DEF Slipped
    <3>2. /\ batch'.step = "write" /\ batch'.at = batch.at + 1 /\ batch'.last = batch.last
      BY <1>0, <2>1
    <3>3. /\ txn.seq = batch.at /\ seq <= batch.at /\ txn.rows \in Table
          /\ \A u \in Uids : u <= batch.at => txn.rows[u] = users[u]
          /\ \A u \in Uids : u <= seq => users[u] = rows[u]
          /\ \A u \in Uids : seq < u /\ u <= batch.last => users[u] # NoOne
          /\ \A u \in Uids : u > batch.last => users[u] = NoOne
      BY <1>1, <2>1, <3>1 DEF Agreed, Batching, TypesHold, StoreTypeOK
    <3>4. txn'.seq = batch.at + 1
      BY <3>1, <3>3
    <3>5. \A u \in Uids : u <= batch.at + 1 => txn'.rows[u] = users[u]
      BY <1>0, <3>1, <3>3, Tables DEF Table
    <3>6. seq <= batch.at + 1 /\ batch.at + 1 <= batch.last
      BY <1>0, <2>1, <3>3, Tables
    <3>7. Batching'
      BY <2>1, <3>2, <3>3, <3>4, <3>5, <3>6 DEF Batching
    <3>8. Loading' /\ UpAgrees'
      BY <1>1, <2>1, <3>2 DEF Loading, UpAgrees, Unlocked
    <3> QED
      BY <2>1, <3>1, <3>7, <3>8
      DEF Agreed, RowsDistinct, JobsRight, HistoryRight, HistoryIsOwn, Means
  <2> QED
    BY <2>3, <2>4
<1>5. CASE Commit
  <2>1. /\ batch.step = "write" /\ batch.at = batch.last
        /\ rows' = txn.rows /\ seq' = txn.seq /\ batch' = NoBatch
        /\ UNCHANGED <<phase, toLoad, users, history, job, slip>>
    BY <1>5 DEF Commit
  <2>2. Phases' /\ OneUidEach'
    BY <1>1, <2>1 DEF Phases, OneUidEach
  <2>3. ASSUME slip' = "none"
        PROVE  Agreed'
    <3>1. Agreed /\ slip = "none"
      BY <2>1, <2>3
    <3>2. /\ txn.seq = batch.at /\ seq <= batch.at
          /\ txn.rows \in [Uids -> Friends \union {NoOne}]
          /\ \A u \in Uids : u <= batch.at => txn.rows[u] = users[u]
          /\ \A u \in Uids : u <= seq => users[u] = rows[u]
          /\ \A u \in Uids : u > batch.at => users[u] = NoOne /\ txn.rows[u] = NoOne
      BY <1>1, <2>1, <3>1
      DEF Agreed, Batching, TypesHold, TxnBelow, StoreTypeOK, Table
    <3>3. \A u \in Uids : txn.rows[u] = users[u]
      BY <1>0, <3>2, Tables
    <3>4. users = rows'
      BY <2>1, <3>2, <3>3, Tables
    <3>5. RowsDistinct'
      BY <2>1, <3>1, <3>4 DEF RowsDistinct, OneUidEach
    <3>6. \A u \in Uids, g \in Friends : Means(u, g) => Means(u, g)'
      BY <1>0, <2>1, <3>2, <3>3, Tables DEF Means
    <3>7. JobsRight'
      BY <2>1, <3>1, <3>6 DEF Agreed, JobsRight, TypesHold, Writers
    <3>8. HistoryRight'
      BY <2>1, <3>1, <3>6, Tables DEF Agreed, HistoryRight
    <3>9. Loading' /\ Batching' /\ UpAgrees'
      BY <1>1, <2>1, <3>4 DEF Loading, Batching, UpAgrees, Unlocked, NoBatch
    <3> QED
      BY <2>1, <3>1, <3>5, <3>7, <3>8, <3>9 DEF Agreed, HistoryIsOwn
  <2> QED
    BY <2>2, <2>3
<1> QED
  BY <1>2, <1>3, <1>4, <1>5

\* The entry of an unlocked list that is not empty is that of the table.
LEMMA EntryIsRow ==
  ASSUME StoreInv, Agreed, Running, Unlocked, NEW u \in Uids, users[u] # NoOne
  PROVE  rows[u] = users[u] /\ u <= seq
<1>1. rows[u] = users[u]
  BY DEF Agreed, Loading, UpAgrees, Running
<1> QED
  BY <1>1, Tables

\* The threads: a roster that is added, and a text that is recorded under a
\* uid that was looked up in an earlier hold of the lock.
LEMMA JobStep ==
  ASSUME StoreInv, NEW h \in Handlers,
         \/ RecvAllRosters(h)
         \/ AddUsers(h)
         \/ UpdateChatContent(h)
         \/ \E f \in Friends : RecvText(h, f)
  PROVE  Consistent'
<1> USE DEF StoreInv, Consistent
<1> DEFINE Jobs == [op: {"none", "add", "record"}, list: SUBSET Friends,
                    who: Friends \union {NoOne}, uid: 0 .. MaxUid]
<1>0. job \in [Handlers -> Jobs] /\ NoJob \in Jobs
  BY Constants DEF TypesHold, StoreTypeOK
<1>1. CASE RecvAllRosters(h)
  <2>1. PICK list \in SUBSET Friends :
          job' = [job EXCEPT ![h] = [NoJob EXCEPT !.op = "add", !.list = list]]
    BY <1>1 DEF RecvAllRosters
  <2>2. UNCHANGED <<phase, toLoad, users, rows, seq, history, batch, txn, slip>>
    BY <1>1 DEF RecvAllRosters
  <2>3. \A g \in Handlers : job'[g].op = "record" => job'[g] = job[g]
    BY <1>0, <2>1
  <2>4. JobsRight => JobsRight'
    BY <2>2, <2>3 DEF JobsRight, Means
  <2> QED
    BY <2>2, <2>4 DEF Phases, OneUidEach, Agreed, RowsDistinct, Loading, Batching,
                      UpAgrees, HistoryRight, HistoryIsOwn, Means, Unlocked
<1>2. CASE AddUsers(h)
  <2>1. /\ phase = "up" /\ Unlocked
        /\ job' = [job EXCEPT ![h] = NoJob]
        /\ UNCHANGED <<phase, toLoad, users, rows, seq, history, txn>>
    BY <1>2 DEF AddUsers
  <2>2. PICK last \in 0 .. MaxUid :
          /\ ReadsLast(last)
          /\ batch' = [step |-> "list", left |-> job[h].list, last |-> last, at |-> last]
    BY <1>2 DEF AddUsers
  <2>3. Phases' /\ OneUidEach'
    BY <2>1, <2>2 DEF Phases, OneUidEach, ReadsLast, Slipped
  <2>4. ASSUME slip' = "none"
        PROVE  Agreed'
    <3>1. last = seq /\ slip = "none" /\ Agreed
      BY <2>2, <2>4 DEF ReadsLast, Slipped
    <3>2. batch'.step = "list" /\ batch'.at = seq /\ batch'.last = seq
      BY <2>2, <3>1
    <3>3. users = rows
      BY <2>1, <3>1 DEF Agreed, UpAgrees
    <3>4. Batching'
      BY <2>1, <3>2, <3>3, Tables DEF Batching
    <3>5. Loading' /\ UpAgrees'
      BY <2>1, <3>2 DEF Loading, UpAgrees, Unlocked
    <3>6. JobsRight'
      <4>1. \A g \in Handlers : job'[g].op = "record" => job'[g] = job[g]
        BY <1>0, <2>1 DEF NoJob
      <4> QED
        BY <2>1, <3>1, <4>1 DEF Agreed, JobsRight, Means
    <3> QED
      BY <2>1, <3>1, <3>4, <3>5, <3>6
      DEF Agreed, RowsDistinct, HistoryRight, HistoryIsOwn, Means
  <2> QED
    BY <2>3, <2>4
<1>3. CASE UpdateChatContent(h)
  <2> DEFINE u == job[h].uid
             f == job[h].who
  <2>1. CASE u \in Uids /\ users[u] # NoOne
    <3>1. /\ Running /\ Unlocked /\ job[h].op = "record"
          /\ history' = history \union {<<u, f>>}
          /\ job' = [job EXCEPT ![h] = NoJob]
          /\ UNCHANGED <<phase, toLoad, users, rows, seq, batch, txn, slip>>
      BY <1>3, <2>1 DEF UpdateChatContent
    <3>2. Phases' /\ OneUidEach'
      BY <3>1 DEF Phases, OneUidEach, Unlocked
    <3>3. ASSUME slip' = "none"
          PROVE  Agreed'
      <4>1. Agreed
        BY <3>1, <3>3
      <4>2. rows[u] = users[u] /\ u <= seq
        BY <2>1, <3>1, <4>1, EntryIsRow
      <4>3. Means(u, f) /\ rows[u] = f
        BY <2>1, <3>1, <4>1, <4>2 DEF Agreed, JobsRight, Means
      <4>4. HistoryRight'
        BY <3>1, <4>1, <4>3 DEF Agreed, HistoryRight, Means
      <4>5. HistoryIsOwn'
        <5> SUFFICES ASSUME NEW p \in history', NEW q \in history', p[1] = q[1]
                     PROVE  p[2] = q[2]
          BY DEF HistoryIsOwn
        <5>1. \A r \in history' : r[1] = u => r[2] = f
          BY <2>1, <3>1, <4>1, <4>2, <4>3 DEF Agreed, HistoryRight, Means
        <5>2. CASE p \in history /\ q \in history
          BY <3>1, <3>3, <4>1, <5>2 DEF Agreed, HistoryIsOwn
        <5>3. CASE p[1] = u
          <6>1. p[2] = f
            BY <5>1, <5>3
          <6>2. q[2] = f
            BY <5>1, <5>3
          <6> QED
            BY <6>1, <6>2
        <5> QED
          BY <3>1, <5>2, <5>3
      <4>6. JobsRight'
        <5>1. \A g \in Handlers : job'[g].op = "record" => job'[g] = job[g]
          BY <1>0, <3>1 DEF NoJob
        <5> QED
          BY <3>1, <4>1, <5>1 DEF Agreed, JobsRight, Means
      <4> QED
        BY <3>1, <4>1, <4>4, <4>5, <4>6
        DEF Agreed, RowsDistinct, Loading, Batching, UpAgrees, Unlocked
    <3> QED
      BY <3>2, <3>3
  <2>2. CASE ~(u \in Uids /\ users[u] # NoOne)
    BY <1>3, <2>2, KillStep DEF UpdateChatContent
  <2> QED
    BY <2>1, <2>2
<1>4. ASSUME NEW f \in Friends, RecvText(h, f)
      PROVE  Consistent'
  <2>1. PICK u \in 0 .. MaxUid :
          /\ Finds(f, u)
          /\ job' = [job EXCEPT ![h] = [op |-> "record", list |-> {}, who |-> f,
                                        uid |-> u]]
    BY <1>4 DEF RecvText
  <2>2. /\ Running /\ Unlocked
        /\ UNCHANGED <<phase, toLoad, users, rows, seq, history, batch, txn, slip>>
    BY <1>4 DEF RecvText
  <2>3. Phases' /\ OneUidEach'
    BY <2>2 DEF Phases, OneUidEach, Unlocked
  <2>4. ASSUME slip' = "none"
        PROVE  Agreed'
    <3>1. Agreed
      BY <2>2, <2>4
    <3>2. u \in Uids => Means(u, f)
      <4> SUFFICES ASSUME u \in Uids
                   PROVE  Means(u, f)
        OBVIOUS
      <4>1. users[u] = f /\ f # NoOne
        BY <2>1, Tables DEF Finds
      <4> QED
        BY <2>2, <3>1, <4>1, EntryIsRow DEF Means
    <3>3. JobsRight'
      <4> SUFFICES ASSUME NEW g \in Handlers, job'[g].op = "record", job'[g].uid \in Uids
                   PROVE  Means(job[g].uid, job[g].who)'
        BY DEF JobsRight
      <4>1. CASE g = h
        <5>1. job'[g].uid = u /\ job'[g].who = f
          BY <1>0, <2>1, <4>1
        <5> QED
          BY <2>2, <3>2, <5>1 DEF Means
      <4>2. CASE g # h
        <5>1. job'[g] = job[g]
          BY <1>0, <2>1, <4>2
        <5> QED
          BY <2>2, <3>1, <5>1 DEF Agreed, JobsRight, Means
      <4> QED
        BY <4>1, <4>2
    <3> QED
      BY <2>2, <3>1, <3>3 DEF Agreed, RowsDistinct, Loading, Batching, UpAgrees,
                              HistoryRight, HistoryIsOwn, Means, Unlocked
  <2> QED
    BY <2>3, <2>4
<1> QED
  BY <1>1, <1>2, <1>3, <1>4

-----------------------------------------------------------------------------
(* The theorems *)

LEMMA StoreInitInv == StoreInit => StoreInv
<1> SUFFICES ASSUME StoreInit
             PROVE  StoreInv
  OBVIOUS
<1> USE Constants DEF StoreInit
<1>1. StoreTypeOK
  BY StoreAssumption DEF StoreTypeOK, Uids, Empty
<1>2. TxnBelow /\ Writers
  BY DEF TxnBelow, Writers, NoTxn, NoJob, Empty
<1>3. Phases /\ OneUidEach
  BY DEF Phases, OneUidEach, Unlocked, NoBatch, Empty
<1>4. RowsDistinct /\ Loading /\ Batching /\ UpAgrees
  BY DEF RowsDistinct, Loading, Batching, UpAgrees, Unlocked, NoBatch, Empty
<1>5. JobsRight /\ HistoryRight /\ HistoryIsOwn
  BY DEF JobsRight, HistoryRight, HistoryIsOwn, NoJob
<1> QED
  BY <1>1, <1>2, <1>3, <1>4, <1>5 DEF StoreInv, TypesHold, Consistent, Agreed

LEMMA StoreNextInv == StoreInv /\ [StoreNext]_storeVars => StoreInv'
<1> SUFFICES ASSUME StoreInv, [StoreNext]_storeVars
             PROVE  TypesHold' /\ Consistent'
  BY DEF StoreInv
<1>1. TypesHold
  BY DEF StoreInv
<1>2. CASE UNCHANGED storeVars
  <2>1. TypesHold'
    BY <1>1, <1>2, TypesOfRunning
  <2>2. Consistent'
    BY <1>2 DEF StoreInv, Consistent, storeVars, Phases, OneUidEach, Agreed, RowsDistinct,
                Loading, Batching, UpAgrees, JobsRight, HistoryRight, HistoryIsOwn,
                Means, Unlocked
  <2> QED
    BY <2>1, <2>2
<1>3. CASE Start \/ InitDone \/ \E u \in Uids : Load(u)
  BY <1>1, <1>3, TypesOfRunning, StartStep
<1>4. CASE Kill
  BY <1>1, <1>4, TypesOfRunning, KillStep DEF Kill
<1>5. CASE Quit
  BY <1>1, <1>5, TypesOfQuit, QuitStep
<1>6. CASE (\E f \in Friends : AddUser(f)) \/ \E u \in Uids : DeleteUser(u)
  BY <1>1, <1>6, TypesOfOne, OneFriendStep
<1>7. CASE \E u \in Uids : UpdateUser(u)
  BY <1>1, <1>7, TypesOfRunning, OneFriendStep
<1>8. CASE AddToList \/ BeginTransaction \/ InsertRow \/ Commit
  BY <1>1, <1>8, TypesOfBatch, BatchStep
<1>9. ASSUME NEW h \in Handlers,
             \/ RecvAllRosters(h)
             \/ AddUsers(h)
             \/ UpdateChatContent(h)
             \/ \E f \in Friends : RecvText(h, f)
      PROVE  TypesHold' /\ Consistent'
  BY <1>1, <1>9, TypesOfJobs, JobStep
<1> QED
  BY <1>2, <1>3, <1>4, <1>5, <1>6, <1>7, <1>8, <1>9 DEF StoreNext

LEMMA StoreInvariant == StoreSpec => []StoreInv
BY StoreInitInv, StoreNextInv, PTL DEF StoreSpec

\* The list, the table, the transaction and the jobs keep their types, and no
\* row is above the sequence of the table.
THEOREM StoreTypeCorrect == StoreSpec => []StoreTypeOK
<1>1. StoreInv => StoreTypeOK
  BY DEF StoreInv, TypesHold
<1> QED
  BY <1>1, StoreInvariant, PTL

\* For any number of handlers and friends, AddUser and AddUsers never give a
\* friend two uids.
THEOREM OneUidEachHolds == StoreSpec => []OneUidEach
<1>1. StoreInv => OneUidEach
  BY DEF StoreInv, Consistent
<1> QED
  BY <1>1, StoreInvariant, PTL

\* UserList and peers_profile name the same friend for each uid, for any
\* number of friends and wherever the process was ended.
THEOREM MemoryMatchesRowsHolds == StoreSpec => []MemoryMatchesRows
<1>1. StoreInv => MemoryMatchesRows
  BY DEF StoreInv, Consistent, Agreed, UpAgrees, MemoryMatchesRows
<1> QED
  BY <1>1, StoreInvariant, PTL

\* chat_with_<uid> holds the texts of one friend, for any number of friends
\* that come and go.
THEOREM HistoryIsOwnHolds == StoreSpec => []HistoryIsOwn
<1>1. StoreInv => HistoryIsOwn
  BY DEF StoreInv, Consistent, Agreed, HistoryIsOwn
<1> QED
  BY <1>1, StoreInvariant, PTL

\* For any number of friends, only DeleteUser and the end of the program take
\* a friend out of the list: Load, AddUser and AddToList enter their friends
\* where there was nobody.
THEOREM NobodyVanishesHolds == StoreSpec => NobodyVanishes
<1> DEFINE Stays ==
      (slip = "none" /\ phase' # "off") =>
          \A u \in Uids : users[u] # NoOne /\ users'[u] # users[u] => DeleteUser(u)
<1>1. StoreInv /\ [StoreNext]_storeVars => [Stays]_storeVars
  <2> SUFFICES ASSUME StoreInv, StoreNext, slip = "none", phase' # "off",
                      NEW u \in Uids, users[u] # NoOne, users'[u] # users[u]
               PROVE  DeleteUser(u)
    BY DEF storeVars
  <2>1. Agreed
    BY DEF StoreInv, Consistent
  <2>2. ASSUME NEW v \in Uids, Load(v)
        PROVE  FALSE
    <3>1. users[v] = NoOne
      BY <2>1, <2>2 DEF Load, Agreed, Loading
    <3> QED
      BY <2>2, <3>1, Tables DEF Load
  <2>3. ASSUME NEW f \in Friends, AddUser(f)
        PROVE  FALSE
    <3>1. seq + 1 \in Uids
      BY <2>3, Constants, Tables DEF AddUser, Uids
    <3>2. users[seq + 1] = NoOne
      BY <2>1, <2>3, <3>1, Tables DEF AddUser, Agreed, UpAgrees
    <3> QED
      BY <2>3, <3>1, <3>2, Tables DEF AddUser
  <2>4. ASSUME NEW v \in Uids, DeleteUser(v)
        PROVE  DeleteUser(u)
    <3>1. u = v
      BY <2>4, Tables DEF DeleteUser
    <3> QED
      BY <2>4, <3>1
  <2>5. CASE AddToList
    <3>1. PICK f \in batch.left :
            users' = users \/ users' = [users EXCEPT ![batch.last + 1] = f]
      BY <2>5 DEF AddToList
    <3>2. batch.last + 1 \in Uids => users[batch.last + 1] = NoOne
      <4>1. batch.last \in 0 .. MaxUid /\ ~Unlocked
        BY <2>5 DEF StoreInv, TypesHold, StoreTypeOK, AddToList, Unlocked
      <4> QED
        BY <2>1, <4>1 DEF Agreed, Batching
    <3> QED
      BY <3>1, <3>2, Tables
  <2>6. users' = users \/ phase' = "off"
        \/ AddToList
        \/ (\E v \in Uids : Load(v) \/ DeleteUser(v))
        \/ (\E f \in Friends : AddUser(f))
    BY DEF StoreNext, Start, UpdateUser, InitDone, Quit, Kill, Gone, RecvAllRosters,
           AddUsers, UpdateChatContent, RecvText, BeginTransaction, InsertRow, Commit
  <2> QED
    BY <2>2, <2>3, <2>4, <2>5, <2>6
<1> QED
  BY <1>1, StoreInvariant, PTL DEF StoreSpec, NobodyVanishes
=============================================================================
