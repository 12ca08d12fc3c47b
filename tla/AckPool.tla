------------------------------ MODULE AckPool ------------------------------
(***************************************************************************)
(* The pool of messages that wait for an acknowledgement                   *)
(* (kernel/Sender/WaitACKMsgSender).  AddMsg sends a datagram and keeps    *)
(* it; the Loop thread sends it again until it is acknowledged, withdrawn, *)
(* or has used up its tries; DeleteMsg takes it out and reports success.   *)
(*                                                                         *)
(* Every public operation holds the pool's critical section from its first *)
(* to its last statement, so each is one action.  The vector is always in  *)
(* the order of the message ids (push_back of midCount++), so the pool is  *)
(* a function on the ids that are in it.                                   *)
(*                                                                         *)
(* Time is counted in periods of the Loop thread                           *)
(* (SEND_WAITACKMSG_LOOP_TIME, 5 s); an age stops growing once it is past  *)
(* ResendWait, because the code only compares it with that limit.          *)
(***************************************************************************)
EXTENDS Integers

CONSTANTS
    MaxTryTimes,    \* MAX_TRY_TIMES, 3 in the program
    ResendWait,     \* periods a message rests before it is sent again, 3
    MaxMids         \* bound of the model: how many ids a process hands out

ASSUME PoolAssumption ==
    /\ MaxTryTimes \in Nat \ {0}
    /\ ResendWait \in Nat
    /\ MaxMids \in Nat

VARIABLES
    pool,       \* waitACKMsgList: the entries, by mid
    midCount,   \* the next mid
    kind,       \* the message and callback given to AddMsg, by mid
    awake,      \* the Loop thread is back from Sleep
    crashed,    \* a dangling iterator was used: the process is gone
    sends,      \* history: datagrams sent for a mid that is not eternal
    told,       \* history: how often the callback reported each verdict
    deleted     \* history: mids handed to DeleteMsg while they were queued

poolVars == <<pool, midCount, kind, awake, crashed, sends, told, deleted>>

Mids == 0 .. MaxMids - 1

\* What ClientMsgSender puts in the pool: the question whether a friend is
\* online, a friend request, the reply to one, the heartbeat, a chat text.
Kinds == {"online", "ask", "reply", "keep", "chat"}

\* The kinds whose AddMsg names a callback.
Answered == {"online", "ask", "chat"}

\* The callbacks that, on success, put the friend online again and so may
\* start a heartbeat: AfterOnlineMsg and AfterChatWithTextMsg.
Reviving == {"online", "chat"}

EternalTryTimes == -1

Entry == [left : {EternalTryTimes} \union 0 .. MaxTryTimes, age : 0 .. ResendWait + 1]

TypeOK ==
    /\ midCount \in 0 .. MaxMids
    /\ DOMAIN pool \subseteq 0 .. midCount - 1
    /\ pool \in [DOMAIN pool -> Entry]
    /\ kind \in [Mids -> Kinds \union {"none"}]
    /\ awake \in BOOLEAN
    /\ crashed \in BOOLEAN
    /\ sends \in [Mids -> Nat]
    /\ told \in [Mids -> [ok : Nat, fail : Nat]]
    /\ deleted \subseteq 0 .. midCount - 1

-----------------------------------------------------------------------------
(* Helpers on the entries *)

Eternal(m) == kind[m] = "keep"

\* Variant: only a pass that comes exactly on time finds a message due.
DueOnTime(e) == e.age = ResendWait

Due(e) == e.age > ResendWait
\* Variant: the test counts the -1 of eternal messages as used up.
ExpiresAtOrBelowZero(e) == Due(e) /\ e.left <= 0

Expires(e) == Due(e) /\ e.left = 0

\* Variant: the first datagram does not count as a try.
NewEntryFullTries(k) ==
    [left |-> IF k = "keep" THEN EternalTryTimes ELSE MaxTryTimes, age |-> 0]

\* AddMsg's entry for a message of kind k.
NewEntry(k) ==
    [left |-> IF k = "keep" THEN EternalTryTimes ELSE MaxTryTimes - 1,
     age  |-> 0]

\* Variant: the eternal messages count down too.
ResentAlwaysCounted(e) == [left |-> e.left - 1, age |-> 0]

Resent(e) ==
    IF e.left = EternalTryTimes THEN e ELSE [left |-> e.left - 1, age |-> 0]

Without(S) == [m \in DOMAIN pool \ S |-> pool[m]]

\* f with the fresh mid bound to the entry of a message of kind k.
Plus(f, k) ==
    [m \in DOMAIN f \union {midCount} |-> IF m = midCount THEN NewEntry(k) ELSE f[m]]

-----------------------------------------------------------------------------
(* Operations *)

PoolInit ==
    /\ pool = [m \in {} |-> NewEntry("keep")]
    /\ midCount = 0
    /\ kind = [m \in Mids |-> "none"]
    /\ awake = TRUE
    /\ crashed = FALSE
    /\ sends = [m \in Mids |-> 0]
    /\ told = [m \in Mids |-> [ok |-> 0, fail |-> 0]]
    /\ deleted = {}

\* Variant: midCount is not advanced.
IssueSameMid(k) ==
    /\ midCount < MaxMids
    /\ midCount' = midCount
    /\ kind' = [kind EXCEPT ![midCount] = k]
    /\ sends' = [sends EXCEPT ![midCount] = IF k = "keep" THEN 0 ELSE 1]

\* The parts of AddMsg that do not touch the list: the mid, the datagram.
Issue(k) ==
    /\ midCount < MaxMids
    /\ midCount' = midCount + 1
    /\ kind' = [kind EXCEPT ![midCount] = k]
    /\ sends' = [sends EXCEPT ![midCount] = IF k = "keep" THEN 0 ELSE 1]

\* AddMsg from outside the pool.
AddMsg(k) ==
    /\ ~crashed
    /\ Issue(k)
    /\ pool' = Plus(pool, k)
    /\ UNCHANGED <<awake, crashed, told, deleted>>

\* DeleteMsg(true, m, ...) finds m and reports success to its callback.
Report(m) ==
    /\ ~crashed
    /\ m \in DOMAIN pool
    /\ told' = [told EXCEPT ![m].ok = @ + (IF kind[m] \in Answered THEN 1 ELSE 0)]
    /\ deleted' = deleted \union {m}
    /\ UNCHANGED awake

\* Variant: DeleteMsg calls back and leaves the message in the list.
ConfirmWithoutErase(m) ==
    /\ Report(m)
    /\ UNCHANGED <<pool, midCount, kind, crashed, sends>>

\* The callback leaves the pool alone.
Confirm(m) ==
    /\ Report(m)
    /\ pool' = Without({m})
    /\ UNCHANGED <<midCount, kind, crashed, sends>>

\* The callback puts the friend online and, still inside DeleteMsg, adds a
\* heartbeat.  push_back may move the vector: then erase uses an iterator of
\* the old storage, and the process is lost with the message still queued.
ConfirmAndRevive(m) ==
    /\ Report(m)
    /\ kind[m] \in Reviving
    /\ Issue("keep")
    /\ \/ /\ pool' = Plus(Without({m}), "keep")
          /\ UNCHANGED crashed
       \/ /\ pool' = Plus(pool, "keep")
          /\ crashed' = TRUE

\* The handlers of acknowledgements call this with the mid they are given, and
\* mids begin at 0 in every run: an acknowledgement of an earlier run may name
\* any message, an eternal one too, which has no callback.
DeleteMsg(m) == Confirm(m) \/ ConfirmAndRevive(m)

\* The DeleteMsg calls P2PUserInfo::SetState(user_offline) makes for the
\* heartbeats of the users that go offline in one hold of the list's lock.
Withdraw(S) ==
    /\ ~crashed
    /\ S \subseteq {m \in DOMAIN pool : Eternal(m)}
    /\ pool' = Without(S)
    /\ deleted' = deleted \union S
    /\ UNCHANGED <<midCount, kind, awake, crashed, sends, told>>

\* The message before m in the vector.
Precedes(p, m) ==
    /\ p \in DOMAIN pool
    /\ p < m
    /\ \A q \in DOMAIN pool : q <= p \/ q >= m

\* Variant: the iterator is advanced twice after every due message.
IsWalkPastDue(visited) ==
    \A m \in DOMAIN pool :
        m \in visited <=> ~\E p \in visited : Precedes(p, m) /\ Due(pool[p])

\* The messages the loop of TraverseAllMsg looks at: after erase the iterator
\* stands on the next message already, and ++iter steps over it.
IsWalk(visited) ==
    \A m \in DOMAIN pool :
        m \in visited <=> ~\E p \in visited : Precedes(p, m) /\ Expires(pool[p])

TraverseAllMsg ==
    /\ ~crashed
    /\ awake
    /\ awake' = FALSE
    /\ \E visited \in SUBSET DOMAIN pool :
        /\ IsWalk(visited)
        /\ LET due  == {m \in visited : Due(pool[m])}
               gone == {m \in visited : Expires(pool[m])}
           IN  /\ pool' = [m \in DOMAIN pool \ gone |->
                              IF m \in due THEN Resent(pool[m]) ELSE pool[m]]
               /\ sends' = [m \in Mids |->
                              IF m \in due /\ ~Eternal(m) THEN sends[m] + 1 ELSE sends[m]]
               /\ told' = [m \in Mids |->
                              IF m \in gone /\ kind[m] \in Answered
                              THEN [told[m] EXCEPT !.fail = @ + 1] ELSE told[m]]
    /\ UNCHANGED <<midCount, kind, crashed, deleted>>

\* A period passes; the Loop thread's Sleep ends.
Tick ==
    /\ ~crashed
    /\ awake' = TRUE
    /\ pool' = [m \in DOMAIN pool |->
                  [pool[m] EXCEPT !.age = IF @ > ResendWait THEN @ ELSE @ + 1]]
    /\ UNCHANGED <<midCount, kind, crashed, sends, told, deleted>>

Crashed == crashed /\ UNCHANGED poolVars

PoolNext ==
    \/ \E k \in Kinds : AddMsg(k)
    \/ \E m \in DOMAIN pool : DeleteMsg(m)
    \/ \E S \in SUBSET DOMAIN pool : S # {} /\ Withdraw(S)
    \/ TraverseAllMsg
    \/ Tick
    \/ Crashed

\* The Loop thread runs for as long as the process does and always comes to
\* its next pass; time passes.
PoolFairness == WF_poolVars(TraverseAllMsg) /\ WF_poolVars(Tick)

PoolSafety == PoolInit /\ [][PoolNext]_poolVars
PoolSpec == PoolSafety /\ PoolFairness
-----------------------------------------------------------------------------
(* Properties *)

Issued(m) == kind[m] # "none"

\* A message's callback hears at most one verdict: it never reports success
\* and failure, or either twice, however acknowledgements, retransmissions
\* and passes interleave (DeleteMsg and TraverseAllMsg both call it and both
\* take the message out).
OneVerdict == \A m \in Mids : told[m].ok + told[m].fail <= 1

\* Nothing drops out of the pool unnoticed: a message that is no longer queued
\* was deleted, or is not eternal and went out once and then MaxTryTimes times
\* more; and if it has a callback, the callback heard the verdict that fits
\* (the skipping iterator of TraverseAllMsg, the -1 of eternal messages and
\* the test 0 == leftTryTimes are where this could go wrong).  What was deleted
\* is still queued only in a process lost to the stale iterator of DeleteMsg.
Accounted ==
    /\ \A m \in Mids : Issued(m) /\ m \notin DOMAIN pool =>
          /\ m \notin deleted => ~Eternal(m) /\ sends[m] = MaxTryTimes + 1
          /\ kind[m] \in Answered =>
                told[m] = IF m \in deleted THEN [ok |-> 1, fail |-> 0]
                                           ELSE [ok |-> 0, fail |-> 1]
    /\ \A m \in deleted : m \in DOMAIN pool => crashed

\* No step queues, sends or reports on a message that has left the pool.
StaysOutStep ==
    \A m \in Mids : Issued(m) /\ m \notin DOMAIN pool =>
        /\ m \notin DOMAIN pool'
        /\ kind'[m] = kind[m]
        /\ sends'[m] = sends[m]
        /\ told'[m] = told[m]

\* A message that left the pool never comes back, because mids are not used
\* twice in the life of a process (AddMsg's midCount++) and a pass erases
\* before it goes on.
StaysOut == [][StaysOutStep]_poolVars

\* The messages before m in the vector.
Ahead(m) == {n \in DOMAIN pool : n < m}

\* One step of the pool, as a due message sees it: nothing is put before it,
\* and a pass sends it (or gives it up with its last send), or leaves it due
\* and took out one of those before it.
HeadwayStep ==
    \A m \in DOMAIN pool :
        /\ m \in DOMAIN pool' => Ahead(m)' \subseteq Ahead(m)
        /\ awake /\ ~awake' /\ Due(pool[m]) /\ ~Eternal(m) =>
              \/ sends'[m] = sends[m] + 1
              \/ /\ m \in DOMAIN pool'
                 /\ pool'[m] = pool[m]
                 /\ Ahead(m)' # Ahead(m)

\* The pass of TraverseAllMsg misses a due message only when it erases one
\* before it: a message is late by at most one pass for each message queued
\* before it, because after erase the iterator steps over one element and
\* push_back adds at the end.
Headway == [][HeadwayStep]_poolVars

\* Every message that is not eternal leaves the pool in the end, even though
\* each erase of TraverseAllMsg lets the next message miss a pass.
Settles ==
    \A m \in Mids : (m \in DOMAIN pool /\ ~Eternal(m)) ~> (m \notin DOMAIN pool \/ crashed)
=============================================================================
