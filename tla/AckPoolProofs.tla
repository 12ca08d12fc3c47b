--------------------------- MODULE AckPoolProofs ---------------------------
(***************************************************************************)
(* Proofs about AckPool for every number of tries, waiting time and        *)
(* number of messages.  The inductive invariant PoolInv determines, for    *)
(* every mid, what its history has to be from where it is now: not issued, *)
(* queued, deleted, or out of the pool otherwise.                          *)
(***************************************************************************)
EXTENDS AckPoolImpl, TLAPS

Unheard == [ok |-> 0, fail |-> 0]

\* What the callback of m has heard: nothing while m is queued and not
\* deleted, then the one verdict that fits.
Verdict(m) ==
    IF kind[m] \notin Answered THEN Unheard
    ELSE IF m \in deleted THEN [ok |-> 1, fail |-> 0]
    ELSE IF Issued(m) /\ m \notin DOMAIN pool THEN [ok |-> 0, fail |-> 1]
    ELSE Unheard

IssuedBelow == \A m \in Mids : Issued(m) <=> m < midCount

\* The tries a queued message has left and the datagrams it has cost.
Budget ==
    \A m \in DOMAIN pool :
        IF Eternal(m) THEN pool[m].left = EternalTryTimes
                      ELSE /\ pool[m].left \in 0 .. MaxTryTimes - 1
                           /\ sends[m] + pool[m].left = MaxTryTimes

\* A deleted message is still in the storage only of a process that crashed.
DeletedLeft == \A m \in deleted : m \in DOMAIN pool => crashed

Spent ==
    \A m \in Mids : Issued(m) /\ m \notin DOMAIN pool /\ m \notin deleted =>
        ~Eternal(m) /\ sends[m] = MaxTryTimes + 1

ToldRight == \A m \in Mids : told[m] = Verdict(m)

PoolInv ==
    /\ TypeOK
    /\ IssuedBelow
    /\ Budget
    /\ DeletedLeft
    /\ Spent
    /\ ToldRight

-----------------------------------------------------------------------------

\* The constants of the entries are what the type invariant says.
LEMMA NewEntryType ==
    ASSUME NEW k \in Kinds
    PROVE  /\ NewEntry(k) \in Entry
           /\ NewEntry(k).left = IF k = "keep" THEN EternalTryTimes ELSE MaxTryTimes - 1
  BY PoolAssumption DEF NewEntry, Entry, EternalTryTimes

LEMMA InitInv == PoolInit => PoolInv
  <1> SUFFICES ASSUME PoolInit PROVE PoolInv
    OBVIOUS
  <1> USE PoolAssumption DEF PoolInit, Mids
  <1>1. TypeOK
    <2>1. DOMAIN pool = {} /\ pool \in [DOMAIN pool -> Entry]
      OBVIOUS
    <2>2. midCount \in 0 .. MaxMids /\ sends \in [Mids -> Nat]
      OBVIOUS
    <2>3. told \in [Mids -> [ok : Nat, fail : Nat]]
      OBVIOUS
    <2> QED BY <2>1, <2>2, <2>3 DEF TypeOK
  <1>2. IssuedBelow /\ Budget /\ DeletedLeft /\ Spent
    BY DEF IssuedBelow, Budget, DeletedLeft, Spent, Issued
  <1>3. ToldRight
    BY DEF ToldRight, Verdict, Unheard, Issued, Answered
  <1> QED
    BY <1>1, <1>2, <1>3 DEF PoolInv

\* AddMsg keeps the invariant: the fresh mid is in nobody's history.
LEMMA AddMsgInv ==
    ASSUME PoolInv, NEW k \in Kinds, AddMsg(k)
    PROVE  PoolInv'
  <1> USE PoolAssumption DEF PoolInv, AddMsg, Issue, Mids
  <1>1. midCount \in Mids /\ midCount \notin DOMAIN pool /\ midCount \notin deleted
    BY DEF TypeOK
  <1>2. DOMAIN pool' = DOMAIN pool \union {midCount}
    BY DEF Plus
  <1>3. pool'[midCount] = NewEntry(k) /\ \A m \in DOMAIN pool : pool'[m] = pool[m]
    BY <1>1 DEF Plus
  <1>4. kind'[midCount] = k /\ \A m \in Mids : m # midCount => kind'[m] = kind[m]
    BY <1>1 DEF TypeOK
  <1>5. TypeOK'
    BY <1>1, <1>2, <1>3, NewEntryType DEF TypeOK, Plus
  <1>6. IssuedBelow'
    BY <1>4 DEF IssuedBelow, Issued, TypeOK, Kinds
  <1>7. Budget'
    <2> SUFFICES ASSUME NEW m \in DOMAIN pool'
                 PROVE  IF Eternal(m)' THEN pool'[m].left = EternalTryTimes
                        ELSE /\ pool'[m].left \in 0 .. MaxTryTimes - 1
                             /\ sends'[m] + pool'[m].left = MaxTryTimes
      BY DEF Budget
    <2>1. CASE m = midCount
      BY <2>1, <1>1, <1>3, <1>4, NewEntryType DEF Eternal, TypeOK
    <2>2. CASE m # midCount
      <3>1. m \in DOMAIN pool /\ m \in Mids /\ pool'[m] = pool[m] /\ kind'[m] = kind[m]
        BY <2>2, <1>1, <1>2, <1>3, <1>4 DEF TypeOK
      <3>2. sends'[m] = sends[m]
        BY <2>2, <3>1, <1>1 DEF TypeOK
      <3> QED BY <3>1, <3>2 DEF Budget, Eternal
    <2> QED BY <2>1, <2>2
  <1>8. DeletedLeft' /\ Spent'
    BY <1>1, <1>2, <1>4 DEF DeletedLeft, Spent, Issued, Eternal, TypeOK
  <1>9. ToldRight'
    BY <1>1, <1>2, <1>4 DEF ToldRight, Verdict, IssuedBelow, Issued
  <1> QED
    BY <1>5, <1>6, <1>7, <1>8, <1>9

\* What DeleteMsg's report does to the histories of every message.
LEMMA ReportEffect ==
    ASSUME PoolInv, NEW m, Report(m), ~Eternal(m)
    PROVE  /\ m \in Mids /\ m \notin deleted /\ Issued(m)
           /\ deleted' = deleted \union {m}
           /\ told' \in [Mids -> [ok : Nat, fail : Nat]]
           /\ \A n \in Mids : n # m => told'[n] = told[n]
           /\ told'[m] = IF kind[m] \in Answered THEN [ok |-> 1, fail |-> 0] ELSE Unheard
  <1> USE PoolAssumption DEF PoolInv, Report, Mids
  <1>1. m \in DOMAIN pool /\ m \in Mids /\ m < midCount
    BY DEF TypeOK
  <1>2. m \notin deleted
    BY <1>1 DEF DeletedLeft
  <1>3. Issued(m)
    BY <1>1 DEF IssuedBelow
  <1>4. told[m] = Unheard
    BY <1>1, <1>2 DEF ToldRight, Verdict
  <1>5. told'[m] = [told[m] EXCEPT !.ok = @ + (IF kind[m] \in Answered THEN 1 ELSE 0)]
    BY <1>1 DEF TypeOK
  <1>6. told'[m] = IF kind[m] \in Answered THEN [ok |-> 1, fail |-> 0] ELSE Unheard
    BY <1>4, <1>5 DEF Unheard
  <1>7. told' \in [Mids -> [ok : Nat, fail : Nat]]
    BY <1>1 DEF TypeOK
  <1>8. \A n \in Mids : n # m => told'[n] = told[n]
    BY <1>1 DEF TypeOK
  <1> QED BY <1>1, <1>2, <1>3, <1>6, <1>7, <1>8

\* DeleteMsg with a callback that leaves the pool alone.
LEMMA ConfirmInv ==
    ASSUME PoolInv, NEW m, Confirm(m), ~Eternal(m)
    PROVE  PoolInv'
  <1> USE PoolAssumption DEF PoolInv, Confirm
  <1>1. Report(m) /\ m \in DOMAIN pool /\ ~crashed /\ UNCHANGED awake
    BY DEF Report
  <1>2. /\ DOMAIN pool' = DOMAIN pool \ {m}
        /\ \A n \in DOMAIN pool' : pool'[n] = pool[n]
    BY DEF Without
  <1>3. m \in 0 .. midCount - 1
    BY <1>1 DEF TypeOK
  <1>4. TypeOK'
    BY <1>1, <1>2, <1>3, ReportEffect DEF TypeOK, Without
  <1>5. IssuedBelow' /\ Budget'
    BY <1>2 DEF IssuedBelow, Budget, Issued, Eternal
  <1>6. DeletedLeft' /\ Spent'
    <2>1. deleted' = deleted \union {m} /\ kind' = kind /\ sends' = sends
      BY <1>1, ReportEffect
    <2>2. DeletedLeft'
      BY <1>1, <1>2, <2>1 DEF DeletedLeft
    <2>3. Spent'
      BY <1>2, <2>1 DEF Spent, Issued, Eternal
    <2> QED BY <2>2, <2>3
  <1>7. ToldRight'
    BY <1>1, <1>2, ReportEffect DEF ToldRight, Verdict, Issued, Unheard
  <1> QED BY <1>4, <1>5, <1>6, <1>7

\* DeleteMsg whose callback adds a heartbeat, with and without the vector
\* moving under the iterator.
LEMMA ConfirmAndReviveInv ==
    ASSUME PoolInv, NEW m, ConfirmAndRevive(m), ~Eternal(m)
    PROVE  PoolInv'
  <1> USE PoolAssumption DEF PoolInv, ConfirmAndRevive, Issue
  <1>1. Report(m) /\ m \in DOMAIN pool /\ UNCHANGED awake
    BY DEF Report
  <1>2. /\ midCount \in Mids /\ midCount \notin DOMAIN pool /\ midCount \notin deleted
        /\ midCount # m /\ m \in 0 .. midCount - 1
    BY <1>1 DEF TypeOK, Mids
  <1>r. /\ m \in Mids /\ m \notin deleted /\ Issued(m)
        /\ deleted' = deleted \union {m}
        /\ told' \in [Mids -> [ok : Nat, fail : Nat]]
        /\ \A n \in Mids : n # m => told'[n] = told[n]
        /\ told'[m] = IF kind[m] \in Answered THEN [ok |-> 1, fail |-> 0] ELSE Unheard
    BY <1>1, ReportEffect
  <1>3. /\ kind'[midCount] = "keep" /\ kind' \in [Mids -> Kinds \union {"none"}]
        /\ \A n \in Mids : n # midCount => kind'[n] = kind[n]
    BY <1>2 DEF TypeOK, Kinds
  <1>4. /\ sends' \in [Mids -> Nat]
        /\ \A n \in Mids : n # midCount => sends'[n] = sends[n]
    BY <1>2 DEF TypeOK
  <1>5. /\ midCount \in DOMAIN pool' /\ pool'[midCount] = NewEntry("keep")
        /\ DOMAIN pool' \subseteq DOMAIN pool \union {midCount}
        /\ DOMAIN pool \ {m} \subseteq DOMAIN pool'
        /\ \A n \in DOMAIN pool' : n # midCount => pool'[n] = pool[n]
        /\ m \in DOMAIN pool' => crashed'
        /\ pool' = [n \in DOMAIN pool' |-> pool'[n]]
        /\ crashed' \in BOOLEAN /\ ~crashed
    BY <1>1, <1>2 DEF Plus, Without, Report, TypeOK
  <1>6. NewEntry("keep") \in Entry /\ NewEntry("keep").left = EternalTryTimes
    BY NewEntryType DEF Kinds
  <1>7. TypeOK'
    <2>1. pool' \in [DOMAIN pool' -> Entry]
      BY <1>5, <1>6 DEF TypeOK
    <2>2. midCount' \in 0 .. MaxMids /\ DOMAIN pool' \subseteq 0 .. midCount' - 1
      BY <1>2, <1>5 DEF TypeOK, Mids
    <2>3. deleted' \subseteq 0 .. midCount' - 1
      <3>1. midCount \in Nat /\ midCount' = midCount + 1
        BY <1>2 DEF Mids
      <3>2. deleted' \subseteq 0 .. midCount - 1
        BY <1>2, <1>r DEF TypeOK
      <3> QED BY <3>1, <3>2
    <2> QED BY <2>1, <2>2, <2>3, <1>1, <1>3, <1>4, <1>5, <1>r DEF TypeOK
  <1>8. IssuedBelow'
    <2> SUFFICES ASSUME NEW n \in Mids PROVE kind'[n] # "none" <=> n < midCount'
      BY DEF IssuedBelow, Issued
    <2>1. n \in Nat /\ midCount \in Nat /\ midCount' = midCount + 1
      BY <1>2 DEF Mids
    <2>2. n # midCount => (kind'[n] # "none" <=> n < midCount)
      BY <1>3 DEF IssuedBelow, Issued
    <2> QED BY <1>3, <2>1, <2>2
  <1>9. Budget'
    <2> SUFFICES ASSUME NEW n \in DOMAIN pool'
                 PROVE  IF Eternal(n)' THEN pool'[n].left = EternalTryTimes
                        ELSE /\ pool'[n].left \in 0 .. MaxTryTimes - 1
                             /\ sends'[n] + pool'[n].left = MaxTryTimes
      BY DEF Budget
    <2>1. CASE n = midCount
      BY <2>1, <1>3, <1>5, <1>6 DEF Eternal
    <2>2. CASE n # midCount
      <3>1. n \in DOMAIN pool /\ n \in Mids
        BY <2>2, <1>5 DEF TypeOK, Mids
      <3> QED BY <2>2, <3>1, <1>3, <1>4, <1>5 DEF Budget, Eternal
    <2> QED BY <2>1, <2>2
  <1>10. DeletedLeft'
    BY <1>1, <1>2, <1>5, <1>r DEF DeletedLeft
  <1>11. Spent'
    BY <1>1, <1>2, <1>3, <1>4, <1>5, <1>r DEF Spent, Issued, Eternal
  <1>12. ToldRight'
    <2> SUFFICES ASSUME NEW n \in Mids PROVE told'[n] = Verdict(n)'
      BY DEF ToldRight
    <2>1. CASE n = midCount
      <3>1. told[n] = Unheard
        BY <2>1, <1>2 DEF ToldRight, Verdict, IssuedBelow, TypeOK
      <3>2. Verdict(n)' = Unheard
        BY <2>1, <1>3 DEF Verdict, Answered, Unheard
      <3> QED BY <2>1, <3>1, <3>2, <1>2, <1>r
    <2>2. CASE n = m
      BY <2>2, <1>1, <1>2, <1>3, <1>r DEF Verdict, Unheard
    <2>3. CASE n # m /\ n # midCount
      BY <2>3, <1>1, <1>3, <1>5, <1>r DEF ToldRight, Verdict, Issued
    <2> QED BY <2>1, <2>2, <2>3
  <1> QED BY <1>7, <1>8, <1>9, <1>10, <1>11, <1>12

\* SetState(user_offline) takes heartbeats out: nothing else has to change.
LEMMA WithdrawInv ==
    ASSUME PoolInv, NEW S, Withdraw(S)
    PROVE  PoolInv'
  <1> USE PoolAssumption DEF PoolInv, Withdraw
  <1>1. /\ DOMAIN pool' = DOMAIN pool \ S
        /\ \A n \in DOMAIN pool' : pool'[n] = pool[n]
        /\ pool' \in [DOMAIN pool' -> Entry]
    BY DEF Without, TypeOK
  <1>2. \A n \in S : n \in DOMAIN pool /\ kind[n] = "keep" /\ kind[n] \notin Answered
    BY DEF Eternal, Answered
  <1>3. TypeOK'
    BY <1>1, <1>2 DEF TypeOK
  <1>4. IssuedBelow' /\ Budget'
    BY <1>1 DEF IssuedBelow, Budget, Issued, Eternal
  <1>5. DeletedLeft' /\ Spent'
    BY <1>1, <1>2 DEF DeletedLeft, Spent, Issued, Eternal
  <1>6. ToldRight'
    BY <1>1, <1>2 DEF ToldRight, Verdict, Issued
  <1> QED BY <1>3, <1>4, <1>5, <1>6

\* An acknowledgement that names an eternal message, which is never one of its
\* own, does to the pool what a withdrawal does.
LEMMA ConfirmEternal ==
    ASSUME PoolInv, NEW m \in DOMAIN pool, Eternal(m), DeleteMsg(m)
    PROVE  Withdraw({m})
  <1>1. kind[m] \notin Answered /\ kind[m] \notin Reviving
    BY DEF Eternal, Answered, Reviving
  <1>2. Confirm(m)
    BY <1>1 DEF DeleteMsg, ConfirmAndRevive
  <1>3. m \in Mids /\ told \in [Mids -> [ok : Nat, fail : Nat]]
    BY PoolAssumption DEF PoolInv, TypeOK, Mids
  <1>4. told' = [told EXCEPT ![m].ok = @ + 0]
    BY <1>1, <1>2 DEF Confirm, Report
  <1>5. told' = told
    BY <1>3, <1>4
  <1> QED
    BY <1>2, <1>5 DEF Confirm, Report, Withdraw

\* A pass of the Loop thread, whichever messages it steps over.
LEMMA TraverseInv ==
    ASSUME PoolInv, TraverseAllMsg
    PROVE  PoolInv'
  <1> USE PoolAssumption DEF PoolInv
  <1>1. PICK visited \in SUBSET DOMAIN pool :
          LET due  == {m \in visited : Due(pool[m])}
              gone == {m \in visited : Expires(pool[m])}
          IN  /\ pool' = [m \in DOMAIN pool \ gone |->
                             IF m \in due THEN Resent(pool[m]) ELSE pool[m]]
              /\ sends' = [m \in Mids |->
                             IF m \in due /\ ~Eternal(m) THEN sends[m] + 1 ELSE sends[m]]
              /\ told' = [m \in Mids |->
                             IF m \in gone /\ kind[m] \in Answered
                             THEN [told[m] EXCEPT !.fail = @ + 1] ELSE told[m]]
    BY DEF TraverseAllMsg
  <1> DEFINE due  == {m \in visited : Due(pool[m])}
             gone == {m \in visited : Expires(pool[m])}
  <1>2. UNCHANGED <<midCount, kind, crashed, deleted>> /\ awake' = FALSE /\ ~crashed
    BY DEF TraverseAllMsg
  <1>3. /\ DOMAIN pool' = DOMAIN pool \ gone
        /\ \A m \in DOMAIN pool' :
              pool'[m] = IF m \in due THEN Resent(pool[m]) ELSE pool[m]
    BY <1>1
  <1>4. /\ sends' = [m \in Mids |-> IF m \in due /\ ~Eternal(m) THEN sends[m] + 1 ELSE sends[m]]
        /\ told' = [m \in Mids |-> IF m \in gone /\ kind[m] \in Answered
                                   THEN [told[m] EXCEPT !.fail = @ + 1] ELSE told[m]]
    BY <1>1
  <1>5. DOMAIN pool \subseteq Mids /\ gone \subseteq due /\ due \subseteq DOMAIN pool
    BY DEF TypeOK, Mids, Expires
  <1>6. \A m \in gone : m \notin deleted /\ ~Eternal(m) /\ sends[m] = MaxTryTimes
    <2> SUFFICES ASSUME NEW m \in gone
                 PROVE  m \notin deleted /\ ~Eternal(m) /\ sends[m] = MaxTryTimes
      OBVIOUS
    <2>1. m \in DOMAIN pool /\ m \in Mids /\ pool[m].left = 0
      BY <1>5 DEF Expires
    <2>2. m \notin deleted
      BY <2>1, <1>2 DEF DeletedLeft
    <2>3. ~Eternal(m)
      BY <2>1 DEF Budget, EternalTryTimes
    <2> QED BY <2>1, <2>2, <2>3 DEF Budget, TypeOK
  <1>7. \A m \in DOMAIN pool' :
            /\ m \in DOMAIN pool /\ m \in Mids
            /\ pool'[m] \in Entry
            /\ IF Eternal(m) THEN pool'[m].left = EternalTryTimes
               ELSE /\ pool'[m].left \in 0 .. MaxTryTimes - 1
                    /\ sends'[m] + pool'[m].left = MaxTryTimes
    <2> SUFFICES ASSUME NEW m \in DOMAIN pool'
                 PROVE  /\ m \in DOMAIN pool /\ m \in Mids
                        /\ pool'[m] \in Entry
                        /\ IF Eternal(m) THEN pool'[m].left = EternalTryTimes
                           ELSE /\ pool'[m].left \in 0 .. MaxTryTimes - 1
                                /\ sends'[m] + pool'[m].left = MaxTryTimes
      OBVIOUS
    <2>1. m \in DOMAIN pool /\ m \in Mids /\ m \notin gone /\ pool[m] \in Entry /\ sends[m] \in Nat
      BY <1>3, <1>5 DEF TypeOK
    <2>2. CASE m \notin due
      BY <2>1, <2>2, <1>3, <1>4 DEF Budget
    <2>3. CASE m \in due /\ Eternal(m)
      BY <2>1, <2>3, <1>3 DEF Budget, Resent
    <2>4. CASE m \in due /\ ~Eternal(m)
      <3>1. pool[m].left # 0 /\ pool[m].left \in 0 .. MaxTryTimes - 1
        BY <2>1, <2>4 DEF Expires, Budget
      <3>2. pool'[m] = [left |-> pool[m].left - 1, age |-> 0]
        BY <2>4, <3>1, <1>3 DEF Resent, EternalTryTimes
      <3>3. sends'[m] = sends[m] + 1
        BY <2>1, <2>4, <1>4
      <3> QED BY <2>1, <2>4, <3>1, <3>2, <3>3 DEF Budget, Entry
    <2> QED BY <2>1, <2>2, <2>3, <2>4
  <1>8. TypeOK'
    <2>1. pool' \in [DOMAIN pool' -> Entry]
      BY <1>1, <1>7
    <2>2. sends' \in [Mids -> Nat] /\ told' \in [Mids -> [ok : Nat, fail : Nat]]
      BY <1>4 DEF TypeOK
    <2> QED BY <2>1, <2>2, <1>2, <1>3 DEF TypeOK
  <1>9. IssuedBelow' /\ Budget' /\ DeletedLeft'
    BY <1>2, <1>3, <1>7 DEF IssuedBelow, Budget, DeletedLeft, Issued, Eternal
  <1>10. Spent'
    <2> SUFFICES ASSUME NEW m \in Mids, Issued(m), m \notin DOMAIN pool', m \notin deleted
                 PROVE  ~Eternal(m) /\ sends'[m] = MaxTryTimes + 1
      BY <1>2 DEF Spent, Issued, Eternal
    <2>1. CASE m \in gone
      BY <2>1, <1>4, <1>5, <1>6
    <2>2. CASE m \notin DOMAIN pool
      BY <2>2, <1>4, <1>5 DEF Spent
    <2> QED BY <2>1, <2>2, <1>3
  <1>11. ToldRight'
    <2> SUFFICES ASSUME NEW m \in Mids PROVE told'[m] = Verdict(m)'
      BY DEF ToldRight
    <2>1. CASE m \in gone
      <3>1. told[m] = Unheard
        BY <2>1, <1>5, <1>6 DEF ToldRight, Verdict
      <3>2. kind[m] # "none"
        BY <2>1, <1>5 DEF IssuedBelow, Issued, TypeOK
      <3> QED BY <2>1, <3>1, <3>2, <1>2, <1>3, <1>4, <1>6 DEF Verdict, Unheard, Issued
    <2>2. CASE m \notin gone
      BY <2>2, <1>2, <1>3, <1>4 DEF ToldRight, Verdict, Issued
    <2> QED BY <2>1, <2>2
  <1> QED BY <1>8, <1>9, <1>10, <1>11

\* Time only moves ages.
LEMMA TickInv ==
    ASSUME PoolInv, Tick
    PROVE  PoolInv'
  <1> USE PoolAssumption DEF PoolInv, Tick
  <1>1. /\ DOMAIN pool' = DOMAIN pool
        /\ \A m \in DOMAIN pool : pool'[m].left = pool[m].left /\ pool'[m] \in Entry
    BY DEF TypeOK, Entry
  <1>2. TypeOK'
    BY <1>1 DEF TypeOK
  <1>3. IssuedBelow' /\ Budget' /\ DeletedLeft' /\ Spent'
    BY <1>1 DEF IssuedBelow, Budget, DeletedLeft, Spent, Issued, Eternal
  <1>4. ToldRight'
    BY <1>1 DEF ToldRight, Verdict, Issued
  <1> QED BY <1>2, <1>3, <1>4

\* Every step keeps the invariant.
LEMMA NextInv == PoolInv /\ [PoolNext]_poolVars => PoolInv'
  <1> SUFFICES ASSUME PoolInv, [PoolNext]_poolVars PROVE PoolInv'
    OBVIOUS
  <1>1. ASSUME NEW k \in Kinds, AddMsg(k) PROVE PoolInv'
    BY <1>1, AddMsgInv
  <1>2. ASSUME NEW m \in DOMAIN pool, DeleteMsg(m) PROVE PoolInv'
    <2>1. CASE ~Eternal(m)
      BY <1>2, <2>1, ConfirmInv, ConfirmAndReviveInv DEF DeleteMsg
    <2>2. CASE Eternal(m)
      BY <1>2, <2>2, ConfirmEternal, WithdrawInv
    <2> QED
      BY <2>1, <2>2
  <1>3. ASSUME NEW S \in SUBSET DOMAIN pool, Withdraw(S) PROVE PoolInv'
    BY <1>3, WithdrawInv
  <1>4. ASSUME UNCHANGED poolVars PROVE PoolInv'
    BY <1>4 DEF poolVars, PoolInv, TypeOK, IssuedBelow, Budget, DeletedLeft, Spent,
                ToldRight, Verdict, Issued, Eternal
  <1> QED
    BY <1>1, <1>2, <1>3, <1>4, TraverseInv, TickInv DEF PoolNext, Crashed

\* What follows needs no fairness, so it is first said of the pool without any:
\* the program of Presence is such a pool.
LEMMA SafeInvariant == PoolSafety => []PoolInv
  BY InitInv, NextInv, PTL DEF PoolSafety

LEMMA InvSays == PoolInv => TypeOK /\ OneVerdict /\ Accounted
  <1>1. PoolInv => OneVerdict
    BY DEF PoolInv, ToldRight, Verdict, OneVerdict, Unheard
  <1>2. PoolInv => Accounted
    BY DEF PoolInv, Spent, ToldRight, Verdict, DeletedLeft, Accounted
  <1> QED BY <1>1, <1>2 DEF PoolInv

\* No operation brings back what has left.
LEMMA StaysOutSteps == PoolInv /\ [PoolNext]_poolVars => [StaysOutStep]_poolVars
  <1> SUFFICES ASSUME PoolInv, PoolNext,
                      NEW m \in Mids, Issued(m), m \notin DOMAIN pool
               PROVE  /\ m \notin DOMAIN pool' /\ kind'[m] = kind[m]
                      /\ sends'[m] = sends[m] /\ told'[m] = told[m]
    BY DEF StaysOutStep, poolVars
  <1> USE PoolAssumption DEF PoolInv
  <1>0. m # midCount /\ midCount \in Nat
    BY DEF IssuedBelow, TypeOK
  <1>1. ASSUME NEW k \in Kinds, AddMsg(k)
        PROVE  /\ m \notin DOMAIN pool' /\ kind'[m] = kind[m]
               /\ sends'[m] = sends[m] /\ told'[m] = told[m]
    BY <1>0, <1>1 DEF AddMsg, Issue, Plus, TypeOK
  <1>2. ASSUME NEW n \in DOMAIN pool, DeleteMsg(n)
        PROVE  /\ m \notin DOMAIN pool' /\ kind'[m] = kind[m]
               /\ sends'[m] = sends[m] /\ told'[m] = told[m]
    BY <1>0, <1>2 DEF DeleteMsg, Confirm, ConfirmAndRevive, Report, Issue, Plus,
                      Without, TypeOK
  <1>3. ASSUME NEW S \in SUBSET DOMAIN pool, Withdraw(S)
        PROVE  /\ m \notin DOMAIN pool' /\ kind'[m] = kind[m]
               /\ sends'[m] = sends[m] /\ told'[m] = told[m]
    BY <1>3 DEF Withdraw, Without
  <1>4. ASSUME TraverseAllMsg
        PROVE  /\ m \notin DOMAIN pool' /\ kind'[m] = kind[m]
               /\ sends'[m] = sends[m] /\ told'[m] = told[m]
    BY <1>4 DEF TraverseAllMsg
  <1>5. ASSUME Tick \/ Crashed
        PROVE  /\ m \notin DOMAIN pool' /\ kind'[m] = kind[m]
               /\ sends'[m] = sends[m] /\ told'[m] = told[m]
    BY <1>5 DEF Tick, Crashed, poolVars
  <1> QED BY <1>1, <1>2, <1>3, <1>4, <1>5 DEF PoolNext

\* A pass sends every due limited message it looks at, and what it does not
\* look at comes right after one that it erases.
LEMMA TraverseHeadway ==
    ASSUME PoolInv, TraverseAllMsg, NEW m \in DOMAIN pool, Due(pool[m]), ~Eternal(m)
    PROVE  \/ sends'[m] = sends[m] + 1
           \/ m \in DOMAIN pool' /\ pool'[m] = pool[m] /\ Ahead(m)' # Ahead(m)
  <1>1. PICK visited \in SUBSET DOMAIN pool :
          /\ IsWalk(visited)
          /\ LET due  == {n \in visited : Due(pool[n])}
                 gone == {n \in visited : Expires(pool[n])}
             IN  /\ pool' = [n \in DOMAIN pool \ gone |->
                                IF n \in due THEN Resent(pool[n]) ELSE pool[n]]
                 /\ sends' = [n \in Mids |->
                                IF n \in due /\ ~Eternal(n) THEN sends[n] + 1 ELSE sends[n]]
    BY DEF TraverseAllMsg
  <1>2. m \in Mids
    BY PoolAssumption DEF PoolInv, TypeOK, Mids
  <1>3. CASE m \in visited
    BY <1>1, <1>2, <1>3
  <1>4. CASE m \notin visited
    <2>1. PICK p \in visited : Precedes(p, m) /\ Expires(pool[p])
      BY <1>1, <1>4 DEF IsWalk
    <2>2. p \in Ahead(m) /\ p \notin Ahead(m)'
      BY <1>1, <2>1 DEF Precedes, Ahead
    <2> QED BY <1>1, <1>4, <2>2
  <1> QED BY <1>3, <1>4

\* No operation puts anything before a queued message; what a pass does to a
\* due one is TraverseHeadway.
LEMMA HeadwaySteps == PoolInv /\ [PoolNext]_poolVars => [HeadwayStep]_poolVars
  <1> SUFFICES ASSUME PoolInv, PoolNext, NEW m \in DOMAIN pool
               PROVE  /\ m \in DOMAIN pool' => Ahead(m)' \subseteq Ahead(m)
                      /\ awake /\ ~awake' /\ Due(pool[m]) /\ ~Eternal(m) =>
                            \/ sends'[m] = sends[m] + 1
                            \/ m \in DOMAIN pool' /\ pool'[m] = pool[m] /\ Ahead(m)' # Ahead(m)
    BY DEF HeadwayStep, poolVars
  <1>0. midCount \in Nat /\ m \in 0 .. midCount - 1
    BY PoolAssumption DEF PoolInv, TypeOK
  <1>1. ASSUME NEW k \in Kinds, AddMsg(k)
        PROVE  Ahead(m)' \subseteq Ahead(m) /\ UNCHANGED awake
    BY <1>0, <1>1 DEF AddMsg, Plus, Ahead
  <1>2. ASSUME NEW n \in DOMAIN pool, DeleteMsg(n)
        PROVE  Ahead(m)' \subseteq Ahead(m) /\ UNCHANGED awake
    BY <1>0, <1>2 DEF DeleteMsg, Confirm, ConfirmAndRevive, Report, Plus, Without, Ahead
  <1>3. ASSUME NEW S \in SUBSET DOMAIN pool, Withdraw(S)
        PROVE  Ahead(m)' \subseteq Ahead(m) /\ UNCHANGED awake
    BY <1>3 DEF Withdraw, Without, Ahead
  <1>4. CASE TraverseAllMsg
    <2>1. Ahead(m)' \subseteq Ahead(m)
      BY <1>4 DEF TraverseAllMsg, Ahead
    <2> QED BY <1>4, <2>1, TraverseHeadway
  <1>5. CASE Tick
    BY <1>5 DEF Tick, Ahead
  <1>6. CASE Crashed
    BY <1>6 DEF Crashed, poolVars, Ahead
  <1> QED BY <1>1, <1>2, <1>3, <1>4, <1>5, <1>6 DEF PoolNext

LEMMA SafePool == PoolSafety => [](OneVerdict /\ Accounted) /\ StaysOut /\ Headway
  BY SafeInvariant, InvSays, StaysOutSteps, HeadwaySteps, PTL
  DEF PoolSafety, StaysOut, Headway

\* The strengthened invariant holds of every behaviour.
THEOREM PoolInvariant == PoolSpec => []PoolInv
  BY SafeInvariant, PTL DEF PoolSpec

\* The variables of WaitACKMsgSender keep their types: every queued mid is
\* below midCount and every entry is one that AddMsg or a pass could leave.
THEOREM TypeCorrect == PoolSpec => []TypeOK
  BY PoolInvariant, InvSays, PTL

\* For any number of tries and messages, no callback of WaitACKMsgSender hears
\* two verdicts on one message.
THEOREM OneVerdictHolds == PoolSpec => []OneVerdict
  BY SafePool, PTL DEF PoolSpec

\* For any number of tries and messages, what left the pool was deleted or has
\* been sent MaxTryTimes + 1 times, its callback heard the right verdict, and
\* a process that is alive queues nothing it has deleted.
THEOREM AccountedHolds == PoolSpec => []Accounted
  BY SafePool, PTL DEF PoolSpec

\* For any constants, a message that left the pool never comes back.
THEOREM StaysOutHolds == PoolSpec => StaysOut
  BY SafePool, PTL DEF PoolSpec

\* For any constants, nothing is put before a queued message, and a pass misses
\* a due one only by taking out one of those before it: what is before a
\* message bounds the passes that can miss it.
THEOREM HeadwayHolds == PoolSpec => Headway
  BY SafePool, PTL DEF PoolSpec

-----------------------------------------------------------------------------
(* The pool implements the Courier *)

LEMMA InitMaps == PoolInit => C!CourierInit
  BY PoolAssumption DEF PoolInit, C!CourierInit, PhaseOf, Issued

\* What the Courier may do with one message, in the pool's terms.
MoveOf(m) ==
    \/ PhaseOf(m)' = PhaseOf(m) /\ sends'[m] = sends[m]
    \/ PhaseOf(m) = "unsent" /\ PhaseOf(m)' = "limited" /\ sends'[m] = 1
    \/ PhaseOf(m) = "unsent" /\ PhaseOf(m)' = "repeating" /\ sends'[m] = 0
    \/ /\ PhaseOf(m) = "limited" /\ PhaseOf(m)' = "limited"
       /\ sends'[m] = sends[m] + 1 /\ sends'[m] < MaxTryTimes + 1
    \/ PhaseOf(m) = "limited" /\ PhaseOf(m)' = "confirmed" /\ sends'[m] = sends[m]
    \/ PhaseOf(m) = "repeating" /\ PhaseOf(m)' = "withdrawn" /\ sends'[m] = sends[m]
    \/ /\ PhaseOf(m) = "limited" /\ PhaseOf(m)' = "failed"
       /\ sends'[m] = sends[m] + 1 /\ sends'[m] = MaxTryTimes + 1

LEMMA MovesSuffice ==
    ASSUME PoolInv, PoolInv', ~crashed, \A m \in Mids : MoveOf(m)
    PROVE  C!CourierNext
  <1>1. crashed' \in BOOLEAN
    BY DEF PoolInv, TypeOK
  <1>2. C!InOrder([m \in Mids |-> PhaseOf(m)]')
    <2> SUFFICES ASSUME NEW m \in Mids, NEW n \in Mids, n < m, PhaseOf(m)' # "unsent"
                 PROVE  PhaseOf(n)' # "unsent"
      BY DEF C!InOrder
    <2>1. m < midCount' /\ n < midCount'
      BY PoolAssumption DEF PoolInv, IssuedBelow, PhaseOf, TypeOK, Mids
    <2> QED BY <2>1 DEF PoolInv, IssuedBelow, PhaseOf
  <1>3. \A m \in Mids : C!Rests(m) \/ C!Posted(m) \/ C!Retried(m) \/ C!Ended(m)
    BY DEF MoveOf, C!Rests, C!Posted, C!Retried, C!Ended, C!Moves
  <1> QED
    BY <1>1, <1>2, <1>3 DEF C!CourierNext

LEMMA AddMsgMoves ==
    ASSUME PoolInv, NEW k \in Kinds, AddMsg(k), NEW m \in Mids
    PROVE  MoveOf(m)
  <1> USE PoolAssumption DEF PoolInv, AddMsg, Issue, Mids
  <1>1. midCount \in Mids /\ midCount \notin DOMAIN pool /\ midCount \notin deleted
    BY DEF TypeOK
  <1>2. CASE m = midCount
    <2>1. PhaseOf(m) = "unsent"
      BY <1>2 DEF IssuedBelow, PhaseOf, TypeOK
    <2>2. kind'[m] = k /\ m \in DOMAIN pool' /\ m \notin deleted'
          /\ sends'[m] = IF k = "keep" THEN 0 ELSE 1
      BY <1>1, <1>2 DEF TypeOK, Plus
    <2> QED BY <2>1, <2>2 DEF PhaseOf, Issued, Eternal, Kinds, MoveOf
  <1>3. CASE m # midCount
    <2>1. kind'[m] = kind[m] /\ sends'[m] = sends[m] /\ (m \in DOMAIN pool' <=> m \in DOMAIN pool)
      BY <1>3 DEF TypeOK, Plus
    <2> QED BY <2>1 DEF PhaseOf, Issued, Eternal, MoveOf
  <1> QED BY <1>2, <1>3

LEMMA DeleteMsgMoves ==
    ASSUME PoolInv, NEW n \in DOMAIN pool, ~Eternal(n), DeleteMsg(n), NEW m \in Mids
    PROVE  MoveOf(m)
  <1> USE PoolAssumption DEF PoolInv, Issue, Mids
  <1>1. Report(n)
    BY DEF DeleteMsg, Confirm, ConfirmAndRevive
  <1>2. n \in Mids /\ n \notin deleted /\ Issued(n) /\ deleted' = deleted \union {n}
    BY <1>1, ReportEffect
  <1>3. n \in 0 .. midCount - 1
    BY DEF TypeOK
  <1>4. CASE m = n
    <2>1. kind'[m] = kind[m] /\ sends'[m] = sends[m]
      BY <1>3, <1>4 DEF DeleteMsg, Confirm, ConfirmAndRevive, TypeOK
    <2> QED BY <2>1, <1>2, <1>4 DEF PhaseOf, Issued, Eternal, MoveOf
  <1>5. CASE m # n /\ m = midCount
    <2>1. PhaseOf(m) = "unsent"
      BY <1>5 DEF IssuedBelow, PhaseOf, TypeOK
    <2>2. m \notin deleted'
      BY <1>2, <1>5 DEF TypeOK
    <2>3. CASE Confirm(n)
      BY <2>1, <2>3 DEF Confirm, PhaseOf, Issued, MoveOf
    <2>4. CASE ConfirmAndRevive(n)
      <3>1. kind'[m] = "keep" /\ sends'[m] = 0
        BY <1>5, <2>4 DEF ConfirmAndRevive, TypeOK
      <3>2. m \in DOMAIN pool'
        BY <1>5, <2>4 DEF ConfirmAndRevive, Plus, Without
      <3> QED BY <2>1, <2>2, <3>1, <3>2 DEF PhaseOf, Issued, Eternal, MoveOf
    <2> QED BY <2>3, <2>4 DEF DeleteMsg
  <1>6. CASE m # n /\ m # midCount
    <2>1. kind'[m] = kind[m] /\ sends'[m] = sends[m] /\ (m \in DOMAIN pool' <=> m \in DOMAIN pool)
      BY <1>6 DEF DeleteMsg, Confirm, ConfirmAndRevive, TypeOK, Plus, Without
    <2> QED BY <2>1, <1>2, <1>6 DEF PhaseOf, Issued, Eternal, MoveOf
  <1> QED BY <1>4, <1>5, <1>6

LEMMA WithdrawMoves ==
    ASSUME PoolInv, NEW S, Withdraw(S), NEW m \in Mids
    PROVE  MoveOf(m)
  <1> USE DEF Withdraw, Without
  <1>1. CASE m \in S
    BY <1>1 DEF PoolInv, IssuedBelow, TypeOK, PhaseOf, Issued, Eternal, MoveOf
  <1>2. CASE m \notin S
    BY <1>2 DEF PhaseOf, Issued, Eternal, MoveOf
  <1> QED BY <1>1, <1>2

LEMMA TickMoves ==
    ASSUME PoolInv, Tick, NEW m \in Mids
    PROVE  MoveOf(m)
  BY DEF Tick, PhaseOf, Issued, Eternal, MoveOf

LEMMA TraverseMoves ==
    ASSUME PoolInv, TraverseAllMsg, NEW m \in Mids
    PROVE  MoveOf(m)
  <1> USE PoolAssumption DEF PoolInv
  <1>1. PICK visited \in SUBSET DOMAIN pool :
          LET due  == {n \in visited : Due(pool[n])}
              gone == {n \in visited : Expires(pool[n])}
          IN  /\ pool' = [n \in DOMAIN pool \ gone |->
                             IF n \in due THEN Resent(pool[n]) ELSE pool[n]]
              /\ sends' = [n \in Mids |->
                             IF n \in due /\ ~Eternal(n) THEN sends[n] + 1 ELSE sends[n]]
    BY DEF TraverseAllMsg
  <1> DEFINE due  == {n \in visited : Due(pool[n])}
             gone == {n \in visited : Expires(pool[n])}
  <1>2. UNCHANGED <<midCount, kind, crashed, deleted>> /\ ~crashed
    BY DEF TraverseAllMsg
  <1>3. /\ DOMAIN pool' = DOMAIN pool \ gone
        /\ sends'[m] = IF m \in due /\ ~Eternal(m) THEN sends[m] + 1 ELSE sends[m]
        /\ gone \subseteq due
    BY <1>1 DEF Expires
  <1>4. CASE m \notin due \/ Eternal(m)
    <2>1. m \notin gone
      BY <1>3, <1>4 DEF Expires, Budget, EternalTryTimes
    <2>2. sends'[m] = sends[m] /\ (m \in DOMAIN pool' <=> m \in DOMAIN pool)
      BY <1>3, <1>4, <2>1
    <2> QED BY <2>2, <1>2 DEF PhaseOf, Issued, Eternal, MoveOf
  <1>5. CASE m \in due /\ ~Eternal(m)
    <2>1. /\ m \in DOMAIN pool /\ Issued(m) /\ m \notin deleted
          /\ pool[m].left \in 0 .. MaxTryTimes - 1 /\ sends[m] + pool[m].left = MaxTryTimes
          /\ sends[m] \in Nat
      BY <1>2, <1>5 DEF TypeOK, IssuedBelow, DeletedLeft, Budget
    <2>2. PhaseOf(m) = "limited" /\ sends'[m] = sends[m] + 1
      BY <1>3, <1>5, <2>1 DEF PhaseOf
    <2>3. CASE m \in gone
      <3>1. PhaseOf(m)' = "failed"
        BY <2>1, <2>3, <1>2, <1>3 DEF PhaseOf, Issued
      <3>2. pool[m].left = 0
        BY <2>3 DEF Expires
      <3> QED BY <2>1, <2>2, <3>1, <3>2 DEF MoveOf
    <2>4. CASE m \notin gone
      <3>1. PhaseOf(m)' = "limited"
        BY <2>1, <2>4, <1>2, <1>3, <1>5 DEF PhaseOf, Issued, Eternal
      <3>2. pool[m].left # 0
        BY <1>5, <2>4 DEF Expires
      <3> QED BY <2>1, <2>2, <3>1, <3>2 DEF MoveOf
    <2> QED BY <2>3, <2>4
  <1> QED BY <1>4, <1>5

\* Each operation is a step of the Courier or none.
LEMMA CourierSteps ==
    PoolInv /\ PoolInv' /\ [PoolNext]_poolVars => [C!CourierNext]_(C!courierVars)
  <1> SUFFICES ASSUME PoolInv, PoolInv', [PoolNext]_poolVars
               PROVE  [C!CourierNext]_(C!courierVars)
    OBVIOUS
  <1>1. ASSUME NEW k \in Kinds, AddMsg(k) PROVE C!CourierNext
    BY <1>1, AddMsgMoves, MovesSuffice DEF AddMsg
  <1>2. ASSUME NEW n \in DOMAIN pool, DeleteMsg(n) PROVE C!CourierNext
    <2>1. CASE ~Eternal(n)
      BY <1>2, <2>1, DeleteMsgMoves, MovesSuffice
      DEF DeleteMsg, Confirm, ConfirmAndRevive, Report
    <2>2. CASE Eternal(n)
      <3>1. Withdraw({n})
        BY <1>2, <2>2, ConfirmEternal
      <3> QED
        BY <3>1, WithdrawMoves, MovesSuffice DEF Withdraw
    <2> QED
      BY <2>1, <2>2
  <1>3. ASSUME NEW S \in SUBSET DOMAIN pool, Withdraw(S) PROVE C!CourierNext
    BY <1>3, WithdrawMoves, MovesSuffice DEF Withdraw
  <1>4. CASE TraverseAllMsg
    BY <1>4, TraverseMoves, MovesSuffice DEF TraverseAllMsg
  <1>5. CASE Tick
    BY <1>5, TickMoves, MovesSuffice DEF Tick
  <1>6. CASE UNCHANGED poolVars
    BY <1>6 DEF poolVars, C!courierVars, PhaseOf, Issued, Eternal
  <1> QED BY <1>1, <1>2, <1>3, <1>4, <1>5, <1>6 DEF PoolNext, Crashed

LEMMA SafeCourier == PoolSafety => ImplementsCourierSafety
  BY SafeInvariant, InitMaps, CourierSteps, PTL
  DEF PoolSafety, ImplementsCourierSafety, C!CourierSafety

\* For any constants, the pool with its Loop thread, its iterator and its
\* nested AddMsg does only what the Courier may do: numbers in order, one end
\* for each message, failure after exactly MaxTryTimes + 1 datagrams, and a
\* heartbeat ends only when it is deleted.
THEOREM PoolImplementsCourier == PoolSpec => ImplementsCourierSafety
  BY SafeCourier, PTL DEF PoolSpec
=============================================================================
