---------------------------- MODULE PresenceProofs ----------------------------
(***************************************************************************)
(* The safety properties of Presence for any number of friends and of      *)
(* messages, and that the user list uses the pool only as AckPool allows.  *)
(*                                                                         *)
(* HeartbeatMatchesState is about the friends in the list.  To be kept by  *)
(* the callbacks of the pool and by DeleteUser it has to be said of all    *)
(* friends: one that is not listed has no heartbeat (BeatIsOwn).  The test *)
(* of ackMsgid against 0 is right only because mid 0 goes to the question  *)
(* whether the first friend is online (LoadedHasMid).                      *)
(***************************************************************************)
EXTENDS Presence, AckPoolProofs

\* The types of the variables of the list.
ListTypes ==
    /\ listed \subseteq Friends
    /\ hasInit \in BOOLEAN
    /\ state \in [Friends -> {"online", "offline"}]
    /\ ackMsgid \in [Friends -> {0} \union Mids]
    /\ idle \in [Friends -> 0 .. LiveTime + 1]
    /\ rest \in 0 .. LiveTime
    /\ peer \in [Mids -> Friends \union {NoFriend}]
    /\ handlers \subseteq Friends \X Mids
    /\ heard \subseteq Friends
    /\ lost \subseteq Mids

LoadedHasMid == listed # {} => midCount > 0

BeatWhileOnline == \A f \in Friends : state[f] = "online" <=> ackMsgid[f] # 0

\* The message of mid m is the heartbeat of f, queued or acknowledged.
BeatOf(f, m) ==
    /\ f \in listed
    /\ m \in DOMAIN pool \union lost
    /\ Eternal(m)
    /\ peer[m] = f

BeatIsOwn ==
    ~crashed => \A f \in Friends : ackMsgid[f] # 0 => BeatOf(f, ackMsgid[f])

\* Mid 0 is no heartbeat, and every heartbeat has its owner.
BeatHasOwner ==
    ~crashed => \A m \in DOMAIN pool :
        Eternal(m) => m # 0 /\ \E f \in listed : ackMsgid[f] = m

PresInv ==
    /\ PoolInv
    /\ ListTypes
    /\ LoadedHasMid
    /\ BeatWhileOnline
    /\ BeatIsOwn
    /\ BeatHasOwner

\* What the list and the pool have to agree on.
Agreement == LoadedHasMid /\ BeatWhileOnline /\ BeatIsOwn /\ BeatHasOwner

-----------------------------------------------------------------------------
(* The moves of the pool, as the list sees them *)

\* Mids that are free, and what a queued one is.
LEMMA PoolFacts ==
  ASSUME PresInv
  PROVE  /\ midCount \in Nat /\ midCount <= MaxMids
         /\ DOMAIN pool \subseteq Mids
         /\ midCount \notin DOMAIN pool
         /\ \A m \in Mids : kind[m] # "none" <=> m < midCount
         /\ kind \in [Mids -> Kinds \union {"none"}]
  BY PoolAssumption DEF PresInv, PoolInv, TypeOK, IssuedBelow, Issued, Mids

\* AddMsg gives the fresh mid to the new message and changes no other.
LEMMA AddEffect ==
  ASSUME PresInv, NEW k \in Kinds, AddMsg(k)
  PROVE  /\ midCount \in Mids
         /\ midCount' = midCount + 1
         /\ DOMAIN pool' = DOMAIN pool \union {midCount}
         /\ kind'[midCount] = k
         /\ \A m \in Mids : m # midCount => kind'[m] = kind[m]
         /\ ~crashed /\ crashed' = crashed
<1>1. midCount \in Mids
  BY PoolFacts, PoolAssumption DEF AddMsg, Issue, Mids
<1>2. kind'[midCount] = k /\ \A m \in Mids : m # midCount => kind'[m] = kind[m]
  BY <1>1, PoolFacts DEF AddMsg, Issue
<1> QED
  BY <1>1, <1>2 DEF AddMsg, Issue, Plus

\* DeleteMsg takes one message out, and may put a heartbeat in.
LEMMA ReviveEffect ==
  ASSUME PresInv, NEW m \in Mids, ConfirmAndRevive(m)
  PROVE  /\ midCount \in Mids
         /\ midCount' = midCount + 1
         /\ m \in DOMAIN pool
         /\ crashed' \/ DOMAIN pool' = (DOMAIN pool \ {m}) \union {midCount}
         /\ kind'[midCount] = "keep"
         /\ \A n \in Mids : n # midCount => kind'[n] = kind[n]
         /\ ~crashed /\ ~Eternal(m)
<1>1. midCount \in Mids
  BY PoolFacts, PoolAssumption DEF ConfirmAndRevive, Issue, Mids
<1>2. kind'[midCount] = "keep" /\ \A n \in Mids : n # midCount => kind'[n] = kind[n]
  BY <1>1, PoolFacts DEF ConfirmAndRevive, Issue
<1>3. ~crashed /\ m \in DOMAIN pool /\ ~Eternal(m)
  BY DEF ConfirmAndRevive, Report, Reviving, Eternal
<1>4. crashed' \/ DOMAIN pool' = (DOMAIN pool \ {m}) \union {midCount}
  BY DEF ConfirmAndRevive, Plus, Without
<1> QED
  BY <1>1, <1>2, <1>3, <1>4 DEF ConfirmAndRevive, Issue

\* A pass leaves every heartbeat in the pool.
LEMMA PassEffect ==
  ASSUME PresInv, TraverseAllMsg
  PROVE  /\ DOMAIN pool' \subseteq DOMAIN pool
         /\ \A m \in DOMAIN pool : Eternal(m) => m \in DOMAIN pool'
         /\ kind' = kind /\ crashed' = crashed /\ midCount' = midCount
<1>1. PICK visited \in SUBSET DOMAIN pool :
        DOMAIN pool' = DOMAIN pool \ {m \in visited : Expires(pool[m])}
  BY DEF TraverseAllMsg
<1>2. \A m \in DOMAIN pool : Eternal(m) => ~Expires(pool[m])
  BY DEF PresInv, PoolInv, Budget, Expires, EternalTryTimes
<1> QED
  BY <1>1, <1>2 DEF TraverseAllMsg

-----------------------------------------------------------------------------
(* The pieces of the operations keep the agreement *)

\* Messages that are no heartbeats may come and go, and a heartbeat may be
\* acknowledged.
LEMMA OthersAgree ==
  ASSUME PresInv,
         listed \subseteq listed' /\ listed' \subseteq Friends,
         UNCHANGED <<state, ackMsgid>>,
         LoadedHasMid', crashed => crashed', lost \subseteq lost',
         \A m \in DOMAIN pool' : Eternal(m)' => m \in DOMAIN pool /\ Eternal(m),
         \A m \in DOMAIN pool : Eternal(m) => m \in DOMAIN pool' \union lost',
         \A m \in Mids : Eternal(m) => Eternal(m)' /\ peer'[m] = peer[m]
  PROVE  Agreement'
<1>1. BeatWhileOnline'
  BY DEF PresInv, BeatWhileOnline
<1>2. BeatIsOwn' /\ BeatHasOwner'
  <2> SUFFICES ASSUME ~crashed'
               PROVE  /\ \A f \in Friends : ackMsgid'[f] # 0 => BeatOf(f, ackMsgid[f])'
                      /\ \A m \in DOMAIN pool' :
                             Eternal(m)' => m # 0 /\ \E f \in listed' : ackMsgid'[f] = m
    BY DEF BeatIsOwn, BeatHasOwner
  <2>1. ~crashed
    BY DEF PresInv, PoolInv, TypeOK
  <2>2. ASSUME NEW f \in Friends, ackMsgid'[f] # 0
        PROVE  BeatOf(f, ackMsgid[f])'
    <3>1. BeatOf(f, ackMsgid[f])
      BY <2>1, <2>2 DEF PresInv, BeatIsOwn
    <3>2. ackMsgid[f] \in Mids
      BY <2>2 DEF PresInv, ListTypes
    <3> QED
      BY <3>1, <3>2 DEF BeatOf
  <2>3. ASSUME NEW m \in DOMAIN pool', Eternal(m)'
        PROVE  m # 0 /\ \E f \in listed' : ackMsgid'[f] = m
    BY <2>1, <2>3 DEF PresInv, BeatHasOwner
  <2> QED
    BY <2>2, <2>3
<1> QED
  BY <1>1, <1>2 DEF Agreement

\* A friend gets the fresh mid for its heartbeat, while message gone, which
\* is no heartbeat, may leave.
LEMMA NewBeatAgrees ==
  ASSUME PresInv, NEW f \in listed, NEW gone,
         ackMsgid[f] = 0, ~Eternal(gone) \/ gone \notin DOMAIN pool,
         midCount \in Mids, midCount' = midCount + 1, ~crashed,
         crashed' \/ DOMAIN pool' = (DOMAIN pool \ {gone}) \union {midCount},
         kind'[midCount] = "keep",
         \A m \in Mids : m # midCount => kind'[m] = kind[m],
         state' = [state EXCEPT ![f] = "online"],
         ackMsgid' = [ackMsgid EXCEPT ![f] = midCount],
         Address(f), UNCHANGED <<listed, lost>>
  PROVE  Agreement'
<1>1. f \in Friends /\ midCount > 0 /\ midCount # 0 /\ LoadedHasMid'
  BY PoolFacts DEF PresInv, ListTypes, LoadedHasMid
<1>2. BeatWhileOnline'
  BY <1>1 DEF PresInv, ListTypes, BeatWhileOnline
<1>3. ASSUME ~crashed'
      PROVE  /\ \A g \in Friends : ackMsgid'[g] # 0 => BeatOf(g, ackMsgid[g])'
             /\ \A m \in DOMAIN pool' :
                    Eternal(m)' => m # 0 /\ \E g \in listed' : ackMsgid'[g] = m
  <2>1. DOMAIN pool' = (DOMAIN pool \ {gone}) \union {midCount}
    BY <1>3
  <2>2. peer'[midCount] = f /\ \A m \in Mids : m # midCount => peer'[m] = peer[m]
    BY DEF Address, PresInv, ListTypes
  <2>3. ASSUME NEW g \in Friends, ackMsgid'[g] # 0
        PROVE  BeatOf(g, ackMsgid[g])'
    <3>1. CASE g = f
      <4>1. ackMsgid'[g] = midCount
        BY <3>1, <1>1 DEF PresInv, ListTypes
      <4> QED
        BY <4>1, <3>1, <2>1, <2>2 DEF BeatOf, Eternal
    <3>2. CASE g # f
      <4>1. ackMsgid'[g] = ackMsgid[g]
        BY <3>2, <1>1 DEF PresInv, ListTypes
      <4>2. BeatOf(g, ackMsgid[g])
        BY <2>3, <4>1 DEF PresInv, BeatIsOwn
      <4>3. ackMsgid[g] \in Mids
        BY <2>3, <4>1 DEF PresInv, ListTypes
      <4>4. ackMsgid[g] # midCount
        BY <4>2, <4>3, PoolFacts DEF BeatOf, Eternal
      <4>5. ackMsgid[g] \in DOMAIN pool => ackMsgid[g] # gone
        BY <4>2 DEF BeatOf
      <4> QED
        BY <4>1, <4>2, <4>3, <4>4, <4>5, <2>1, <2>2 DEF BeatOf, Eternal
    <3> QED
      BY <3>1, <3>2
  <2>4. ASSUME NEW m \in DOMAIN pool', Eternal(m)'
        PROVE  m # 0 /\ \E g \in listed' : ackMsgid'[g] = m
    <3>1. CASE m = midCount
      BY <3>1, <1>1 DEF PresInv, ListTypes
    <3>2. CASE m # midCount
      <4>1. m \in DOMAIN pool /\ m \in Mids /\ Eternal(m)
        BY <3>2, <2>1, <2>4, PoolFacts DEF Eternal
      <4>2. m # 0 /\ \E g \in listed : ackMsgid[g] = m
        BY <4>1 DEF PresInv, BeatHasOwner
      <4>3. \A g \in listed : ackMsgid[g] = m => ackMsgid'[g] = m
        BY <4>2, <1>1 DEF PresInv, ListTypes
      <4> QED
        BY <4>2, <4>3, <1>1 DEF PresInv, ListTypes
    <3> QED
      BY <3>1, <3>2
  <2> QED
    BY <2>3, <2>4
<1>4. BeatIsOwn' /\ BeatHasOwner'
  BY <1>3 DEF BeatIsOwn, BeatHasOwner
<1> QED
  BY <1>1, <1>2, <1>4 DEF Agreement

\* UpdateUserState(user_online): the friend has a heartbeat already, and was
\* online, or gets one.
LEMMA SetOnlineAgrees ==
  ASSUME PresInv, NEW f \in Friends, SetOnline(f), UNCHANGED <<listed, lost>>
  PROVE  Agreement'
<1>1. f \in listed /\ Refresh(f)
  BY DEF SetOnline
<1>2. CASE ackMsgid[f] = 0
  <2>1. /\ AddMsg("keep")
        /\ ackMsgid' = [ackMsgid EXCEPT ![f] = midCount]
        /\ Address(f)
    BY <1>2 DEF SetOnline
  <2>2. /\ midCount \in Mids
        /\ midCount' = midCount + 1
        /\ DOMAIN pool' = DOMAIN pool \union {midCount}
        /\ kind'[midCount] = "keep"
        /\ \A m \in Mids : m # midCount => kind'[m] = kind[m]
        /\ ~crashed
    BY <2>1, AddEffect DEF Kinds
  <2>3. midCount \notin DOMAIN pool
    BY PoolFacts
  <2>4. DOMAIN pool' = (DOMAIN pool \ {midCount}) \union {midCount}
    BY <2>2, <2>3
  <2>5. state' = [state EXCEPT ![f] = "online"]
    BY <1>1 DEF Refresh
  <2> QED
    BY <1>1, <1>2, <2>1, <2>2, <2>3, <2>4, <2>5, NewBeatAgrees
<1>3. CASE ackMsgid[f] # 0
  <2>1. UNCHANGED <<pool, midCount, kind, crashed, ackMsgid, peer>>
    BY <1>3 DEF SetOnline, poolVars, Unaddressed
  <2>2. state' = state
    BY <1>1, <1>3 DEF Refresh, PresInv, ListTypes, BeatWhileOnline
  <2>3. LoadedHasMid'
    BY <2>1 DEF PresInv, LoadedHasMid
  <2>4. listed \subseteq listed' /\ listed' \subseteq Friends
    BY DEF PresInv, ListTypes
  <2> QED
    BY <2>1, <2>2, <2>3, <2>4, OthersAgree DEF Eternal
<1> QED
  BY <1>2, <1>3

\* SetState(user_offline) takes the heartbeats of the friends in S, and no
\* other one's, out of the pool.
LEMMA SetOfflineAgrees ==
  ASSUME PresInv, NEW S \in SUBSET Friends, SetOffline(S),
         listed' \subseteq listed, listed \ listed' \subseteq S, lost' = lost
  PROVE  Agreement'
<1> DEFINE beats == {ackMsgid[f] : f \in {g \in S : ackMsgid[g] # 0}} \intersect DOMAIN pool
<1>1. /\ ~crashed /\ crashed' = crashed
      /\ DOMAIN pool' = DOMAIN pool \ beats
      /\ UNCHANGED <<kind, midCount, peer>>
  BY DEF SetOffline, Withdraw, Without, Unaddressed
<1>2. \A f \in Friends : /\ state'[f] = IF f \in S THEN "offline" ELSE state[f]
                         /\ ackMsgid'[f] = IF f \in S THEN 0 ELSE ackMsgid[f]
  BY DEF SetOffline
<1>3. LoadedHasMid'
  BY <1>1 DEF PresInv, LoadedHasMid
<1>4. BeatWhileOnline'
  BY <1>2 DEF PresInv, BeatWhileOnline
<1>5. ASSUME NEW f \in Friends, ackMsgid'[f] # 0
      PROVE  BeatOf(f, ackMsgid[f])' /\ f \in listed'
  <2>1. f \notin S /\ ackMsgid'[f] = ackMsgid[f]
    BY <1>2, <1>5
  <2>2. BeatOf(f, ackMsgid[f])
    BY <1>1, <1>5, <2>1 DEF PresInv, BeatIsOwn
  <2>3. ackMsgid[f] \notin beats
    <3> SUFFICES ASSUME NEW g \in S, ackMsgid[g] # 0, ackMsgid[g] = ackMsgid[f]
                 PROVE  FALSE
      OBVIOUS
    <3>1. BeatOf(g, ackMsgid[g])
      BY <1>1 DEF PresInv, BeatIsOwn
    <3> QED
      BY <3>1, <2>1, <2>2 DEF BeatOf
  <2>4. f \in listed'
    BY <2>1, <2>2 DEF BeatOf
  <2> QED
    BY <1>1, <2>1, <2>2, <2>3, <2>4 DEF BeatOf, Eternal
<1>6. ASSUME NEW m \in DOMAIN pool', Eternal(m)'
      PROVE  m # 0 /\ \E f \in listed' : ackMsgid'[f] = m
  <2>1. m \in DOMAIN pool /\ Eternal(m) /\ m \notin beats
    BY <1>1, <1>6 DEF Eternal
  <2>2. m # 0 /\ \E f \in listed : ackMsgid[f] = m
    BY <1>1, <2>1 DEF PresInv, BeatHasOwner
  <2>3. PICK f \in listed : ackMsgid[f] = m
    BY <2>2
  <2>4. f \in Friends /\ f \notin S
    BY <2>1, <2>2, <2>3 DEF PresInv, ListTypes
  <2> QED
    BY <1>2, <2>2, <2>3, <2>4
<1> QED
  BY <1>3, <1>4, <1>5, <1>6 DEF Agreement, BeatIsOwn, BeatHasOwner

\* DeleteMsg with a callback that may put the friend online; of a heartbeat,
\* it is remembered as lost.
LEMMA AcknowledgeAgrees ==
  ASSUME PresInv, NEW f, NEW m \in Mids, Acknowledge(f, m), listed' = listed
  PROVE  Agreement'
<1>1. listed \subseteq listed' /\ listed' \subseteq Friends
  BY DEF PresInv, ListTypes
<1>2. ASSUME UNCHANGED <<state, ackMsgid, peer>>,
             UNCHANGED poolVars \/ Confirm(m)
      PROVE  Agreement'
  <2>1. UNCHANGED <<kind, midCount, crashed>>
    BY <1>2 DEF poolVars, Confirm
  <2>2. DOMAIN pool' \subseteq DOMAIN pool /\ DOMAIN pool \subseteq DOMAIN pool' \union {m}
    BY <1>2 DEF poolVars, Confirm, Without
  <2>3. LoadedHasMid'
    BY <2>1 DEF PresInv, LoadedHasMid
  <2>4. lost \subseteq lost' /\ (m \in DOMAIN pool /\ Eternal(m) => m \in lost')
    BY DEF Acknowledge
  <2>5. \A n \in DOMAIN pool : Eternal(n) => n \in DOMAIN pool' \union lost'
    BY <2>2, <2>4
  <2>6. \A n : Eternal(n)' <=> Eternal(n)
    BY <2>1 DEF Eternal
  <2> QED
    BY <1>1, <1>2, <2>1, <2>2, <2>3, <2>4, <2>5, <2>6, OthersAgree
<1>3. CASE m \notin DOMAIN pool
  BY <1>2, <1>3 DEF Acknowledge, Unaddressed
<1>4. CASE m \in DOMAIN pool /\ (f \notin listed \/ Eternal(m))
  BY <1>2, <1>4 DEF Acknowledge, Unaddressed
<1>5. CASE m \in DOMAIN pool /\ f \in listed /\ ~Eternal(m) /\ ackMsgid[f] # 0
  <2>1. Refresh(f) /\ Confirm(m) /\ UNCHANGED <<ackMsgid, peer>>
    BY <1>5 DEF Acknowledge, Unaddressed
  <2>2. state' = state
    BY <1>5, <2>1 DEF Refresh, PresInv, ListTypes, BeatWhileOnline
  <2> QED
    BY <1>2, <2>1, <2>2
<1>6. CASE m \in DOMAIN pool /\ f \in listed /\ ~Eternal(m) /\ ackMsgid[f] = 0
  <2>1. /\ ConfirmAndRevive(m)
        /\ state' = [state EXCEPT ![f] = "online"]
        /\ ackMsgid' = [ackMsgid EXCEPT ![f] = midCount]
        /\ Address(f)
        /\ lost' = lost
    BY <1>6 DEF Acknowledge, Refresh
  <2>2. /\ midCount \in Mids
        /\ midCount' = midCount + 1
        /\ crashed' \/ DOMAIN pool' = (DOMAIN pool \ {m}) \union {midCount}
        /\ kind'[midCount] = "keep"
        /\ \A n \in Mids : n # midCount => kind'[n] = kind[n]
        /\ ~crashed
    BY <2>1, ReviveEffect
  <2> QED
    BY <1>6, <2>1, <2>2, NewBeatAgrees
<1> QED
  BY <1>3, <1>4, <1>5, <1>6

-----------------------------------------------------------------------------
(* The list uses the pool as its clients may *)

\* DeleteMsg and Withdraw of nothing leave the pool as it is.
LEMMA WithdrawIsPoolStep ==
  ASSUME PresInv, NEW S, Withdraw(S), S \subseteq DOMAIN pool
  PROVE  [PoolNext]_poolVars
<1>1. CASE S = {}
  <2>1. pool' = pool
    BY <1>1 DEF Withdraw, Without, PresInv, PoolInv, TypeOK
  <2>2. deleted' = deleted
    BY <1>1 DEF Withdraw
  <2> QED
    BY <2>1, <2>2 DEF Withdraw, poolVars
<1>2. CASE S # {}
  BY <1>2 DEF PoolNext
<1> QED
  BY <1>1, <1>2

LEMMA SetOnlineIsPoolStep ==
  ASSUME NEW f, SetOnline(f)
  PROVE  [PoolNext]_poolVars
  BY DEF SetOnline, PoolNext, Kinds

LEMMA SetOfflineIsPoolStep ==
  ASSUME PresInv, NEW S, SetOffline(S)
  PROVE  [PoolNext]_poolVars
  BY WithdrawIsPoolStep DEF SetOffline

LEMMA AcknowledgeIsPoolStep ==
  ASSUME NEW f, NEW m, Acknowledge(f, m)
  PROVE  [PoolNext]_poolVars
<1>1. CASE UNCHANGED poolVars
  BY <1>1
<1>2. CASE Confirm(m) \/ ConfirmAndRevive(m)
  BY <1>2 DEF PoolNext, DeleteMsg, Confirm, ConfirmAndRevive, Report
<1> QED
  BY <1>1, <1>2 DEF Acknowledge

\* Every step of the program is a step of the pool or leaves the pool alone.
LEMMA StepUsesPool ==
  PresInv /\ [PresNext]_presVars => [PoolNext]_poolVars
<1> SUFFICES ASSUME PresInv, [PresNext]_presVars
             PROVE  [PoolNext]_poolVars
  OBVIOUS
<1>1. ASSUME NEW f \in Friends, Load(f) \/ ChatWithText(f)
      PROVE  [PoolNext]_poolVars
  BY <1>1 DEF Load, ChatWithText, PoolNext, Kinds
<1>2. ASSUME NEW f \in Friends, DeleteUser(f) \/ OnOfflineMsg(f)
      PROVE  [PoolNext]_poolVars
  BY <1>2, SetOfflineIsPoolStep DEF DeleteUser, OnOfflineMsg
<1>3. ASSUME NEW f \in Friends, OnOnlineMsg(f) \/ OnKeepOnlineMsg(f)
      PROVE  [PoolNext]_poolVars
  BY <1>3, SetOnlineIsPoolStep DEF OnOnlineMsg, OnKeepOnlineMsg
<1>4. ASSUME NEW f \in Friends, NEW m \in Mids, OnOnlineAckMsg(f, m)
      PROVE  [PoolNext]_poolVars
  BY <1>4, SetOnlineIsPoolStep DEF OnOnlineAckMsg
<1>5. ASSUME NEW f \in Friends, NEW m \in Mids, FinishOnlineAck(f, m)
      PROVE  [PoolNext]_poolVars
  BY <1>5, AcknowledgeIsPoolStep DEF FinishOnlineAck
<1>6. ASSUME NEW f, NEW m \in Mids, OnNormalAckMsg(f, m)
      PROVE  [PoolNext]_poolVars
  BY <1>6, AcknowledgeIsPoolStep DEF OnNormalAckMsg
<1>7. CASE InitDone \/ Reach \/ PresCrashed \/ UNCHANGED presVars
  BY <1>7 DEF InitDone, Reach, PresCrashed, presVars
<1>8. CASE TraverseAllUsers
  BY <1>8, SetOfflineIsPoolStep DEF TraverseAllUsers
<1>9. CASE PoolPass \/ PresTick
  BY <1>9 DEF PoolPass, PresTick, PoolNext
<1> QED
  BY <1>1, <1>2, <1>3, <1>4, <1>5, <1>6, <1>7, <1>8, <1>9 DEF PresNext

-----------------------------------------------------------------------------
(* The types *)

\* The pieces keep the types of what they change.
LEMMA SetOnlineTypes ==
  ASSUME PresInv, NEW f \in Friends, SetOnline(f)
  PROVE  /\ state' \in [Friends -> {"online", "offline"}]
         /\ ackMsgid' \in [Friends -> {0} \union Mids]
         /\ idle' \in [Friends -> 0 .. LiveTime + 1]
         /\ peer' \in [Mids -> Friends \union {NoFriend}]
<1>1. /\ state' \in [Friends -> {"online", "offline"}]
      /\ idle' \in [Friends -> 0 .. LiveTime + 1]
  BY PresenceAssumption DEF SetOnline, Refresh, PresInv, ListTypes
<1>2. AddMsg("keep") => midCount \in Mids
  BY AddEffect DEF Kinds
<1>3. /\ ackMsgid' \in [Friends -> {0} \union Mids]
      /\ peer' \in [Mids -> Friends \union {NoFriend}]
  BY <1>2 DEF SetOnline, Address, Unaddressed, PresInv, ListTypes
<1> QED
  BY <1>1, <1>3

LEMMA SetOfflineTypes ==
  ASSUME PresInv, NEW S, SetOffline(S)
  PROVE  /\ state' \in [Friends -> {"online", "offline"}]
         /\ ackMsgid' \in [Friends -> {0} \union Mids]
         /\ idle' \in [Friends -> 0 .. LiveTime + 1]
         /\ peer' \in [Mids -> Friends \union {NoFriend}]
<1>1. /\ state' \in [Friends -> {"online", "offline"}]
      /\ ackMsgid' \in [Friends -> {0} \union Mids]
      /\ peer' \in [Mids -> Friends \union {NoFriend}]
  BY DEF SetOffline, Unaddressed, PresInv, ListTypes
<1>2. idle' \in [Friends -> 0 .. LiveTime + 1]
  BY PresenceAssumption DEF SetOffline, PresInv, ListTypes
<1> QED
  BY <1>1, <1>2

LEMMA AcknowledgeTypes ==
  ASSUME PresInv, NEW f, NEW m \in Mids, Acknowledge(f, m)
  PROVE  /\ state' \in [Friends -> {"online", "offline"}]
         /\ ackMsgid' \in [Friends -> {0} \union Mids]
         /\ idle' \in [Friends -> 0 .. LiveTime + 1]
         /\ peer' \in [Mids -> Friends \union {NoFriend}]
         /\ lost' \subseteq Mids
<1>1. /\ state' \in [Friends -> {"online", "offline"}]
      /\ idle' \in [Friends -> 0 .. LiveTime + 1]
      /\ lost' \subseteq Mids
  BY PresenceAssumption DEF Acknowledge, Refresh, PresInv, ListTypes
<1>2. ConfirmAndRevive(m) => midCount \in Mids
  BY ReviveEffect
<1>3. /\ ackMsgid' \in [Friends -> {0} \union Mids]
      /\ peer' \in [Mids -> Friends \union {NoFriend}]
  BY <1>2 DEF Acknowledge, Address, Unaddressed, PresInv, ListTypes
<1> QED
  BY <1>1, <1>3

\* Every action keeps the types of the list.
LEMMA ListTypesStep ==
  PresInv /\ [PresNext]_presVars => ListTypes'
<1> SUFFICES ASSUME PresInv, [PresNext]_presVars
             PROVE  ListTypes'
  OBVIOUS
<1> USE PresenceAssumption
<1>1. ASSUME NEW f \in Friends, Load(f) \/ ChatWithText(f)
      PROVE  ListTypes'
  <2>1. midCount \in Mids
    BY <1>1, AddEffect DEF Load, ChatWithText, Kinds
  <2>2. peer' \in [Mids -> Friends \union {NoFriend}]
    BY <1>1, <2>1 DEF Load, ChatWithText, Address, PresInv, ListTypes
  <2>3. UNCHANGED <<hasInit, state, ackMsgid, idle, rest, handlers, heard, lost>>
        /\ listed' \subseteq Friends
    BY <1>1 DEF Load, ChatWithText, listVars, PresInv, ListTypes
  <2> QED
    BY <2>2, <2>3 DEF PresInv, ListTypes
<1>2. ASSUME NEW f \in Friends, DeleteUser(f) \/ OnOfflineMsg(f)
      PROVE  ListTypes'
  <2>1. SetOffline({f}) /\ UNCHANGED <<hasInit, rest, handlers, heard, lost>> /\ listed' \subseteq Friends
    BY <1>2 DEF DeleteUser, OnOfflineMsg, PresInv, ListTypes
  <2> QED
    BY <2>1, SetOfflineTypes DEF PresInv, ListTypes
<1>3. ASSUME NEW f \in Friends,
             OnOnlineMsg(f) \/ OnKeepOnlineMsg(f) \/ \E m \in Mids : OnOnlineAckMsg(f, m)
      PROVE  ListTypes'
  <2>1. /\ SetOnline(f)
        /\ UNCHANGED <<listed, hasInit, rest, heard, lost>>
        /\ handlers' \subseteq Friends \X Mids
    BY <1>3 DEF OnOnlineMsg, OnKeepOnlineMsg, OnOnlineAckMsg, PresInv, ListTypes
  <2> QED
    BY <2>1, SetOnlineTypes DEF PresInv, ListTypes
<1>4. ASSUME NEW f, NEW m \in Mids,
             FinishOnlineAck(f, m) \/ OnNormalAckMsg(f, m)
      PROVE  ListTypes'
  <2>1. /\ Acknowledge(f, m)
        /\ UNCHANGED <<listed, hasInit, rest, heard>>
        /\ handlers' \subseteq Friends \X Mids
    BY <1>4 DEF FinishOnlineAck, OnNormalAckMsg, PresInv, ListTypes
  <2> QED
    BY <2>1, AcknowledgeTypes DEF PresInv, ListTypes
<1>5. CASE InitDone
  BY <1>5 DEF InitDone, PresInv, ListTypes
<1>6. CASE TraverseAllUsers
  <2>1. /\ SetOffline({f \in listed : Silent(f)})
        /\ rest' = LiveTime
        /\ UNCHANGED <<listed, hasInit, handlers, heard, lost>>
    BY <1>6 DEF TraverseAllUsers
  <2> QED
    BY <2>1, SetOfflineTypes DEF PresInv, ListTypes
<1>7. CASE PoolPass
  BY <1>7 DEF PoolPass, listVars, PresInv, ListTypes
<1>8. CASE PresTick
  <2>1. idle' \in [Friends -> 0 .. LiveTime + 1] /\ rest' \in 0 .. LiveTime
    BY <1>8 DEF PresTick, PresInv, ListTypes
  <2> QED
    BY <1>8, <2>1 DEF PresTick, PresInv, ListTypes
<1>9. CASE Reach
  BY <1>9 DEF Reach, listVars, PresInv, ListTypes
<1>10. CASE PresCrashed \/ UNCHANGED presVars
  BY <1>10 DEF PresCrashed, presVars, listVars, PresInv, ListTypes
<1> QED
  BY <1>1, <1>2, <1>3, <1>4, <1>5, <1>6, <1>7, <1>8, <1>9, <1>10 DEF PresNext

-----------------------------------------------------------------------------
(* The invariant is inductive *)

\* The list and the pool agree after every step.
LEMMA AgreementStep ==
  PresInv /\ [PresNext]_presVars => Agreement'
<1> SUFFICES ASSUME PresInv, [PresNext]_presVars
             PROVE  Agreement'
  OBVIOUS
<1>1. ASSUME NEW f \in Friends, Load(f) \/ ChatWithText(f)
      PROVE  Agreement'
  <2>1. PICK k \in {"online", "chat"} :
          /\ AddMsg(k)
          /\ Address(f)
          /\ listed \subseteq listed'
          /\ listed' \subseteq Friends
          /\ UNCHANGED <<state, ackMsgid, lost>>
    BY <1>1 DEF Load, ChatWithText, listVars, PresInv, ListTypes
  <2>2. /\ midCount \in Mids
        /\ midCount' = midCount + 1
        /\ DOMAIN pool' = DOMAIN pool \union {midCount}
        /\ kind'[midCount] = k
        /\ \A m \in Mids : m # midCount => kind'[m] = kind[m]
        /\ crashed' = crashed
    BY <2>1, AddEffect DEF Kinds
  <2>3. LoadedHasMid'
    BY <2>2, PoolFacts DEF LoadedHasMid
  <2>4. \A m \in Mids : m # midCount => peer'[m] = peer[m]
    BY <2>1 DEF Address, PresInv, ListTypes
  <2>5. \A m \in DOMAIN pool' : Eternal(m)' => m \in DOMAIN pool /\ Eternal(m)
    BY <2>2, PoolFacts DEF Eternal
  <2>6. \A m \in Mids : Eternal(m) => Eternal(m)' /\ peer'[m] = peer[m]
    BY <2>2, <2>4, PoolFacts DEF Eternal
  <2>7. DOMAIN pool \subseteq DOMAIN pool'
    BY <2>2
  <2> QED
    BY <2>1, <2>2, <2>3, <2>5, <2>6, <2>7, OthersAgree
<1>2. ASSUME NEW f \in Friends, DeleteUser(f) \/ OnOfflineMsg(f)
      PROVE  Agreement'
  <2>1. /\ SetOffline({f})
        /\ listed' \subseteq listed
        /\ listed \ listed' \subseteq {f}
        /\ lost' = lost
    BY <1>2 DEF DeleteUser, OnOfflineMsg
  <2> QED
    BY <2>1, SetOfflineAgrees
<1>3. ASSUME NEW f \in Friends,
             OnOnlineMsg(f) \/ OnKeepOnlineMsg(f) \/ \E m \in Mids : OnOnlineAckMsg(f, m)
      PROVE  Agreement'
  <2>1. SetOnline(f) /\ UNCHANGED <<listed, lost>>
    BY <1>3 DEF OnOnlineMsg, OnKeepOnlineMsg, OnOnlineAckMsg
  <2> QED
    BY <2>1, SetOnlineAgrees
<1>4. ASSUME NEW f, NEW m \in Mids,
             FinishOnlineAck(f, m) \/ OnNormalAckMsg(f, m)
      PROVE  Agreement'
  <2>1. Acknowledge(f, m) /\ listed' = listed
    BY <1>4 DEF FinishOnlineAck, OnNormalAckMsg
  <2> QED
    BY <2>1, AcknowledgeAgrees
<1>5. CASE TraverseAllUsers
  <2>1. SetOffline({f \in listed : Silent(f)}) /\ UNCHANGED <<listed, lost>>
    BY <1>5 DEF TraverseAllUsers
  <2>2. {f \in listed : Silent(f)} \in SUBSET Friends
    BY DEF PresInv, ListTypes
  <2> QED
    BY <2>1, <2>2, SetOfflineAgrees
<1>6. ASSUME UNCHANGED <<listed, state, ackMsgid, peer, lost, kind, crashed, midCount>>,
             DOMAIN pool' \subseteq DOMAIN pool,
             \A m \in DOMAIN pool : Eternal(m) => m \in DOMAIN pool'
      PROVE  Agreement'
  <2>1. LoadedHasMid'
    BY <1>6 DEF PresInv, LoadedHasMid
  <2>2. listed \subseteq listed' /\ listed' \subseteq Friends
    BY <1>6 DEF PresInv, ListTypes
  <2> QED
    BY <1>6, <2>1, <2>2, OthersAgree DEF Eternal
<1>7. CASE PoolPass
  BY <1>6, <1>7, PassEffect DEF PoolPass, listVars
<1>8. CASE PresTick
  BY <1>6, <1>8 DEF PresTick, Tick
<1>9. CASE InitDone \/ Reach \/ PresCrashed \/ UNCHANGED presVars
  BY <1>6, <1>9 DEF InitDone, Reach, PresCrashed, presVars, poolVars, listVars
<1> QED
  BY <1>1, <1>2, <1>3, <1>4, <1>5, <1>7, <1>8, <1>9 DEF PresNext

\* The initial state satisfies the invariant.
LEMMA PresInvInit == PresInit => PresInv
<1> SUFFICES ASSUME PresInit
             PROVE  PresInv
  OBVIOUS
<1>1. PoolInv
  BY InitInv DEF PresInit
<1>2. ListTypes
  <2>1. /\ state \in [Friends -> {"online", "offline"}]
        /\ ackMsgid \in [Friends -> {0} \union Mids]
        /\ peer \in [Mids -> Friends \union {NoFriend}]
    BY DEF PresInit
  <2>2. /\ idle \in [Friends -> 0 .. LiveTime + 1]
        /\ rest \in 0 .. LiveTime
    BY PresenceAssumption DEF PresInit
  <2>3. listed \subseteq Friends /\ hasInit \in BOOLEAN /\ heard \subseteq Friends
    BY Zenon DEF PresInit
  <2>4. handlers \subseteq Friends \X Mids /\ lost \subseteq Mids
    BY DEF PresInit
  <2> QED
    BY <2>1, <2>2, <2>3, <2>4 DEF ListTypes
<1>3. LoadedHasMid /\ BeatWhileOnline /\ BeatIsOwn
  BY DEF PresInit, LoadedHasMid, BeatWhileOnline, BeatIsOwn
<1>4. BeatHasOwner
  BY DEF PresInit, PoolInit, BeatHasOwner
<1> QED
  BY <1>1, <1>2, <1>3, <1>4 DEF PresInv

\* The invariant is inductive.
LEMMA PresInvStep == PresInv /\ [PresNext]_presVars => PresInv'
<1> SUFFICES ASSUME PresInv, [PresNext]_presVars
             PROVE  PresInv'
  OBVIOUS
<1>1. PoolInv'
  BY StepUsesPool, NextInv DEF PresInv
<1> QED
  BY <1>1, ListTypesStep, AgreementStep DEF PresInv, Agreement

\* Every reachable state satisfies the invariant.
THEOREM PresInvHolds == PresSpec => []PresInv
  BY PresInvInit, PresInvStep, PTL DEF PresSpec, PresSafety

\* The variables of the list and of the pool keep their types.
THEOREM PresTypeCorrect == PresSpec => []PresTypeOK
<1>1. PresInv => PresTypeOK
  BY DEF PresInv, PoolInv, ListTypes, PresTypeOK
<1> QED
  BY <1>1, PresInvHolds, PTL

\* A friend is online exactly when it has a heartbeat of its own, in the pool
\* unless an acknowledgement of an earlier run deleted it, for any number of
\* friends, handlers and messages.
THEOREM HeartbeatMatchesStateHolds == PresSpec => []HeartbeatMatchesState
<1>1. PresInv => HeartbeatMatchesState
  BY DEF PresInv, ListTypes, BeatWhileOnline, BeatIsOwn, BeatOf, HeartbeatMatchesState
<1> QED
  BY <1>1, PresInvHolds, PTL

\* No heartbeat outlives its friend.
THEOREM NoOrphanHeartbeatHolds == PresSpec => []NoOrphanHeartbeat
<1>1. PresInv => NoOrphanHeartbeat
  BY DEF PresInv, BeatHasOwner, NoOrphanHeartbeat
<1> QED
  BY <1>1, PresInvHolds, PTL

\* The user list, the handlers and both loops use the pool only in the ways
\* AckPool allows, so that what is proved of the pool holds in the program.
THEOREM PresenceImplementsPool == PresSpec => ImplementsPool
<1>1. PresInit => PoolInit
  BY DEF PresInit
<1> QED
  BY <1>1, PresInvHolds, StepUsesPool, PTL DEF PresSpec, PresSafety, ImplementsPool, PoolSafety

\* What the pool promises by itself it promises to the program, through every
\* callback of AfterOnlineMsg that queues a heartbeat and every withdrawal of
\* the user list: one verdict for each message, nothing lost, nothing that
\* comes back, and headway for what is queued.
THEOREM PoolInPresence ==
    PresSpec => [](OneVerdict /\ Accounted) /\ StaysOut /\ Headway
  BY PresenceImplementsPool, SafePool, PTL DEF ImplementsPool

\* The program keeps the promises of the Courier: the refinement of the pool
\* by the user list and that of the Courier by the pool compose.
THEOREM PresenceImplementsCourier == PresSpec => ImplementsCourierSafety
  BY PresenceImplementsPool, SafeCourier, PTL DEF ImplementsPool
=============================================================================
