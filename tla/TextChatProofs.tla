---------------------------- MODULE TextChatProofs ----------------------------
(***************************************************************************)
(* The safety properties of TextChat for any number of texts, messages,    *)
(* tries, restarts of A and duplicated datagrams.                          *)
(*                                                                         *)
(* An acknowledgement knows nothing but a mid.  What makes a report of     *)
(* success true is said of the acknowledgement while it is under way       *)
(* (AckHasCause), and that it is true of the right text holds because in   *)
(* its first life A has not forgotten the text of any mid (FirstLife).     *)
(* The copies of a text are bounded by what the pool has sent of it while  *)
(* A knows its mid (CopiesSent), and by the bound of that once A has       *)
(* forgotten it.                                                           *)
(***************************************************************************)
EXTENDS TextChat, AckPoolProofs

\* The types of the variables that are not the pool's.
ChatTypes ==
    /\ textOf \in [Mids -> Texts \union {NoText}]
    /\ lives \in 1 .. MaxMishaps + 1
    /\ aLists \in BOOLEAN
    /\ notices \subseteq Texts
    /\ midOf \in [Texts -> Mids \union {-1}]
    /\ net \in [Texts -> Nat]
    /\ acks \in [Mids -> Nat]
    /\ dups \in 0 .. MaxMishaps
    /\ bLists \in BOOLEAN
    /\ bUp \in BOOLEAN
    /\ handling \in [Texts -> Nat]
    /\ recorded \in [Texts -> Nat]
    /\ bLost \subseteq Texts
    /\ received \subseteq Texts
    /\ confirmed \subseteq Texts

\* The pool of A holds texts only.
OnlyTexts == \A m \in Mids : kind[m] \in {"none", "chat"}

\* A mid and its text point at each other, and the mids that were given out
\* in this life of A are those that have a text.
MidsMatch ==
    /\ \A m \in Mids : textOf[m] # NoText => midOf[textOf[m]] = m
    /\ \A m \in Mids : kind[m] # "none" <=> textOf[m] # NoText

FirstLife ==
    lives = 1 => \A t \in Texts : midOf[t] # -1 => textOf[midOf[t]] = t

\* What is under way, or was received, has been sent.
SentHasMid == \A t \in Texts : net[t] > 0 \/ t \in received => midOf[t] # -1

AckHasCause ==
    \A m \in Mids : acks[m] > 0 => \E t \in received : midOf[t] = m

SendsBounded == \A m \in Mids : sends[m] <= MaxTryTimes + 1

Copies(t) == net[t] + handling[t] + recorded[t]

CopiesSent ==
    /\ \A t \in Texts : midOf[t] = -1 => Copies(t) = 0
    /\ \A m \in Mids : textOf[m] # NoText => Copies(textOf[m]) <= sends[m] + dups

\* B may record a text more than once, but never more often than A sends it
\* plus what the network duplicates: what is in the network, in the handlers
\* and in the history together stays within that.
CopiesBounded == \A t \in Texts : Copies(t) <= MaxTryTimes + 1 + dups

\* What the invariant says of mids and texts, of what has arrived, and of
\* what was confirmed.
MidsRight == OnlyTexts /\ MidsMatch /\ FirstLife

ArrivalsRight == SentHasMid /\ AckHasCause /\ ConfirmationHasCause

CopiesRight == SendsBounded /\ CopiesSent /\ CopiesBounded

\* All of the invariant but what it says of the pool alone.
ChatRight == ChatTypes /\ MidsRight /\ ArrivalsRight /\ CopiesRight

ChatInv == PoolInv /\ ChatRight

-----------------------------------------------------------------------------
(* The pool *)

\* As long as A runs it does to the pool only what AckPool says.
LEMMA ChatUsesPool ==
  ChatInv /\ [ChatNext]_chatVars /\ ~RestartA => [PoolNext]_poolVars
<1> SUFFICES ASSUME ChatInv, [ChatNext]_chatVars, ~RestartA
             PROVE  [PoolNext]_poolVars
  OBVIOUS
<1>1. ASSUME NEW t \in Texts, ChatWithText(t)
      PROVE  [PoolNext]_poolVars
  BY <1>1 DEF ChatWithText, PoolNext, Kinds
<1>2. ASSUME NEW m \in Mids, OnNormalAckMsg(m)
      PROVE  [PoolNext]_poolVars
  <2>1. CASE Confirm(m)
    <3>1. m \in DOMAIN pool /\ ~Eternal(m)
      BY <2>1 DEF Confirm, Report, ChatInv, ChatRight, MidsRight, OnlyTexts, Eternal
    <3> QED
      BY <2>1, <3>1 DEF PoolNext, DeleteMsg
  <2> QED
    BY <1>2, <2>1 DEF OnNormalAckMsg
<1>3. CASE PoolPass \/ PoolTick
  BY <1>3 DEF PoolPass, PoolTick, PoolNext
<1> QED
  BY <1>1, <1>2, <1>3
  DEF ChatNext, chatVars, OnChatWithTextMsg, IgnoreText, UpdateChatContent,
      DeleteFriendA, Duplicate, DeleteFriendB, SwitchB

\* A new life of A begins with a new pool.
LEMMA PoolStep ==
  ChatInv /\ [ChatNext]_chatVars => PoolInv'
<1>1. RestartA => PoolInv'
  <2>1. RestartA => PoolInit'
    BY DEF RestartA, PoolInit
  <2>2. PoolInit' => PoolInv'
    BY InitInv, PTL
  <2> QED
    BY <2>1, <2>2
<1> QED
  BY <1>1, ChatUsesPool, NextInv DEF ChatInv

\* The fresh mid of a text, and what AddMsg changes.
LEMMA TextAdded ==
  ASSUME ChatInv, AddMsg("chat")
  PROVE  /\ midCount \in Mids
         /\ kind[midCount] = "none"
         /\ kind' = [kind EXCEPT ![midCount] = "chat"]
         /\ sends' = [sends EXCEPT ![midCount] = 1]
         /\ kind \in [Mids -> Kinds \union {"none"}]
         /\ sends \in [Mids -> Nat]
<1>1. midCount \in Mids
  BY PoolAssumption DEF AddMsg, Issue, Mids, ChatInv, PoolInv, TypeOK
<1>2. kind[midCount] = "none"
  BY <1>1 DEF ChatInv, PoolInv, IssuedBelow, Issued, TypeOK
<1> QED
  BY <1>1, <1>2 DEF AddMsg, Issue, ChatInv, PoolInv, TypeOK

\* A pass sends a message once more only while that is within the tries, and
\* reports failure only of messages that are queued.
LEMMA PassSends ==
  ASSUME ChatInv, TraverseAllMsg
  PROVE  /\ kind' = kind
         /\ \A m \in Mids : \/ sends'[m] = sends[m]
                            \/ sends'[m] = sends[m] + 1 /\ sends[m] <= MaxTryTimes
         /\ \A m \in Mids : told'[m] # told[m] => kind[m] # "none"
<1>1. PICK visited \in SUBSET DOMAIN pool :
        /\ sends' = [m \in Mids |->
                       IF m \in {n \in visited : Due(pool[n])} /\ ~Eternal(m)
                       THEN sends[m] + 1 ELSE sends[m]]
        /\ told' = [m \in Mids |->
                       IF m \in {n \in visited : Expires(pool[n])} /\ kind[m] \in Answered
                       THEN [told[m] EXCEPT !.fail = @ + 1] ELSE told[m]]
  BY DEF TraverseAllMsg
<1>2. \A m \in DOMAIN pool : ~Eternal(m) => sends[m] <= MaxTryTimes
  BY PoolAssumption DEF ChatInv, PoolInv, Budget, TypeOK, Mids
<1>3. \A m \in Mids : told'[m] # told[m] => kind[m] # "none"
  BY <1>1 DEF Answered
<1>4. \A m \in Mids : \/ sends'[m] = sends[m]
                      \/ sends'[m] = sends[m] + 1 /\ sends[m] <= MaxTryTimes
  BY <1>1, <1>2
<1> QED
  BY <1>3, <1>4 DEF TraverseAllMsg

-----------------------------------------------------------------------------
(* The steps of A *)

\* ChatWithText: the text gets a mid of its own, and one datagram.
LEMMA ChatWithTextStep ==
  ASSUME ChatInv, NEW t \in Texts, ChatWithText(t)
  PROVE  ChatRight'
<1> USE TextAssumption DEF ChatInv, ChatRight
<1> DEFINE m0 == midCount
<1>1. /\ m0 \in Mids /\ kind[m0] = "none"
      /\ kind' = [kind EXCEPT ![m0] = "chat"]
      /\ sends' = [sends EXCEPT ![m0] = 1]
      /\ kind \in [Mids -> Kinds \union {"none"}]
      /\ sends \in [Mids -> Nat]
  BY TextAdded DEF ChatWithText
<1>2. /\ textOf' = [textOf EXCEPT ![m0] = t]
      /\ midOf' = [midOf EXCEPT ![t] = m0]
      /\ midOf[t] = -1
      /\ UNCHANGED <<lives, aLists, notices, acks, dups, bLists, bUp, handling,
                     recorded, bLost, received, confirmed>>
  BY DEF ChatWithText, bVars
<1>3. m0 # -1 /\ textOf[m0] = NoText
  BY <1>1 DEF MidsRight, MidsMatch, Mids
<1>4. PICK kept \in SUBSET {u \in Texts :
                             \E m \in Mids : textOf'[m] = u /\ sends'[m] > sends[m]} :
        net' = [u \in Texts |-> IF u \in kept THEN net[u] + 1 ELSE net[u]]
  BY DEF ChatWithText, Transmit
<1>5. \A u \in Texts : u # t => u \notin kept
  BY <1>1, <1>2 DEF ChatTypes
<1>6. ChatTypes'
  <2>1. net' \in [Texts -> Nat]
    BY <1>4 DEF ChatTypes
  <2>2. textOf' \in [Mids -> Texts \union {NoText}] /\ midOf' \in [Texts -> Mids \union {-1}]
    BY <1>1, <1>2 DEF ChatTypes
  <2> QED
    BY <1>2, <2>1, <2>2 DEF ChatTypes
<1>7. MidsRight'
  <2>1. OnlyTexts'
    BY <1>1 DEF MidsRight, OnlyTexts
  <2>2. \A m \in Mids : textOf[m] # t
    BY <1>2 DEF MidsRight, MidsMatch, Mids
  <2>3. MidsMatch'
    BY <1>1, <1>2, <2>2 DEF MidsRight, MidsMatch, ChatTypes
  <2>4. FirstLife'
    BY <1>1, <1>2, <1>3 DEF MidsRight, FirstLife, ChatTypes
  <2> QED
    BY <2>1, <2>3, <2>4 DEF MidsRight
<1>8. ArrivalsRight'
  <2>1. t \notin received /\ t \notin confirmed
    BY <1>2 DEF ArrivalsRight, SentHasMid, ConfirmationHasCause, ChatTypes
  <2>2. \A u \in Texts : u # t => midOf'[u] = midOf[u] /\ net'[u] = net[u]
    BY <1>2, <1>4, <1>5 DEF ChatTypes
  <2>3. midOf'[t] # -1
    BY <1>2, <1>3 DEF ChatTypes
  <2>4. SentHasMid'
    BY <1>2, <2>2, <2>3 DEF ArrivalsRight, SentHasMid
  <2>5. AckHasCause'
    BY <1>2, <2>1, <2>2 DEF ArrivalsRight, AckHasCause, ChatTypes
  <2>6. ConfirmationHasCause'
    BY <1>2, <2>1, <2>2 DEF ArrivalsRight, ConfirmationHasCause, ChatTypes
  <2> QED
    BY <2>4, <2>5, <2>6 DEF ArrivalsRight
<1>9. CopiesRight'
  <2>1. SendsBounded'
    BY <1>1, PoolAssumption DEF CopiesRight, SendsBounded
  <2>2. Copies(t) = 0 /\ \A u \in Texts : u # t => net'[u] = net[u]
    BY <1>2, <1>4, <1>5 DEF CopiesRight, CopiesSent
  <2>3. net'[t] = net[t] \/ net'[t] = net[t] + 1
    BY <1>4 DEF ChatTypes
  <2>4. net'[t] + handling'[t] + recorded'[t] \in 0 .. 1 /\ dups' \in Nat
    <3>1. net[t] \in Nat /\ handling[t] \in Nat /\ recorded[t] \in Nat /\ dups \in Nat
      BY TextAssumption DEF ChatTypes
    <3>2. net[t] = 0 /\ handling[t] = 0 /\ recorded[t] = 0
      BY <2>2, <3>1 DEF Copies
    <3>3. handling'[t] = 0 /\ recorded'[t] = 0 /\ net'[t] \in {0, 1}
      BY <1>2, <2>3, <3>2
    <3> QED
      BY <1>2, <3>1, <3>3
  <2>5. CopiesSent'
    <3>1. ASSUME NEW u \in Texts, midOf'[u] = -1
          PROVE  Copies(u)' = 0
      <4>1. u # t /\ midOf[u] = -1
        BY <1>2, <1>3, <3>1 DEF ChatTypes
      <4> QED
        BY <1>2, <2>2, <4>1 DEF CopiesRight, CopiesSent, Copies
    <3>2. ASSUME NEW m \in Mids, textOf'[m] # NoText
          PROVE  net'[textOf'[m]] + handling'[textOf'[m]] + recorded'[textOf'[m]]
                   <= sends'[m] + dups'
      <4>1. CASE m = m0
        <5>1. textOf'[m] = t /\ sends'[m] = 1
          BY <1>1, <1>2, <4>1 DEF ChatTypes
        <5> QED
          BY <2>4, <5>1
      <4>2. CASE m # m0
        <5>1. textOf'[m] = textOf[m] /\ sends'[m] = sends[m] /\ textOf[m] \in Texts
          BY <1>1, <1>2, <3>2, <4>2 DEF ChatTypes
        <5>2. textOf[m] # t
          BY <1>2, <5>1 DEF MidsRight, MidsMatch, Mids
        <5> QED
          BY <1>2, <2>2, <3>2, <5>1, <5>2 DEF CopiesRight, CopiesSent, Copies
      <4> QED
        BY <4>1, <4>2
    <3> QED
      BY <3>1, <3>2 DEF CopiesSent, Copies
  <2>6. CopiesBounded'
    <3> SUFFICES ASSUME NEW u \in Texts
                 PROVE  net'[u] + handling'[u] + recorded'[u] <= MaxTryTimes + 1 + dups'
      BY DEF CopiesBounded, Copies
    <3>1. CASE u = t
      BY <2>4, <3>1, PoolAssumption
    <3>2. CASE u # t
      BY <1>2, <2>2, <3>2 DEF CopiesRight, CopiesBounded, Copies
    <3> QED
      BY <3>1, <3>2
  <2> QED
    BY <2>1, <2>5, <2>6 DEF CopiesRight
<1> QED
  BY <1>6, <1>7, <1>8, <1>9

\* A starts again: it has forgotten which text had which mid.
LEMMA RestartAStep ==
  ASSUME ChatInv, RestartA
  PROVE  ChatRight'
<1> USE TextAssumption DEF ChatInv, ChatRight
<1>1. /\ lives' = lives + 1
      /\ textOf' = [m \in Mids |-> NoText]
      /\ kind' = [m \in Mids |-> "none"]
      /\ sends' = [m \in Mids |-> 0]
      /\ UNCHANGED <<aLists, notices, midOf, net, acks, dups, bLists, bUp, handling,
                     recorded, bLost, received, confirmed>>
  BY DEF RestartA, netVars, bVars
<1>2. lives' \in 2 .. MaxMishaps + 1
  BY <1>1 DEF RestartA, Mishap, ChatTypes
<1>3. ChatTypes'
  BY <1>1, <1>2 DEF ChatTypes
<1>4. MidsRight'
  BY <1>1, <1>2 DEF MidsRight, OnlyTexts, MidsMatch, FirstLife
<1>5. ArrivalsRight'
  <2>1. SentHasMid' /\ AckHasCause'
    BY <1>1 DEF ArrivalsRight, SentHasMid, AckHasCause
  <2>2. ConfirmationHasCause'
    BY <1>1, <1>2 DEF ArrivalsRight, ConfirmationHasCause
  <2> QED
    BY <2>1, <2>2 DEF ArrivalsRight
<1>6. CopiesRight'
  <2>1. SendsBounded'
    BY <1>1, PoolAssumption DEF SendsBounded
  <2>2. CopiesSent' /\ CopiesBounded'
    BY <1>1 DEF CopiesRight, CopiesSent, CopiesBounded, Copies
  <2> QED
    BY <2>1, <2>2 DEF CopiesRight
<1> QED
  BY <1>3, <1>4, <1>5, <1>6

\* A pass: each datagram it sends is one more copy and one more try.
LEMMA PoolPassStep ==
  ASSUME ChatInv, PoolPass
  PROVE  ChatRight'
<1> USE TextAssumption DEF ChatInv, ChatRight
<1>1. /\ kind' = kind
      /\ \A m \in Mids : \/ sends'[m] = sends[m]
                         \/ sends'[m] = sends[m] + 1 /\ sends[m] <= MaxTryTimes
      /\ \A m \in Mids : told'[m] # told[m] => kind[m] # "none"
  BY PassSends DEF PoolPass
<1>2. UNCHANGED <<textOf, lives, aLists, midOf, acks, dups, bLists, bUp, handling,
                  recorded, bLost, received, confirmed>>
  BY DEF PoolPass, bVars
<1>3. PICK kept \in SUBSET {u \in Texts :
                             \E m \in Mids : textOf'[m] = u /\ sends'[m] > sends[m]} :
        net' = [u \in Texts |-> IF u \in kept THEN net[u] + 1 ELSE net[u]]
  BY DEF PoolPass, Transmit
<1>4. sends \in [Mids -> Nat]
  BY DEF PoolInv, TypeOK
<1>5. \A m \in Mids : sends'[m] > sends[m] =>
                         sends'[m] = sends[m] + 1 /\ sends[m] <= MaxTryTimes
  BY <1>1, <1>4
<1>6. ASSUME NEW u \in kept
      PROVE  \E m \in Mids : /\ textOf[m] = u
                             /\ sends'[m] = sends[m] + 1
                             /\ sends[m] <= MaxTryTimes
                             /\ midOf[u] = m
  <2>1. PICK m \in Mids : textOf'[m] = u /\ sends'[m] > sends[m]
    BY <1>3
  <2>2. textOf[m] = u /\ u # NoText
    BY <1>2, <2>1
  <2>3. midOf[u] = m
    BY <2>2 DEF MidsRight, MidsMatch
  <2> QED
    BY <1>5, <2>1, <2>2, <2>3
<1>7. ChatTypes'
  <2>1. net' \in [Texts -> Nat]
    BY <1>3 DEF ChatTypes
  <2>2. notices' \subseteq Texts
    <3>1. \A m \in Mids : told'[m].fail > told[m].fail => kind[m] # "none"
      BY <1>1 DEF PoolInv, TypeOK
    <3>2. \A m \in Mids : told'[m].fail > told[m].fail => textOf[m] \in Texts
      BY <3>1 DEF MidsRight, MidsMatch, ChatTypes
    <3> QED
      BY <3>2 DEF PoolPass, ChatTypes
  <2> QED
    BY <1>2, <2>1, <2>2 DEF ChatTypes
<1>8. MidsRight'
  BY <1>1, <1>2 DEF MidsRight, OnlyTexts, MidsMatch, FirstLife
<1>9. ArrivalsRight'
  <2>1. SentHasMid'
    <3> SUFFICES ASSUME NEW t \in Texts, net'[t] > 0 \/ t \in received'
                 PROVE  midOf'[t] # -1
      BY DEF SentHasMid
    <3>1. CASE t \in kept
      BY <1>2, <1>6, <3>1 DEF Mids
    <3>2. CASE t \notin kept
      BY <1>2, <1>3, <3>2 DEF ArrivalsRight, SentHasMid
    <3> QED
      BY <3>1, <3>2
  <2>2. AckHasCause' /\ ConfirmationHasCause'
    BY <1>2 DEF ArrivalsRight, AckHasCause, ConfirmationHasCause
  <2> QED
    BY <2>1, <2>2 DEF ArrivalsRight
<1>10. CopiesRight'
  <2>1. SendsBounded'
    BY <1>1, <1>4, PoolAssumption DEF CopiesRight, SendsBounded
  <2>2. \A u \in Texts : /\ net[u] \in Nat
                         /\ handling[u] \in Nat
                         /\ recorded[u] \in Nat
    BY DEF ChatTypes
  <2>3. dups \in Nat
    BY DEF ChatTypes
  <2>4. CopiesSent'
    <3>1. ASSUME NEW u \in Texts, midOf'[u] = -1
          PROVE  Copies(u)' = 0
      <4>1. u \notin kept
        BY <1>2, <1>6, <3>1 DEF Mids
      <4> QED
        BY <1>2, <1>3, <3>1, <4>1 DEF CopiesRight, CopiesSent, Copies
    <3>2. ASSUME NEW m \in Mids, textOf'[m] # NoText
          PROVE  net'[textOf'[m]] + handling'[textOf'[m]] + recorded'[textOf'[m]]
                   <= sends'[m] + dups'
      <4> DEFINE u == textOf[m]
      <4>1. /\ u \in Texts /\ u # NoText /\ midOf[u] = m
            /\ net[u] + handling[u] + recorded[u] <= sends[m] + dups
        BY <1>2, <3>2 DEF MidsRight, MidsMatch, ChatTypes, CopiesRight, CopiesSent, Copies
      <4>2. CASE u \in kept
        <5>1. sends'[m] = sends[m] + 1
          BY <1>6, <4>1, <4>2
        <5>2. net'[u] = net[u] + 1
          BY <1>3, <4>1, <4>2
        <5> QED
          BY <1>2, <1>4, <2>2, <2>3, <4>1, <5>1, <5>2
      <4>3. CASE u \notin kept
        <5>1. net'[u] = net[u]
          BY <1>3, <4>1, <4>3
        <5> QED
          BY <1>1, <1>2, <1>4, <2>2, <2>3, <4>1, <5>1
      <4> QED
        BY <4>2, <4>3
    <3> QED
      BY <3>1, <3>2 DEF CopiesSent, Copies
  <2>5. CopiesBounded'
    <3> SUFFICES ASSUME NEW u \in Texts
                 PROVE  net'[u] + handling'[u] + recorded'[u] <= MaxTryTimes + 1 + dups'
      BY DEF CopiesBounded, Copies
    <3>1. CASE u \in kept
      <4>1. PICK m \in Mids : textOf[m] = u /\ sends[m] <= MaxTryTimes
        BY <1>6, <3>1
      <4>2. net[u] + handling[u] + recorded[u] <= sends[m] + dups
        BY <4>1 DEF CopiesRight, CopiesSent, Copies
      <4>3. net'[u] = net[u] + 1
        BY <1>3, <3>1
      <4> QED
        BY <1>2, <1>4, <2>2, <2>3, <4>1, <4>2, <4>3, PoolAssumption
    <3>2. CASE u \notin kept
      BY <1>2, <1>3, <3>2 DEF CopiesRight, CopiesBounded, Copies
    <3> QED
      BY <3>1, <3>2
  <2> QED
    BY <2>1, <2>4, <2>5 DEF CopiesRight
<1> QED
  BY <1>7, <1>8, <1>9, <1>10

\* OnNormalAckMsg: the message of the mid has a text, and the text that
\* caused the acknowledgement had the same mid.
LEMMA OnNormalAckMsgStep ==
  ASSUME ChatInv, NEW m \in Mids, OnNormalAckMsg(m)
  PROVE  ChatRight'
<1> USE TextAssumption DEF ChatInv, ChatRight
<1>1. /\ acks[m] > 0
      /\ acks' = [acks EXCEPT ![m] = @ - 1]
      /\ UNCHANGED <<kind, sends, textOf, lives, aLists, notices, midOf, net, dups,
                     bLists, bUp, handling, recorded, bLost, received>>
  BY DEF OnNormalAckMsg, Confirm, poolVars, aVars, bVars
<1>2. \/ confirmed' = confirmed
      \/ confirmed' = confirmed \union {textOf[m]} /\ m \in DOMAIN pool
  BY DEF OnNormalAckMsg, Confirm, Report
<1>3. ASSUME m \in DOMAIN pool
      PROVE  textOf[m] \in Texts /\ midOf[textOf[m]] = m
  <2>1. kind[m] # "none"
    BY <1>3, PoolAssumption DEF PoolInv, TypeOK, IssuedBelow, Issued
  <2> QED
    BY <2>1 DEF MidsRight, MidsMatch, ChatTypes
<1>4. ChatTypes'
  <2>1. acks' \in [Mids -> Nat]
    BY <1>1 DEF ChatTypes
  <2>2. confirmed' \subseteq Texts
    BY <1>2, <1>3 DEF ChatTypes
  <2> QED
    BY <1>1, <2>1, <2>2 DEF ChatTypes
<1>5. MidsRight'
  BY <1>1 DEF MidsRight, OnlyTexts, MidsMatch, FirstLife
<1>6. ArrivalsRight'
  <2>1. SentHasMid'
    BY <1>1 DEF ArrivalsRight, SentHasMid
  <2>2. AckHasCause'
    <3>1. \A n \in Mids : acks'[n] > 0 => acks[n] > 0
      BY <1>1 DEF ChatTypes
    <3> QED
      BY <1>1, <3>1 DEF ArrivalsRight, AckHasCause
  <2>3. PICK u \in received : midOf[u] = m
    BY <1>1 DEF ArrivalsRight, AckHasCause
  <2>4. lives = 1 => u = textOf[m]
    BY <2>3 DEF MidsRight, FirstLife, ChatTypes, Mids
  <2>5. ConfirmationHasCause'
    BY <1>1, <1>2, <1>3, <2>3, <2>4 DEF ArrivalsRight, ConfirmationHasCause
  <2> QED
    BY <2>1, <2>2, <2>5 DEF ArrivalsRight
<1>7. CopiesRight'
  BY <1>1 DEF CopiesRight, SendsBounded, CopiesSent, CopiesBounded, Copies
<1> QED
  BY <1>4, <1>5, <1>6, <1>7

-----------------------------------------------------------------------------
(* The steps of the network and of B *)

\* Steps that give out no mid and make no copy.
LEMMA NoNewCopies ==
  ASSUME ChatInv, UNCHANGED <<textOf, midOf, sends, dups>>, ChatTypes',
         \A t \in Texts : \E a, b, c \in Nat :
             /\ net'[t] = a /\ handling'[t] = b /\ recorded'[t] = c
             /\ a + b + c <= net[t] + handling[t] + recorded[t]
  PROVE  CopiesRight'
<1> USE TextAssumption DEF ChatInv, ChatRight
<1>1. SendsBounded'
  BY DEF CopiesRight, SendsBounded
<1>2. ASSUME NEW t \in Texts
      PROVE  /\ midOf[t] = -1 => net'[t] + handling'[t] + recorded'[t] = 0
             /\ net'[t] + handling'[t] + recorded'[t] <= MaxTryTimes + 1 + dups
             /\ \A m \in Mids : textOf[m] = t =>
                    net'[t] + handling'[t] + recorded'[t] <= sends[m] + dups
  <2>1. PICK a \in Nat, b \in Nat, c \in Nat :
          /\ net'[t] = a /\ handling'[t] = b /\ recorded'[t] = c
          /\ a + b + c <= net[t] + handling[t] + recorded[t]
    OBVIOUS
  <2>2. net[t] \in Nat /\ handling[t] \in Nat /\ recorded[t] \in Nat /\ dups \in Nat
    BY DEF ChatTypes
  <2>3. sends \in [Mids -> Nat]
    BY DEF PoolInv, TypeOK
  <2>4. /\ midOf[t] = -1 => net[t] + handling[t] + recorded[t] = 0
        /\ net[t] + handling[t] + recorded[t] <= MaxTryTimes + 1 + dups
        /\ \A m \in Mids : textOf[m] = t =>
               net[t] + handling[t] + recorded[t] <= sends[m] + dups
    BY DEF CopiesRight, CopiesSent, CopiesBounded, Copies
  <2>5. midOf[t] = -1 => a + b + c = 0
    BY <2>1, <2>2, <2>4
  <2>6. a + b + c <= MaxTryTimes + 1 + dups
    BY <2>1, <2>2, <2>4, PoolAssumption
  <2>7. ASSUME NEW m \in Mids, textOf[m] = t
        PROVE  a + b + c <= sends[m] + dups
    BY <2>1, <2>2, <2>3, <2>4, <2>7
  <2> QED
    BY <2>1, <2>5, <2>6, <2>7
<1>3. CopiesSent'
  BY <1>2 DEF ChatTypes, CopiesSent, Copies
<1>4. CopiesBounded'
  BY <1>2 DEF CopiesBounded, Copies
<1> QED
  BY <1>1, <1>3, <1>4 DEF CopiesRight

\* The network makes one copy more.
LEMMA DuplicateStep ==
  ASSUME ChatInv, Duplicate
  PROVE  ChatRight'
<1> USE TextAssumption DEF ChatInv, ChatRight
<1>1. /\ dups' = dups + 1
      /\ UNCHANGED <<kind, sends, textOf, lives, aLists, notices, midOf, bLists, bUp,
                     handling, recorded, bLost, received, confirmed>>
  BY DEF Duplicate, poolVars, aVars, bVars
<1>2. dups' \in 0 .. MaxMishaps /\ dups \in Nat
  BY <1>1 DEF Duplicate, Mishap, ChatTypes
<1>3. ChatTypes'
  <2>1. net' \in [Texts -> Nat]
    BY DEF Duplicate, ChatTypes
  <2>2. acks' \in [Mids -> Nat]
    BY DEF Duplicate, ChatTypes
  <2> QED
    BY <1>1, <1>2, <2>1, <2>2 DEF ChatTypes
<1>4. MidsRight'
  BY <1>1 DEF MidsRight, OnlyTexts, MidsMatch, FirstLife
<1>5. /\ \A t \in Texts : \/ net'[t] = net[t]
                          \/ net[t] > 0 /\ net'[t] = net[t] + 1
      /\ \A m \in Mids : acks'[m] > 0 => acks[m] > 0
  BY DEF Duplicate, ChatTypes
<1>6. ArrivalsRight'
  BY <1>1, <1>5 DEF ArrivalsRight, SentHasMid, AckHasCause, ConfirmationHasCause, ChatTypes
<1>7. CopiesRight'
  <2>1. SendsBounded'
    BY <1>1 DEF CopiesRight, SendsBounded
  <2>2. ASSUME NEW t \in Texts
        PROVE  /\ net[t] \in Nat /\ handling[t] \in Nat /\ recorded[t] \in Nat
               /\ midOf[t] = -1 => net'[t] = net[t]
    BY <1>5 DEF ChatTypes, ArrivalsRight, SentHasMid
  <2>3. CopiesSent'
    <3>1. ASSUME NEW t \in Texts, midOf'[t] = -1
          PROVE  Copies(t)' = 0
      BY <1>1, <2>2, <3>1 DEF CopiesRight, CopiesSent, Copies
    <3>2. ASSUME NEW m \in Mids, textOf'[m] # NoText
          PROVE  net'[textOf'[m]] + handling'[textOf'[m]] + recorded'[textOf'[m]]
                   <= sends'[m] + dups'
      <4> DEFINE t == textOf[m]
      <4>1. t \in Texts /\ net[t] + handling[t] + recorded[t] <= sends[m] + dups
        BY <1>1, <3>2 DEF ChatTypes, CopiesRight, CopiesSent, Copies
      <4>2. sends[m] \in Nat
        BY DEF PoolInv, TypeOK
      <4>3. net'[t] = net[t] \/ net'[t] = net[t] + 1
        BY <1>5, <4>1
      <4> QED
        BY <1>1, <1>2, <2>2, <4>1, <4>2, <4>3
    <3> QED
      BY <3>1, <3>2 DEF CopiesSent, Copies
  <2>4. CopiesBounded'
    <3> SUFFICES ASSUME NEW t \in Texts
                 PROVE  net'[t] + handling'[t] + recorded'[t] <= MaxTryTimes + 1 + dups'
      BY DEF CopiesBounded, Copies
    <3>1. net[t] + handling[t] + recorded[t] <= MaxTryTimes + 1 + dups
      BY DEF CopiesRight, CopiesBounded, Copies
    <3>2. net'[t] = net[t] \/ net'[t] = net[t] + 1
      BY <1>5
    <3> QED
      BY <1>1, <1>2, <2>2, <3>1, <3>2, PoolAssumption
  <2> QED
    BY <2>1, <2>3, <2>4 DEF CopiesRight
<1> QED
  BY <1>3, <1>4, <1>6, <1>7

\* OnChatWithTextMsg: a copy goes from the network to a handler, and is the
\* cause of the acknowledgement.
LEMMA OnChatWithTextMsgStep ==
  ASSUME ChatInv, NEW t \in Texts, OnChatWithTextMsg(t)
  PROVE  ChatRight'
<1> USE TextAssumption DEF ChatInv, ChatRight
<1>1. /\ net[t] > 0
      /\ net' = [net EXCEPT ![t] = @ - 1]
      /\ acks' \in {acks, [acks EXCEPT ![midOf[t]] = @ + 1]}
      /\ handling' = [handling EXCEPT ![t] = @ + 1]
      /\ received' = received \union {t}
      /\ UNCHANGED <<kind, sends, textOf, lives, aLists, notices, midOf, dups,
                     bLists, bUp, recorded, bLost, confirmed>>
  BY DEF OnChatWithTextMsg, poolVars, aVars
<1>2. midOf[t] \in Mids
  BY <1>1 DEF ArrivalsRight, SentHasMid, ChatTypes
<1>3. ChatTypes'
  <2>1. net' \in [Texts -> Nat] /\ handling' \in [Texts -> Nat]
    BY <1>1 DEF ChatTypes
  <2>2. acks' \in [Mids -> Nat]
    BY <1>1, <1>2 DEF ChatTypes
  <2> QED
    BY <1>1, <2>1, <2>2 DEF ChatTypes
<1>4. MidsRight'
  BY <1>1 DEF MidsRight, OnlyTexts, MidsMatch, FirstLife
<1>5. ArrivalsRight'
  <2>1. \A u \in Texts : net'[u] > 0 => net[u] > 0
    BY <1>1 DEF ChatTypes
  <2>2. \A m \in Mids : acks'[m] > 0 => acks[m] > 0 \/ m = midOf[t]
    BY <1>1 DEF ChatTypes
  <2>3. SentHasMid'
    BY <1>1, <1>2, <2>1 DEF ArrivalsRight, SentHasMid, Mids
  <2>4. AckHasCause'
    BY <1>1, <2>2 DEF ArrivalsRight, AckHasCause
  <2>5. ConfirmationHasCause'
    BY <1>1 DEF ArrivalsRight, ConfirmationHasCause
  <2> QED
    BY <2>3, <2>4, <2>5 DEF ArrivalsRight
<1>6. CopiesRight'
  <2> SUFFICES ASSUME NEW u \in Texts
               PROVE  \E a, b, c \in Nat :
                         /\ net'[u] = a /\ handling'[u] = b /\ recorded'[u] = c
                         /\ a + b + c <= net[u] + handling[u] + recorded[u]
    BY <1>1, <1>3, NoNewCopies
  <2>1. CASE u = t
    <3>1. /\ net[t] - 1 \in Nat /\ handling[t] + 1 \in Nat /\ recorded[t] \in Nat
          /\ net'[t] = net[t] - 1 /\ handling'[t] = handling[t] + 1
          /\ recorded'[t] = recorded[t]
          /\ (net[t] - 1) + (handling[t] + 1) + recorded[t]
               <= net[t] + handling[t] + recorded[t]
      BY <1>1 DEF ChatTypes
    <3> QED
      BY <2>1, <3>1
  <2>2. CASE u # t
    BY <1>1, <2>2 DEF ChatTypes
  <2> QED
    BY <2>1, <2>2
<1> QED
  BY <1>3, <1>4, <1>5, <1>6

\* B loses or records the texts it has in hand.
LEMMA HandledStep ==
  ASSUME ChatInv,
         UNCHANGED <<poolVars, aVars, acks, dups, received, confirmed>>,
         ChatTypes',
         \A t \in Texts : \/ UNCHANGED <<net[t], handling[t], recorded[t]>>
                          \/ /\ net'[t] = net[t] /\ recorded'[t] = recorded[t]
                             /\ handling'[t] = 0
                          \/ /\ net'[t] = net[t] - 1 /\ net[t] > 0
                             /\ UNCHANGED <<handling[t], recorded[t]>>
                          \/ /\ handling[t] > 0 /\ net'[t] = net[t]
                             /\ handling'[t] = handling[t] - 1
                             /\ recorded'[t] = recorded[t] + 1
  PROVE  ChatRight'
<1> USE TextAssumption DEF ChatInv, ChatRight, poolVars, aVars
<1>1. MidsRight'
  BY DEF MidsRight, OnlyTexts, MidsMatch, FirstLife
<1>2. ArrivalsRight'
  <2>1. \A t \in Texts : net'[t] > 0 => net[t] > 0
    BY DEF ChatTypes
  <2> QED
    BY <2>1 DEF ArrivalsRight, SentHasMid, AckHasCause, ConfirmationHasCause
<1>3. CopiesRight'
  <2> SUFFICES ASSUME NEW t \in Texts
               PROVE  \E a, b, c \in Nat :
                         /\ net'[t] = a /\ handling'[t] = b /\ recorded'[t] = c
                         /\ a + b + c <= net[t] + handling[t] + recorded[t]
    BY NoNewCopies
  <2>1. net[t] \in Nat /\ handling[t] \in Nat /\ recorded[t] \in Nat
    BY DEF ChatTypes
  <2>2. CASE UNCHANGED <<net[t], handling[t], recorded[t]>>
    BY <2>1, <2>2
  <2>3. CASE net'[t] = net[t] /\ recorded'[t] = recorded[t] /\ handling'[t] = 0
    BY <2>1, <2>3
  <2>4. CASE net'[t] = net[t] - 1 /\ net[t] > 0 /\ UNCHANGED <<handling[t], recorded[t]>>
    <3>1. /\ net[t] - 1 \in Nat
          /\ (net[t] - 1) + handling[t] + recorded[t] <= net[t] + handling[t] + recorded[t]
      BY <2>1, <2>4
    <3> QED
      BY <2>1, <2>4, <3>1
  <2>5. CASE /\ handling[t] > 0 /\ net'[t] = net[t]
             /\ handling'[t] = handling[t] - 1 /\ recorded'[t] = recorded[t] + 1
    <3>1. /\ handling[t] - 1 \in Nat /\ recorded[t] + 1 \in Nat
          /\ net[t] + (handling[t] - 1) + (recorded[t] + 1)
               <= net[t] + handling[t] + recorded[t]
      BY <2>1, <2>5
    <3> QED
      BY <2>1, <2>5, <3>1
  <2> QED
    BY <2>2, <2>3, <2>4, <2>5
<1> QED
  BY <1>1, <1>2, <1>3

\* The other steps of B, and those of A that leave texts and mids alone.
LEMMA QuietStep ==
  ASSUME ChatInv,
         \/ PoolTick \/ DeleteFriendA \/ DeleteFriendB \/ SwitchB
         \/ \E t \in Texts : IgnoreText(t) \/ UpdateChatContent(t)
         \/ UNCHANGED chatVars
  PROVE  ChatRight'
<1> USE TextAssumption DEF ChatInv, ChatRight, netVars, aVars, bVars
<1>1. CASE PoolTick \/ DeleteFriendA \/ DeleteFriendB \/ UNCHANGED chatVars
  <2>1. UNCHANGED <<kind, sends, textOf, lives, notices, midOf, net, acks, dups, bUp,
                    handling, recorded, bLost, received, confirmed>>
    BY <1>1 DEF PoolTick, Tick, DeleteFriendA, DeleteFriendB, chatVars, poolVars
  <2>2. ChatTypes'
    <3>1. aLists' \in BOOLEAN /\ bLists' \in BOOLEAN
      BY <1>1, Zenon
      DEF PoolTick, DeleteFriendA, DeleteFriendB, chatVars, ChatTypes
    <3> QED
      BY <2>1, <3>1 DEF ChatTypes
  <2>3. MidsRight'
    BY <2>1 DEF MidsRight, OnlyTexts, MidsMatch, FirstLife
  <2>4. ArrivalsRight'
    BY <2>1 DEF ArrivalsRight, SentHasMid, AckHasCause, ConfirmationHasCause
  <2>5. CopiesRight'
    BY <2>1 DEF CopiesRight, SendsBounded, CopiesSent, CopiesBounded, Copies
  <2> QED
    BY <2>2, <2>3, <2>4, <2>5
<1>2. ASSUME NEW t \in Texts, IgnoreText(t)
      PROVE  ChatRight'
  <2>1. ChatTypes'
    <3>1. net' \in [Texts -> Nat]
      BY <1>2 DEF IgnoreText, ChatTypes
    <3> QED
      BY <1>2, <3>1 DEF IgnoreText, ChatTypes
  <2>2. \A u \in Texts : \/ net'[u] = net[u]
                         \/ net[u] > 0 /\ net'[u] = net[u] - 1
    BY <1>2 DEF IgnoreText, ChatTypes
  <2> QED
    BY <1>2, <2>1, <2>2, HandledStep DEF IgnoreText
<1>3. ASSUME StopB, UNCHANGED <<poolVars, aVars, netVars, confirmed>>
      PROVE  ChatRight'
  <2>1. ChatTypes'
    BY <1>3 DEF StopB, Handled, ChatTypes
  <2> QED
    BY <1>3, <2>1, HandledStep DEF StopB
<1>4. ASSUME NEW t \in Texts, UpdateChatContent(t), bLists
      PROVE  ChatRight'
  <2>1. /\ handling[t] > 0
        /\ handling' = [handling EXCEPT ![t] = @ - 1]
        /\ recorded' = [recorded EXCEPT ![t] = @ + 1]
        /\ UNCHANGED <<poolVars, aVars, netVars, confirmed, bLists, bUp, bLost, received>>
    BY <1>4 DEF UpdateChatContent
  <2>2. ChatTypes'
    <3>1. handling' \in [Texts -> Nat] /\ recorded' \in [Texts -> Nat]
      BY <2>1 DEF ChatTypes
    <3> QED
      BY <2>1, <3>1 DEF ChatTypes
  <2>3. \A u \in Texts : \/ UNCHANGED <<handling[u], recorded[u]>>
                         \/ /\ handling[u] > 0
                            /\ handling'[u] = handling[u] - 1
                            /\ recorded'[u] = recorded[u] + 1
    BY <2>1 DEF ChatTypes
  <2> QED
    BY <2>1, <2>2, <2>3, HandledStep
<1>5. ASSUME SwitchB
      PROVE  ChatRight'
  <2>1. CASE StopB
    BY <1>3, <1>5, <2>1 DEF SwitchB
  <2>2. CASE /\ bUp' = TRUE
             /\ UNCHANGED <<bLists, handling, recorded, bLost, received>>
    <3>1. ChatTypes'
      BY <1>5, <2>2 DEF SwitchB, ChatTypes
    <3> QED
      BY <1>5, <2>2, <3>1, HandledStep DEF SwitchB
  <2> QED
    BY <1>5, <2>1, <2>2 DEF SwitchB
<1> QED
  BY <1>1, <1>2, <1>3, <1>4, <1>5 DEF UpdateChatContent

-----------------------------------------------------------------------------
(* The theorems *)

LEMMA ChatInitInv == ChatInit => ChatInv
<1> SUFFICES ASSUME ChatInit
             PROVE  ChatInv
  OBVIOUS
<1> USE TextAssumption, PoolAssumption DEF ChatInit
<1>1. PoolInv
  BY InitInv
<1>2. ChatTypes
  BY DEF ChatTypes
<1>3. MidsRight
  BY DEF MidsRight, OnlyTexts, MidsMatch, FirstLife, PoolInit
<1>4. ArrivalsRight
  BY DEF ArrivalsRight, SentHasMid, AckHasCause, ConfirmationHasCause
<1>5. CopiesRight
  <2>1. SendsBounded
    BY DEF SendsBounded, PoolInit
  <2>2. CopiesSent /\ CopiesBounded
    BY DEF CopiesSent, CopiesBounded, Copies
  <2> QED
    BY <2>1, <2>2 DEF CopiesRight
<1> QED
  BY <1>1, <1>2, <1>3, <1>4, <1>5 DEF ChatInv, ChatRight

LEMMA ChatNextInv == ChatInv /\ [ChatNext]_chatVars => ChatInv'
<1> SUFFICES ASSUME ChatInv, [ChatNext]_chatVars
             PROVE  ChatRight'
  BY PoolStep DEF ChatInv
<1> QED
  BY ChatWithTextStep, RestartAStep, PoolPassStep, OnNormalAckMsgStep, DuplicateStep,
     OnChatWithTextMsgStep, QuietStep DEF ChatNext

LEMMA ChatInvariant == ChatSpec => []ChatInv
BY ChatInitInv, ChatNextInv, PTL DEF ChatSpec

\* The pool, the tables of mids and texts and the counts of copies keep their
\* types, and a mid and its text point at each other in every life of A.
THEOREM ChatTypeCorrect == ChatSpec => []ChatTypeOK
<1>1. ChatInv => ChatTypeOK
  BY DEF ChatInv, PoolInv, ChatRight, ChatTypes, MidsRight, MidsMatch, ChatTypeOK
<1> QED
  BY <1>1, ChatInvariant, PTL

\* For any number of texts, mids and restarts, what OnNormalAckMsg reports as
\* received goes back to a text B did receive under the same mid, and within
\* the first life of A to that very text.
THEOREM ConfirmationHasCauseHolds == ChatSpec => []ConfirmationHasCause
<1>1. ChatInv => ConfirmationHasCause
  BY DEF ChatInv, ChatRight, ArrivalsRight
<1> QED
  BY <1>1, ChatInvariant, PTL

-----------------------------------------------------------------------------
(* The conversation *)

\* What B has in hand or in its history, it has taken.
HandledTaken == \A t \in Texts : handling[t] > 0 \/ recorded[t] > 0 => t \in received

LEMMA HandledTakenStep ==
  ASSUME ChatInv, HandledTaken, [ChatNext]_chatVars
  PROVE  HandledTaken'
<1> USE DEF ChatInv, ChatRight, ChatTypes, HandledTaken
<1>1. CASE UNCHANGED <<handling, recorded, received>>
  BY <1>1
<1>2. ASSUME NEW t \in Texts, OnChatWithTextMsg(t)
      PROVE  HandledTaken'
  BY <1>2 DEF OnChatWithTextMsg
<1>3. ASSUME StopB
      PROVE  HandledTaken'
  BY <1>3 DEF StopB
<1>4. ASSUME NEW t \in Texts, UpdateChatContent(t)
      PROVE  HandledTaken'
  BY <1>3, <1>4 DEF UpdateChatContent
<1>5. CASE SwitchB
  BY <1>1, <1>3, <1>5 DEF SwitchB
<1> QED
  BY <1>1, <1>2, <1>4, <1>5
  DEF ChatNext, chatVars, bVars, ChatWithText, IgnoreText, OnNormalAckMsg, PoolPass, PoolTick,
      DeleteFriendA, RestartA, Duplicate, DeleteFriendB

LEMMA HandledTakenHolds == ChatSpec => []HandledTaken
<1>1. ChatInit => HandledTaken
  BY DEF ChatInit, HandledTaken
<1> QED
  BY <1>1, HandledTakenStep, ChatInvariant, PTL DEF ChatSpec

\* A text is open if it is the text of a queued mid.
LEMMA OpenMeans ==
  ASSUME ChatInv
  PROVE  /\ \A t \in Texts : t \in Open <=> \E m \in DOMAIN pool : textOf[m] = t
         /\ DOMAIN pool \subseteq Mids
         /\ \A m \in DOMAIN pool : textOf[m] \in Open /\ midOf[textOf[m]] = m
<1> USE DEF ChatInv, ChatRight
<1>1. DOMAIN pool \subseteq Mids
  BY PoolAssumption DEF PoolInv, TypeOK, Mids
<1>2. \A m \in DOMAIN pool : textOf[m] \in Texts /\ midOf[textOf[m]] = m
  BY <1>1, PoolAssumption
  DEF PoolInv, TypeOK, IssuedBelow, Issued, MidsRight, MidsMatch, ChatTypes
<1> QED
  BY <1>1, <1>2 DEF Open, Written, Mids

\* What A does to mids and texts is all that changes the texts that are open.
LEMMA ViewUnchanged ==
  ASSUME UNCHANGED <<textOf, midOf>>, DOMAIN pool' = DOMAIN pool
  PROVE  Written' = Written /\ Open' = Open
BY DEF Written, Open

\* ChatWithText writes the text.
LEMMA WriteMaps ==
  ASSUME ChatInv, NEW t \in Texts, ChatWithText(t)
  PROVE  Conv!Write(t)
<1> USE DEF ChatInv, ChatRight
<1> DEFINE m0 == midCount
<1>1. m0 \in Mids /\ kind[m0] = "none" /\ m0 # -1
  BY TextAdded DEF ChatWithText, Mids
<1>2. textOf[m0] = NoText
  BY <1>1 DEF MidsRight, MidsMatch
<1>3. /\ textOf' = [textOf EXCEPT ![m0] = t]
      /\ midOf' = [midOf EXCEPT ![t] = m0]
      /\ midOf[t] = -1 /\ aLists
      /\ DOMAIN pool' = DOMAIN pool \union {m0}
      /\ UNCHANGED <<lives, aLists, notices, dups, recorded, received, confirmed>>
  BY DEF ChatWithText, bVars, AddMsg, Plus
<1>4. textOf \in [Mids -> Texts \union {NoText}] /\ midOf \in [Texts -> Mids \union {-1}]
  BY DEF ChatTypes
<1>5. t \notin Written /\ Written' = Written \union {t}
  BY <1>1, <1>3, <1>4 DEF Written
<1>6. t \in Open'
  BY <1>1, <1>3, <1>4, <1>5 DEF Open
<1>7. ASSUME NEW u \in Texts, u # t
      PROVE  u \in Open' <=> u \in Open
  BY <1>1, <1>2, <1>3, <1>4, <1>7, TextAssumption DEF Open, Written
<1>8. t \notin Open /\ Open \subseteq Texts /\ Open' \subseteq Texts
  BY <1>5 DEF Open, Written
<1>9. Open' = Open \union {t}
  BY <1>6, <1>7, <1>8
<1> QED
  BY <1>3, <1>5, <1>9 DEF Conv!Write

\* OnNormalAckMsg gives the one verdict "received", or changes nothing that
\* the user sees.
LEMMA ConfirmMaps ==
  ASSUME ChatInv, NEW m \in Mids, OnNormalAckMsg(m)
  PROVE  (\E t \in Texts : Conv!ConfirmText(t)) \/ UNCHANGED Conv!conversationVars
<1> USE DEF ChatInv, ChatRight
<1>1. UNCHANGED <<textOf, midOf, lives, aLists, notices, dups, recorded, received>>
  BY DEF OnNormalAckMsg, aVars, bVars
<1>2. CASE UNCHANGED <<poolVars, confirmed>>
  BY <1>1, <1>2, ViewUnchanged DEF Conv!conversationVars, Conv!writerVars, poolVars
<1>3. CASE Confirm(m) /\ confirmed' = confirmed \union {textOf[m]}
  <2> DEFINE t == textOf[m]
  <2>1. m \in DOMAIN pool /\ DOMAIN pool' = DOMAIN pool \ {m}
    BY <1>3 DEF Confirm, Report, Without
  <2>2. t \in Open /\ midOf[t] = m /\ t \in Texts
    BY <2>1, OpenMeans DEF Open, Written
  <2>3. Written' = Written
    BY <1>1 DEF Written
  <2>4. Open' = Open \ {t}
    BY <1>1, <2>1, <2>2, <2>3 DEF Open
  <2>5. PICK u \in received : midOf[u] = m
    BY DEF OnNormalAckMsg, ArrivalsRight, AckHasCause
  <2>6. u \in Texts /\ m # -1 /\ lives \in Nat /\ lives >= 1
    BY TextAssumption DEF ChatTypes, Mids
  <2>7. t \in received \/ lives > 1
    BY <2>5, <2>6 DEF MidsRight, FirstLife
  <2>8. Conv!ConfirmText(t)
    BY <1>1, <1>3, <2>2, <2>3, <2>4, <2>7 DEF Conv!ConfirmText
  <2> QED
    BY <2>2, <2>8
<1> QED
  BY <1>2, <1>3 DEF OnNormalAckMsg

\* A pass gives up what it takes out of the pool, all of it with a notice.
LEMMA PassMaps ==
  ASSUME ChatInv, PoolPass
  PROVE  (\E S \in SUBSET Texts : Conv!GiveUp(S)) \/ UNCHANGED Conv!conversationVars
<1> USE DEF ChatInv, ChatRight
<1>1. PICK gone \in SUBSET DOMAIN pool :
        /\ DOMAIN pool' = DOMAIN pool \ gone
        /\ told' = [m \in Mids |-> IF m \in gone /\ kind[m] \in Answered
                                   THEN [told[m] EXCEPT !.fail = @ + 1] ELSE told[m]]
  <2>1. PICK visited \in SUBSET DOMAIN pool :
          LET due  == {m \in visited : Due(pool[m])}
              gone == {m \in visited : Expires(pool[m])}
          IN  /\ pool' = [m \in DOMAIN pool \ gone |->
                             IF m \in due THEN Resent(pool[m]) ELSE pool[m]]
              /\ told' = [m \in Mids |->
                             IF m \in gone /\ kind[m] \in Answered
                             THEN [told[m] EXCEPT !.fail = @ + 1] ELSE told[m]]
    BY DEF PoolPass, TraverseAllMsg
  <2> WITNESS {m \in visited : Expires(pool[m])} \in SUBSET DOMAIN pool
  <2> QED
    BY <2>1
<1>2. UNCHANGED <<textOf, midOf, lives, aLists, dups, recorded, received, confirmed>>
  BY DEF PoolPass, bVars
<1>3. \A m \in DOMAIN pool : m \in Mids /\ textOf[m] \in Open /\ midOf[textOf[m]] = m
  BY OpenMeans
<1>4. \A m \in gone : kind[m] = "chat"
  BY <1>1, PoolAssumption DEF PoolInv, TypeOK, IssuedBelow, Issued, Mids, MidsRight, OnlyTexts
<1>5. \A m \in Mids : told'[m].fail > told[m].fail <=> m \in gone
  BY <1>1, <1>3, <1>4 DEF Answered, PoolInv, TypeOK
<1> DEFINE S == {textOf[m] : m \in gone}
<1>6. {textOf[m] : m \in {n \in Mids : told'[n].fail > told[n].fail}} = S
  BY <1>1, <1>3, <1>5
<1>7. notices' = IF aLists THEN notices \union S ELSE notices
  BY <1>6 DEF PoolPass
<1>8. Written' = Written
  BY <1>2 DEF Written
<1>9. Open' = Open \ S
  BY <1>1, <1>2, <1>3, <1>8 DEF Open
<1>10. CASE S # {}
  <2>1. S \subseteq Open /\ S \subseteq Texts
    BY <1>1, <1>3 DEF Open, Written
  <2>2. Conv!GiveUp(S)
    BY <1>2, <1>7, <1>8, <1>9, <1>10, <2>1 DEF Conv!GiveUp
  <2> QED
    BY <2>1, <2>2
<1>11. CASE S = {}
  BY <1>2, <1>7, <1>8, <1>9, <1>11 DEF Conv!conversationVars, Conv!writerVars
<1> QED
  BY <1>10, <1>11

\* UpdateChatContent records a text that was taken, within the bound of its
\* copies, or B is gone.
LEMMA RecordMaps ==
  ASSUME ChatInv, ChatInv', HandledTaken, NEW t \in Texts, UpdateChatContent(t)
  PROVE  Conv!Record(t) \/ UNCHANGED Conv!conversationVars
<1> USE DEF ChatInv, ChatRight
<1>1. UNCHANGED <<textOf, midOf, pool, lives, aLists, notices, dups, received, confirmed>>
  BY DEF UpdateChatContent, poolVars, aVars, netVars, StopB
<1>2. Written' = Written /\ Open' = Open
  BY <1>1, ViewUnchanged
<1>3. CASE bLists
  <2>1. /\ handling[t] > 0
        /\ recorded' = [recorded EXCEPT ![t] = @ + 1]
    BY <1>3 DEF UpdateChatContent
  <2>2. net[t] \in Nat /\ handling[t] \in Nat /\ recorded[t] \in Nat /\ dups \in Nat
    BY TextAssumption DEF ChatTypes
  <2>3. net[t] + handling[t] + recorded[t] <= MaxTryTimes + 1 + dups
    BY DEF CopiesRight, CopiesBounded, Copies
  <2>4. recorded[t] < MaxTryTimes + 1 + dups
    BY <2>1, <2>2, <2>3, PoolAssumption
  <2>5. t \in received
    BY <2>1 DEF HandledTaken
  <2> QED
    BY <1>1, <1>2, <2>1, <2>4, <2>5 DEF Conv!Record, Conv!writerVars
<1>4. CASE ~bLists
  BY <1>1, <1>2, <1>4 DEF UpdateChatContent, StopB, Conv!conversationVars, Conv!writerVars
<1> QED
  BY <1>3, <1>4

\* The other steps.
LEMMA OtherMaps ==
  ASSUME ChatInv,
         \/ \E t \in Texts : OnChatWithTextMsg(t) \/ IgnoreText(t)
         \/ PoolTick \/ DeleteFriendA \/ RestartA \/ Duplicate \/ DeleteFriendB \/ SwitchB
         \/ UNCHANGED chatVars
  PROVE  Conv!ConversationNext \/ UNCHANGED Conv!conversationVars
<1> USE DEF ChatInv, ChatRight, Conv!writerVars
<1>1. ASSUME NEW t \in Texts, OnChatWithTextMsg(t)
      PROVE  Conv!Take(t)
  <2>1. UNCHANGED <<textOf, midOf, pool, lives, aLists, notices, dups, recorded, confirmed>>
    BY <1>1 DEF OnChatWithTextMsg, poolVars, aVars
  <2>2. t \in Written
    BY <1>1 DEF OnChatWithTextMsg, ArrivalsRight, SentHasMid, Written
  <2> QED
    BY <1>1, <2>1, <2>2, ViewUnchanged DEF OnChatWithTextMsg, Conv!Take
<1>2. CASE DeleteFriendA
  <2>1. UNCHANGED <<textOf, midOf, pool, lives, notices, dups, recorded, received, confirmed>>
    BY <1>2 DEF DeleteFriendA, poolVars, netVars, bVars
  <2>2. Conv!Unlist
    BY <1>2, <2>1, ViewUnchanged DEF DeleteFriendA, Conv!Unlist
  <2> QED
    BY <2>2 DEF Conv!ConversationNext
<1>3. CASE RestartA
  <2>1. /\ lives' = lives + 1 /\ DOMAIN pool' = {}
        /\ UNCHANGED <<midOf, aLists, notices, dups, recorded, received, confirmed>>
    BY <1>3 DEF RestartA, netVars, bVars
  <2>2. lives' > 1
    BY <2>1, TextAssumption DEF ChatTypes
  <2>3. Written' = Written /\ Open' = {}
    BY <2>1 DEF Written, Open
  <2>4. Conv!Restart
    BY <2>1, <2>2, <2>3 DEF Conv!Restart
  <2> QED
    BY <2>4 DEF Conv!ConversationNext
<1>4. CASE Duplicate
  <2>1. UNCHANGED <<textOf, midOf, pool, lives, aLists, notices, recorded, received, confirmed>>
    BY <1>4 DEF Duplicate, poolVars, aVars, bVars
  <2>2. Conv!CopyInNetwork
    BY <1>4, <2>1, ViewUnchanged DEF Duplicate, Conv!CopyInNetwork
  <2> QED
    BY <2>2 DEF Conv!ConversationNext
<1>5. CASE \/ PoolTick \/ DeleteFriendB \/ SwitchB \/ UNCHANGED chatVars
           \/ \E t \in Texts : IgnoreText(t)
  <2>1. /\ UNCHANGED <<textOf, midOf, lives, aLists, notices, dups, recorded, received, confirmed>>
        /\ DOMAIN pool' = DOMAIN pool
    BY <1>5 DEF PoolTick, Tick, DeleteFriendB, SwitchB, StopB, IgnoreText, chatVars,
                poolVars, aVars, netVars, bVars
  <2> QED
    BY <2>1, ViewUnchanged DEF Conv!conversationVars
<1> QED
  BY <1>1, <1>2, <1>3, <1>4, <1>5 DEF Conv!ConversationNext

LEMMA StepMaps ==
  ASSUME ChatInv, ChatInv', HandledTaken, [ChatNext]_chatVars
  PROVE  [Conv!ConversationNext]_(Conv!conversationVars)
<1>1. ASSUME NEW t \in Texts, ChatWithText(t)
      PROVE  Conv!ConversationNext
  BY <1>1, WriteMaps DEF Conv!ConversationNext
<1>2. ASSUME NEW m \in Mids, OnNormalAckMsg(m)
      PROVE  Conv!ConversationNext \/ UNCHANGED Conv!conversationVars
  BY <1>2, ConfirmMaps DEF Conv!ConversationNext
<1>3. CASE PoolPass
  BY <1>3, PassMaps DEF Conv!ConversationNext
<1>4. ASSUME NEW t \in Texts, UpdateChatContent(t)
      PROVE  Conv!ConversationNext \/ UNCHANGED Conv!conversationVars
  BY <1>4, RecordMaps DEF Conv!ConversationNext
<1> QED
  BY <1>1, <1>2, <1>3, <1>4, OtherMaps DEF ChatNext

\* For any number of texts, tries, restarts and duplicates, all that A, B and
\* the network do is, to the two users, a behaviour of the Conversation.
THEOREM ChatImplementsConversation == ChatSpec => ImplementsConversation
<1>1. ChatInit => Conv!ConversationInit
  BY DEF ChatInit, Conv!ConversationInit, Written, Open
<1> QED
  BY <1>1, StepMaps, ChatInvariant, HandledTakenHolds, PTL
  DEF ChatSpec, ImplementsConversation, Conv!ConversationSpec

LEMMA ReliableStep ==
  ASSUME Conv!Reliable, [Conv!ConversationNext]_(Conv!conversationVars)
  PROVE  Conv!Reliable'
<1> USE DEF Conv!Reliable
<1>1. CASE UNCHANGED Conv!conversationVars
  BY <1>1 DEF Conv!conversationVars, Conv!writerVars
<1>2. ASSUME NEW t \in Texts, Conv!Write(t) PROVE Conv!Reliable'
  BY <1>2 DEF Conv!Write
<1>3. ASSUME NEW t \in Texts, Conv!ConfirmText(t) PROVE Conv!Reliable'
  BY <1>3 DEF Conv!ConfirmText
<1>4. ASSUME NEW t \in Texts, Conv!Take(t) PROVE Conv!Reliable'
  BY <1>4 DEF Conv!Take, Conv!writerVars
<1>5. ASSUME NEW t \in Texts, Conv!Record(t) PROVE Conv!Reliable'
  BY <1>5 DEF Conv!Record, Conv!writerVars
<1>6. ASSUME NEW S \in SUBSET Texts, Conv!GiveUp(S) PROVE Conv!Reliable'
  BY <1>6 DEF Conv!GiveUp
<1>7. CASE Conv!Restart
  BY <1>7 DEF Conv!Restart
<1>8. CASE Conv!Unlist
  BY <1>8 DEF Conv!Unlist
<1>9. CASE Conv!CopyInNetwork
  BY <1>9 DEF Conv!CopyInNetwork, Conv!writerVars
<1> QED
  BY <1>1, <1>2, <1>3, <1>4, <1>5, <1>6, <1>7, <1>8, <1>9 DEF Conv!ConversationNext

\* The Conversation, and so the program, never gives two verdicts on a text,
\* confirms nothing that B did not take while A has not been restarted, and
\* drops no text without a verdict unless A was restarted or deleted B.
THEOREM VerdictsReliable == ChatSpec => []Conv!Reliable
<1>1. Conv!ConversationInit => Conv!Reliable
  BY DEF Conv!ConversationInit, Conv!Reliable
<1> QED
  BY <1>1, ReliableStep, ChatImplementsConversation, PTL
  DEF ImplementsConversation, Conv!ConversationSpec

\* What the pool promises holds for texts too: of each life of A there is one
\* verdict on a message and none is lost, and as long as A runs nothing comes
\* back, and a pass that misses a text has taken out one before it - so that a
\* text on its way is repeated and settled, however the acknowledgements come.
THEOREM PoolInChat ==
    ChatSpec => /\ [](OneVerdict /\ Accounted)
                /\ [][RestartA \/ (StaysOutStep /\ HeadwayStep)]_chatVars
<1>1. ChatInv => OneVerdict /\ Accounted
  BY InvSays DEF ChatInv
<1>2. ChatInv /\ [ChatNext]_chatVars => [RestartA \/ (StaysOutStep /\ HeadwayStep)]_chatVars
  <2> SUFFICES ASSUME ChatInv, ChatNext, ~RestartA
               PROVE  StaysOutStep /\ HeadwayStep
    BY DEF ChatInv
  <2>1. PoolInv /\ [PoolNext]_poolVars
    BY ChatUsesPool DEF ChatInv
  <2>2. [StaysOutStep]_poolVars /\ [HeadwayStep]_poolVars
    BY <2>1, StaysOutSteps, HeadwaySteps
  <2>3. UNCHANGED poolVars => StaysOutStep /\ HeadwayStep
    BY DEF poolVars, StaysOutStep, HeadwayStep, Ahead
  <2> QED
    BY <2>2, <2>3
<1> QED
  BY <1>1, <1>2, ChatInvariant, PTL DEF ChatSpec
=============================================================================
