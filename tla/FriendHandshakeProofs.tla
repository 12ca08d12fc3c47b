------------------------ MODULE FriendHandshakeProofs ------------------------
(***************************************************************************)
(* The safety properties of FriendHandshake for any number of requests,    *)
(* prompts and handlers.                                                   *)
(*                                                                         *)
(* A yes on its way, in the network or in the hands of a handler of A, is  *)
(* as good as an entry in A's list: what the properties say of the entry   *)
(* has to hold of it already (YesIsMeant, YesIsEntered).  And what permits *)
(* a handler to go on, the entry of TempUserList it found, may be gone     *)
(* when it goes on: what it stands for, a request in this life of A, has   *)
(* to be kept of the handler itself (TempWasAsked).                        *)
(***************************************************************************)
EXTENDS FriendHandshake, TLAPS

\* A yes that A has, or may still get.
YesOut == "yes" \in replyNet \/ found["yes"] > 0 \/ aLists

YesIsMeant == YesOut => agreed

YesIsEntered == YesOut => bLists \/ adding \/ bDropped

TempWasAsked == temp > 0 \/ found["yes"] > 0 \/ found["no"] > 0 => asked > 0

AddingHasPrompt == adding => prompts > 0

\* The two halves of the type invariant: the flags, and what counts.
Flags ==
    /\ aLists \in BOOLEAN
    /\ adding \in BOOLEAN
    /\ bLists \in BOOLEAN
    /\ agreed \in BOOLEAN
    /\ bDropped \in BOOLEAN

Counts ==
    /\ asked \in 0 .. MaxAsks
    /\ open \subseteq 0 .. asked - 1
    /\ temp \in Nat
    /\ found \in [Replies -> Nat]
    /\ added \in Nat
    /\ prompts \in Nat
    /\ askNet \subseteq Mids
    /\ ackNet \subseteq Mids
    /\ replyNet \subseteq Replies

HandshakeInv ==
    /\ Flags
    /\ Counts
    /\ YesIsMeant
    /\ YesIsEntered
    /\ TempWasAsked
    /\ AddingHasPrompt

\* The two halves are the type invariant.
LEMMA TypeHalves == Flags /\ Counts <=> HandshakeTypeOK
  BY DEF Flags, Counts, HandshakeTypeOK

\* The initial state satisfies the invariant.
LEMMA InvInit == HandshakeInit => HandshakeInv
<1> SUFFICES ASSUME HandshakeInit
             PROVE  HandshakeInv
  OBVIOUS
<1>1. Flags
  BY Zenon DEF HandshakeInit, Flags
<1>2. Counts
  BY HandshakeAssumption, SMT DEF HandshakeInit, Counts, Mids, Replies
<1>3. ~YesOut /\ ~adding
  BY SMT DEF HandshakeInit, YesOut, Replies
<1>4. TempWasAsked
  BY SMT DEF HandshakeInit, TempWasAsked, Replies
<1> QED
  BY <1>1, <1>2, <1>3, <1>4
  DEF HandshakeInv, YesIsMeant, YesIsEntered, AddingHasPrompt

\* Every action assigns truth values to the flags.
LEMMA FlagsStep == Flags /\ [HandshakeNext]_handshakeVars => Flags'
  BY Zenon
  DEF Flags, HandshakeNext, handshakeVars, aVars, bVars, netVars,
      AddP2PFriend, AfterAddP2PUserMsg, GiveUpAsk, OnAddUserAskMsg, FindUser,
      AddUser, AddFriendAck, DeleteUser, DeleteFriendA, RestartA,
      AddFriendAckEnd, DeleteFriendB, RestartB

\* Every action keeps the counts in their types.  B's UI takes a prompt off
\* the stack only when there is one, because it answers one at a time.
LEMMA CountsStep ==
  Counts /\ AddingHasPrompt /\ [HandshakeNext]_handshakeVars => Counts'
<1> SUFFICES ASSUME Counts, AddingHasPrompt, [HandshakeNext]_handshakeVars
             PROVE  Counts'
  OBVIOUS
<1> USE HandshakeAssumption
    DEF Counts, AddingHasPrompt, Mids, Replies, aVars, bVars, netVars
<1>1. CASE AddP2PFriend
  BY <1>1, SMT DEF AddP2PFriend
<1>2. ASSUME NEW m \in Mids, AfterAddP2PUserMsg(m)
      PROVE  Counts'
  BY <1>2, SMT DEF AfterAddP2PUserMsg
<1>3. ASSUME NEW m \in Mids, GiveUpAsk(m)
      PROVE  Counts'
  BY <1>3, SMT DEF GiveUpAsk
<1>4. ASSUME NEW m \in Mids, OnAddUserAskMsg(m)
      PROVE  Counts'
  BY <1>4, SMT DEF OnAddUserAskMsg
<1>5. ASSUME NEW reply \in Replies, FindUser(reply)
      PROVE  Counts'
  BY <1>5, SMT DEF FindUser
<1>6. ASSUME NEW reply \in Replies, AddUser(reply)
      PROVE  Counts'
  BY <1>6, SMT DEF AddUser
<1>7. ASSUME NEW reply \in Replies, AddFriendAck(reply)
      PROVE  Counts'
  BY <1>7, SMT DEF AddFriendAck
<1>8. CASE DeleteUser
  BY <1>8, SMT DEF DeleteUser
<1>9. CASE DeleteFriendA
  BY <1>9, SMT DEF DeleteFriendA
<1>10. CASE RestartA
  BY <1>10, SMT DEF RestartA
<1>11. CASE AddFriendAckEnd
  BY <1>11, SMT DEF AddFriendAckEnd
<1>12. CASE DeleteFriendB
  BY <1>12, SMT DEF DeleteFriendB
<1>13. CASE RestartB
  BY <1>13, SMT DEF RestartB
<1>14. CASE UNCHANGED handshakeVars
  BY <1>14, SMT DEF handshakeVars
<1> QED
  BY <1>1, <1>2, <1>3, <1>4, <1>5, <1>6, <1>7, <1>8,
     <1>9, <1>10, <1>11, <1>12, <1>13, <1>14 DEF HandshakeNext

\* What a yes means: the state that goes with it.
YesFacts == YesIsMeant /\ YesIsEntered /\ AddingHasPrompt

\* Every action keeps what a yes stands for: a new yes comes from AddFriendAck
\* only, and an entry of A in B's list is not lost without bDropped.
LEMMA YesStep ==
  Flags /\ Counts /\ YesFacts /\ [HandshakeNext]_handshakeVars => YesFacts'
<1> SUFFICES ASSUME Flags, Counts, YesFacts, [HandshakeNext]_handshakeVars
             PROVE  YesFacts'
  OBVIOUS
<1> USE HandshakeAssumption
    DEF Flags, Counts, YesFacts, YesIsMeant, YesIsEntered, YesOut,
        AddingHasPrompt, Mids, Replies, aVars, bVars, netVars
<1>1. CASE AddP2PFriend
  BY <1>1, SMT DEF AddP2PFriend
<1>2. ASSUME NEW m \in Mids, AfterAddP2PUserMsg(m)
      PROVE  YesFacts'
  BY <1>2, SMT DEF AfterAddP2PUserMsg
<1>3. ASSUME NEW m \in Mids, GiveUpAsk(m)
      PROVE  YesFacts'
  BY <1>3, SMT DEF GiveUpAsk
<1>4. ASSUME NEW m \in Mids, OnAddUserAskMsg(m)
      PROVE  YesFacts'
  BY <1>4, SMT DEF OnAddUserAskMsg
<1>5. ASSUME NEW reply \in Replies, FindUser(reply)
      PROVE  YesFacts'
  BY <1>5, SMT DEF FindUser
<1>6. ASSUME NEW reply \in Replies, AddUser(reply)
      PROVE  YesFacts'
  BY <1>6, SMT DEF AddUser
<1>7. ASSUME NEW reply \in Replies, AddFriendAck(reply)
      PROVE  YesFacts'
  BY <1>7, SMT DEF AddFriendAck
<1>8. CASE DeleteUser
  BY <1>8, SMT DEF DeleteUser
<1>9. CASE DeleteFriendA
  BY <1>9, SMT DEF DeleteFriendA
<1>10. CASE RestartA
  BY <1>10, SMT DEF RestartA
<1>11. CASE AddFriendAckEnd
  BY <1>11, SMT DEF AddFriendAckEnd
<1>12. CASE DeleteFriendB
  BY <1>12, SMT DEF DeleteFriendB
<1>13. CASE RestartB
  BY <1>13, SMT DEF RestartB
<1>14. CASE UNCHANGED handshakeVars
  BY <1>14, SMT DEF handshakeVars
<1> QED
  BY <1>1, <1>2, <1>3, <1>4, <1>5, <1>6, <1>7, <1>8,
     <1>9, <1>10, <1>11, <1>12, <1>13, <1>14 DEF HandshakeNext

\* Every action keeps the reason a handler runs for: A's user asked.
LEMMA AskedStep ==
  Counts /\ TempWasAsked /\ [HandshakeNext]_handshakeVars => TempWasAsked'
<1> SUFFICES ASSUME Counts, TempWasAsked, [HandshakeNext]_handshakeVars
             PROVE  TempWasAsked'
  OBVIOUS
<1> USE HandshakeAssumption
    DEF Counts, TempWasAsked, Mids, Replies, aVars, bVars, netVars
<1>1. CASE AddP2PFriend
  BY <1>1, SMT DEF AddP2PFriend
<1>2. ASSUME NEW m \in Mids, AfterAddP2PUserMsg(m)
      PROVE  TempWasAsked'
  BY <1>2, SMT DEF AfterAddP2PUserMsg
<1>3. ASSUME NEW m \in Mids, GiveUpAsk(m)
      PROVE  TempWasAsked'
  BY <1>3, SMT DEF GiveUpAsk
<1>4. ASSUME NEW m \in Mids, OnAddUserAskMsg(m)
      PROVE  TempWasAsked'
  BY <1>4, SMT DEF OnAddUserAskMsg
<1>5. ASSUME NEW reply \in Replies, FindUser(reply)
      PROVE  TempWasAsked'
  BY <1>5, SMT DEF FindUser
<1>6. ASSUME NEW reply \in Replies, AddUser(reply)
      PROVE  TempWasAsked'
  BY <1>6, SMT DEF AddUser
<1>7. ASSUME NEW reply \in Replies, AddFriendAck(reply)
      PROVE  TempWasAsked'
  BY <1>7, SMT DEF AddFriendAck
<1>8. CASE DeleteUser
  BY <1>8, SMT DEF DeleteUser
<1>9. CASE DeleteFriendA
  BY <1>9, SMT DEF DeleteFriendA
<1>10. CASE RestartA
  BY <1>10, SMT DEF RestartA
<1>11. CASE AddFriendAckEnd
  BY <1>11, SMT DEF AddFriendAckEnd
<1>12. CASE DeleteFriendB
  BY <1>12, SMT DEF DeleteFriendB
<1>13. CASE RestartB
  BY <1>13, SMT DEF RestartB
<1>14. CASE UNCHANGED handshakeVars
  BY <1>14, SMT DEF handshakeVars
<1> QED
  BY <1>1, <1>2, <1>3, <1>4, <1>5, <1>6, <1>7, <1>8,
     <1>9, <1>10, <1>11, <1>12, <1>13, <1>14 DEF HandshakeNext

\* The invariant is inductive.
LEMMA InvStep ==
  HandshakeInv /\ [HandshakeNext]_handshakeVars => HandshakeInv'
  BY FlagsStep, CountsStep, YesStep, AskedStep DEF HandshakeInv, YesFacts

\* Every reachable state satisfies the invariant.
THEOREM InvHolds == HandshakeSpec => []HandshakeInv
  BY InvInit, InvStep, PTL DEF HandshakeSpec

\* The variables of both programs and of the network keep their types.
THEOREM HandshakeTypeCorrect == HandshakeSpec => []HandshakeTypeOK
<1>1. HandshakeInv => HandshakeTypeOK
  BY TypeHalves DEF HandshakeInv
<1> QED
  BY <1>1, InvHolds, PTL

\* B is in A's list only if B's user said yes.
THEOREM FriendWasAgreedHolds == HandshakeSpec => []FriendWasAgreed
<1>1. HandshakeInv => FriendWasAgreed
  BY DEF HandshakeInv, YesIsMeant, YesOut, FriendWasAgreed
<1> QED
  BY <1>1, InvHolds, PTL

\* If A lists B, then B lists A, is about to, or its entry was dropped.
THEOREM MutualOrDroppedHolds == HandshakeSpec => []MutualOrDropped
<1>1. HandshakeInv => MutualOrDropped
  BY DEF HandshakeInv, YesIsEntered, YesOut, MutualOrDropped
<1> QED
  BY <1>1, InvHolds, PTL

\* B enters A's list only in a life of A in which its user asked: only
\* AddUser enters anybody, and it runs in a handler that found an entry.
THEOREM AddedWasAskedHolds == HandshakeSpec => AddedWasAsked
<1>1. HandshakeInv /\ [HandshakeNext]_handshakeVars => [AddedWasAskedStep]_handshakeVars
  <2> SUFFICES ASSUME HandshakeInv, HandshakeNext, ~aLists, aLists'
               PROVE  asked > 0
    BY DEF AddedWasAskedStep
  <2>1. PICK reply \in Replies : AddUser(reply)
    BY DEF HandshakeNext, AddP2PFriend, AfterAddP2PUserMsg, GiveUpAsk,
           OnAddUserAskMsg, FindUser, AddUser, AddFriendAck, DeleteUser,
           DeleteFriendA, RestartA, AddFriendAckEnd, DeleteFriendB, RestartB,
           aVars, bVars, netVars
  <2> QED
    BY <2>1 DEF AddUser, HandshakeInv, Counts, TempWasAsked, Replies
<1> QED
  BY <1>1, InvHolds, PTL DEF HandshakeSpec, AddedWasAsked
=============================================================================
