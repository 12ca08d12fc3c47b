------------------------- MODULE WindowAndLockProofs --------------------------
(***************************************************************************)
(* The safety properties of what two windows show: of UnreadTips for any   *)
(* number of messages, and of ChatHistory for every size of a page and any *)
(* number of records.                                                      *)
(*                                                                         *)
(* A click on a tip reads and pops the stack without a test, in a thread   *)
(* that does not hold the lock between the two: that the message it was    *)
(* made for is on the stack has to be kept from the moment the tip is made *)
(* (ChoiceHasMessage), and the top is that one or a later one because a    *)
(* push comes after all that have arrived.  What is on the stack is not    *)
(* forgotten because a click that has begun still has its tip              *)
(* (ClickHasTip).  The count of posts is bounded because each of them, and *)
(* the tip, goes back to a push.                                           *)
(*                                                                         *)
(* The pages of a history are intervals of ids: the lemmas say which, and  *)
(* the ends that a page leaves in the window follow.                       *)
(*                                                                         *)
(* The last part is about LockOrder, for any number of threads.  A thread  *)
(* leaves six of the sections with its next step after it has entered them *)
(* (LockInv), so nobody inside them waits, and a circle can only go        *)
(* through the other two.                                                  *)
(***************************************************************************)
EXTENDS UnreadTips, ChatHistory, LockOrder, TLAPS

-----------------------------------------------------------------------------
(* Unread messages *)

\* The messages that have arrived are the first ones; each has at most one
\* call, post or tip that is still to come to an end.
Pushed(k) == \A m \in Messages : type[m] # "none" <=> m <= k

OneEach ==
    \E k \in 0 .. MaxMsgs :
        /\ Pushed(k)
        /\ posted + toDisplay <= k
        /\ tip # 0 => posted + toDisplay < k

StackArrived == \A i \in DOMAIN stack : type[stack[i]] # "none"

ClickHasTip == ui # "idle" => tip # 0

\* The types without the bounds on the counts.
Shapes ==
    /\ stack \in Seq(Messages)
    /\ type \in [Messages -> {"none", "ask", "text"}]
    /\ toDisplay \in Nat
    /\ posted \in Nat
    /\ tip \in Messages \union {0, Blank}
    /\ ui \in {"idle", "chosen", "popped"}
    /\ orphaned \subseteq Arrived
    /\ shown \subseteq Arrived
    /\ settled \subseteq Arrived

UnreadInv ==
    /\ Shapes
    /\ StackArrived
    /\ OneEach
    /\ ClickHasTip
    /\ ChoiceHasMessage
    /\ NeverForgotten

\* The bounds of the counts follow from OneEach.
LEMMA InvIsTyped == UnreadInv => UnreadTypeOK
<1> SUFFICES ASSUME UnreadInv
             PROVE  UnreadTypeOK
  OBVIOUS
<1>1. toDisplay \in 0 .. MaxMsgs /\ posted \in 0 .. MaxMsgs
  BY UnreadAssumption DEF UnreadInv, Shapes, OneEach
<1> QED
  BY <1>1 DEF UnreadInv, Shapes, UnreadTypeOK

\* The initial state satisfies the invariant.
LEMMA InvInit == UnreadInit => UnreadInv
<1> SUFFICES ASSUME UnreadInit
             PROVE  UnreadInv
  OBVIOUS
<1>1. Shapes /\ StackArrived
  BY DEF UnreadInit, Shapes, StackArrived, Arrived
<1>2. OneEach
  <2>1. Pushed(0)
    BY UnreadAssumption DEF UnreadInit, Pushed, Messages
  <2> QED
    BY <2>1, UnreadAssumption DEF UnreadInit, OneEach
<1> QED
  BY <1>1, <1>2, UnreadAssumption
  DEF UnreadInit, UnreadInv, ClickHasTip, ChoiceHasMessage, NeverForgotten, Messages

\* While a tip with a choice is up, the stack is not empty.
LEMMA ChoiceOnStack ==
  ASSUME Shapes, ChoiceHasMessage
  PROVE  (tip \in Messages /\ ui = "idle") \/ ui = "chosen" => stack # <<>>
BY DEF Shapes, ChoiceHasMessage, Stacked

\* A push takes the next message and adds one call that will post it.
LEMMA PushStep ==
  ASSUME UnreadInv, NEW m \in Messages, AddUnreadMsg(m)
  PROVE  UnreadInv'
<1> USE UnreadAssumption DEF Messages, Blank
<1>1. PICK t \in {"ask", "text"} : type' = [type EXCEPT ![m] = t]
  BY DEF AddUnreadMsg
<1>2. Arrived' = Arrived \union {m}
  BY <1>1 DEF UnreadInv, Shapes, Arrived
<1>3. Shapes'
  BY <1>1, <1>2 DEF UnreadInv, Shapes, AddUnreadMsg
<1>4. StackArrived'
  BY <1>1 DEF UnreadInv, Shapes, StackArrived, AddUnreadMsg
<1>5. OneEach'
  <2>1. PICK k \in 0 .. MaxMsgs :
          /\ Pushed(k)
          /\ posted + toDisplay <= k
          /\ tip # 0 => posted + toDisplay < k
    BY DEF UnreadInv, OneEach
  <2>2. m = k + 1
    BY <2>1 DEF AddUnreadMsg, Pushed
  <2>3. Pushed(k + 1)'
    BY <2>1, <2>2, <1>1 DEF Pushed, UnreadInv, Shapes
  <2> QED
    BY <2>1, <2>2, <2>3 DEF OneEach, AddUnreadMsg, UnreadInv, Shapes
<1>6. ClickHasTip' /\ NeverForgotten'
  BY DEF UnreadInv, Shapes, ClickHasTip, NeverForgotten, AddUnreadMsg
\* The new top is later than all that have arrived.
<1>7. ChoiceHasMessage'
  <2>1. stack \in Seq(Messages) /\ stack' = Append(stack, m)
    BY DEF UnreadInv, Shapes, AddUnreadMsg
  <2>2. Top' = m /\ Stacked' = Stacked \union {m}
    <3>1. \A s \in Seq(Messages) :
             LET q == Append(s, m)
             IN  /\ Len(q) = Len(s) + 1 /\ q[Len(q)] = m
                 /\ \A i \in DOMAIN s : i \in DOMAIN q /\ q[i] = s[i]
                 /\ \A i \in DOMAIN q : i \in DOMAIN s \/ i = Len(q)
                 /\ Len(q) \in DOMAIN q
      OBVIOUS
    <3> QED
      BY <2>1, <3>1 DEF Top, Stacked
  <2>3. \A n \in Stacked : n \in Arrived
    BY DEF UnreadInv, Shapes, StackArrived, Stacked, Arrived
  <2>4. \A n \in Arrived : n <= m
    <3>1. PICK k \in 0 .. MaxMsgs : Pushed(k)
      BY DEF UnreadInv, OneEach
    <3>2. ~(m <= k)
      BY <3>1 DEF AddUnreadMsg, Pushed
    <3> QED
      BY <3>1, <3>2 DEF Pushed, Arrived
  <2>5. tip' = tip /\ ui' = ui
    BY DEF AddUnreadMsg
  <2> QED
    BY <2>2, <2>3, <2>4, <2>5 DEF UnreadInv, ChoiceHasMessage
<1> QED
  BY <1>3, <1>4, <1>5, <1>6, <1>7 DEF UnreadInv

\* The invariant is inductive.
LEMMA InvStep == UnreadInv /\ [UnreadNext]_unreadVars => UnreadInv'
<1> SUFFICES ASSUME UnreadInv, [UnreadNext]_unreadVars
             PROVE  UnreadInv'
  OBVIOUS
<1> USE UnreadAssumption DEF Messages, Blank
<1>1. ASSUME NEW m \in Messages, AddUnreadMsg(m)
      PROVE  UnreadInv'
  BY <1>1, PushStep
<1>2. CASE DisplayMsg
  <2>1. OneEach'
    <3>1. PICK k \in 0 .. MaxMsgs :
            /\ Pushed(k)
            /\ posted + toDisplay <= k
            /\ tip # 0 => posted + toDisplay < k
      BY DEF UnreadInv, OneEach
    <3>2. Pushed(k)'
      BY <1>2, <3>1 DEF DisplayMsg, Pushed
    <3> QED
      BY <1>2, <3>1, <3>2 DEF DisplayMsg, OneEach, UnreadInv, Shapes
  <2>2. Shapes' /\ StackArrived'
    BY <1>2 DEF DisplayMsg, UnreadInv, Shapes, StackArrived, Arrived
  <2>3. ClickHasTip' /\ ChoiceHasMessage' /\ NeverForgotten'
    BY <1>2 DEF DisplayMsg, UnreadInv, Shapes, ClickHasTip, ChoiceHasMessage,
                NeverForgotten, Stacked, Top
  <2> QED
    BY <2>1, <2>2, <2>3 DEF UnreadInv
<1>3. CASE PopupMessageTipsWnd
  <2>1. stack # <<>> => Top \in Arrived
    BY DEF UnreadInv, Shapes, StackArrived, Arrived, Top
  <2>2. Shapes' /\ StackArrived'
    <3>1. stack # <<>> => Top \in Messages
      BY <2>1 DEF Arrived
    <3>2. tip' \in Messages \union {0, Blank}
      BY <1>3, <3>1 DEF PopupMessageTipsWnd, UnreadInv, Shapes
    <3>3. Arrived' = Arrived /\ StackArrived'
      BY <1>3 DEF PopupMessageTipsWnd, Arrived, UnreadInv, StackArrived
    <3>4. shown' \subseteq Arrived
      BY <1>3, <2>1 DEF PopupMessageTipsWnd, UnreadInv, Shapes
    <3>5. posted' \in Nat
      BY <1>3 DEF PopupMessageTipsWnd, UnreadInv, Shapes
    <3> QED
      BY <1>3, <3>2, <3>3, <3>4, <3>5 DEF PopupMessageTipsWnd, UnreadInv, Shapes
  <2>3. OneEach'
    <3>1. PICK k \in 0 .. MaxMsgs :
            /\ Pushed(k)
            /\ posted + toDisplay <= k
            /\ tip # 0 => posted + toDisplay < k
      BY DEF UnreadInv, OneEach
    <3>2. Pushed(k)'
      BY <1>3, <3>1 DEF PopupMessageTipsWnd, Pushed
    <3> QED
      BY <1>3, <3>1, <3>2 DEF PopupMessageTipsWnd, OneEach, UnreadInv, Shapes
  <2>4. ClickHasTip' /\ ChoiceHasMessage'
    <3>1. stack # <<>> => Top \in Stacked /\ Top >= Top
      <4>1. stack # <<>> => Len(stack) \in DOMAIN stack
        BY DEF UnreadInv, Shapes
      <4> QED
        BY <2>1, <4>1 DEF Arrived, Top, Stacked
    <3>2. Top' = Top /\ Stacked' = Stacked /\ ui' = ui /\ ui = "idle"
      BY <1>3 DEF PopupMessageTipsWnd, Top, Stacked
    <3>3. tip' \in Messages => tip' = tip \/ (stack # <<>> /\ tip' = Top)
      BY <1>3 DEF PopupMessageTipsWnd
    <3> QED
      BY <3>1, <3>2, <3>3 DEF UnreadInv, ClickHasTip, ChoiceHasMessage
  <2>5. NeverForgotten'
    <3>1. Top' = Top
      BY <1>3 DEF PopupMessageTipsWnd, Top
    <3>2. stack # <<>> => Top # 0
      BY <2>1 DEF Arrived
    <3> QED
      BY <1>3, <3>1, <3>2 DEF PopupMessageTipsWnd, UnreadInv, NeverForgotten
  <2> QED
    BY <2>2, <2>3, <2>4, <2>5 DEF UnreadInv
<1>4. CASE Choose
  <2>1. tip # Blank => Top \in Arrived
    <3>1. tip # Blank => stack # <<>>
      BY <1>4, ChoiceOnStack DEF Choose, UnreadInv, Shapes
    <3> QED
      BY <3>1 DEF UnreadInv, Shapes, StackArrived, Arrived, Top
  <2>2. Shapes' /\ StackArrived'
    BY <1>4, <2>1 DEF Choose, UnreadInv, Shapes, StackArrived, Arrived
  <2>3. OneEach'
    <3>1. PICK k \in 0 .. MaxMsgs :
            /\ Pushed(k)
            /\ posted + toDisplay <= k
            /\ tip # 0 => posted + toDisplay < k
      BY DEF UnreadInv, OneEach
    <3>2. Pushed(k)'
      BY <1>4, <3>1 DEF Choose, Pushed
    <3> QED
      BY <1>4, <3>1, <3>2 DEF Choose, OneEach, UnreadInv, Shapes
  <2>4. ClickHasTip' /\ ChoiceHasMessage' /\ NeverForgotten'
    BY <1>4 DEF Choose, UnreadInv, Shapes, ClickHasTip, ChoiceHasMessage,
                NeverForgotten, Stacked, Top
  <2> QED
    BY <2>2, <2>3, <2>4 DEF UnreadInv
<1>5. CASE DeleteUnreadMsg
  <2>1. stack # <<>> /\ Top \in Arrived
    <3>1. stack # <<>> /\ stack \in Seq(Messages)
      BY <1>5, ChoiceOnStack DEF DeleteUnreadMsg, UnreadInv, Shapes
    <3>2. Len(stack) \in DOMAIN stack /\ stack[Len(stack)] \in Messages
      BY <3>1
    <3> QED
      BY <3>1, <3>2 DEF UnreadInv, StackArrived, Arrived, Top
  <2>2. Shapes' /\ StackArrived'
    <3>1. Shapes'
      BY <1>5, <2>1 DEF DeleteUnreadMsg, UnreadInv, Shapes, Arrived
    <3>2. StackArrived'
      BY <1>5, <2>1 DEF DeleteUnreadMsg, UnreadInv, Shapes, StackArrived
    <3> QED
      BY <3>1, <3>2
  <2>3. OneEach'
    <3>1. PICK k \in 0 .. MaxMsgs :
            /\ Pushed(k)
            /\ posted + toDisplay <= k
            /\ tip # 0 => posted + toDisplay < k
      BY DEF UnreadInv, OneEach
    <3>2. Pushed(k)'
      BY <1>5, <3>1 DEF DeleteUnreadMsg, Pushed
    <3> QED
      BY <1>5, <3>1, <3>2 DEF DeleteUnreadMsg, OneEach, UnreadInv, Shapes
  <2>4. ClickHasTip' /\ ChoiceHasMessage' /\ NeverForgotten'
    BY <1>5 DEF DeleteUnreadMsg, UnreadInv, ClickHasTip, ChoiceHasMessage,
                NeverForgotten
  <2> QED
    BY <2>2, <2>3, <2>4 DEF UnreadInv
<1>6. CASE WndCancel
  <2>1. OneEach'
    <3>1. PICK k \in 0 .. MaxMsgs :
            /\ Pushed(k)
            /\ posted + toDisplay <= k
            /\ tip # 0 => posted + toDisplay < k
      BY DEF UnreadInv, OneEach
    <3>2. Pushed(k)'
      BY <1>6, <3>1 DEF WndCancel, Pushed
    <3> QED
      BY <1>6, <3>1, <3>2 DEF WndCancel, OneEach, UnreadInv, Shapes, ClickHasTip
  <2>2. Shapes' /\ StackArrived'
    BY <1>6 DEF WndCancel, UnreadInv, Shapes, StackArrived, Arrived
  <2>3. ClickHasTip' /\ ChoiceHasMessage' /\ NeverForgotten'
    BY <1>6 DEF WndCancel, UnreadInv, Shapes, ClickHasTip, ChoiceHasMessage,
                NeverForgotten
  <2> QED
    BY <2>1, <2>2, <2>3 DEF UnreadInv
<1>7. ASSUME NEW m \in Messages, DeleteFriend(m)
      PROVE  UnreadInv'
  <2>1. OneEach'
    <3>1. PICK k \in 0 .. MaxMsgs :
            /\ Pushed(k)
            /\ posted + toDisplay <= k
            /\ tip # 0 => posted + toDisplay < k
      BY DEF UnreadInv, OneEach
    <3>2. Pushed(k)'
      BY <1>7, <3>1 DEF DeleteFriend, Pushed
    <3> QED
      BY <1>7, <3>1, <3>2 DEF DeleteFriend, OneEach, UnreadInv, Shapes
  <2>2. Shapes' /\ StackArrived'
    BY <1>7 DEF DeleteFriend, UnreadInv, Shapes, StackArrived, Arrived
  <2>3. ClickHasTip' /\ ChoiceHasMessage' /\ NeverForgotten'
    BY <1>7 DEF DeleteFriend, UnreadInv, ClickHasTip, ChoiceHasMessage,
                NeverForgotten, Stacked, Top
  <2> QED
    BY <2>1, <2>2, <2>3 DEF UnreadInv
<1>8. CASE UNCHANGED unreadVars
  BY <1>8 DEF unreadVars, UnreadInv, Shapes, StackArrived, Arrived, OneEach, Pushed,
              ClickHasTip, ChoiceHasMessage, NeverForgotten, Top, Stacked
<1> QED
  BY <1>1, <1>2, <1>3, <1>4, <1>5, <1>6, <1>7, <1>8 DEF UnreadNext, UnreadDone

\* Every reachable state satisfies the invariant.
THEOREM InvHolds == UnreadSpec => []UnreadInv
  BY InvInit, InvStep, PTL DEF UnreadSpec

\* The stack holds messages that have arrived, and the counts of calls and
\* posts stay within the number of messages.
THEOREM UnreadTypeCorrect == UnreadSpec => []UnreadTypeOK
  BY InvIsTyped, InvHolds, PTL

\* The pop of DeleteUnreadMsg and the read of AddFriendAck find a message, the
\* one the tip shows or a later one, for any number of messages.
THEOREM ChoiceHasMessageHolds == UnreadSpec => []ChoiceHasMessage
<1>1. UnreadInv => ChoiceHasMessage
  BY DEF UnreadInv
<1> QED
  BY <1>1, InvHolds, PTL

\* What is on the stack has a tip, a post or a call that will post it.
THEOREM NeverForgottenHolds == UnreadSpec => []NeverForgotten
<1>1. UnreadInv => NeverForgotten
  BY DEF UnreadInv
<1> QED
  BY <1>1, InvHolds, PTL

-----------------------------------------------------------------------------
(* Pages of a history *)

\* The ends of a page that is an interval are the ends of the interval.
LEMMA EndsOfInterval ==
  ASSUME NEW a \in Int, NEW b \in Int, a <= b, Show(a .. b)
  PROVE  beginMid' = a /\ endMid' = b
<1>1. a \in a .. b /\ b \in a .. b
  OBVIOUS
<1>2. beginMid' \in a .. b /\ endMid' \in a .. b
  BY DEF Show
<1>3. beginMid' <= a /\ b <= endMid'
  BY <1>1 DEF Show
<1> QED
  BY <1>2, <1>3

\* Every page holds records of the table.
LEMMA PageInTable ==
  ASSUME HistoryTypeOK, NEW dest \in BOOLEAN, NEW mid \in Int
  PROVE  GetChatHistory(dest, mid) \subseteq 1 .. last
  BY DEF GetChatHistory, Limit, Recent

\* The page before record n ends with n - 1 and is full, or is the first.
LEMMA PageBefore ==
  ASSUME HistoryTypeOK, NEW n \in 2 .. last
  PROVE  GetChatHistory(FALSE, n - 1) =
             IF n - 1 < PageSize THEN 1 .. n - 1 ELSE n - PageSize .. n - 1
<1> USE HistoryAssumption
<1>1. last \in Nat /\ n \in Nat /\ n - 1 \in Nat /\ n - 1 # 0
  BY DEF HistoryTypeOK
<1>2. CASE n - 1 < PageSize
  <2>1. GetChatHistory(FALSE, n - 1) = Limit(0, n - 1)
    BY <1>1, <1>2 DEF GetChatHistory
  <2>2. Limit(0, n - 1) = 1 .. n - 1
    BY <1>1 DEF Limit
  <2> QED
    BY <1>2, <2>1, <2>2
<1>3. CASE ~(n - 1 < PageSize)
  <2>1. GetChatHistory(FALSE, n - 1) = Limit(n - 1 - PageSize, PageSize)
    BY <1>1, <1>3 DEF GetChatHistory
  <2>2. Limit(n - 1 - PageSize, PageSize) = n - PageSize .. n - 1
    BY <1>1, <1>3 DEF Limit
  <2> QED
    BY <1>3, <2>1, <2>2
<1> QED
  BY <1>2, <1>3

\* A page that is shown leaves ends that are ids of records, in their order.
LEMMA ShownEnds ==
  ASSUME HistoryTypeOK, NEW page \in SUBSET (1 .. last), Show(page)
  PROVE  endMid' \in 1 .. last /\ beginMid' \in 1 .. endMid'
<1>1. beginMid' \in 1 .. last /\ endMid' \in 1 .. last /\ beginMid' <= endMid'
  BY DEF Show
<1> QED
  BY <1>1, HistoryAssumption DEF HistoryTypeOK

\* The type invariant is inductive.
LEMMA TypeStep == HistoryTypeOK /\ [HistoryNext]_historyVars => HistoryTypeOK'
<1> SUFFICES ASSUME HistoryTypeOK, [HistoryNext]_historyVars
             PROVE  HistoryTypeOK'
  OBVIOUS
<1> USE HistoryAssumption
<1>1. CASE Open
  <2>1. CASE Show(GetChatHistory(FALSE, 0))
    <3>1. GetChatHistory(FALSE, 0) \in SUBSET (1 .. last)
      BY DEF GetChatHistory, Recent
    <3>2. endMid' \in 1 .. last /\ beginMid' \in 1 .. endMid'
      BY <2>1, <3>1, ShownEnds
    <3> QED
      BY <1>1, <3>2 DEF Open, HistoryTypeOK
  <2>2. CASE beginMid' = 0 /\ endMid' = 0
    BY <1>1, <2>2 DEF Open, HistoryTypeOK
  <2> QED
    BY <1>1, <2>1, <2>2 DEF Open
<1>2. CASE Close
  BY <1>2 DEF Close, HistoryTypeOK
<1>3. CASE Previous
  <2>1. beginMid - 1 \in Int
    BY DEF HistoryTypeOK
  <2>2. endMid' \in 1 .. last /\ beginMid' \in 1 .. endMid'
    BY <1>3, <2>1, PageInTable, ShownEnds DEF Previous
  <2> QED
    BY <1>3, <2>2 DEF Previous, HistoryTypeOK
<1>4. CASE Following
  <2>1. endMid + 1 \in Int
    BY DEF HistoryTypeOK
  <2>2. endMid' \in 1 .. last /\ beginMid' \in 1 .. endMid'
    BY <1>4, <2>1, PageInTable, ShownEnds DEF Following
  <2> QED
    BY <1>4, <2>2 DEF Following, HistoryTypeOK
<1>5. CASE InsertChatItem
  BY <1>5 DEF InsertChatItem, HistoryTypeOK
<1>6. CASE UNCHANGED historyVars
  BY <1>6 DEF historyVars, HistoryTypeOK
<1> QED
  BY <1>1, <1>2, <1>3, <1>4, <1>5, <1>6 DEF HistoryNext

\* What the window keeps of a page are ids of records of the table.
THEOREM HistoryTypeCorrect == HistorySpec => []HistoryTypeOK
<1>1. HistoryInit => HistoryTypeOK
  <2> SUFFICES ASSUME HistoryInit
               PROVE  HistoryTypeOK
    OBVIOUS
  <2>1. last \in 0 .. MaxRecords /\ (last > 0 => table)
    <3>1. CASE table
      BY <3>1, HistoryAssumption DEF HistoryInit
    <3>2. CASE ~table
      BY <3>2, HistoryAssumption DEF HistoryInit
    <3> QED
      BY <3>1, <3>2
  <2>2. table \in BOOLEAN /\ open \in BOOLEAN /\ nil \in BOOLEAN
    BY Zenon DEF HistoryInit
  <2>3. beginMid = 0 /\ endMid = 0
    BY DEF HistoryInit
  <2>4. endMid \in 0 .. last /\ beginMid \in 0 .. endMid
    BY <2>1, <2>3, HistoryAssumption
  <2> QED
    BY <2>1, <2>2, <2>3, <2>4 DEF HistoryTypeOK
<1> QED
  BY <1>1, TypeStep, PTL DEF HistorySpec

\* Leafing back skips nothing and repeats nothing, for every size of a page.
THEOREM BackIsSeamlessHolds == HistorySpec => BackIsSeamless
<1>1. HistoryTypeOK => BackIsSeamlessStep
  <2> SUFFICES ASSUME HistoryTypeOK, Previous, beginMid > 0
               PROVE  /\ endMid' = beginMid - 1
                      /\ beginMid' = 1 \/ endMid' - beginMid' = PageSize - 1
    BY DEF BackIsSeamlessStep
  <2> DEFINE page == GetChatHistory(FALSE, beginMid - 1)
  <2>1. beginMid \in 2 .. last /\ last \in Nat
    BY HistoryAssumption DEF HistoryTypeOK, Previous
  <2>2. Show(page)
    BY DEF Previous
  <2>3. page = IF beginMid - 1 < PageSize
               THEN 1 .. beginMid - 1 ELSE beginMid - PageSize .. beginMid - 1
    BY <2>1, PageBefore
  <2>4. CASE beginMid - 1 < PageSize
    <3>1. Show(1 .. beginMid - 1)
      BY <2>2, <2>3, <2>4
    <3> QED
      BY <2>1, <3>1, EndsOfInterval
  <2>5. CASE ~(beginMid - 1 < PageSize)
    <3>1. Show(beginMid - PageSize .. beginMid - 1)
      BY <2>2, <2>3, <2>5
    <3>2. beginMid' = beginMid - PageSize /\ endMid' = beginMid - 1
      BY <2>1, <3>1, EndsOfInterval, HistoryAssumption
    <3> QED
      BY <2>1, <3>2, HistoryAssumption
  <2> QED
    BY <2>4, <2>5
<1> QED
  BY <1>1, HistoryTypeCorrect, PTL DEF HistorySpec, BackIsSeamless

\* Leafing forward never goes back and skips one record at most.
THEOREM ForwardGoesOnHolds == HistorySpec => ForwardGoesOn
<1>1. HistoryTypeOK /\ Following => endMid < beginMid' /\ beginMid' <= endMid + 2
  <2> SUFFICES ASSUME HistoryTypeOK, Following
               PROVE  endMid < beginMid' /\ beginMid' <= endMid + 2
    OBVIOUS
  <2>1. PICK page \in SUBSET (1 .. last) :
          page = {id \in 1 .. last : endMid + 1 < id /\ id <= endMid + 1 + PageSize}
    OBVIOUS
  <2>2. Show(page)
    BY <2>1, HistoryAssumption DEF Following, GetChatHistory, Limit
  <2>3. beginMid' \in 1 .. last /\ endMid + 1 < beginMid'
    BY <2>1, <2>2 DEF Show
  <2>4. endMid + 2 \in page
    BY <2>1, <2>3, HistoryAssumption DEF HistoryTypeOK
  <2>5. beginMid' <= endMid + 2
    BY <2>2, <2>4 DEF Show
  <2> QED
    BY <2>3, <2>5, HistoryAssumption DEF HistoryTypeOK
<1> QED
  BY <1>1, HistoryTypeCorrect, PTL DEF HistorySpec, ForwardGoesOn

-----------------------------------------------------------------------------
(* Locks *)

\* Sections in which no thread ever waits.
Leaves == Locks \ {"pool", "users"}

Ops == {"enter", "leave"} \X Locks

\* A rest of a job leaves each of these sections with the step after it enters
\* it, and only then.
LeafShort(q) ==
    \A i \in DOMAIN q, k \in Leaves :
        /\ q[i] = <<"enter", k>> => i + 1 \in DOMAIN q /\ q[i + 1] = <<"leave", k>>
        /\ i > 1 /\ q[i] = <<"leave", k>> => q[i - 1] = <<"enter", k>>

\* A job, or a part of one that could be one.
Regular(q) ==
    /\ q \in Seq(Ops)
    /\ LeafShort(q)
    /\ q # << >> => q[1][1] = "enter"

LockInv ==
    /\ owner \in [Locks -> Threads \union {NoThread}]
    /\ depth \in [Locks -> Int]
    /\ todo \in [Threads -> Seq(Ops)]
    /\ \A t \in Threads : LeafShort(todo[t])
    /\ \A t \in Threads, k \in Leaves :
          owner[k] = t <=> todo[t] # << >> /\ todo[t][1] = <<"leave", k>>
    /\ \A k \in Leaves : depth[k] = IF owner[k] = NoThread THEN 0 ELSE 1

-----------------------------------------------------------------------------
(* Parts of jobs *)

LEMMA JoinFacts ==
  ASSUME NEW S, NEW p \in Seq(S), NEW q \in Seq(S)
  PROVE  /\ p \o q \in Seq(S)
         /\ Len(p) \in Nat /\ Len(q) \in Nat
         /\ DOMAIN p = 1 .. Len(p) /\ DOMAIN q = 1 .. Len(q)
         /\ DOMAIN (p \o q) = 1 .. Len(p) + Len(q)
         /\ \A i \in 1 .. Len(p) : (p \o q)[i] = p[i]
         /\ \A i \in 1 .. Len(q) : (p \o q)[i + Len(p)] = q[i]
         /\ p = << >> <=> Len(p) = 0
         /\ q = << >> <=> Len(q) = 0
OBVIOUS

LEMMA JoinRegular ==
  ASSUME NEW p, NEW q, Regular(p), Regular(q)
  PROVE  Regular(p \o q)
<1> DEFINE r == p \o q
           m == Len(p)
           n == Len(q)
<1>1. /\ r \in Seq(Ops) /\ m \in Nat /\ n \in Nat
      /\ DOMAIN p = 1 .. m /\ DOMAIN q = 1 .. n /\ DOMAIN r = 1 .. m + n
      /\ \A i \in 1 .. m : r[i] = p[i]
      /\ \A i \in 1 .. n : r[i + m] = q[i]
      /\ p = << >> <=> m = 0
      /\ q = << >> <=> n = 0
  BY JoinFacts DEF Regular
<1>2. /\ n > 0 => q[1][1] = "enter"
      /\ m > 0 => p[1][1] = "enter"
  BY <1>1 DEF Regular
<1> HIDE DEF r, m, n
<1>3. \A i \in 1 .. m + n : i \in 1 .. m \/ (i - m \in 1 .. n /\ r[i] = q[i - m])
  <2> SUFFICES ASSUME NEW i \in 1 .. m + n, i \notin 1 .. m
               PROVE  i - m \in 1 .. n /\ r[i] = q[i - m]
    OBVIOUS
  <2>1. i - m \in 1 .. n /\ (i - m) + m = i
    BY <1>1
  <2> QED
    BY <1>1, <2>1
<1>4. ASSUME NEW i \in 1 .. m + n, NEW k \in Leaves
      PROVE  /\ r[i] = <<"enter", k>> => i + 1 \in 1 .. m + n /\ r[i + 1] = <<"leave", k>>
             /\ i > 1 /\ r[i] = <<"leave", k>> => r[i - 1] = <<"enter", k>>
  <2>1. CASE i \in 1 .. m
    <3>1. r[i] = p[i]
      BY <1>1, <2>1
    <3>2. p[i] = <<"enter", k>> => i + 1 \in 1 .. m /\ p[i + 1] = <<"leave", k>>
      BY <1>1, <2>1 DEF Regular, LeafShort
    <3>3. i > 1 /\ p[i] = <<"leave", k>> => p[i - 1] = <<"enter", k>>
      BY <1>1, <2>1 DEF Regular, LeafShort
    <3>4. i > 1 => i - 1 \in 1 .. m /\ r[i - 1] = p[i - 1]
      BY <1>1, <2>1
    <3>5. i + 1 \in 1 .. m => i + 1 \in 1 .. m + n /\ r[i + 1] = p[i + 1]
      BY <1>1
    <3> QED
      BY <3>1, <3>2, <3>3, <3>4, <3>5
  <2>2. CASE i - m \in 1 .. n /\ r[i] = q[i - m]
    <3>1. PICK j \in 1 .. n : j = i - m /\ i = j + m
      BY <1>1, <2>2
    <3>2. q[j] = <<"enter", k>> => j + 1 \in 1 .. n /\ q[j + 1] = <<"leave", k>>
      BY <1>1 DEF Regular, LeafShort
    <3>3. j + 1 \in 1 .. n => i + 1 \in 1 .. m + n /\ r[i + 1] = q[j + 1]
      <4> SUFFICES ASSUME j + 1 \in 1 .. n
                   PROVE  i + 1 \in 1 .. m + n /\ r[i + 1] = q[j + 1]
        OBVIOUS
      <4>1. r[(j + 1) + m] = q[j + 1]
        BY <1>1
      <4>2. (j + 1) + m = i + 1 /\ i + 1 \in 1 .. m + n
        BY <1>1, <3>1
      <4> QED
        BY <4>1, <4>2
    <3>4. r[i] = q[j]
      BY <2>2, <3>1
    <3>5. CASE j = 1
      <4>1. q[j] # <<"leave", k>>
        <5>1. n > 0
          BY <1>1
        <5>2. q[1][1] = "enter" /\ <<"leave", k>>[1] = "leave"
          BY <1>2, <5>1
        <5> QED
          BY <3>5, <5>2
      <4> QED
        BY <3>2, <3>3, <3>4, <4>1
    <3>6. CASE j > 1
      <4>1. q[j] = <<"leave", k>> => q[j - 1] = <<"enter", k>>
        BY <1>1, <3>6 DEF Regular, LeafShort
      <4>2. j - 1 \in 1 .. n /\ (j - 1) + m = i - 1
        BY <1>1, <3>1, <3>6
      <4>3. r[i - 1] = q[j - 1]
        BY <1>1, <4>2
      <4> QED
        BY <3>2, <3>3, <3>4, <4>1, <4>3
    <3> QED
      BY <3>5, <3>6
  <2> QED
    BY <1>3, <2>1, <2>2
<1>5. LeafShort(r)
  BY <1>1, <1>4 DEF LeafShort
<1>6. r # << >> => r[1][1] = "enter"
  <2> SUFFICES ASSUME r # << >>
               PROVE  r[1][1] = "enter"
    OBVIOUS
  <2>1. CASE m > 0
    <3>1. r[1] = p[1]
      BY <1>1, <2>1
    <3> QED
      BY <1>2, <2>1, <3>1
  <2>2. CASE m = 0
    <3>1. n > 0
      <4>1. DOMAIN r = 1 .. Len(r) /\ Len(r) \in Nat /\ (Len(r) = 0 => r = << >>)
        BY <1>1
      <4>2. Len(r) > 0
        BY <4>1
      <4>3. 1 \in DOMAIN r
        BY <4>1, <4>2
      <4> QED
        BY <1>1, <2>2, <4>3
    <3>2. r[1 + m] = q[1] /\ 1 + m = 1
      BY <1>1, <2>2, <3>1
    <3> QED
      BY <1>2, <3>1, <3>2
  <2> QED
    BY <1>1, <2>1, <2>2
<1> QED
  BY <1>1, <1>5, <1>6 DEF Regular, r

LEMMA WithinFacts ==
  ASSUME NEW l \in Locks, NEW b \in Seq(Ops)
  PROVE  /\ Len(b) \in Nat /\ DOMAIN b = 1 .. Len(b) /\ (b = << >> <=> Len(b) = 0)
         /\ Within(l, b) \in Seq(Ops)
         /\ DOMAIN Within(l, b) = 1 .. Len(b) + 2
         /\ Within(l, b)[1] = <<"enter", l>>
         /\ Within(l, b)[Len(b) + 2] = <<"leave", l>>
         /\ \A i \in 1 .. Len(b) : Within(l, b)[i + 1] = b[i]
<1> DEFINE e == <<"enter", l>>
           v == <<"leave", l>>
           r == <<e>> \o b \o <<v>>
<1>1. e \in Ops /\ v \in Ops
  BY DEF Ops
<1>2. Within(l, b) = r
  BY DEF Within
<1> HIDE DEF e, v
<1>3. /\ r \in Seq(Ops) /\ DOMAIN r = 1 .. Len(b) + 2
      /\ r[1] = e /\ r[Len(b) + 2] = v
      /\ \A i \in 1 .. Len(b) : r[i + 1] = b[i]
  BY <1>1
<1>4. Len(b) \in Nat /\ DOMAIN b = 1 .. Len(b) /\ (b = << >> <=> Len(b) = 0)
  OBVIOUS
<1> QED
  BY <1>2, <1>3, <1>4 DEF e, v

LEMMA TouchRegular ==
  ASSUME NEW l \in Locks
  PROVE  Regular(Touch(l))
<1> DEFINE e == <<"enter", l>>
           v == <<"leave", l>>
<1>1. e \in Ops /\ v \in Ops /\ e[1] = "enter" /\ v[1] = "leave" /\ e[2] = l /\ v[2] = l
  BY DEF Ops
<1>2. Touch(l) \in Seq(Ops) /\ DOMAIN Touch(l) = 1 .. 2 /\ Touch(l)[1] = e /\ Touch(l)[2] = v
  <2> DEFINE b == << >>
  <2>1. b \in Seq(Ops) /\ Len(b) = 0 /\ Touch(l) = Within(l, b)
    <3>1. b \in Seq(Ops) /\ Len(b) = 0
      OBVIOUS
    <3> QED
      BY <3>1 DEF Touch
  <2> HIDE DEF b
  <2> DEFINE r == Within(l, b)
  <2>2. /\ r \in Seq(Ops) /\ DOMAIN r = 1 .. Len(b) + 2
        /\ r[1] = e /\ r[Len(b) + 2] = v
    BY <2>1, WithinFacts
  <2>3. Touch(l) = r
    BY <2>1
  <2> HIDE DEF r, e, v
  <2> QED
    BY <2>1, <2>2, <2>3
<1> HIDE DEF e, v
<1>3. LeafShort(Touch(l))
  <2> SUFFICES ASSUME NEW i \in {1, 2}, NEW k \in Leaves
               PROVE  /\ Touch(l)[i] = <<"enter", k>> =>
                           i + 1 \in 1 .. 2 /\ Touch(l)[i + 1] = <<"leave", k>>
                      /\ i > 1 /\ Touch(l)[i] = <<"leave", k>> => Touch(l)[i - 1] = <<"enter", k>>
    BY <1>2 DEF LeafShort
  <2>1. e = <<"enter", k>> <=> l = k
    BY DEF e
  <2>2. v = <<"leave", k>> <=> l = k
    BY DEF v
  <2>3. e # <<"leave", k>> /\ v # <<"enter", k>>
    BY <1>1
  <2> QED
    BY <1>2, <2>1, <2>2, <2>3
<1> QED
  BY <1>1, <1>2, <1>3 DEF Regular

\* The entry and the exit of a section in which a thread may wait.
LEMMA NestRegular ==
  ASSUME NEW l \in {"pool", "users"}, NEW b, Regular(b)
  PROVE  Regular(Within(l, b))
<1> DEFINE e == <<"enter", l>>
           v == <<"leave", l>>
           r == Within(l, b)
           n == Len(b)
<1>1. /\ e \in Ops /\ v \in Ops /\ e[1] = "enter" /\ v[1] = "leave"
      /\ \A k \in Leaves : e # <<"enter", k>> /\ e # <<"leave", k>>
                           /\ v # <<"enter", k>> /\ v # <<"leave", k>>
  BY DEF Ops, Locks, Leaves
<1>2. b \in Seq(Ops) /\ LeafShort(b) /\ (b # << >> => b[1][1] = "enter")
  BY DEF Regular
<1>3. /\ n \in Nat /\ DOMAIN b = 1 .. n /\ (b = << >> <=> n = 0)
      /\ r \in Seq(Ops) /\ DOMAIN r = 1 .. n + 2
      /\ r[1] = e /\ r[n + 2] = v
      /\ \A i \in 1 .. n : r[i + 1] = b[i]
  <2>1. l \in Locks
    BY DEF Locks
  <2> QED
    BY <1>2, <2>1, WithinFacts
<1> HIDE DEF e, v, r, n
<1>4. ASSUME NEW i \in 1 .. n + 2, NEW k \in Leaves
      PROVE  /\ r[i] = <<"enter", k>> => i + 1 \in 1 .. n + 2 /\ r[i + 1] = <<"leave", k>>
             /\ i > 1 /\ r[i] = <<"leave", k>> => r[i - 1] = <<"enter", k>>
  <2>1. CASE i = 1
    BY <1>1, <1>3, <2>1
  <2>2. CASE i = n + 2
    BY <1>1, <1>3, <2>2
  <2>3. CASE i # 1 /\ i # n + 2
    <3>1. PICK j \in 1 .. n : i = j + 1
      <4>1. i - 1 \in 1 .. n /\ i = (i - 1) + 1
        BY <1>3, <2>3
      <4> QED
        BY <4>1
    <3>2. r[i] = b[j]
      BY <1>3, <3>1
    <3>3. b[j] = <<"enter", k>> => j + 1 \in 1 .. n /\ b[j + 1] = <<"leave", k>>
      BY <1>2, <1>3 DEF LeafShort
    <3>4. j + 1 \in 1 .. n => r[i + 1] = b[j + 1] /\ i + 1 \in 1 .. n + 2
      BY <1>3, <3>1
    <3>5. b[j] = <<"leave", k>> => r[i - 1] = <<"enter", k>>
      <4>1. CASE j = 1
        <5>1. n # 0 /\ <<"leave", k>>[1] = "leave"
          BY <1>3
        <5>2. b[1][1] = "enter"
          BY <1>2, <1>3, <5>1
        <5> QED
          BY <4>1, <5>1, <5>2
      <4>2. CASE j > 1
        <5>1. b[j] = <<"leave", k>> => b[j - 1] = <<"enter", k>>
          BY <1>2, <1>3, <4>2 DEF LeafShort
        <5>2. j - 1 \in 1 .. n /\ (j - 1) + 1 = i - 1
          BY <1>3, <3>1, <4>2
        <5>3. r[i - 1] = b[j - 1]
          BY <1>3, <5>2
        <5> QED
          BY <5>1, <5>3
      <4> QED
        BY <4>1, <4>2
    <3> QED
      BY <3>2, <3>3, <3>4, <3>5
  <2> QED
    BY <2>1, <2>2, <2>3
<1>5. LeafShort(r)
  BY <1>3, <1>4 DEF LeafShort
<1> QED
  BY <1>1, <1>3, <1>5 DEF Regular, r

LEMMA JobsRegular ==
  ASSUME NEW t, NEW job \in Jobs(t)
  PROVE  Regular(job)
<1>1. \A l \in Locks : Regular(Touch(l))
  BY TouchRegular
<1>2. {"pool", "users", "servers", "unread", "listener", "temp", "sent files", "received files"} \subseteq Locks
  BY DEF Locks
<1>3. Regular(AddMsg)
  BY <1>1, <1>2, NestRegular DEF AddMsg
<1>4. Regular(ShowUnread)
  BY <1>1, <1>2, JoinRegular DEF ShowUnread
<1>5. Regular(GiveUp)
  <2>1. Regular(Touch("listener") \o Touch("users") \o Touch("unread"))
    BY <1>1, <1>2, JoinRegular
  <2> QED
    BY <2>1, NestRegular DEF GiveUp
<1>6. Regular(Acknowledged) /\ Regular(GoOnline)
  <2>1. Regular(Within("users", AddMsg))
    BY <1>3, NestRegular
  <2> QED
    BY <2>1, NestRegular DEF Acknowledged, GoOnline
<1>7. Regular(AskArrived) /\ Regular(GoOffline) /\ Regular(DeleteOnServer)
  BY <1>1, <1>2, NestRegular DEF AskArrived, GoOffline, DeleteOnServer
<1>8. Regular(ReplyArrived) /\ Regular(SendText) /\ Regular(ChatWithText) /\ Regular(InSession)
  BY <1>1, <1>2, <1>3, <1>4, JoinRegular DEF ReplyArrived, SendText, ChatWithText, InSession
<1>9. Regular(TextArrived)
  <2>1. Regular(Touch("users") \o Touch("received files"))
    BY <1>1, <1>2, JoinRegular
  <2> QED
    BY <1>4, <2>1, JoinRegular DEF TextArrived
<1>10. Regular(AddFriendAck)
  <2>1. Regular(Touch("unread") \o AddMsg)
    BY <1>1, <1>2, <1>3, JoinRegular
  <2>2. Regular(Touch("unread") \o AddMsg \o Touch("users"))
    BY <1>1, <1>2, <2>1, JoinRegular
  <2> QED
    BY <1>3, <2>2, JoinRegular DEF AddFriendAck
<1> QED
  BY <1>3, <1>4, <1>5, <1>6, <1>7, <1>8, <1>9, <1>10 DEF Jobs

-----------------------------------------------------------------------------
(* Steps of threads *)

\* The rest after a first step.
LEMMA RestFacts ==
  ASSUME NEW q \in Seq(Ops), q # << >>
  PROVE  /\ Head(q) = q[1] /\ q[1] \in Ops /\ Tail(q) \in Seq(Ops)
         /\ Tail(q) # << >> => Tail(q)[1] = q[2] /\ 2 \in DOMAIN q
         /\ 2 \in DOMAIN q => Tail(q) # << >> /\ Tail(q)[1] = q[2]
         /\ 1 \in DOMAIN q
         /\ LeafShort(q) => LeafShort(Tail(q))
         /\ LeafShort(q) /\ 2 \in DOMAIN q =>
               \A k \in Leaves : q[2] = <<"leave", k>> => q[1] = <<"enter", k>>
<1> DEFINE n == Len(q)
           r == Tail(q)
<1>1. /\ n \in Nat /\ n > 0 /\ DOMAIN q = 1 .. n
      /\ Head(q) = q[1] /\ r \in Seq(Ops) /\ DOMAIN r = 1 .. n - 1
      /\ \A i \in 1 .. n - 1 : r[i] = q[i + 1]
      /\ Len(r) = n - 1
  OBVIOUS
<1>2. q[1] \in Ops /\ (r # << >> <=> n > 1)
  <2>1. \A s \in Seq(Ops) : s = << >> <=> Len(s) = 0
    OBVIOUS
  <2>2. r # << >> <=> n > 1
    <3> HIDE DEF n, r
    <3> QED
      BY <1>1, <2>1
  <2>3. q[1] \in Ops
    BY <1>1
  <2> QED
    BY <2>2, <2>3
<1> HIDE DEF n, r
<1>3. ASSUME LeafShort(q), 2 \in DOMAIN q, NEW k \in Leaves, q[2] = <<"leave", k>>
      PROVE  q[1] = <<"enter", k>>
  <2>1. \A i \in DOMAIN q : i > 1 /\ q[i] = <<"leave", k>> => q[i - 1] = <<"enter", k>>
    BY <1>3 DEF LeafShort
  <2>2. 2 > 1 /\ 2 - 1 = 1
    OBVIOUS
  <2> QED
    BY <1>3, <2>1, <2>2
<1>4. ASSUME LeafShort(q)
      PROVE  LeafShort(r)
  <2> SUFFICES ASSUME NEW i \in 1 .. n - 1, NEW k \in Leaves
               PROVE  /\ r[i] = <<"enter", k>> => i + 1 \in 1 .. n - 1 /\ r[i + 1] = <<"leave", k>>
                      /\ i > 1 /\ r[i] = <<"leave", k>> => r[i - 1] = <<"enter", k>>
    BY <1>1 DEF LeafShort
  <2>1. r[i] = q[i + 1] /\ i + 1 \in 1 .. n /\ (i + 1) - 1 = i /\ i + 1 > 1
    BY <1>1
  <2>2. /\ q[i + 1] = <<"enter", k>> => (i + 1) + 1 \in 1 .. n /\ q[(i + 1) + 1] = <<"leave", k>>
        /\ q[i + 1] = <<"leave", k>> => q[(i + 1) - 1] = <<"enter", k>>
    BY <1>1, <1>4, <2>1 DEF LeafShort
  <2>3. (i + 1) + 1 \in 1 .. n => i + 1 \in 1 .. n - 1 /\ r[i + 1] = q[(i + 1) + 1]
    BY <1>1
  <2>4. i > 1 => r[i - 1] = q[(i + 1) - 1]
    <3> SUFFICES ASSUME i > 1
                 PROVE  r[i - 1] = q[(i + 1) - 1]
      OBVIOUS
    <3>1. i - 1 \in 1 .. n - 1 /\ (i - 1) + 1 = (i + 1) - 1
      BY <1>1
    <3>2. r[i - 1] = q[(i - 1) + 1]
      BY <1>1, <3>1
    <3> QED
      BY <3>1, <3>2
  <2> QED
    BY <2>1, <2>2, <2>3, <2>4
<1> QED
  BY <1>1, <1>2, <1>3, <1>4 DEF r

LEMMA BeginKeeps ==
  ASSUME LockInv, NEW t \in Threads, Begin(t)
  PROVE  LockInv'
<1>1. PICK job \in Jobs(t) : todo' = [todo EXCEPT ![t] = job]
  BY DEF Begin
<1>2. Regular(job) /\ todo[t] = << >> /\ owner' = owner /\ depth' = depth
  BY <1>1, JobsRegular DEF Begin, Idle
<1>3. job \in Seq(Ops) /\ LeafShort(job)
      /\ \A k \in Leaves : ~(job # << >> /\ job[1] = <<"leave", k>>)
  <2>1. \A k \in Leaves : <<"leave", k>>[1] = "leave"
    OBVIOUS
  <2> QED
    BY <1>2, <2>1 DEF Regular
<1>4. \A u \in Threads : todo'[u] = IF u = t THEN job ELSE todo[u]
  BY <1>1 DEF LockInv
<1>5. todo' \in [Threads -> Seq(Ops)]
  BY <1>1, <1>3 DEF LockInv
<1>6. ASSUME NEW u \in Threads, NEW k \in Leaves
      PROVE  owner'[k] = u <=> todo'[u] # << >> /\ todo'[u][1] = <<"leave", k>>
  <2>1. owner[k] = u <=> todo[u] # << >> /\ todo[u][1] = <<"leave", k>>
    BY DEF LockInv
  <2> QED
    BY <1>2, <1>3, <1>4, <2>1
<1>7. \A u \in Threads : LeafShort(todo'[u])
  BY <1>3, <1>4 DEF LockInv
<1> QED
  BY <1>2, <1>5, <1>6, <1>7 DEF LockInv

\* One step of a job: the first entry is taken off.
LEMMA StepTypes ==
  ASSUME LockInv, NEW t \in Threads, Enter(t) \/ Leave(t)
  PROVE  /\ todo[t] \in Seq(Ops) /\ todo[t] # << >>
         /\ Step(t) = todo[t][1]
         /\ Step(t)[2] \in Locks
         /\ Step(t) = <<Step(t)[1], Step(t)[2]>>
         /\ todo' \in [Threads -> Seq(Ops)]
         /\ \A u \in Threads : todo'[u] = IF u = t THEN Tail(todo[t]) ELSE todo[u]
         /\ \A u \in Threads : LeafShort(todo'[u])
<1>1. todo[t] \in Seq(Ops) /\ todo[t] # << >> /\ todo' = [todo EXCEPT ![t] = Tail(@)]
      /\ LeafShort(todo[t])
  BY DEF LockInv, Enter, Leave, Idle
<1>2. Step(t) = todo[t][1] /\ Step(t) \in Ops /\ Tail(todo[t]) \in Seq(Ops) /\ LeafShort(Tail(todo[t]))
  BY <1>1, RestFacts DEF Step
<1>3. Step(t)[2] \in Locks /\ Step(t) = <<Step(t)[1], Step(t)[2]>>
  BY <1>2 DEF Ops
<1>4. /\ todo' \in [Threads -> Seq(Ops)]
      /\ \A u \in Threads : todo'[u] = IF u = t THEN Tail(todo[t]) ELSE todo[u]
  BY <1>1, <1>2 DEF LockInv
<1> QED
  BY <1>1, <1>2, <1>3, <1>4 DEF LockInv

LEMMA EnterKeeps ==
  ASSUME LockInv, NoThread \notin Threads, NEW t \in Threads, Enter(t)
  PROVE  LockInv'
<1> DEFINE l == Step(t)[2]
           q == todo[t]
<1>1. /\ q \in Seq(Ops) /\ q # << >> /\ l \in Locks /\ q[1] = <<"enter", l>>
      /\ todo' \in [Threads -> Seq(Ops)]
      /\ \A u \in Threads : todo'[u] = IF u = t THEN Tail(q) ELSE todo[u]
      /\ \A u \in Threads : LeafShort(todo'[u])
  BY StepTypes DEF Enter
<1>2. /\ owner[l] \in {NoThread, t}
      /\ owner' = [owner EXCEPT ![l] = t]
      /\ depth' = [depth EXCEPT ![l] = @ + 1]
  BY DEF Enter
<1>3. LeafShort(q) /\ 1 \in DOMAIN q
  BY <1>1, RestFacts DEF LockInv
<1> HIDE DEF l
<1>4. owner' \in [Locks -> Threads \union {NoThread}] /\ depth' \in [Locks -> Int]
  BY <1>1, <1>2 DEF LockInv
<1>5. \A k \in Leaves : k \in Locks
  BY DEF Leaves
<1>6. ASSUME NEW k \in Leaves, k # l
      PROVE  /\ depth'[k] = IF owner'[k] = NoThread THEN 0 ELSE 1
             /\ \A u \in Threads :
                   owner'[k] = u <=> todo'[u] # << >> /\ todo'[u][1] = <<"leave", k>>
  <2>1. owner'[k] = owner[k] /\ depth'[k] = depth[k]
    BY <1>2, <1>5, <1>6 DEF LockInv
  <2>2. owner[k] # t
    <3>1. q[1] # <<"leave", k>>
      BY <1>1
    <3> QED
      BY <3>1 DEF LockInv
  <2>3. ~(Tail(q) # << >> /\ Tail(q)[1] = <<"leave", k>>)
    <3> SUFFICES ASSUME Tail(q) # << >>, Tail(q)[1] = <<"leave", k>>
                 PROVE  FALSE
      OBVIOUS
    <3>1. 2 \in DOMAIN q /\ q[2] = <<"leave", k>>
      BY <1>1, RestFacts
    <3>2. q[1] = <<"enter", k>>
      BY <1>1, <1>3, <3>1, RestFacts
    <3> QED
      BY <1>1, <1>6, <3>2
  <2>4. \A u \in Threads : owner[k] = u <=> todo[u] # << >> /\ todo[u][1] = <<"leave", k>>
    BY DEF LockInv
  <2> HIDE DEF q
  <2>5. ASSUME NEW u \in Threads
        PROVE  owner'[k] = u <=> todo'[u] # << >> /\ todo'[u][1] = <<"leave", k>>
    BY <1>1, <2>1, <2>2, <2>3, <2>4
  <2>6. depth[k] = IF owner[k] = NoThread THEN 0 ELSE 1
    BY DEF LockInv
  <2> QED
    BY <2>1, <2>5, <2>6
<1>7. ASSUME l \in Leaves
      PROVE  /\ depth'[l] = IF owner'[l] = NoThread THEN 0 ELSE 1
             /\ \A u \in Threads :
                   owner'[l] = u <=> todo'[u] # << >> /\ todo'[u][1] = <<"leave", l>>
  <2>1. owner[l] # t
    <3>1. q[1] # <<"leave", l>>
      BY <1>1
    <3> QED
      BY <1>7, <3>1 DEF LockInv
  <2>2. owner[l] = NoThread /\ depth[l] = 0
    BY <1>2, <1>7, <2>1 DEF LockInv
  <2>3. owner'[l] = t /\ depth'[l] = 1
    BY <1>1, <1>2, <2>2 DEF LockInv
  <2>4. Tail(q) # << >> /\ Tail(q)[1] = <<"leave", l>>
    <3>1. 1 + 1 \in DOMAIN q /\ q[1 + 1] = <<"leave", l>>
      BY <1>1, <1>3, <1>7 DEF LeafShort
    <3>2. 2 \in DOMAIN q /\ q[2] = <<"leave", l>>
      BY <3>1
    <3> QED
      BY <1>1, <3>2, RestFacts
  <2>5. \A u \in Threads : ~(todo[u] # << >> /\ todo[u][1] = <<"leave", l>>)
    BY <1>7, <2>2 DEF LockInv
  <2> HIDE DEF q
  <2> QED
    BY <1>1, <2>3, <2>4, <2>5
<1> HIDE DEF q
<1>8. /\ \A k \in Leaves : depth'[k] = IF owner'[k] = NoThread THEN 0 ELSE 1
      /\ \A u \in Threads, k \in Leaves :
            owner'[k] = u <=> todo'[u] # << >> /\ todo'[u][1] = <<"leave", k>>
  BY <1>6, <1>7
<1> QED
  BY <1>1, <1>4, <1>8 DEF LockInv

LEMMA LeaveKeeps ==
  ASSUME LockInv, NoThread \notin Threads, NEW t \in Threads, Leave(t)
  PROVE  LockInv'
<1> DEFINE l == Step(t)[2]
           q == todo[t]
<1>1. /\ q \in Seq(Ops) /\ q # << >> /\ l \in Locks /\ q[1] = <<"leave", l>>
      /\ todo' \in [Threads -> Seq(Ops)]
      /\ \A u \in Threads : todo'[u] = IF u = t THEN Tail(q) ELSE todo[u]
      /\ \A u \in Threads : LeafShort(todo'[u])
  BY StepTypes DEF Leave
<1>2. /\ owner' = [owner EXCEPT ![l] = IF depth[l] = 1 THEN NoThread ELSE t]
      /\ depth' = [depth EXCEPT ![l] = @ - 1]
  BY DEF Leave
<1>3. LeafShort(q) /\ 1 \in DOMAIN q
  BY <1>1, RestFacts DEF LockInv
<1> HIDE DEF l
<1>4. owner' \in [Locks -> Threads \union {NoThread}] /\ depth' \in [Locks -> Int]
  BY <1>1, <1>2 DEF LockInv
<1>5. \A k \in Leaves : k \in Locks
  BY DEF Leaves
\* What is entered next is not left at once.
<1>6. \A k \in Leaves : ~(Tail(q) # << >> /\ Tail(q)[1] = <<"leave", k>>)
  <2> SUFFICES ASSUME NEW k \in Leaves, Tail(q) # << >>, Tail(q)[1] = <<"leave", k>>
               PROVE  FALSE
    OBVIOUS
  <2>1. 2 \in DOMAIN q /\ q[2] = <<"leave", k>>
    BY <1>1, RestFacts
  <2>2. q[1] = <<"enter", k>>
    BY <1>1, <1>3, <2>1, RestFacts
  <2> QED
    BY <1>1, <2>2
<1>7. ASSUME NEW k \in Leaves, k # l
      PROVE  /\ depth'[k] = IF owner'[k] = NoThread THEN 0 ELSE 1
             /\ \A u \in Threads :
                   owner'[k] = u <=> todo'[u] # << >> /\ todo'[u][1] = <<"leave", k>>
  <2>1. owner'[k] = owner[k] /\ depth'[k] = depth[k]
    BY <1>2, <1>5, <1>7 DEF LockInv
  <2>2. owner[k] # t
    <3>1. q[1] # <<"leave", k>>
      BY <1>1, <1>7
    <3> QED
      BY <3>1 DEF LockInv
  <2>3. \A u \in Threads : owner[k] = u <=> todo[u] # << >> /\ todo[u][1] = <<"leave", k>>
    BY DEF LockInv
  <2>4. depth[k] = IF owner[k] = NoThread THEN 0 ELSE 1
    BY DEF LockInv
  <2> HIDE DEF q
  <2>5. ASSUME NEW u \in Threads
        PROVE  owner'[k] = u <=> todo'[u] # << >> /\ todo'[u][1] = <<"leave", k>>
    BY <1>1, <1>6, <2>1, <2>2, <2>3
  <2> QED
    BY <2>1, <2>4, <2>5
<1>8. ASSUME l \in Leaves
      PROVE  /\ depth'[l] = IF owner'[l] = NoThread THEN 0 ELSE 1
             /\ \A u \in Threads :
                   owner'[l] = u <=> todo'[u] # << >> /\ todo'[u][1] = <<"leave", l>>
  <2>1. owner[l] = t
    BY <1>1, <1>8 DEF LockInv
  <2>2. depth[l] = 1
    BY <1>8, <2>1 DEF LockInv
  <2>3. owner'[l] = NoThread /\ depth'[l] = 0
    BY <1>1, <1>2, <2>2 DEF LockInv
  <2>4. \A u \in Threads : u # t => ~(todo[u] # << >> /\ todo[u][1] = <<"leave", l>>)
    BY <1>8, <2>1 DEF LockInv
  <2> HIDE DEF q
  <2> QED
    BY <1>1, <1>6, <1>8, <2>3, <2>4
<1> HIDE DEF q
<1>9. /\ \A k \in Leaves : depth'[k] = IF owner'[k] = NoThread THEN 0 ELSE 1
      /\ \A u \in Threads, k \in Leaves :
            owner'[k] = u <=> todo'[u] # << >> /\ todo'[u][1] = <<"leave", k>>
  BY <1>7, <1>8
<1> QED
  BY <1>1, <1>4, <1>9 DEF LockInv

LEMMA LockInvariant ==
  ASSUME NoThread \notin Threads
  PROVE  LockSpec => []LockInv
<1>1. LockInit => LockInv
  <2> SUFFICES ASSUME LockInit
               PROVE  LockInv
    OBVIOUS
  <2>1. \A t \in Threads : todo[t] = << >>
    BY DEF LockInit
  <2>2. LeafShort(<< >>) /\ << >> \in Seq(Ops)
    BY DEF LeafShort
  <2>3. \A k \in Leaves : k \in Locks
    BY DEF Leaves
  <2> QED
    BY <2>1, <2>2, <2>3 DEF LockInit, LockInv
<1>2. LockInv /\ [LockNext]_lockVars => LockInv'
  <2>1. ASSUME LockInv, UNCHANGED lockVars
        PROVE  LockInv'
    BY <2>1 DEF LockInv, lockVars
  <2> QED
    BY <2>1, BeginKeeps, EnterKeeps, LeaveKeeps DEF LockNext
<1> QED
  BY <1>1, <1>2, PTL DEF LockSpec

\* A thread inside one of these sections does not wait.
LEMMA LeafOwner ==
  ASSUME LockInv, NEW t \in Threads, NEW l \in Locks, WaitsFor(t, l), NEW k \in Leaves
  PROVE  owner[k] # t
<1>1. todo[t] \in Seq(Ops) /\ todo[t] # << >> /\ Head(todo[t]) = <<"enter", l>>
  BY DEF WaitsFor, Idle, Step, LockInv
<1>2. todo[t][1] = <<"enter", l>>
  BY <1>1, RestFacts
<1>3. todo[t][1] # <<"leave", k>>
  BY <1>2
<1> QED
  BY <1>3 DEF LockInv

\* Threads that wait for each other are in the pool and in the user list: no
\* order of the jobs, and no number of threads, makes another circle.
THEOREM OneCircleHolds ==
  ASSUME NoThread \notin Threads
  PROVE  LockSpec => []OneCircle
<1>1. LockInv => OneCircle
  <2> SUFFICES ASSUME LockInv, NEW D \in SUBSET Threads, Circle(D)
               PROVE  /\ {owner["pool"], owner["users"]} \subseteq D
                      /\ WaitsFor(owner["pool"], "users")
                      /\ WaitsFor(owner["users"], "pool")
    BY DEF OneCircle
  \* Each of them waits for the pool or the user list, and not for its own.
  <2>1. ASSUME NEW t \in D
        PROVE  \E l \in {"pool", "users"} :
                  WaitsFor(t, l) /\ owner[l] \in D /\ owner[l] # t
    <3>1. PICK l \in Locks : WaitsFor(t, l) /\ owner[l] \in D
      BY <2>1 DEF Circle
    <3>2. PICK k \in Locks : WaitsFor(owner[l], k)
      BY <3>1 DEF Circle
    <3>3. l \notin Leaves
      BY <3>1, <3>2, LeafOwner
    <3>4. owner[l] # t
      BY <3>1 DEF WaitsFor
    <3> QED
      BY <3>1, <3>3, <3>4 DEF Leaves
  <2>2. PICK t \in D : TRUE
    BY DEF Circle
  <2>3. owner["pool"] \in D \/ owner["users"] \in D
    BY <2>1, <2>2
  <2>4. ASSUME owner["pool"] \in D
        PROVE  WaitsFor(owner["pool"], "users") /\ owner["users"] \in D
    BY <2>1, <2>4
  <2>5. ASSUME owner["users"] \in D
        PROVE  WaitsFor(owner["users"], "pool") /\ owner["pool"] \in D
    BY <2>1, <2>5
  <2> QED
    BY <2>3, <2>4, <2>5
<1> QED
  BY <1>1, LockInvariant, PTL

=============================================================================
