----------------------------- MODULE UnreadTips -----------------------------
(***************************************************************************)
(* The stack of unread messages (kernel/UnreadMsg/UnreadMsgList) and the   *)
(* tip in the corner of the screen that shows them one at a time (the Lua  *)
(* of Main/layout/MainWnd and MessageTipsWnd).                             *)
(*                                                                         *)
(* Handler threads push a message (AddUnreadMsg) and then, in a second     *)
(* hold of the lock, post WM_SHOWUNREADMSG to the main window (DisplayMsg).*)
(* The UI thread handles a posted message by showing a tip for the top of  *)
(* the stack; when the user chooses, the Lua closure answers the request   *)
(* (AddFriendAck, which reads the top again), pops the stack               *)
(* (DeleteUnreadMessage) and posts for what is left (wnd_Cancel).  The UI  *)
(* thread is one thread, but the handlers push between any two of its      *)
(* calls.                                                                  *)
(***************************************************************************)
EXTENDS Integers, Sequences

CONSTANT MaxMsgs    \* bound of the model: messages that arrive

ASSUME UnreadAssumption == MaxMsgs \in Nat

VARIABLES
    stack,      \* UnreadMsgList::messages, the top last
    type,       \* messageType by message: a friend request or a text
    toDisplay,  \* handler threads between AddUnreadMsg and DisplayMsg
    posted,     \* WM_SHOWUNREADMSG messages in the queue of the UI thread
    tip,        \* the message the tip shows; 0: no tip; Blank: a tip of nothing
    ui,         \* where the UI thread is in the click of a choice
    orphaned,   \* texts whose writer is no longer in the friend list
    shown,      \* history: messages a tip has shown
    settled     \* history: messages answered or popped

unreadVars == <<stack, type, toDisplay, posted, tip, ui, orphaned, shown, settled>>

Messages == 1 .. MaxMsgs
Blank == -1
Top == stack[Len(stack)]
Arrived == {m \in Messages : type[m] # "none"}
Stacked == {stack[i] : i \in DOMAIN stack}

UnreadTypeOK ==
    /\ stack \in Seq(Messages)
    /\ type \in [Messages -> {"none", "ask", "text"}]
    /\ toDisplay \in 0 .. MaxMsgs
    /\ posted \in 0 .. MaxMsgs
    /\ tip \in Messages \union {0, Blank}
    /\ ui \in {"idle", "chosen", "popped"}
    /\ orphaned \subseteq Arrived
    /\ shown \subseteq Arrived
    /\ settled \subseteq Arrived

UnreadInit ==
    /\ stack = <<>>
    /\ type = [m \in Messages |-> "none"]
    /\ toDisplay = 0
    /\ posted = 0
    /\ tip = 0
    /\ ui = "idle"
    /\ orphaned = {}
    /\ shown = {}
    /\ settled = {}

-----------------------------------------------------------------------------
(* Handler threads *)

\* AddUnreadMsg of the next message, by any handler: messages are numbered as
\* they are pushed.
AddUnreadMsg(m) ==
    /\ type[m] = "none"
    /\ \A n \in Messages : n < m => type[n] # "none"
    /\ \E t \in {"ask", "text"} : type' = [type EXCEPT ![m] = t]
    /\ stack' = Append(stack, m)
    /\ toDisplay' = toDisplay + 1
    /\ UNCHANGED <<posted, tip, ui, orphaned, shown, settled>>

\* Variant: a message is posted twice, for the main window and for the tip.
DisplayMsgTwice ==
    /\ toDisplay > 0
    /\ toDisplay' = toDisplay - 1
    /\ posted' = IF stack = <<>> THEN posted ELSE posted + 2
    /\ UNCHANGED <<stack, type, tip, ui, orphaned, shown, settled>>

\* Variant: only the first message of the stack is posted.
DisplayMsgFirst ==
    /\ toDisplay > 0
    /\ toDisplay' = toDisplay - 1
    /\ posted' = IF Len(stack) = 1 THEN posted + 1 ELSE posted
    /\ UNCHANGED <<stack, type, tip, ui, orphaned, shown, settled>>

\* DisplayMsg: nothing is posted when the stack is empty by now.
DisplayMsg ==
    /\ toDisplay > 0
    /\ toDisplay' = toDisplay - 1
    /\ posted' = IF stack = <<>> THEN posted ELSE posted + 1
    /\ UNCHANGED <<stack, type, tip, ui, orphaned, shown, settled>>

-----------------------------------------------------------------------------
(* The UI thread *)

\* The main window handles WM_SHOWUNREADMSG: the tip that is up is removed,
\* without its choice, and a new one shows the top of the stack.  A post that
\* comes when the stack is empty leaves a tip without a choice or none.  For a
\* text of a deleted friend GetUserInfoByID is nil and the Lua stops there.
PopupMessageTipsWnd ==
    /\ ui = "idle"
    /\ posted > 0
    /\ posted' = posted - 1
    /\ \/ stack = <<>> /\ tip' \in {0, Blank} /\ UNCHANGED shown
       \/ stack # <<>> /\ Top \in orphaned /\ UNCHANGED <<tip, shown>>
       \/ stack # <<>> /\ Top \notin orphaned /\ tip' = Top /\ shown' = shown \union {Top}
    /\ UNCHANGED <<stack, type, toDisplay, ui, orphaned, settled>>

\* Variant: the closure of a text pops too, on both of its choices.
ChooseTwice ==
    /\ ui = "idle"
    /\ tip # 0
    /\ ui' = IF tip = Blank THEN "popped" ELSE "chosen"
    /\ stack' = IF tip # Blank /\ type[tip] = "text" THEN SubSeq(stack, 1, Len(stack) - 1) ELSE stack
    /\ UNCHANGED <<type, toDisplay, posted, tip, orphaned, shown, settled>>

\* The user clicks a choice or closes the tip.  For a friend request
\* AddFriendAck answers whatever is on top; a text is opened by the uid the
\* tip was made with.  A blank tip has no closure.
Choose ==
    /\ ui = "idle"
    /\ tip # 0
    /\ ui' = IF tip = Blank THEN "popped" ELSE "chosen"
    /\ settled' = IF tip # Blank /\ type[tip] = "ask" THEN settled \union {Top} ELSE settled
    /\ UNCHANGED <<stack, type, toDisplay, posted, tip, orphaned, shown>>

\* DeleteUnreadMessage: pop, without a test for the empty stack.
DeleteUnreadMsg ==
    /\ ui = "chosen"
    /\ ui' = "popped"
    /\ settled' = settled \union {Top}
    /\ stack' = SubSeq(stack, 1, Len(stack) - 1)
    /\ UNCHANGED <<type, toDisplay, posted, tip, orphaned, shown>>

\* Variant: the tip is cancelled and what is left on the stack forgotten.
WndCancelOnly ==
    /\ ui = "popped"
    /\ ui' = "idle"
    /\ tip' = 0
    /\ UNCHANGED <<stack, type, toDisplay, posted, orphaned, shown, settled>>

\* wnd_Cancel: the tip goes; what is left on the stack is posted again.
WndCancel ==
    /\ ui = "popped"
    /\ ui' = "idle"
    /\ tip' = 0
    /\ posted' = IF stack = <<>> THEN posted ELSE posted + 1
    /\ UNCHANGED <<stack, type, toDisplay, orphaned, shown, settled>>

\* The user deletes the friend who wrote text m.
DeleteFriend(m) ==
    /\ ui = "idle"
    /\ type[m] = "text"
    /\ orphaned' = orphaned \union {m}
    /\ UNCHANGED <<stack, type, toDisplay, posted, tip, ui, shown, settled>>

\* Every message has been dealt with.
UnreadDone == Arrived = Messages /\ toDisplay = 0 /\ posted = 0 /\ tip = 0 /\ UNCHANGED unreadVars

UnreadNext ==
    \/ \E m \in Messages : AddUnreadMsg(m) \/ DeleteFriend(m)
    \/ DisplayMsg
    \/ PopupMessageTipsWnd
    \/ Choose
    \/ DeleteUnreadMsg
    \/ WndCancel
    \/ UnreadDone

\* The threads run, and the user does not leave a tip up for ever.
UnreadFairness ==
    /\ WF_unreadVars(DisplayMsg)
    /\ WF_unreadVars(PopupMessageTipsWnd)
    /\ WF_unreadVars(Choose)
    /\ WF_unreadVars(DeleteUnreadMsg)
    /\ WF_unreadVars(WndCancel)

UnreadSpec == UnreadInit /\ [][UnreadNext]_unreadVars /\ UnreadFairness

-----------------------------------------------------------------------------
(* Properties *)

\* The pop of DeleteUnreadMsg and the read of AddFriendAck, neither of which
\* tests for an empty stack (AddFriendAck would switch on an uninitialised
\* type), always find a message, and never one that came before the one the
\* user chose on: until the click is over that one is on the stack, and the top
\* is it or a later one, although tips are replaced, posts come late and
\* handlers push between the calls.
ChoiceHasMessage ==
    (tip \in Messages /\ ui = "idle") \/ ui = "chosen" => tip \in Stacked /\ Top >= tip

\* What is on the stack will be shown: there is a tip, a post on the way or a
\* call that will post, at any point of the handlers and the click - unless
\* the writer of the top was deleted (see EveryMessageSettled).
NeverForgotten ==
    stack # <<>> /\ Top \notin orphaned => posted > 0 \/ toDisplay > 0 \/ tip # 0

\* Nothing more will be shown: the tip of the top fails and no post is left.
Stuck == Top \in orphaned /\ posted = 0 /\ toDisplay = 0 /\ tip = 0

\* Every message leaves the stack in the end, though later ones go first and
\* clicks may pop a message they were not meant for - unless the top is a text
\* of a deleted friend, which cannot be shown and keeps all below it.
EveryMessageSettled ==
    \A m \in Messages : m \in Stacked ~> (m \notin Stacked \/ Stuck)

\* README.txt:43: the stack holds the messages the user has not seen or has
\* not chosen on yet; so what was answered or popped has been shown.
SettledWasShown == settled \subseteq shown
=============================================================================
