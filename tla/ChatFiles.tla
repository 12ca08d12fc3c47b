------------------------------ MODULE ChatFiles ------------------------------
(***************************************************************************)
(* Files in texts, from program A to its friend B.  A numbers the files    *)
(* its user selects (SendFileList), from 1 in each run, and a text names   *)
(* them <1>, <2>, ...  SendTextThread tries to push each file over TCP     *)
(* before it sends the text; a file it cannot push is listed by its name,  *)
(* and B pulls it.  B numbers what it receives (RecvFileList), waits a     *)
(* little for a pushed file whose handler is another thread, and replaces  *)
(* A's numbers in the text by its own.                                     *)
(*                                                                         *)
(* A transfer whose connection breaks leaves a part of the file, which B   *)
(* takes for all of it; one whose connection falls silent is waited for    *)
(* without a limit.  How the text itself travels is the model TextChat;    *)
(* here its copies arrive at any time, or never.                           *)
(***************************************************************************)
EXTENDS Integers, Sequences, FiniteSets, Bags

CONSTANTS
    Texts,
    Used,           \* the numbers in each text, from left to right, perhaps
                    \* more than once; one above MaxFiles is no file's
    Rank,           \* the place of a number in JSON's order of names, which
                    \* are sorted as strings: "10" comes before "2"
    MaxTryTimes,    \* MAX_TRY_TIMES: pushes of a file, looks for a pushed one
    MaxNumber,      \* bound of the model: numbers in texts
    MaxFiles,       \* bound of the model: files selected in one run of A
    MaxCopies,      \* bound of the model: copies of a text that reach B
    MaxStrangers,   \* bound of the model: files B has from other friends at the start
    MaxMishaps      \* bound of the model: a restart of A or B, a broken and
                    \* a silent transfer, each at most once

ASSUME FilesAssumption ==
    /\ MaxTryTimes \in Nat \ {0}
    /\ {MaxNumber, MaxFiles, MaxCopies, MaxStrangers, MaxMishaps} \subseteq Nat
    /\ MaxFiles <= MaxNumber
    /\ \A t \in Texts : Used[t] \in Seq(1 .. MaxNumber)
    /\ Rank \in [1 .. MaxNumber -> Nat]
    /\ \A n, k \in 1 .. MaxNumber : Rank[n] = Rank[k] => n = k

Numbers == 1 .. MaxNumber
Copies == 1 .. MaxCopies
InText(t) == {Used[t][i] : i \in DOMAIN Used[t]}
Lives == {1, 2}

\* A file is known by the run of A it was selected in and the number it got;
\* number 0 is for no file at all and for what other friends send.
NoFile == [life |-> 0, number |-> 0]
FileOf(l, n) == [life |-> l, number |-> n]
Files == {NoFile} \union {FileOf(l, n) : l \in Lives, n \in 1 .. MaxFiles}

VARIABLES
    life,       \* A: how often it has started
    selected,   \* A: files in its SendFileList, numbered from 1
    means,      \* A: the file each number in a text stood for when it was written
    stage,      \* A: "unwritten", "sending", "sent", "dropped"
    todo,       \* A: numbers SendTextThread still has to look at
    tries,      \* A: pushes of the first of them that have failed
    fileList,   \* file_list of a text: "none", "pushed" or "named" for each number
    pushes,     \* pushed files whose OnSendFileMsg has not recorded them
    recv,       \* B: RecvFileList
    handler,    \* B: OnChatWithTextMsg of each copy of each text
    shown,      \* history: what the texts showed
    mishaps     \* history: "restartA", "restartB", "cut", "silent"

aVars == <<life, selected, means, stage, todo, tries, fileList>>
bVars == <<recv, handler, shown>>
fileVars == <<aVars, bVars, pushes, mishaps>>

\* An entry of RecvFileList, uid and fid; a pulled one has no fid (0 here), so
\* that no search finds it.  "whole" is for the properties.
Received(from, fid, file, whole) ==
    [from |-> from, fid |-> fid, file |-> file, whole |-> whole]
Entries == [from : {"A", "other", "pulled"}, fid : 0 .. MaxNumber, file : Files, whole : BOOLEAN]

Phases == {"none", "busy", "stuck", "done"}
NoHandler == [phase |-> "none", left |-> {}, looks |-> 0, text |-> [n \in Numbers |-> 0]]

FilesTypeOK ==
    /\ life \in Lives
    /\ selected \in 0 .. MaxFiles
    /\ means \in [Texts -> [Numbers -> Files]]
    /\ stage \in [Texts -> {"unwritten", "sending", "sent", "dropped"}]
    /\ todo \in [Texts -> Seq(Numbers)]
    /\ tries \in [Texts -> 0 .. MaxTryTimes - 1]
    /\ fileList \in [Texts -> [Numbers -> {"none", "pushed", "named"}]]
    /\ IsABag(pushes) /\ BagToSet(pushes) \subseteq Entries
    /\ recv \in Seq(Entries)
    /\ handler \in [Texts -> [Copies ->
            [phase : Phases, left : SUBSET Numbers, looks : 0 .. MaxTryTimes - 1,
             text : [Numbers -> Nat]]]]
    /\ \A t \in Texts, c \in Copies :
         LET h == handler[t][c]
         IN  /\ \A n \in h.left : fileList[t][n] # "none"
             /\ \A n \in Numbers : h.text[n] \in Numbers \union (0 .. Len(recv))
    /\ mishaps \subseteq {"restartA", "restartB", "cut", "silent"}

FilesInit ==
    /\ life = 1
    /\ selected = 0
    /\ means = [t \in Texts |-> [n \in Numbers |-> NoFile]]
    /\ stage = [t \in Texts |-> "unwritten"]
    /\ todo = [t \in Texts |-> << >>]
    /\ tries = [t \in Texts |-> 0]
    /\ fileList = [t \in Texts |-> [n \in Numbers |-> "none"]]
    /\ pushes = EmptyBag
    /\ \E k \in 0 .. MaxStrangers :
           recv \in [1 .. k -> {Received("other", n, NoFile, TRUE) : n \in 1 .. MaxFiles}]
    /\ handler = [t \in Texts |-> [c \in Copies |-> NoHandler]]
    /\ shown = {}
    /\ mishaps = {}

Mishap(what) ==
    /\ what \notin mishaps
    /\ Cardinality(mishaps) < MaxMishaps
    /\ mishaps' = mishaps \union {what}

-----------------------------------------------------------------------------
(* A *)

\* SelectChatFile: a small enough file gets the next number.
SelectChatFile ==
    /\ selected < MaxFiles
    /\ selected' = selected + 1
    /\ UNCHANGED <<life, means, stage, todo, tries, fileList, bVars, pushes, mishaps>>

\* ChatWithText: the user writes a text with the numbers of files selected
\* before, and perhaps others typed by hand.
ChatWithText(t) ==
    /\ stage[t] = "unwritten"
    /\ \A n \in InText(t) : n <= MaxFiles => n <= selected
    /\ means' = [means EXCEPT ![t] =
            [n \in Numbers |->
                IF n \in InText(t) /\ n <= selected THEN FileOf(life, n) ELSE NoFile]]
    /\ todo' = [todo EXCEPT ![t] = Used[t]]
    /\ stage' = [stage EXCEPT ![t] = "sending"]
    /\ UNCHANGED <<life, selected, tries, fileList, bVars, pushes, mishaps>>

Attempt(t, n) ==
    /\ stage[t] = "sending"
    /\ todo[t] # << >>
    /\ n = Head(todo[t])
    /\ UNCHANGED <<life, selected, means, stage, bVars>>

\* SendTextThread lists number n and goes on to the next one.
List(t, n, how) ==
    /\ fileList' = [fileList EXCEPT ![t][n] = how]
    /\ todo' = [todo EXCEPT ![t] = Tail(@)]
    /\ tries' = [tries EXCEPT ![t] = 0]

\* What may be on its way to B after a push: the file, the part of it that
\* was sent before the connection broke, or nothing B could use.
UnderWay(t, n) ==
    LET Sent(whole) == Received("A", n, FileOf(life, n), whole)
    IN  \/ pushes' = pushes (+) SetToBag({Sent(TRUE)}) /\ UNCHANGED mishaps
        \/ pushes' = pushes (+) SetToBag({Sent(FALSE)}) /\ Mishap("cut")
        \/ UNCHANGED <<pushes, mishaps>>

\* SendFileMsg: all of the file went into the socket.
PushSucceeds(t) ==
    \E n \in Numbers :
        /\ Attempt(t, n)
        /\ n <= selected
        /\ List(t, n, "pushed")
        /\ UnderWay(t, n)

\* SendFileMsg: a try failed, before or in the middle of the file; after the
\* last one the file is listed by name.
PushFails(t) ==
    \E n \in Numbers :
        /\ Attempt(t, n)
        /\ n <= selected
        /\ \/ tries[t] + 1 = MaxTryTimes /\ List(t, n, "named")
           \/ /\ tries[t] + 1 < MaxTryTimes
              /\ tries' = [tries EXCEPT ![t] = @ + 1]
              /\ UNCHANGED <<fileList, todo>>
        /\ \/ pushes' = pushes (+) SetToBag({Received("A", n, FileOf(life, n), FALSE)}) /\ Mishap("cut")
           \/ UNCHANGED <<pushes, mishaps>>

\* A number without a file is not listed and stays in the text as it is.
SkipNumber(t) ==
    \E n \in Numbers :
        /\ Attempt(t, n)
        /\ n > selected
        /\ todo' = [todo EXCEPT ![t] = Tail(@)]
        /\ UNCHANGED <<tries, fileList, pushes, mishaps>>

\* The text goes to the pool.
AddMsg(t) ==
    /\ stage[t] = "sending"
    /\ todo[t] = << >>
    /\ stage' = [stage EXCEPT ![t] = "sent"]
    /\ UNCHANGED <<life, selected, means, todo, tries, fileList, bVars, pushes, mishaps>>

\* A ends, its threads with it, and starts with an empty SendFileList; what
\* it has sent is still under way.
RestartA ==
    /\ Mishap("restartA")
    /\ life' = life + 1
    /\ selected' = 0
    /\ stage' = [t \in Texts |-> IF stage[t] = "sending" THEN "dropped" ELSE stage[t]]
    /\ UNCHANGED <<means, todo, tries, fileList, bVars, pushes>>

-----------------------------------------------------------------------------
(* B *)

\* OnSendFileMsg: the file is received, as far as it came, and gets the next
\* number; or receiving fails and nothing is recorded.
OnSendFileMsg ==
    \E p \in BagToSet(pushes) :
        /\ pushes' = pushes (-) SetToBag({p})
        /\ recv' \in {recv, Append(recv, p)}
        /\ UNCHANGED <<aVars, handler, shown, mishaps>>

\* OnChatWithTextMsg: a copy of the text arrives.
OnChatWithTextMsg(t, c) ==
    /\ stage[t] = "sent"
    /\ handler[t][c].phase = "none"
    /\ handler' = [handler EXCEPT ![t][c] =
            [phase |-> "busy", left |-> {n \in Numbers : fileList[t][n] # "none"},
             looks |-> 0, text |-> [n \in Numbers |-> n]]]
    /\ UNCHANGED <<aVars, recv, shown, pushes, mishaps>>

\* The handler comes to number n of the file list, which JSON keeps sorted.
Handles(t, c, n) ==
    /\ handler[t][c].phase = "busy"
    /\ n \in handler[t][c].left
    /\ \A k \in handler[t][c].left : Rank[n] <= Rank[k]

\* regex_replace: every <old> in the text, as it stands by now, becomes <new>.
Replace(h, old, new) ==
    [h EXCEPT !.left = @ \ {old}, !.looks = 0,
              !.text = [n \in Numbers |-> IF @[n] = old THEN new ELSE @[n]]]

\* Variant: the friend the file came from is not looked at.
DownloadedByNumber(n) == {i \in DOMAIN recv : recv[i].fid = n}

\* GetDownloadedFileNumber: the entries with this uid and fid.
Downloaded(n) == {i \in DOMAIN recv : recv[i].from = "A" /\ recv[i].fid = n}

\* The handler comes to a pushed file, and finds it or not.
LooksFor(t, c, n) ==
    /\ Handles(t, c, n)
    /\ fileList[t][n] = "pushed"
    /\ UNCHANGED <<aVars, recv, shown, pushes, mishaps>>

LooksAgain(h) == [h EXCEPT !.looks = @ + 1]

Finds(t, c, n) ==
    \E i \in Downloaded(n) :
        /\ \A j \in Downloaded(n) : i <= j
        /\ handler' = [handler EXCEPT ![t][c] = Replace(@, n, i)]

\* Variant: the handler looks again until the file is there.
LookUpForever(t, c) == \E n \in Numbers : LooksFor(t, c, n) /\ Finds(t, c, n)

\* Variant: the handler looks once more than MAX_TRY_TIMES.
LookUpOnceMore(t, c) ==
    \E n \in Numbers :
        /\ LooksFor(t, c, n)
        /\ \/ Finds(t, c, n)
           \/ /\ Downloaded(n) = {}
              /\ handler' = [handler EXCEPT ![t][c] =
                      IF @.looks < MaxTryTimes THEN LooksAgain(@)
                      ELSE Replace(@, n, 0)]

\* A look for a pushed file: the first entry is taken; without one, the
\* handler looks again, and puts 0 when it has looked often enough.
LookUp(t, c) ==
    \E n \in Numbers :
        /\ LooksFor(t, c, n)
        /\ \/ Finds(t, c, n)
           \/ /\ Downloaded(n) = {}
              /\ handler' = [handler EXCEPT ![t][c] =
                      IF @.looks + 1 < MaxTryTimes THEN LooksAgain(@)
                      ELSE Replace(@, n, 0)]

\* Variant: AddFileItem returns the number after the one it used.
PullNextNumber(t, c) ==
    \E n \in Numbers :
        /\ Handles(t, c, n)
        /\ fileList[t][n] = "named"
        /\ n <= selected
        /\ recv' = Append(recv, Received("pulled", 0, FileOf(life, n), TRUE))
        /\ handler' = [handler EXCEPT ![t][c] = Replace(@, n, Len(recv') + 1)]
        /\ UNCHANGED <<aVars, shown, pushes, mishaps>>

\* GetFileMsg for a named file, until its last try: A sends what it has under
\* this number now, or cannot be reached or has nothing.
Pull(t, c) ==
    \E n \in Numbers :
        /\ Handles(t, c, n)
        /\ fileList[t][n] = "named"
        /\ \/ /\ n <= selected
              /\ \E whole \in BOOLEAN :
                   /\ recv' = Append(recv, Received("pulled", 0, FileOf(life, n), whole))
                   /\ IF whole THEN UNCHANGED mishaps ELSE Mishap("cut")
              /\ handler' = [handler EXCEPT ![t][c] = Replace(@, n, Len(recv'))]
           \/ /\ handler' = [handler EXCEPT ![t][c] = Replace(@, n, 0)]
              /\ UNCHANGED <<recv, mishaps>>
        /\ UNCHANGED <<aVars, shown, pushes>>

\* The connection of a pull falls silent: recv has no time-out.
PullStalls(t, c) ==
    \E n \in Numbers :
        /\ Handles(t, c, n)
        /\ fileList[t][n] = "named"
        /\ n <= selected
        /\ Mishap("silent")
        /\ handler' = [handler EXCEPT ![t][c].phase = "stuck"]
        /\ UNCHANGED <<aVars, recv, shown, pushes>>

\* What the chat window finds under a number (GetRecvFile): an entry of the
\* list or nothing.
Resolved(number) ==
    IF number \in DOMAIN recv THEN recv[number] ELSE Received("A", 0, NoFile, TRUE)

\* UpdateChatContent, ShowChatContent: the text is recorded and shown.
ShowText(t, c) ==
    /\ handler[t][c].phase = "busy"
    /\ handler[t][c].left = {}
    /\ handler' = [handler EXCEPT ![t][c] = [NoHandler EXCEPT !.phase = "done"]]
    /\ shown' = shown \union
            {[text |-> t, at |-> n, number |-> handler[t][c].text[n],
              found |-> Resolved(handler[t][c].text[n])] : n \in InText(t)}
    /\ UNCHANGED <<aVars, recv, pushes, mishaps>>

\* B ends, its handlers and connections with it, and starts with an empty
\* RecvFileList.
RestartB ==
    /\ Mishap("restartB")
    /\ recv' = << >>
    /\ handler' = [t \in Texts |-> [c \in Copies |->
            IF handler[t][c].phase = "none" THEN NoHandler ELSE [NoHandler EXCEPT !.phase = "done"]]]
    /\ pushes' = EmptyBag
    /\ UNCHANGED <<aVars, shown>>

-----------------------------------------------------------------------------
FilesNext ==
    \/ SelectChatFile
    \/ \E t \in Texts : ChatWithText(t) \/ PushSucceeds(t) \/ PushFails(t) \/ SkipNumber(t) \/ AddMsg(t)
    \/ RestartA
    \/ OnSendFileMsg
    \/ \E t \in Texts, c \in Copies :
         \/ OnChatWithTextMsg(t, c) \/ LookUp(t, c) \/ Pull(t, c) \/ PullStalls(t, c) \/ ShowText(t, c)
    \/ RestartB

\* The threads of B run.
FilesFairness ==
    \A t \in Texts, c \in Copies :
        WF_fileVars(LookUp(t, c)) /\ WF_fileVars(Pull(t, c)) /\ WF_fileVars(ShowText(t, c))

FilesSpec == FilesInit /\ [][FilesNext]_fileVars /\ FilesFairness

-----------------------------------------------------------------------------
(* Properties *)

\* RecvFileList: what the chat window finds for a file of A is an entry of
\* B's list, of whatever life of A, unless the text shows 0.
NoDangling ==
    \A s \in shown : means[s.text][s.at] # NoFile => s.number = 0 \/ s.found.file.life > 0

FilesIn(t) == {n \in Numbers : means[t][n] # NoFile}

\* The user of B should be shown the file the user of A meant, or none
\* (ClientMsgListener.cpp:342: A's numbers are replaced by B's, if B has the
\* files); but each number is replaced in the text as it stands by then, and
\* one of B's that equals a later one of A's is replaced again.  What holds, if
\* A has not been restarted (its numbers begin again) and no transfer broke
\* off: a text shows whole files of its own, and in the place of each that
\* one or a later one of the list.  So a text with one file, and the last of
\* several, show what was meant - for pushes and pulls in any order, tries
\* that failed, a restart of B, and files of others under the same number.
ShownIsOfText ==
    {"restartA", "cut"} \intersect mishaps = {} =>
        \A s \in shown :
            \/ means[s.text][s.at] = NoFile
            \/ s.number = 0
            \/ /\ s.found.whole
               /\ \E n \in FilesIn(s.text) :
                     Rank[n] >= Rank[s.at] /\ s.found.file = means[s.text][n]

\* A handler of a text always has something it can do: to look for the first
\* number that is left, to pull it, or to show the text.
NeverIdle ==
    \A t \in Texts, c \in Copies : handler[t][c].phase = "busy" =>
        \/ handler[t][c].left = {}
        \/ \E n \in Numbers : Handles(t, c, n) /\ fileList[t][n] \in {"pushed", "named"}

\* What a handler does brings it nearer to the end, whatever A, the other
\* handlers and the files that come in do meanwhile: a number fewer is left, or
\* a look fewer at the first one.  It ends, or hangs in a silent connection.
AdvanceStep ==
    \A t \in Texts, c \in Copies :
        LET h == handler[t][c]
        IN  h.phase = "busy" /\ handler'[t][c] # h =>
                \/ handler'[t][c].phase = "done"
                \/ handler'[t][c].phase = "stuck" /\ "silent" \in mishaps'
                \/ /\ handler'[t][c].phase = "busy"
                   /\ \/ /\ handler'[t][c].left \subseteq h.left
                         /\ handler'[t][c].left # h.left
                      \/ /\ handler'[t][c].left = h.left
                         /\ h.looks < handler'[t][c].looks
                         /\ handler'[t][c].looks < MaxTryTimes
Advance == [][AdvanceStep]_fileVars

\* A text that B has acknowledged is shown: the wait for pushed files ends,
\* and so does a pull, if its connection does not fall silent.
TakenIsShown ==
    \A t \in Texts, c \in Copies :
        handler[t][c].phase = "busy" ~> handler[t][c].phase \in {"done", "stuck"}
=============================================================================
