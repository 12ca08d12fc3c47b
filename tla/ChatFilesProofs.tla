--------------------------- MODULE ChatFilesProofs ---------------------------
(***************************************************************************)
(* The safety properties of ChatFiles for any number of texts, files,      *)
(* copies, tries and mishaps.                                              *)
(*                                                                         *)
(* What a text shows is found last and decided early: which numbers are    *)
(* files when it is written (WrittenRight), which of them are listed when  *)
(* it is sent (ListedRight), what a number of A stands for while it is in  *)
(* a push or in the list of B (EntriesRight), and what a handler of B has  *)
(* put for those it has replaced (HandlersRight).  A replaced number may   *)
(* be replaced again when it equals a later one of the list; it still      *)
(* leads to a file of the text then, the one of its own number or of a     *)
(* later one, since the list is taken in its order.                        *)
(***************************************************************************)
EXTENDS ChatFiles, WellFoundedInduction, TLAPS

\* A has not been restarted and no transfer broke off.
Clean == {"restartA", "cut"} \intersect mishaps = {}

LifeRight == life = IF "restartA" \in mishaps THEN 2 ELSE 1

\* An entry that was pushed by A is a file, and the file of its number.
Honest(e) ==
    e.from = "A" =>
        /\ e.file.life > 0
        /\ Clean => e.file = FileOf(1, e.fid) /\ e.whole = TRUE

EntriesRight ==
    /\ \A p \in BagToSet(pushes) : Honest(p)
    /\ \A i \in DOMAIN recv : Honest(recv[i])

\* A number of a text is a file's exactly if it is not above MaxFiles.
WrittenRight ==
    \A t \in Texts : stage[t] # "unwritten" =>
        \A n \in Numbers :
            IF n \in InText(t) /\ n <= MaxFiles
            THEN means[t][n].life > 0 /\ (Clean => means[t][n] = FileOf(1, n))
            ELSE means[t][n] = NoFile

\* The numbers of text t SendTextThread still has to look at.
Todo(t) == {todo[t][i] : i \in DOMAIN todo[t]}

\* The files of a text are listed or still to be, and no other numbers are
\* listed.
ListedRight ==
    \A t \in Texts :
        /\ stage[t] = "unwritten" => \A n \in Numbers : fileList[t][n] = "none"
        /\ stage[t] = "sending" =>
              \A n \in Numbers :
                  /\ n \in Todo(t) => n \in InText(t)
                  /\ means[t][n] # NoFile => n <= selected
        /\ stage[t] = "sent" => todo[t] = << >>
        /\ stage[t] \in {"sending", "sent"} =>
              \A n \in Numbers :
                  /\ fileList[t][n] # "none" => means[t][n] # NoFile
                  /\ means[t][n] # NoFile => n \in Todo(t) \/ fileList[t][n] # "none"

\* Entry e is a file of A, and one that number n of text t or a later one of
\* the list stands for.
Answers(e, t, n) ==
    /\ e.file.life > 0
    /\ Clean => /\ e.whole = TRUE
                /\ \E k \in FilesIn(t) : Rank[k] >= Rank[n] /\ e.file = means[t][k]

\* A handler has replaced the numbers of the list up to a place in its order.
HandlersRight ==
    \A t \in Texts, c \in Copies : handler[t][c].phase = "busy" =>
        /\ stage[t] = "sent"
        /\ \A n \in handler[t][c].left : handler[t][c].text[n] = n
        /\ \A n \in Numbers \ handler[t][c].left, k \in handler[t][c].left :
              means[t][n] = NoFile \/ Rank[n] <= Rank[k]
        /\ \A n \in Numbers \ handler[t][c].left :
              \/ means[t][n] = NoFile
              \/ handler[t][c].text[n] = 0
              \/ /\ handler[t][c].text[n] \in DOMAIN recv
                 /\ Answers(recv[handler[t][c].text[n]], t, n)

ShownRight ==
    \A s \in shown :
        /\ s.text \in Texts /\ s.at \in Numbers
        /\ stage[s.text] = "sent"
        /\ \/ means[s.text][s.at] = NoFile
           \/ s.number = 0
           \/ Answers(s.found, s.text, s.at)

Right == LifeRight /\ EntriesRight /\ WrittenRight /\ ListedRight /\ HandlersRight /\ ShownRight

FilesInv == FilesTypeOK /\ Right

-----------------------------------------------------------------------------
(* Bags *)

LEMMA BagAdd ==
  ASSUME NEW B, IsABag(B), NEW p
  PROVE  /\ IsABag(B (+) SetToBag({p}))
         /\ BagToSet(B (+) SetToBag({p})) = BagToSet(B) \union {p}
BY DEF IsABag, BagToSet, SetToBag, (+)

LEMMA BagRemove ==
  ASSUME NEW B, IsABag(B), NEW p
  PROVE  /\ IsABag(B (-) SetToBag({p}))
         /\ BagToSet(B (-) SetToBag({p})) \subseteq BagToSet(B)
BY DEF IsABag, BagToSet, SetToBag, (-)

-----------------------------------------------------------------------------
(* Sequences *)

\* The first element and those of the rest are all there are.
LEMMA HeadAndTail ==
  ASSUME NEW S, NEW q \in Seq(S), q # << >>
  PROVE  /\ Head(q) \in S /\ Tail(q) \in Seq(S)
         /\ {q[i] : i \in DOMAIN q} = {Head(q)} \union {Tail(q)[i] : i \in DOMAIN Tail(q)}
<1>1. /\ Len(q) \in Nat \ {0} /\ DOMAIN q = 1 .. Len(q)
      /\ Head(q) = q[1] /\ Head(q) \in S /\ Tail(q) \in Seq(S)
      /\ DOMAIN Tail(q) = 1 .. Len(q) - 1
      /\ \A i \in 1 .. Len(q) - 1 : Tail(q)[i] = q[i + 1]
  OBVIOUS
<1> DEFINE T == {Tail(q)[i] : i \in DOMAIN Tail(q)}
<1>2. ASSUME NEW i \in DOMAIN q
      PROVE  q[i] \in {Head(q)} \union T
  <2>1. CASE i = 1
    BY <1>1, <2>1
  <2>2. CASE i # 1
    <3>1. i - 1 \in DOMAIN Tail(q) /\ Tail(q)[i - 1] = q[i]
      BY <1>1, <2>2
    <3> QED
      BY <3>1
  <2> QED
    BY <2>1, <2>2
<1>3. ASSUME NEW i \in DOMAIN Tail(q)
      PROVE  \E j \in DOMAIN q : Tail(q)[i] = q[j]
  <2>1. i + 1 \in DOMAIN q /\ Tail(q)[i] = q[i + 1]
    BY <1>1
  <2> QED
    BY <2>1
<1>4. \E j \in DOMAIN q : Head(q) = q[j]
  BY <1>1
<1> QED
  BY <1>1, <1>2, <1>3, <1>4

-----------------------------------------------------------------------------
(* Effects of the steps *)

LEMMA FilesConstants ==
  /\ Numbers \subseteq Nat \ {0} /\ MaxFiles \in Nat /\ MaxNumber \in Nat
  /\ MaxFiles <= MaxNumber /\ MaxTryTimes \in Nat \ {0}
  /\ \A n \in Numbers : Rank[n] \in Nat
  /\ \A t \in Texts : Used[t] \in Seq(Numbers) /\ InText(t) \subseteq Numbers
BY FilesAssumption DEF Numbers, InText

\* A file is one of a run of A, and is not NoFile.
LEMMA FileFacts ==
  /\ \A l \in Lives, n \in Numbers : n <= MaxFiles =>
        /\ FileOf(l, n) \in Files /\ FileOf(l, n).life = l
        /\ FileOf(l, n) # NoFile /\ l > 0
  /\ NoFile \in Files
  /\ \A f \in Files : f # NoFile <=> f.life > 0
  /\ \A from \in {"A", "other", "pulled"}, fid \in 0 .. MaxNumber, f \in Files, w \in BOOLEAN :
        Received(from, fid, f, w) \in Entries
<1>1. ASSUME NEW l \in Lives, NEW n \in Numbers, n <= MaxFiles
      PROVE  /\ FileOf(l, n) \in Files /\ FileOf(l, n).life = l
             /\ FileOf(l, n) # NoFile /\ l > 0
  <2>1. n \in 1 .. MaxFiles
    BY <1>1, FilesConstants
  <2>2. FileOf(l, n) \in Files
    BY <2>1 DEF Files
  <2>3. FileOf(l, n).life = l /\ l > 0 /\ NoFile.life = 0
    BY DEF FileOf, NoFile, Lives
  <2> QED
    BY <2>2, <2>3
<1>2. ASSUME NEW f \in Files
      PROVE  f # NoFile <=> f.life > 0
  <2>1. CASE f = NoFile
    BY <2>1 DEF NoFile
  <2>2. CASE f # NoFile
    <3>1. PICK l \in Lives, n \in 1 .. MaxFiles : f = FileOf(l, n)
      BY <2>2 DEF Files
    <3> QED
      BY <2>2, <3>1 DEF FileOf, Lives
  <2> QED
    BY <2>1, <2>2
<1>3. \A from \in {"A", "other", "pulled"}, fid \in 0 .. MaxNumber, f \in Files, w \in BOOLEAN :
        Received(from, fid, f, w) \in Entries
  BY DEF Received, Entries
<1> QED
  BY <1>1, <1>2, <1>3 DEF Files

LEMMA MishapEffect ==
  ASSUME FilesTypeOK, NEW w \in {"restartA", "restartB", "cut", "silent"}, Mishap(w)
  PROVE  /\ mishaps' = mishaps \union {w} /\ w \notin mishaps
         /\ mishaps' \subseteq {"restartA", "restartB", "cut", "silent"}
BY DEF FilesTypeOK, Mishap

\* One turn of SendTextThread with a number that is a file's.
Pushes(t, n) ==
    /\ stage[t] = "sending" /\ todo[t] # << >> /\ n = Head(todo[t]) /\ n <= selected
    /\ UNCHANGED <<life, selected, means, stage, bVars>>
    /\ tries' \in [Texts -> 0 .. MaxTryTimes - 1]
    /\ \/ UNCHANGED <<fileList, todo>>
       \/ \E how \in {"pushed", "named"} : fileList' = [fileList EXCEPT ![t][n] = how]
                                           /\ todo' = [todo EXCEPT ![t] = Tail(@)]
    /\ \/ UNCHANGED <<pushes, mishaps>>
       \/ \E w \in BOOLEAN :
             /\ IsABag(pushes')
             /\ BagToSet(pushes') =
                    BagToSet(pushes) \union {Received("A", n, FileOf(life, n), w)}
             /\ IF w THEN mishaps' = mishaps
                ELSE mishaps' = mishaps \union {"cut"}

LEMMA PushEffect ==
  ASSUME FilesTypeOK, NEW t \in Texts, PushSucceeds(t) \/ PushFails(t)
  PROVE  \E n \in Numbers : Pushes(t, n)
<1> USE FilesConstants DEF FilesTypeOK
<1>1. ASSUME NEW n \in Numbers, NEW w \in BOOLEAN,
             pushes' = pushes (+) SetToBag({Received("A", n, FileOf(life, n), w)})
      PROVE  /\ IsABag(pushes')
             /\ BagToSet(pushes') =
                    BagToSet(pushes) \union {Received("A", n, FileOf(life, n), w)}
  BY <1>1, BagAdd
<1>2. CASE PushSucceeds(t)
  <2>1. PICK n \in Numbers :
          Attempt(t, n) /\ n <= selected /\ List(t, n, "pushed") /\ UnderWay(t, n)
    BY <1>2 DEF PushSucceeds
  <2>2. tries' \in [Texts -> 0 .. MaxTryTimes - 1]
    BY <2>1 DEF List
  <2>3. \/ UNCHANGED <<pushes, mishaps>>
        \/ \E w \in BOOLEAN :
              /\ pushes' = pushes (+) SetToBag({Received("A", n, FileOf(life, n), w)})
              /\ IF w THEN mishaps' = mishaps ELSE mishaps' = mishaps \union {"cut"}
    BY <2>1, MishapEffect DEF UnderWay
  <2> QED
    BY <1>1, <2>1, <2>2, <2>3 DEF Pushes, Attempt, List
<1>3. CASE PushFails(t)
  <2>1. PICK n \in Numbers :
          /\ Attempt(t, n) /\ n <= selected
          /\ \/ tries[t] + 1 = MaxTryTimes /\ List(t, n, "named")
             \/ /\ tries[t] + 1 < MaxTryTimes
                /\ tries' = [tries EXCEPT ![t] = @ + 1]
                /\ UNCHANGED <<fileList, todo>>
          /\ \/ /\ pushes' = pushes (+) SetToBag({Received("A", n, FileOf(life, n), FALSE)})
                /\ Mishap("cut")
             \/ UNCHANGED <<pushes, mishaps>>
    BY <1>3 DEF PushFails
  <2>2. tries' \in [Texts -> 0 .. MaxTryTimes - 1]
    <3>1. CASE List(t, n, "named")
      BY <3>1 DEF List
    <3>2. CASE tries[t] + 1 < MaxTryTimes /\ tries' = [tries EXCEPT ![t] = @ + 1]
      <4>1. tries[t] + 1 \in 0 .. MaxTryTimes - 1
        BY <3>2
      <4> QED
        BY <3>2, <4>1
    <3> QED
      BY <2>1, <3>1, <3>2
  <2>3. \/ UNCHANGED <<pushes, mishaps>>
        \/ \E w \in BOOLEAN :
              /\ pushes' = pushes (+) SetToBag({Received("A", n, FileOf(life, n), w)})
              /\ IF w THEN mishaps' = mishaps ELSE mishaps' = mishaps \union {"cut"}
    BY <2>1, MishapEffect
  <2> QED
    BY <1>1, <2>1, <2>2, <2>3 DEF Pushes, Attempt, List
<1> QED
  BY <1>2, <1>3

\* One turn of OnChatWithTextMsg: number n of the text is looked for again,
\* or replaced by a number of the list of B or by 0.
Turns(t, c, n) ==
    /\ handler[t][c].phase = "busy" /\ n \in handler[t][c].left
    /\ \A k \in handler[t][c].left : Rank[n] <= Rank[k]
    /\ UNCHANGED <<aVars, shown, pushes>>
    /\ mishaps' \in {mishaps, mishaps \union {"cut"}}
    /\ \/ recv' = recv
       \/ \E w \in BOOLEAN :
             /\ n <= selected
             /\ recv' = Append(recv, Received("pulled", 0, FileOf(life, n), w))
             /\ IF w THEN TRUE ELSE "cut" \in mishaps'
    /\ \/ /\ handler[t][c].looks + 1 < MaxTryTimes
          /\ handler' = [handler EXCEPT ![t][c] = LooksAgain(@)]
       \/ \E m \in {0} \union DOMAIN recv' :
             /\ handler' = [handler EXCEPT ![t][c] = Replace(@, n, m)]
             /\ \/ m = 0
                \/ recv'[m].from = "A" /\ recv'[m].fid = n /\ recv' = recv
                \/ \E w \in BOOLEAN :
                      /\ n <= selected
                      /\ recv'[m] = Received("pulled", 0, FileOf(life, n), w)
                      /\ IF w THEN TRUE ELSE "cut" \in mishaps'

LEMMA TurnEffect ==
  ASSUME FilesTypeOK, NEW t \in Texts, NEW c \in Copies, LookUp(t, c) \/ Pull(t, c)
  PROVE  \E n \in Numbers : Turns(t, c, n)
<1> USE FilesConstants DEF FilesTypeOK
<1>1. CASE LookUp(t, c)
  <2>1. PICK n \in Numbers :
          /\ LooksFor(t, c, n)
          /\ \/ Finds(t, c, n)
             \/ /\ Downloaded(n) = {}
                /\ handler' = [handler EXCEPT ![t][c] =
                        IF @.looks + 1 < MaxTryTimes THEN LooksAgain(@)
                        ELSE Replace(@, n, 0)]
    BY <1>1 DEF LookUp
  <2>2. /\ handler[t][c].phase = "busy" /\ n \in handler[t][c].left
        /\ \A k \in handler[t][c].left : Rank[n] <= Rank[k]
        /\ UNCHANGED <<aVars, shown, pushes>> /\ mishaps' = mishaps /\ recv' = recv
    BY <2>1 DEF LooksFor, Handles
  <2>3. CASE Finds(t, c, n)
    <3>1. PICK i \in Downloaded(n) : handler' = [handler EXCEPT ![t][c] = Replace(@, n, i)]
      BY <2>3 DEF Finds
    <3>2. i \in DOMAIN recv' /\ recv'[i].from = "A" /\ recv'[i].fid = n
      BY <2>2 DEF Downloaded
    <3> QED
      BY <2>2, <3>1, <3>2 DEF Turns
  <2>4. CASE /\ handler[t][c].looks + 1 < MaxTryTimes
             /\ handler' = [handler EXCEPT ![t][c] = LooksAgain(@)]
    BY <2>2, <2>4 DEF Turns
  <2>5. CASE handler' = [handler EXCEPT ![t][c] = Replace(@, n, 0)]
    BY <2>2, <2>5 DEF Turns
  <2>6. CASE handler' = [handler EXCEPT ![t][c] =
                 IF @.looks + 1 < MaxTryTimes THEN LooksAgain(@)
                 ELSE Replace(@, n, 0)]
    <3>1. CASE handler[t][c].looks + 1 < MaxTryTimes
      <4>1. handler' = [handler EXCEPT ![t][c] = LooksAgain(@)]
        BY <2>6, <3>1
      <4> QED
        BY <2>4, <3>1, <4>1
    <3>2. CASE ~(handler[t][c].looks + 1 < MaxTryTimes)
      <4>1. handler' = [handler EXCEPT ![t][c] = Replace(@, n, 0)]
        BY <2>6, <3>2
      <4> QED
        BY <2>5, <4>1
    <3> QED
      BY <3>1, <3>2
  <2> QED
    BY <2>1, <2>3, <2>6
<1>2. CASE Pull(t, c)
  <2>1. PICK n \in Numbers :
          /\ Handles(t, c, n)
          /\ \/ /\ n <= selected
                /\ \E whole \in BOOLEAN :
                     /\ recv' = Append(recv, Received("pulled", 0, FileOf(life, n), whole))
                     /\ IF whole THEN UNCHANGED mishaps ELSE Mishap("cut")
                /\ handler' = [handler EXCEPT ![t][c] = Replace(@, n, Len(recv'))]
             \/ /\ handler' = [handler EXCEPT ![t][c] = Replace(@, n, 0)]
                /\ UNCHANGED <<recv, mishaps>>
          /\ UNCHANGED <<aVars, shown, pushes>>
    BY <1>2 DEF Pull
  <2>2. /\ handler[t][c].phase = "busy" /\ n \in handler[t][c].left
        /\ \A k \in handler[t][c].left : Rank[n] <= Rank[k]
    BY <2>1 DEF Handles
  <2>3. CASE recv' = recv /\ mishaps' = mishaps
             /\ handler' = [handler EXCEPT ![t][c] = Replace(@, n, 0)]
    BY <2>1, <2>2, <2>3 DEF Turns
  <2>4. ASSUME n <= selected,
               NEW w \in BOOLEAN,
               recv' = Append(recv, Received("pulled", 0, FileOf(life, n), w)),
               IF w THEN UNCHANGED mishaps ELSE Mishap("cut"),
               handler' = [handler EXCEPT ![t][c] = Replace(@, n, Len(recv'))]
        PROVE  Turns(t, c, n)
    <3>1. /\ mishaps' \in {mishaps, mishaps \union {"cut"}}
          /\ IF w THEN TRUE ELSE "cut" \in mishaps'
      BY <2>4, MishapEffect
    <3> DEFINE e == Received("pulled", 0, FileOf(life, n), w)
    <3>2. e \in Entries
      BY <2>4, FileFacts
    <3> HIDE DEF e
    <3>3. Len(recv') \in DOMAIN recv' /\ recv'[Len(recv')] = e
      BY <2>4, <3>2 DEF e
    <3> QED
      BY <2>1, <2>2, <2>4, <3>1, <3>3 DEF Turns, e
  <2> QED
    BY <2>1, <2>3, <2>4
<1> QED
  BY <1>1, <1>2

LEMMA FilesSteps ==
  ASSUME FilesTypeOK, [FilesNext]_fileVars
  PROVE  \/ SelectChatFile \/ RestartA \/ OnSendFileMsg \/ RestartB \/ UNCHANGED fileVars
         \/ \E t \in Texts :
               \/ ChatWithText(t) \/ SkipNumber(t) \/ AddMsg(t)
               \/ \E n \in Numbers : Pushes(t, n)
         \/ \E t \in Texts, c \in Copies :
               \/ OnChatWithTextMsg(t, c) \/ PullStalls(t, c) \/ ShowText(t, c)
               \/ \E n \in Numbers : Turns(t, c, n)
<1>1. ASSUME NEW t \in Texts, PushSucceeds(t) \/ PushFails(t)
      PROVE  \E n \in Numbers : Pushes(t, n)
  BY <1>1, PushEffect
<1>2. ASSUME NEW t \in Texts, NEW c \in Copies, LookUp(t, c) \/ Pull(t, c)
      PROVE  \E n \in Numbers : Turns(t, c, n)
  BY <1>2, TurnEffect
<1> QED
  BY <1>1, <1>2 DEF FilesNext

-----------------------------------------------------------------------------
(* Types *)

HandlerStates ==
    [phase : Phases, left : SUBSET Numbers, looks : 0 .. MaxTryTimes - 1,
     text : [Numbers -> Nat]]

LEMMA ReplaceFacts ==
  ASSUME NEW h \in HandlerStates, NEW n \in Numbers, NEW m \in Nat
  PROVE  /\ Replace(h, n, m) \in HandlerStates
         /\ Replace(h, n, m).phase = h.phase
         /\ Replace(h, n, m).left = h.left \ {n}
         /\ \A k \in Numbers :
               Replace(h, n, m).text[k] = IF h.text[k] = n THEN m ELSE h.text[k]
<1> DEFINE T == [k \in Numbers |-> IF h.text[k] = n THEN m ELSE h.text[k]]
           r == [phase |-> h.phase, left |-> h.left \ {n}, looks |-> 0, text |-> T]
<1>1. T \in [Numbers -> Nat]
  BY DEF HandlerStates
<1>2. Replace(h, n, m) = [h EXCEPT !.left = h.left \ {n}, !.looks = 0, !.text = T]
  BY DEF Replace
<1> HIDE DEF T
<1>3. Replace(h, n, m) = r
  BY <1>2 DEF HandlerStates
<1>4. r \in HandlerStates
  BY <1>1, FilesConstants DEF HandlerStates
<1>5. r.phase = h.phase /\ r.left = h.left \ {n} /\ r.text = T
  OBVIOUS
<1> QED
  BY <1>3, <1>4, <1>5 DEF T

LEMMA LooksAgainFacts ==
  ASSUME NEW h \in HandlerStates, h.looks + 1 < MaxTryTimes
  PROVE  /\ LooksAgain(h) \in HandlerStates
         /\ LooksAgain(h).phase = h.phase
         /\ LooksAgain(h).left = h.left
         /\ LooksAgain(h).text = h.text
<1>1. LooksAgain(h) = [phase |-> h.phase, left |-> h.left, looks |-> h.looks + 1, text |-> h.text]
  BY DEF LooksAgain, HandlerStates
<1>2. h.looks + 1 \in 0 .. MaxTryTimes - 1
  BY FilesConstants DEF HandlerStates
<1> QED
  BY <1>1, <1>2 DEF HandlerStates

LEMMA NoHandlerFacts ==
  /\ NoHandler \in HandlerStates
  /\ [NoHandler EXCEPT !.phase = "done"] \in HandlerStates
  /\ \A h \in {NoHandler, [NoHandler EXCEPT !.phase = "done"]} :
        h.left = {} /\ h.phase \in {"none", "done"} /\ \A n \in Numbers : h.text[n] = 0
<1>1. 0 \in 0 .. MaxTryTimes - 1
  BY FilesConstants
<1> QED
  BY <1>1 DEF NoHandler, HandlerStates, Phases

\* What the type invariant says of the handler of copy c of text t.
HandlerTyped(t, c) ==
    /\ \A n \in handler[t][c].left : fileList[t][n] # "none"
    /\ \A n \in Numbers : handler[t][c].text[n] \in Numbers \union (0 .. Len(recv))

LEMMA FilesTypeSplit ==
  FilesTypeOK <=>
    /\ life \in Lives
    /\ selected \in 0 .. MaxFiles
    /\ means \in [Texts -> [Numbers -> Files]]
    /\ stage \in [Texts -> {"unwritten", "sending", "sent", "dropped"}]
    /\ todo \in [Texts -> Seq(Numbers)]
    /\ tries \in [Texts -> 0 .. MaxTryTimes - 1]
    /\ fileList \in [Texts -> [Numbers -> {"none", "pushed", "named"}]]
    /\ IsABag(pushes) /\ BagToSet(pushes) \subseteq Entries
    /\ recv \in Seq(Entries)
    /\ handler \in [Texts -> [Copies -> HandlerStates]]
    /\ \A t \in Texts, c \in Copies : HandlerTyped(t, c)
    /\ mishaps \subseteq {"restartA", "restartB", "cut", "silent"}
BY DEF FilesTypeOK, HandlerStates, HandlerTyped

LEMMA FilesTypeJoin ==
  ASSUME life' \in Lives,
         selected' \in 0 .. MaxFiles,
         means' \in [Texts -> [Numbers -> Files]],
         stage' \in [Texts -> {"unwritten", "sending", "sent", "dropped"}],
         todo' \in [Texts -> Seq(Numbers)],
         tries' \in [Texts -> 0 .. MaxTryTimes - 1],
         fileList' \in [Texts -> [Numbers -> {"none", "pushed", "named"}]],
         IsABag(pushes') /\ BagToSet(pushes') \subseteq Entries,
         recv' \in Seq(Entries),
         handler' \in [Texts -> [Copies -> HandlerStates]],
         \A t \in Texts, c \in Copies : HandlerTyped(t, c)',
         mishaps' \subseteq {"restartA", "restartB", "cut", "silent"}
  PROVE  FilesTypeOK'
BY DEF FilesTypeOK, HandlerStates, HandlerTyped

\* RecvFileList only grows while handlers keep what they have.
LEMMA GrownIsTyped ==
  ASSUME FilesTypeOK, fileList' = fileList, handler' = handler,
         recv' = recv \/ \E e \in Entries : recv' = Append(recv, e)
  PROVE  \A t \in Texts, c \in Copies : HandlerTyped(t, c)'
<1>1. Len(recv') \in Nat /\ Len(recv) \in Nat /\ Len(recv) <= Len(recv')
  BY DEF FilesTypeOK
<1>2. \A t \in Texts, c \in Copies : HandlerTyped(t, c)
  BY FilesTypeSplit
<1> QED
  BY <1>1, <1>2 DEF HandlerTyped

LEMMA TurnTypes ==
  ASSUME FilesTypeOK, LifeRight, NEW t \in Texts, NEW c \in Copies, NEW n \in Numbers,
         Turns(t, c, n)
  PROVE  FilesTypeOK' /\ LifeRight'
<1> USE FilesTypeSplit, FilesConstants
<1>1. recv' = recv \/ \E e \in Entries : recv' = Append(recv, e)
  <2>1. ASSUME NEW w \in BOOLEAN, n <= selected
        PROVE  Received("pulled", 0, FileOf(life, n), w) \in Entries
    BY <2>1, FileFacts
  <2> QED
    BY <2>1 DEF Turns
<1>2. recv' \in Seq(Entries) /\ Len(recv) <= Len(recv') /\ DOMAIN recv' = 1 .. Len(recv')
      /\ Len(recv) \in Nat /\ Len(recv') \in Nat
  <2>1. recv \in Seq(Entries)
    OBVIOUS
  <2> HIDE FilesTypeSplit, FilesConstants
  <2>2. recv' \in Seq(Entries) /\ Len(recv) <= Len(recv')
    BY <1>1, <2>1
  <2>3. \A q \in Seq(Entries) : DOMAIN q = 1 .. Len(q) /\ Len(q) \in Nat
    OBVIOUS
  <2> QED
    BY <2>1, <2>2, <2>3
<1>3. handler' \in [Texts -> [Copies -> HandlerStates]]
      /\ \A u \in Texts, d \in Copies : HandlerTyped(u, d)'
  <2>1. handler[t][c] \in HandlerStates
    OBVIOUS
  <2>2. PICK h \in HandlerStates :
          /\ handler' = [handler EXCEPT ![t][c] = h]
          /\ h.left \subseteq handler[t][c].left
          /\ \A k \in Numbers : h.text[k] = handler[t][c].text[k] \/ h.text[k] \in 0 .. Len(recv')
    <3>1. CASE /\ handler[t][c].looks + 1 < MaxTryTimes
               /\ handler' = [handler EXCEPT ![t][c] = LooksAgain(@)]
      BY <2>1, <3>1, LooksAgainFacts
    <3>2. ASSUME NEW m \in {0} \union DOMAIN recv',
                 handler' = [handler EXCEPT ![t][c] = Replace(@, n, m)]
          PROVE  \E h \in HandlerStates :
          /\ handler' = [handler EXCEPT ![t][c] = h]
          /\ h.left \subseteq handler[t][c].left
          /\ \A k \in Numbers : h.text[k] = handler[t][c].text[k] \/ h.text[k] \in 0 .. Len(recv')
      <4>1. m \in Nat /\ m \in 0 .. Len(recv')
        <5> HIDE FilesTypeSplit, FilesConstants
        <5> QED
          BY <1>2
      <4> HIDE FilesTypeSplit, FilesConstants
      <4> DEFINE old == handler[t][c]
                 h == Replace(old, n, m)
      <4>2. handler' = [handler EXCEPT ![t][c] = h]
        BY <3>2
      <4> HIDE DEF old
      <4>3. old \in HandlerStates /\ m \in Nat
        BY <2>1, <4>1 DEF old
      <4>4. /\ h \in HandlerStates /\ h.left = old.left \ {n}
            /\ \A k \in Numbers : h.text[k] = IF old.text[k] = n THEN m ELSE old.text[k]
        BY <4>3, ReplaceFacts
      <4> HIDE DEF h
      <4> QED
        BY <4>1, <4>2, <4>4 DEF old
    <3> QED
      BY <3>1, <3>2 DEF Turns
  <2>3. fileList' = fileList
    BY DEF Turns, aVars
  <2>4. ASSUME NEW u \in Texts, NEW d \in Copies
        PROVE  HandlerTyped(u, d)'
    <3>1. HandlerTyped(u, d)
      OBVIOUS
    <3>2. handler'[u][d] = handler[u][d] \/ (u = t /\ d = c /\ handler'[u][d] = h)
      BY <2>2
    <3> HIDE FilesTypeSplit, FilesConstants
    <3>3. \A k \in handler'[u][d].left : fileList'[u][k] # "none"
      BY <2>2, <2>3, <3>1, <3>2 DEF HandlerTyped
    <3>4. ASSUME NEW k \in Numbers
          PROVE  handler'[u][d].text[k] \in Numbers \union (0 .. Len(recv'))
      <4>1. \/ handler'[u][d].text[k] = handler[u][d].text[k]
            \/ handler'[u][d].text[k] \in 0 .. Len(recv')
        BY <2>2, <3>2
      <4>2. handler[u][d].text[k] \in Numbers \union (0 .. Len(recv))
        BY <3>1 DEF HandlerTyped
      <4> QED
        BY <1>2, <4>1, <4>2
    <3> QED
      BY <3>3, <3>4 DEF HandlerTyped
  <2> QED
    BY <2>2, <2>4
<1>4. /\ life' = life /\ selected' = selected /\ means' = means /\ stage' = stage
      /\ todo' = todo /\ tries' = tries /\ fileList' = fileList /\ pushes' = pushes
  BY DEF Turns, aVars
<1>5. mishaps' \in {mishaps, mishaps \union {"cut"}}
  BY DEF Turns
<1>6. FilesTypeOK'
  BY <1>2, <1>3, <1>4, <1>5, FilesTypeJoin
<1> QED
  BY <1>4, <1>5, <1>6 DEF LifeRight

\* Steps of A: RecvFileList and the handlers stay.
LEMMA SenderTypes ==
  ASSUME FilesTypeOK, LifeRight,
         \/ SelectChatFile \/ RestartA
         \/ \E t \in Texts :
               \/ ChatWithText(t) \/ SkipNumber(t) \/ AddMsg(t)
               \/ \E n \in Numbers : Pushes(t, n)
  PROVE  FilesTypeOK' /\ LifeRight'
<1>a. FilesTypeSplit!2
  BY FilesTypeSplit
<1>1. CASE SelectChatFile
  <2>1. selected' \in 0 .. MaxFiles
    BY <1>1, <1>a, FilesConstants DEF SelectChatFile
  <2> QED
    BY <1>1, <1>a, <2>1, FilesTypeJoin DEF SelectChatFile, bVars, HandlerTyped, LifeRight
<1>2. CASE RestartA
  <2>1. /\ mishaps' = mishaps \union {"restartA"} /\ "restartA" \notin mishaps
        /\ mishaps' \subseteq {"restartA", "restartB", "cut", "silent"}
    BY <1>2, MishapEffect DEF RestartA
  <2>2. life' \in Lives /\ LifeRight'
    BY <1>2, <2>1 DEF RestartA, LifeRight, Lives
  <2>3. selected' \in 0 .. MaxFiles
    BY <1>2, FilesConstants DEF RestartA
  <2>4. stage' \in [Texts -> {"unwritten", "sending", "sent", "dropped"}]
    BY <1>2, <1>a DEF RestartA
  <2> QED
    BY <1>2, <1>a, <2>1, <2>2, <2>3, <2>4, FilesTypeJoin DEF RestartA, bVars, HandlerTyped
<1>3. ASSUME NEW t \in Texts, ChatWithText(t)
      PROVE  FilesTypeOK' /\ LifeRight'
  <2>1. stage' \in [Texts -> {"unwritten", "sending", "sent", "dropped"}]
        /\ todo' \in [Texts -> Seq(Numbers)]
    BY <1>3, <1>a, FilesConstants DEF ChatWithText
  <2>2. \A n \in Numbers : n <= selected => FileOf(life, n) \in Files
    BY <1>a, FileFacts, FilesConstants
  <2>3. means' \in [Texts -> [Numbers -> Files]]
    <3> DEFINE M == [n \in Numbers |->
                IF n \in InText(t) /\ n <= selected THEN FileOf(life, n) ELSE NoFile]
    <3>1. M \in [Numbers -> Files]
      BY <2>2, FileFacts
    <3>2. means' = [means EXCEPT ![t] = M]
      BY <1>3 DEF ChatWithText
    <3> HIDE DEF M
    <3> QED
      BY <1>a, <3>1, <3>2
  <2>4. UNCHANGED <<life, selected, tries, fileList, bVars, pushes, mishaps>>
    BY <1>3 DEF ChatWithText
  <2> QED
    BY <1>a, <2>1, <2>3, <2>4, FilesTypeJoin DEF bVars, HandlerTyped, LifeRight
<1>4. ASSUME NEW t \in Texts, NEW n \in Numbers, Pushes(t, n)
      PROVE  FilesTypeOK' /\ LifeRight'
  <2>1. /\ fileList' \in [Texts -> [Numbers -> {"none", "pushed", "named"}]]
        /\ todo' \in [Texts -> Seq(Numbers)]
        /\ \A u \in Texts, k \in Numbers : fileList[u][k] # "none" => fileList'[u][k] # "none"
    <3>1. CASE UNCHANGED <<fileList, todo>>
      BY <1>a, <3>1
    <3>2. ASSUME NEW how \in {"pushed", "named"},
                 fileList' = [fileList EXCEPT ![t][n] = how],
                 todo' = [todo EXCEPT ![t] = Tail(@)]
          PROVE  /\ fileList' \in [Texts -> [Numbers -> {"none", "pushed", "named"}]]
                 /\ todo' \in [Texts -> Seq(Numbers)]
                 /\ \A u \in Texts, k \in Numbers :
                       fileList[u][k] # "none" => fileList'[u][k] # "none"
      <4>1. Tail(todo[t]) \in Seq(Numbers)
        BY <1>a, <1>4, HeadAndTail DEF Pushes
      <4> QED
        BY <1>a, <3>2, <4>1
    <3>3. \/ UNCHANGED <<fileList, todo>>
          \/ \E how \in {"pushed", "named"} : fileList' = [fileList EXCEPT ![t][n] = how]
                                              /\ todo' = [todo EXCEPT ![t] = Tail(@)]
      BY <1>4 DEF Pushes
    <3> QED
      BY <3>1, <3>2, <3>3
  <2>2. IsABag(pushes') /\ BagToSet(pushes') \subseteq Entries
    <3>1. \A w \in BOOLEAN : Received("A", n, FileOf(life, n), w) \in Entries
      <4>1. n <= MaxFiles /\ n \in 0 .. MaxNumber /\ life \in Lives
        <5>1. n <= selected
          BY <1>4 DEF Pushes
        <5> QED
          BY <1>a, <5>1, FilesConstants DEF Numbers
      <4> QED
        BY <4>1, FileFacts
    <3> QED
      BY <1>a, <1>4, <3>1 DEF Pushes
  <2>3. mishaps' \subseteq {"restartA", "restartB", "cut", "silent"} /\ LifeRight'
    <3>1. mishaps' \in {mishaps, mishaps \union {"cut"}} /\ life' = life
      BY <1>4 DEF Pushes
    <3>2. "restartA" \in mishaps' <=> "restartA" \in mishaps
      BY <3>1
    <3> QED
      BY <1>a, <3>1, <3>2 DEF LifeRight
  <2>4. UNCHANGED <<life, selected, means, stage, bVars>> /\ tries' \in [Texts -> 0 .. MaxTryTimes - 1]
    BY <1>4 DEF Pushes
  <2>5. \A u \in Texts, d \in Copies : HandlerTyped(u, d)'
    <3>1. handler' = handler /\ recv' = recv
      BY <2>4 DEF bVars
    <3>2. ASSUME NEW u \in Texts, NEW d \in Copies
          PROVE  handler[u][d].left \subseteq Numbers /\ HandlerTyped(u, d)
      BY <1>a DEF HandlerStates
    <3> QED
      BY <2>1, <3>1, <3>2 DEF HandlerTyped
  <2> QED
    BY <1>a, <2>1, <2>2, <2>3, <2>4, <2>5, FilesTypeJoin DEF bVars
<1>5. ASSUME NEW t \in Texts, SkipNumber(t)
      PROVE  FilesTypeOK' /\ LifeRight'
  <2>1. /\ todo[t] # << >> /\ todo' = [todo EXCEPT ![t] = Tail(@)]
        /\ UNCHANGED <<life, selected, means, stage, bVars, tries, fileList, pushes, mishaps>>
    BY <1>5 DEF SkipNumber, Attempt
  <2>2. Tail(todo[t]) \in Seq(Numbers)
    BY <1>a, <2>1, HeadAndTail
  <2>3. todo' \in [Texts -> Seq(Numbers)]
    BY <1>a, <2>1, <2>2
  <2> QED
    BY <1>a, <2>1, <2>3, FilesTypeJoin DEF bVars, HandlerTyped, LifeRight
<1>6. ASSUME NEW t \in Texts, AddMsg(t)
      PROVE  FilesTypeOK' /\ LifeRight'
  <2>1. /\ stage' \in [Texts -> {"unwritten", "sending", "sent", "dropped"}]
        /\ UNCHANGED <<life, selected, means, todo, tries, fileList, bVars, pushes, mishaps>>
    BY <1>a, <1>6 DEF AddMsg
  <2> QED
    BY <1>a, <2>1, FilesTypeJoin DEF bVars, HandlerTyped, LifeRight
<1> QED
  BY <1>1, <1>2, <1>3, <1>4, <1>5, <1>6

\* Steps of B that leave RecvFileList and what is on its way as they are: one
\* handler changes.
LEMMA HandlerTypes ==
  ASSUME FilesTypeOK, LifeRight, NEW t \in Texts, NEW c \in Copies,
         OnChatWithTextMsg(t, c) \/ PullStalls(t, c) \/ ShowText(t, c)
  PROVE  FilesTypeOK' /\ LifeRight'
<1>a. FilesTypeSplit!2
  BY FilesTypeSplit
<1>1. UNCHANGED <<aVars, recv, pushes>>
      /\ mishaps' \in {mishaps, mishaps \union {"silent"}}
  BY MishapEffect DEF OnChatWithTextMsg, PullStalls, ShowText
<1>2. LifeRight'
  BY <1>1 DEF LifeRight, aVars
<1>3. PICK h \in HandlerStates :
        /\ handler' = [handler EXCEPT ![t][c] = h]
        /\ \A n \in h.left : fileList[t][n] # "none"
        /\ \A n \in Numbers : h.text[n] \in Numbers \union (0 .. Len(recv))
  <2>1. CASE OnChatWithTextMsg(t, c)
    <3> DEFINE h == [phase |-> "busy", left |-> {n \in Numbers : fileList[t][n] # "none"},
                     looks |-> 0, text |-> [n \in Numbers |-> n]]
    <3>1. h \in HandlerStates
      BY FilesConstants DEF HandlerStates, Phases
    <3>2. handler' = [handler EXCEPT ![t][c] = h]
      BY <2>1 DEF OnChatWithTextMsg
    <3>3. /\ \A n \in h.left : fileList[t][n] # "none"
          /\ \A n \in Numbers : h.text[n] = n
      OBVIOUS
    <3> HIDE DEF h
    <3> QED
      BY <3>1, <3>2, <3>3
  <2>2. CASE PullStalls(t, c)
    <3> DEFINE h == [handler[t][c] EXCEPT !.phase = "stuck"]
    <3>1. handler[t][c] \in HandlerStates /\ HandlerTyped(t, c)
      BY <1>a
    <3>2. h \in HandlerStates /\ h.left = handler[t][c].left /\ h.text = handler[t][c].text
      BY <3>1 DEF HandlerStates, Phases
    <3>3. handler' = [handler EXCEPT ![t][c] = h]
      BY <2>2 DEF PullStalls
    <3> HIDE DEF h
    <3> QED
      BY <3>1, <3>2, <3>3 DEF HandlerTyped
  <2>3. CASE ShowText(t, c)
    <3> DEFINE h == [NoHandler EXCEPT !.phase = "done"]
    <3>1. h \in HandlerStates /\ h.left = {} /\ \A n \in Numbers : h.text[n] = 0
      BY NoHandlerFacts
    <3>2. handler' = [handler EXCEPT ![t][c] = h]
      BY <2>3 DEF ShowText
    <3>3. 0 \in 0 .. Len(recv)
      BY <1>a
    <3> HIDE DEF h
    <3> QED
      BY <3>1, <3>2, <3>3
  <2> QED
    BY <2>1, <2>2, <2>3
<1>4. handler' \in [Texts -> [Copies -> HandlerStates]]
  BY <1>a, <1>3
<1>5. ASSUME NEW u \in Texts, NEW d \in Copies
      PROVE  HandlerTyped(u, d)'
  <2>1. handler'[u][d] = handler[u][d] \/ (u = t /\ d = c /\ handler'[u][d] = h)
    BY <1>a, <1>3
  <2>2. HandlerTyped(u, d)
    BY <1>a
  <2> QED
    BY <1>1, <1>3, <2>1, <2>2 DEF HandlerTyped, aVars
<1> QED
  BY <1>a, <1>1, <1>2, <1>4, <1>5, FilesTypeJoin DEF aVars

LEMMA FilesStepTypes ==
  ASSUME FilesTypeOK, LifeRight, [FilesNext]_fileVars
  PROVE  FilesTypeOK' /\ LifeRight'
<1>a. FilesTypeSplit!2
  BY FilesTypeSplit
<1>1. CASE OnSendFileMsg
  <2>1. PICK p \in BagToSet(pushes) :
          /\ pushes' = pushes (-) SetToBag({p})
          /\ recv' \in {recv, Append(recv, p)}
          /\ UNCHANGED <<aVars, handler, shown, mishaps>>
    BY <1>1 DEF OnSendFileMsg
  <2>2. IsABag(pushes') /\ BagToSet(pushes') \subseteq Entries /\ p \in Entries
    <3>1. IsABag(pushes) /\ BagToSet(pushes) \subseteq Entries
      BY <1>a
    <3>2. IsABag(pushes (-) SetToBag({p})) /\ BagToSet(pushes (-) SetToBag({p})) \subseteq BagToSet(pushes)
      BY <3>1, BagRemove
    <3> QED
      BY <2>1, <3>1, <3>2
  <2>3. recv' \in Seq(Entries)
    <3>1. recv \in Seq(Entries) /\ p \in Entries
      BY <1>a, <2>2
    <3>2. Append(recv, p) \in Seq(Entries)
      BY <3>1
    <3> QED
      BY <2>1, <3>1, <3>2
  <2>4. \A t \in Texts, c \in Copies : HandlerTyped(t, c)'
    BY <2>1, <2>2, GrownIsTyped DEF aVars
  <2> QED
    BY <1>a, <2>1, <2>2, <2>3, <2>4, FilesTypeJoin DEF aVars, LifeRight
<1>2. CASE RestartB
  <2>1. /\ UNCHANGED <<aVars, shown>> /\ recv' = << >> /\ pushes' = EmptyBag
        /\ mishaps' = mishaps \union {"restartB"}
        /\ mishaps' \subseteq {"restartA", "restartB", "cut", "silent"}
    BY <1>2, MishapEffect DEF RestartB
  <2>2. IsABag(pushes') /\ BagToSet(pushes') = {}
    <3>1. pushes' = [e \in {} |-> 1]
      BY <2>1 DEF EmptyBag, SetToBag
    <3>2. DOMAIN pushes' = {} /\ pushes' \in [{} -> {n \in Nat : n > 0}]
      BY <3>1
    <3> QED
      BY <3>2 DEF IsABag, BagToSet
  <2>3. handler' \in [Texts -> [Copies -> HandlerStates]]
        /\ \A t \in Texts, c \in Copies :
              handler'[t][c].left = {} /\ \A n \in Numbers : handler'[t][c].text[n] = 0
    <3>1. handler' = [t \in Texts |-> [c \in Copies |->
            IF handler[t][c].phase = "none" THEN NoHandler ELSE [NoHandler EXCEPT !.phase = "done"]]]
      BY <1>2 DEF RestartB
    <3> QED
      BY <3>1, NoHandlerFacts
  <2>4. recv' \in Seq(Entries) /\ Len(recv') = 0
    BY <2>1
  <2>5. \A t \in Texts, c \in Copies : HandlerTyped(t, c)'
    BY <2>3, <2>4 DEF HandlerTyped
  <2> QED
    BY <1>a, <2>1, <2>2, <2>3, <2>4, <2>5, FilesTypeJoin DEF aVars, LifeRight
<1>3. CASE UNCHANGED fileVars
  BY <1>3, <1>a, FilesTypeJoin DEF fileVars, aVars, bVars, HandlerTyped, LifeRight
<1> QED
  BY <1>1, <1>2, <1>3, FilesSteps, SenderTypes, HandlerTypes, TurnTypes

-----------------------------------------------------------------------------
(* What the steps keep *)

LEMMA CleanStays ==
  ASSUME FilesTypeOK, [FilesNext]_fileVars
  PROVE  Clean' => Clean
<1>1. SUFFICES mishaps \subseteq mishaps'
  BY <1>1 DEF Clean
<1>2. ASSUME SelectChatFile \/ OnSendFileMsg \/ UNCHANGED fileVars
      PROVE  mishaps' = mishaps
  BY <1>2 DEF SelectChatFile, OnSendFileMsg, fileVars
<1>3. ASSUME RestartA \/ RestartB
      PROVE  mishaps \subseteq mishaps'
  BY <1>3, MishapEffect DEF RestartA, RestartB
<1>4. ASSUME NEW t \in Texts, ChatWithText(t) \/ SkipNumber(t) \/ AddMsg(t)
      PROVE  mishaps' = mishaps
  BY <1>4 DEF ChatWithText, SkipNumber, AddMsg
<1>5. ASSUME NEW t \in Texts, NEW n \in Numbers, Pushes(t, n)
      PROVE  mishaps \subseteq mishaps'
  BY <1>5 DEF Pushes
<1>6. ASSUME NEW t \in Texts, NEW c \in Copies,
             OnChatWithTextMsg(t, c) \/ PullStalls(t, c) \/ ShowText(t, c)
      PROVE  mishaps \subseteq mishaps'
  BY <1>6, MishapEffect DEF OnChatWithTextMsg, PullStalls, ShowText
<1>7. ASSUME NEW t \in Texts, NEW c \in Copies, NEW n \in Numbers, Turns(t, c, n)
      PROVE  mishaps \subseteq mishaps'
  BY <1>7 DEF Turns
<1> QED
  BY <1>2, <1>3, <1>4, <1>5, <1>6, <1>7, FilesSteps

LEMMA CleanLife ==
  ASSUME LifeRight, Clean
  PROVE  life = 1
BY DEF LifeRight, Clean

LEMMA ReceiverSteps ==
  ASSUME \/ OnSendFileMsg \/ RestartB \/ UNCHANGED fileVars
         \/ \E t \in Texts, c \in Copies :
               \/ OnChatWithTextMsg(t, c) \/ PullStalls(t, c) \/ ShowText(t, c)
               \/ \E n \in Numbers : Turns(t, c, n)
  PROVE  UNCHANGED aVars
<1>1. ASSUME OnSendFileMsg \/ RestartB \/ UNCHANGED fileVars
      PROVE  UNCHANGED aVars
  BY <1>1 DEF OnSendFileMsg, RestartB, fileVars
<1>2. ASSUME NEW t \in Texts, NEW c \in Copies,
             OnChatWithTextMsg(t, c) \/ PullStalls(t, c) \/ ShowText(t, c)
      PROVE  UNCHANGED aVars
  BY <1>2 DEF OnChatWithTextMsg, PullStalls, ShowText
<1>3. ASSUME NEW t \in Texts, NEW c \in Copies, NEW n \in Numbers, Turns(t, c, n)
      PROVE  UNCHANGED aVars
  BY <1>3 DEF Turns
<1> QED
  BY <1>1, <1>2, <1>3

LEMMA SenderSteps ==
  ASSUME \/ SelectChatFile \/ RestartA
         \/ \E t \in Texts :
               \/ ChatWithText(t) \/ SkipNumber(t) \/ AddMsg(t)
               \/ \E n \in Numbers : Pushes(t, n)
  PROVE  UNCHANGED <<recv, handler, shown>>
<1>1. ASSUME SelectChatFile \/ RestartA
      PROVE  UNCHANGED bVars
  BY <1>1 DEF SelectChatFile, RestartA
<1>2. ASSUME NEW t \in Texts, ChatWithText(t) \/ SkipNumber(t) \/ AddMsg(t)
      PROVE  UNCHANGED bVars
  BY <1>2 DEF ChatWithText, SkipNumber, Attempt, AddMsg
<1>3. ASSUME NEW t \in Texts, NEW n \in Numbers, Pushes(t, n)
      PROVE  UNCHANGED bVars
  BY <1>3 DEF Pushes
<1> QED
  BY <1>1, <1>2, <1>3 DEF bVars

\* A text is written once and sent once.
StepOfText(t) ==
    /\ stage[t] # "unwritten" => means'[t] = means[t] /\ stage'[t] # "unwritten"
    /\ stage[t] = "sent" =>
          stage'[t] = "sent" /\ todo'[t] = todo[t] /\ fileList'[t] = fileList[t]
    /\ stage[t] = "unwritten" =>
          \/ ChatWithText(t)
          \/ /\ stage'[t] = "unwritten" /\ means'[t] = means[t]
             /\ fileList'[t] = fileList[t]

LEMMA WrittenStays ==
  ASSUME FilesTypeOK, [FilesNext]_fileVars, NEW t \in Texts
  PROVE  StepOfText(t)
<1>a. FilesTypeSplit!2
  BY FilesTypeSplit
<1>1. CASE UNCHANGED <<stage, means, todo, fileList>>
  BY <1>1 DEF StepOfText
<1>2. CASE RestartA
  BY <1>2, <1>a DEF RestartA, StepOfText
<1>3. ASSUME NEW u \in Texts, ChatWithText(u)
      PROVE  StepOfText(t)
  <2>1. /\ stage[u] = "unwritten" /\ fileList' = fileList
        /\ stage' = [stage EXCEPT ![u] = "sending"]
        /\ todo' = [todo EXCEPT ![u] = Used[u]]
        /\ \A v \in Texts : v # u => means'[v] = means[v]
    BY <1>3, <1>a DEF ChatWithText
  <2> QED
    BY <1>3, <1>a, <2>1 DEF StepOfText
<1>4. ASSUME NEW u \in Texts, SkipNumber(u)
      PROVE  StepOfText(t)
  BY <1>4, <1>a DEF SkipNumber, Attempt, StepOfText
<1>5. ASSUME NEW u \in Texts, AddMsg(u)
      PROVE  StepOfText(t)
  BY <1>5, <1>a DEF AddMsg, StepOfText
<1>6. ASSUME NEW u \in Texts, NEW n \in Numbers, Pushes(u, n)
      PROVE  StepOfText(t)
  <2>1. stage[u] = "sending" /\ stage' = stage /\ means' = means
    BY <1>6 DEF Pushes
  <2>2. \A v \in Texts : v # u => todo'[v] = todo[v] /\ fileList'[v] = fileList[v]
    BY <1>6, <1>a DEF Pushes
  <2> QED
    BY <1>a, <2>1, <2>2 DEF StepOfText
<1>7. CASE SelectChatFile
  BY <1>1, <1>7 DEF SelectChatFile
<1>8. CASE UNCHANGED aVars
  BY <1>1, <1>8 DEF aVars
<1> QED
  BY <1>2, <1>3, <1>4, <1>5, <1>6, <1>7, <1>8, FilesSteps, ReceiverSteps

-----------------------------------------------------------------------------
(* The parts of the invariant *)

LEMMA EntriesKept ==
  ASSUME FilesTypeOK, Right, [FilesNext]_fileVars
  PROVE  EntriesRight'
<1>a. FilesTypeSplit!2 /\ LifeRight /\ EntriesRight
  BY FilesTypeSplit DEF Right
<1>b. Clean' => Clean
  BY CleanStays
<1>1. ASSUME BagToSet(pushes') \subseteq BagToSet(pushes),
             \A i \in DOMAIN recv' : \/ i \in DOMAIN recv /\ recv'[i] = recv[i]
                                     \/ recv'[i].from # "A"
                                     \/ recv'[i] \in BagToSet(pushes)
      PROVE  EntriesRight'
  BY <1>a, <1>b, <1>1 DEF EntriesRight, Honest
<1>2. ASSUME NEW e \in Entries, recv' = Append(recv, e)
      PROVE  \A i \in DOMAIN recv' : \/ i \in DOMAIN recv /\ recv'[i] = recv[i]
                                     \/ recv'[i] = e
  BY <1>a, <1>2
<1>3. CASE UNCHANGED <<pushes, recv>>
  BY <1>1, <1>3
<1>4. ASSUME NEW t \in Texts, NEW n \in Numbers, Pushes(t, n)
      PROVE  EntriesRight'
  <2>1. UNCHANGED <<recv, life>>
    BY <1>4 DEF Pushes, bVars
  <2>2. CASE UNCHANGED <<pushes, mishaps>>
    BY <1>3, <2>1, <2>2
  <2>3. ASSUME NEW w \in BOOLEAN,
               BagToSet(pushes') = BagToSet(pushes) \union {Received("A", n, FileOf(life, n), w)},
               IF w THEN mishaps' = mishaps ELSE mishaps' = mishaps \union {"cut"}
        PROVE  EntriesRight'
    <3> DEFINE e == Received("A", n, FileOf(life, n), w)
    <3>1. e.fid = n /\ e.file = FileOf(life, n) /\ e.whole = w /\ e.file.life = life /\ life > 0
      BY <1>a DEF Received, FileOf, Lives
    <3>2. Clean' => w = TRUE
      BY <2>3 DEF Clean
    <3>3. Clean' => life = 1
      BY <1>a, <1>b, CleanLife
    <3>4. BagToSet(pushes') = BagToSet(pushes) \union {e}
      BY <2>3
    <3> HIDE DEF e
    <3> QED
      BY <1>a, <1>b, <2>1, <3>1, <3>2, <3>3, <3>4 DEF EntriesRight, Honest
  <2> QED
    BY <1>4, <2>2, <2>3 DEF Pushes
<1>5. ASSUME NEW t \in Texts, NEW c \in Copies, NEW n \in Numbers, Turns(t, c, n)
      PROVE  EntriesRight'
  <2>1. pushes' = pushes
    BY <1>5 DEF Turns
  <2>2. ASSUME NEW w \in BOOLEAN, n <= selected,
               recv' = Append(recv, Received("pulled", 0, FileOf(life, n), w))
        PROVE  EntriesRight'
    <3> DEFINE e == Received("pulled", 0, FileOf(life, n), w)
    <3>1. e \in Entries /\ e.from = "pulled"
      <4>1. n <= MaxFiles /\ life \in Lives /\ 0 \in 0 .. MaxNumber
        BY <1>a, <2>2, FilesConstants
      <4>2. FileOf(life, n) \in Files
        BY <4>1, FileFacts
      <4> QED
        BY <4>1, <4>2 DEF Received, Entries
    <3>2. recv' = Append(recv, e)
      BY <2>2
    <3> HIDE DEF e
    <3> QED
      BY <1>1, <1>2, <2>1, <3>1, <3>2
  <2> QED
    BY <1>3, <1>5, <2>1, <2>2 DEF Turns
<1>6. CASE OnSendFileMsg
  <2>1. PICK p \in BagToSet(pushes) :
          /\ pushes' = pushes (-) SetToBag({p})
          /\ recv' \in {recv, Append(recv, p)}
    BY <1>6 DEF OnSendFileMsg
  <2>2. BagToSet(pushes') \subseteq BagToSet(pushes)
    BY <1>a, <2>1, BagRemove
  <2>3. p \in Entries
    BY <1>a
  <2> QED
    BY <1>1, <1>2, <2>1, <2>2, <2>3
<1>7. CASE RestartB
  <2>1. BagToSet(pushes') = {} /\ DOMAIN recv' = {}
    BY <1>7 DEF RestartB, EmptyBag, SetToBag, BagToSet
  <2> QED
    BY <2>1, <1>1
<1> QED
  BY <1>3, <1>4, <1>5, <1>6, <1>7, FilesSteps
     DEF SelectChatFile, RestartA, fileVars, aVars, bVars, ChatWithText, SkipNumber, Attempt,
         AddMsg, OnChatWithTextMsg, PullStalls, ShowText

LEMMA WrittenKept ==
  ASSUME FilesTypeOK, Right, [FilesNext]_fileVars
  PROVE  WrittenRight'
<1>a. FilesTypeSplit!2 /\ LifeRight /\ WrittenRight
  BY FilesTypeSplit DEF Right
<1>b. Clean' => Clean
  BY CleanStays
<1> SUFFICES ASSUME NEW t \in Texts, stage'[t] # "unwritten", NEW n \in Numbers
             PROVE  IF n \in InText(t) /\ n <= MaxFiles
                    THEN means'[t][n].life > 0 /\ (Clean' => means'[t][n] = FileOf(1, n))
                    ELSE means'[t][n] = NoFile
  BY DEF WrittenRight
<1>1. CASE ChatWithText(t)
  <2>1. means'[t][n] = IF n \in InText(t) /\ n <= selected THEN FileOf(life, n) ELSE NoFile
    BY <1>1, <1>a DEF ChatWithText
  <2>2. n \in InText(t) => (n <= MaxFiles <=> n <= selected)
    <3>1. \A k \in InText(t) : k <= MaxFiles => k <= selected
      BY <1>1 DEF ChatWithText
    <3>2. selected \in 0 .. MaxFiles /\ MaxFiles \in Nat /\ n \in Nat
      BY <1>a, FilesConstants
    <3> QED
      BY <3>1, <3>2
  <2>3. life > 0 /\ FileOf(life, n).life = life
    BY <1>a DEF Lives, FileOf
  <2>4. Clean' => life = 1
    BY <1>a, <1>b, CleanLife
  <2> QED
    BY <2>1, <2>2, <2>3, <2>4
<1>2. CASE stage[t] # "unwritten" /\ means'[t] = means[t]
  BY <1>2, <1>a, <1>b DEF WrittenRight
<1> QED
  BY <1>1, <1>2, WrittenStays DEF StepOfText

\* SendTextThread goes on to the next number.
LEMMA TodoEffect ==
  ASSUME todo \in [Texts -> Seq(Numbers)], NEW t \in Texts, todo[t] # << >>,
         todo' = [todo EXCEPT ![t] = Tail(@)]
  PROVE  Todo(t) = {Head(todo[t])} \union Todo(t)'
<1>1. todo[t] \in Seq(Numbers) /\ todo'[t] = Tail(todo[t])
  OBVIOUS
<1>2. {todo[t][i] : i \in DOMAIN todo[t]}
        = {Head(todo[t])} \union {Tail(todo[t])[i] : i \in DOMAIN Tail(todo[t])}
  BY <1>1, HeadAndTail
<1> QED
  BY <1>1, <1>2 DEF Todo

LEMMA NothingToDo ==
  ASSUME NEW t, todo[t] = << >>
  PROVE  Todo(t) = {}
BY DEF Todo

ListedFor(t) ==
    /\ stage[t] = "unwritten" => \A n \in Numbers : fileList[t][n] = "none"
    /\ stage[t] = "sending" =>
          \A n \in Numbers :
              /\ n \in Todo(t) => n \in InText(t)
              /\ means[t][n] # NoFile => n <= selected
    /\ stage[t] = "sent" => todo[t] = << >>
    /\ stage[t] \in {"sending", "sent"} =>
          \A n \in Numbers :
              /\ fileList[t][n] # "none" => means[t][n] # NoFile
              /\ means[t][n] # NoFile => n \in Todo(t) \/ fileList[t][n] # "none"

LEMMA ListedKept ==
  ASSUME FilesTypeOK, Right, [FilesNext]_fileVars
  PROVE  ListedRight'
<1>a. FilesTypeSplit!2 /\ WrittenRight /\ \A t \in Texts : ListedFor(t)
  BY FilesTypeSplit DEF Right, ListedRight, ListedFor
<1> SUFFICES ASSUME NEW t \in Texts
             PROVE  ListedFor(t)'
  BY DEF ListedRight, ListedFor
<1>b. ListedFor(t)
  BY <1>a
<1>1. CASE UNCHANGED aVars
  BY <1>b, <1>1 DEF aVars, ListedFor, Todo
<1>2. CASE SelectChatFile
  <2>1. selected <= selected' /\ \A n \in Numbers : n <= selected => n <= selected'
    <3>1. selected \in Nat /\ selected' = selected + 1 /\ Numbers \subseteq Nat
      BY <1>2, <1>a, FilesConstants DEF SelectChatFile
    <3> QED
      BY <3>1
  <2> QED
    BY <1>2, <1>b, <2>1 DEF SelectChatFile, ListedFor, Todo
<1>3. CASE RestartA
  <2>1. stage'[t] = IF stage[t] = "sending" THEN "dropped" ELSE stage[t]
    BY <1>3 DEF RestartA
  <2> QED
    BY <1>3, <1>b, <2>1 DEF RestartA, ListedFor, Todo
<1>4. ASSUME NEW u \in Texts, ChatWithText(u)
      PROVE  ListedFor(t)'
  <2>1. CASE u # t
    <3>1. /\ stage'[t] = stage[t] /\ means'[t] = means[t] /\ todo'[t] = todo[t]
          /\ fileList' = fileList /\ selected' = selected
      BY <1>4, <1>a, <2>1 DEF ChatWithText
    <3> QED
      BY <1>b, <3>1 DEF ListedFor, Todo
  <2>2. CASE u = t
    <3>1. /\ stage[t] = "unwritten" /\ stage'[t] = "sending" /\ todo'[t] = Used[t]
          /\ fileList' = fileList /\ selected' = selected
      BY <1>4, <1>a, <2>2 DEF ChatWithText
    <3>2. \A n \in Numbers :
            means'[t][n] = IF n \in InText(t) /\ n <= selected THEN FileOf(life, n) ELSE NoFile
      BY <1>4, <1>a, <2>2 DEF ChatWithText
    <3>3. \A n \in Numbers : fileList[t][n] = "none"
      BY <1>b, <3>1 DEF ListedFor
    <3> QED
      BY <3>1, <3>2, <3>3 DEF ListedFor, Todo, InText
  <2> QED
    BY <2>1, <2>2
<1>5. ASSUME NEW u \in Texts, SkipNumber(u)
      PROVE  ListedFor(t)'
  <2>1. PICK n \in Numbers :
          /\ stage[u] = "sending" /\ todo[u] # << >> /\ n = Head(todo[u]) /\ n > selected
          /\ todo' = [todo EXCEPT ![u] = Tail(@)]
          /\ UNCHANGED <<selected, means, stage, fileList>>
    BY <1>5 DEF SkipNumber, Attempt
  <2>2. CASE u # t
    <3>1. todo'[t] = todo[t]
      BY <1>a, <2>1, <2>2
    <3>2. Todo(t)' = Todo(t) /\ UNCHANGED <<selected, means, stage, fileList>>
      BY <2>1, <3>1 DEF Todo
    <3> QED
      BY <1>b, <3>1, <3>2 DEF ListedFor
  <2>3. CASE u = t
    <3>1. Todo(t) = {n} \union Todo(t)'
      BY <1>a, <2>1, <2>3, TodoEffect
    <3>2. means[t][n] = NoFile
      <4>1. ~(n <= selected)
        BY <1>a, <2>1, FilesConstants
      <4> QED
        BY <1>b, <2>1, <2>3, <4>1 DEF ListedFor
    <3>3. UNCHANGED <<selected, means, stage, fileList>> /\ stage[t] = "sending"
      BY <2>1, <2>3
    <3> QED
      BY <1>b, <3>1, <3>2, <3>3 DEF ListedFor
  <2> QED
    BY <2>2, <2>3
<1>6. ASSUME NEW u \in Texts, AddMsg(u)
      PROVE  ListedFor(t)'
  <2>1. /\ stage[u] = "sending" /\ todo[u] = << >>
        /\ stage' = [stage EXCEPT ![u] = "sent"]
        /\ UNCHANGED <<selected, means, todo, fileList>>
    BY <1>6 DEF AddMsg
  <2>2. stage'[t] = IF t = u THEN "sent" ELSE stage[t]
    BY <1>a, <2>1
  <2> QED
    BY <1>b, <2>1, <2>2 DEF ListedFor, Todo
<1>7. ASSUME NEW u \in Texts, NEW n \in Numbers, Pushes(u, n)
      PROVE  ListedFor(t)'
  <2>1. /\ stage[u] = "sending" /\ todo[u] # << >> /\ n = Head(todo[u]) /\ n <= selected
        /\ UNCHANGED <<selected, means, stage>>
    BY <1>7 DEF Pushes
  <2>2. CASE UNCHANGED <<fileList, todo>>
    BY <1>b, <2>1, <2>2 DEF ListedFor, Todo
  <2>3. ASSUME NEW how \in {"pushed", "named"},
               fileList' = [fileList EXCEPT ![u][n] = how],
               todo' = [todo EXCEPT ![u] = Tail(@)]
        PROVE  ListedFor(t)'
    <3>1. CASE u # t
      <4>1. todo'[t] = todo[t] /\ fileList'[t] = fileList[t]
        BY <1>a, <2>3, <3>1
      <4> QED
        BY <1>b, <2>1, <4>1 DEF ListedFor, Todo
    <3>2. CASE u = t
      <4>1. Todo(t) = {n} \union Todo(t)'
        BY <1>a, <2>1, <2>3, <3>2, TodoEffect
      <4>2. \A k \in Numbers : fileList'[t][k] = IF k = n THEN how ELSE fileList[t][k]
        BY <1>a, <2>3, <3>2
      <4>3. n \in InText(t) /\ n <= MaxFiles
        <5>1. n \in InText(t)
          BY <1>b, <2>1, <3>2, <4>1 DEF ListedFor
        <5>2. n \in Nat /\ selected \in 0 .. MaxFiles /\ MaxFiles \in Nat
          BY <1>a, FilesConstants
        <5> QED
          BY <2>1, <5>1, <5>2
      <4>4. means[t][n] # NoFile
        <5>1. stage[t] = "sending" /\ WrittenRight
          BY <1>a, <2>1, <3>2
        <5>2. means[t][n].life > 0
          BY <4>3, <5>1 DEF WrittenRight
        <5>3. NoFile.life = 0
          BY DEF NoFile
        <5> QED
          BY <5>2, <5>3
      <4> QED
        BY <1>b, <2>1, <3>2, <4>1, <4>2, <4>4 DEF ListedFor
    <3> QED
      BY <3>1, <3>2
  <2> QED
    BY <1>7, <2>2, <2>3 DEF Pushes
<1> QED
  BY <1>1, <1>2, <1>3, <1>4, <1>5, <1>6, <1>7, FilesSteps, ReceiverSteps

\* Entry e answers after the step.
WillAnswer(e, t, n) ==
    /\ e.file.life > 0
    /\ Clean' => /\ e.whole = TRUE
                 /\ \E k \in FilesIn(t)' : Rank[k] >= Rank[n] /\ e.file = means'[t][k]

\* A file that was found for a text answers it from then on.
LEMMA AnswersStays ==
  ASSUME FilesTypeOK, [FilesNext]_fileVars, NEW t \in Texts, stage[t] = "sent",
         NEW n \in Numbers, NEW e, Answers(e, t, n)
  PROVE  WillAnswer(e, t, n)
<1>1. means'[t] = means[t] /\ (Clean' => Clean)
  BY WrittenStays, CleanStays DEF StepOfText
<1>2. FilesIn(t)' = FilesIn(t)
  BY <1>1 DEF FilesIn
<1> QED
  BY <1>1, <1>2 DEF Answers, WillAnswer

LEMMA ShownKept ==
  ASSUME FilesTypeOK, Right, [FilesNext]_fileVars
  PROVE  ShownRight'
<1>a. FilesTypeSplit!2 /\ HandlersRight /\ ShownRight
  BY FilesTypeSplit DEF Right
<1>b. \A t \in Texts : stage[t] = "sent" => stage'[t] = "sent" /\ means'[t] = means[t]
  BY WrittenStays DEF StepOfText
<1> SUFFICES ASSUME NEW s \in shown'
             PROVE  /\ s.text \in Texts /\ s.at \in Numbers
                    /\ stage'[s.text] = "sent"
                    /\ \/ means'[s.text][s.at] = NoFile
                       \/ s.number = 0
                       \/ WillAnswer(s.found, s.text, s.at)
  BY DEF ShownRight, Answers, WillAnswer
<1>1. SUFFICES /\ s.text \in Texts /\ s.at \in Numbers /\ stage[s.text] = "sent"
               /\ \/ means[s.text][s.at] = NoFile
                  \/ s.number = 0
                  \/ Answers(s.found, s.text, s.at)
  <2>1. CASE means[s.text][s.at] = NoFile \/ s.number = 0
    BY <1>b, <1>1, <2>1
  <2>2. CASE Answers(s.found, s.text, s.at)
    BY <1>b, <1>1, <2>2, AnswersStays
  <2> QED
    BY <1>b, <1>1, <2>1, <2>2
<1>2. CASE s \in shown
  BY <1>a, <1>2 DEF ShownRight
<1>3. CASE s \notin shown
  <2>1. PICK t \in Texts, c \in Copies : ShowText(t, c)
    <3>1. ASSUME OnSendFileMsg \/ RestartB \/ UNCHANGED fileVars
          PROVE  shown' = shown
      BY <3>1 DEF OnSendFileMsg, RestartB, fileVars, bVars
    <3>2. ASSUME NEW t \in Texts, NEW c \in Copies,
                 OnChatWithTextMsg(t, c) \/ PullStalls(t, c) \/ \E n \in Numbers : Turns(t, c, n)
          PROVE  shown' = shown
      BY <3>2 DEF OnChatWithTextMsg, PullStalls, Turns
    <3> QED
      BY <1>3, <3>1, <3>2, FilesSteps, SenderSteps
  <2>2. PICK n \in InText(t) :
          s = [text |-> t, at |-> n, number |-> handler[t][c].text[n],
               found |-> Resolved(handler[t][c].text[n])]
    BY <1>3, <2>1 DEF ShowText
  <2>3. n \in Numbers /\ handler[t][c].phase = "busy" /\ handler[t][c].left = {}
    BY <2>1, FilesConstants DEF ShowText
  <2>4. /\ stage[t] = "sent"
        /\ \/ means[t][n] = NoFile
           \/ handler[t][c].text[n] = 0
           \/ /\ handler[t][c].text[n] \in DOMAIN recv
              /\ Answers(recv[handler[t][c].text[n]], t, n)
    BY <1>a, <2>3 DEF HandlersRight
  <2>5. handler[t][c].text[n] \in DOMAIN recv => s.found = recv[handler[t][c].text[n]]
    BY <2>2 DEF Resolved
  <2>6. s.text = t /\ s.at = n /\ s.number = handler[t][c].text[n]
    BY <2>2
  <2> QED
    BY <2>3, <2>4, <2>5, <2>6
<1> QED
  BY <1>2, <1>3

HandlerRight(t, c) ==
    handler[t][c].phase = "busy" =>
        /\ stage[t] = "sent"
        /\ \A n \in handler[t][c].left : handler[t][c].text[n] = n
        /\ \A n \in Numbers \ handler[t][c].left, k \in handler[t][c].left :
              means[t][n] = NoFile \/ Rank[n] <= Rank[k]
        /\ \A n \in Numbers \ handler[t][c].left :
              \/ means[t][n] = NoFile
              \/ handler[t][c].text[n] = 0
              \/ /\ handler[t][c].text[n] \in DOMAIN recv
                 /\ Answers(recv[handler[t][c].text[n]], t, n)

\* What is to be shown of the handler of copy c of text t after a step.
HandlerWillBeRight(t, c) ==
    handler'[t][c].phase = "busy" =>
        /\ stage'[t] = "sent"
        /\ \A n \in handler'[t][c].left : handler'[t][c].text[n] = n
        /\ \A n \in Numbers \ handler'[t][c].left, k \in handler'[t][c].left :
              means'[t][n] = NoFile \/ Rank[n] <= Rank[k]
        /\ \A n \in Numbers \ handler'[t][c].left :
              \/ means'[t][n] = NoFile
              \/ handler'[t][c].text[n] = 0
              \/ /\ handler'[t][c].text[n] \in DOMAIN recv'
                 /\ WillAnswer(recv'[handler'[t][c].text[n]], t, n)

LEMMA HandlersWillBe ==
  ASSUME \A t \in Texts, c \in Copies : HandlerWillBeRight(t, c)
  PROVE  HandlersRight'
BY DEF HandlerWillBeRight, HandlersRight, WillAnswer, Answers

\* A handler that does not turn, while RecvFileList does not shrink.
LEMMA RestingHandler ==
  ASSUME FilesTypeOK, [FilesNext]_fileVars, NEW t \in Texts, NEW c \in Copies,
         HandlerRight(t, c), handler'[t][c] = handler[t][c],
         \A i \in DOMAIN recv : i \in DOMAIN recv' /\ recv'[i] = recv[i]
  PROVE  HandlerWillBeRight(t, c)
<1> SUFFICES ASSUME handler[t][c].phase = "busy"
             PROVE  HandlerWillBeRight(t, c)
  BY DEF HandlerWillBeRight
<1>1. stage[t] = "sent" /\ stage'[t] = "sent" /\ means'[t] = means[t]
  BY WrittenStays DEF StepOfText, HandlerRight
<1>2. \A n \in Numbers \ handler[t][c].left :
          \/ means'[t][n] = NoFile
          \/ handler[t][c].text[n] = 0
          \/ /\ handler[t][c].text[n] \in DOMAIN recv'
             /\ WillAnswer(recv'[handler[t][c].text[n]], t, n)
  BY <1>1, AnswersStays DEF HandlerRight
<1>3. /\ \A n \in handler[t][c].left : handler[t][c].text[n] = n
      /\ \A n \in Numbers \ handler[t][c].left, k \in handler[t][c].left :
            means[t][n] = NoFile \/ Rank[n] <= Rank[k]
  BY DEF HandlerRight
<1> QED
  BY <1>1, <1>2, <1>3 DEF HandlerWillBeRight

\* The handler that turns.
LEMMA TurningHandler ==
  ASSUME FilesTypeOK, Right, [FilesNext]_fileVars, NEW t \in Texts, NEW c \in Copies,
         NEW n \in Numbers, Turns(t, c, n)
  PROVE  /\ HandlerWillBeRight(t, c)
         /\ \A i \in DOMAIN recv : i \in DOMAIN recv' /\ recv'[i] = recv[i]
<1>a. FilesTypeSplit!2 /\ LifeRight /\ EntriesRight /\ WrittenRight /\ ListedRight /\ HandlerRight(t, c)
  BY FilesTypeSplit DEF Right, HandlersRight, HandlerRight
<1>b. Clean' => Clean
  BY CleanStays
<1> DEFINE old == handler[t][c]
<1>c. handler \in [Texts -> [Copies -> HandlerStates]] /\ old \in HandlerStates
  BY <1>a
<1>d. old.phase = "busy" /\ n \in old.left /\ \A k \in old.left : Rank[n] <= Rank[k]
  BY DEF Turns
<1>1. \A i \in DOMAIN recv : i \in DOMAIN recv' /\ recv'[i] = recv[i]
  <2>1. ASSUME NEW w \in BOOLEAN, n <= selected,
               recv' = Append(recv, Received("pulled", 0, FileOf(life, n), w))
        PROVE  \A i \in DOMAIN recv : i \in DOMAIN recv' /\ recv'[i] = recv[i]
    BY <1>a, <2>1
  <2> QED
    BY <2>1 DEF Turns
<1>2. stage[t] = "sent" /\ stage'[t] = "sent" /\ means'[t] = means[t] /\ FilesIn(t)' = FilesIn(t)
  <2>1. stage[t] = "sent"
    BY <1>a, <1>d DEF HandlerRight
  <2>2. stage'[t] = "sent" /\ means'[t] = means[t]
    BY <2>1, WrittenStays DEF StepOfText
  <2> QED
    BY <2>1, <2>2 DEF FilesIn
\* Number n is a file's, and its text is still its own number.
<1>3. /\ means[t][n] # NoFile /\ old.text[n] = n
      /\ Clean => means[t][n] = FileOf(1, n)
  <2>1. fileList[t][n] # "none"
    BY <1>a, <1>d DEF HandlerTyped
  <2>2. means[t][n] # NoFile
    BY <1>a, <1>2, <2>1 DEF ListedRight
  <2>3. Clean => means[t][n] = FileOf(1, n)
    BY <1>a, <1>2, <2>2 DEF WrittenRight
  <2> QED
    BY <1>a, <1>d, <2>2, <2>3 DEF HandlerRight
\* What was put for the numbers before still answers.
<1>4. \A k \in Numbers \ old.left :
          \/ means[t][k] = NoFile
          \/ old.text[k] = 0
          \/ old.text[k] \in DOMAIN recv' /\ WillAnswer(recv'[old.text[k]], t, k)
  BY <1>1, <1>2, <1>a, <1>d, AnswersStays DEF HandlerRight
<1>5. /\ \A k \in old.left : old.text[k] = k
      /\ \A k \in Numbers \ old.left, j \in old.left :
            means[t][k] = NoFile \/ Rank[k] <= Rank[j]
  BY <1>a, <1>d DEF HandlerRight
<1> HIDE DEF old
<1>6. ASSUME old.looks + 1 < MaxTryTimes,
             handler' = [handler EXCEPT ![t][c] = LooksAgain(@)]
      PROVE  HandlerWillBeRight(t, c)
  <2>1. handler'[t][c] = LooksAgain(old)
    BY <1>6, <1>c DEF old
  <2>2. /\ handler'[t][c].left = old.left /\ handler'[t][c].text = old.text
    BY <1>6, <1>c, <2>1, LooksAgainFacts
  <2> QED
    BY <1>2, <1>4, <1>5, <2>2 DEF HandlerWillBeRight
<1>7. ASSUME NEW m \in {0} \union DOMAIN recv',
             handler' = [handler EXCEPT ![t][c] = Replace(@, n, m)],
             \/ m = 0
             \/ recv'[m].from = "A" /\ recv'[m].fid = n /\ recv' = recv
             \/ \E w \in BOOLEAN :
                   /\ n <= selected
                   /\ recv'[m] = Received("pulled", 0, FileOf(life, n), w)
                   /\ IF w THEN TRUE ELSE "cut" \in mishaps'
      PROVE  HandlerWillBeRight(t, c)
  <2>1. m \in Nat
    <3>1. FilesTypeOK'
      BY <1>a, FilesStepTypes
    <3>2. recv' \in Seq(Entries)
      BY <3>1 DEF FilesTypeOK
    <3>3. DOMAIN recv' \subseteq Nat
      BY <3>2
    <3> QED
      BY <3>3
  <2>2. handler'[t][c] = Replace(old, n, m)
    BY <1>7, <1>c DEF old
  <2>3. /\ handler'[t][c].left = old.left \ {n}
        /\ \A k \in Numbers : handler'[t][c].text[k] = IF old.text[k] = n THEN m ELSE old.text[k]
    BY <1>c, <2>1, <2>2, ReplaceFacts
  \* The new number is 0 or a file's, and the right one's.
  <2>4. m # 0 => /\ m \in DOMAIN recv' /\ recv'[m].file.life > 0
                 /\ Clean' => recv'[m].file = FileOf(1, n) /\ recv'[m].whole = TRUE
    <3>1. CASE recv'[m].from = "A" /\ recv'[m].fid = n /\ recv' = recv /\ m # 0
      <4>1. m \in DOMAIN recv
        BY <1>7, <3>1
      <4> QED
        BY <1>a, <1>b, <3>1, <4>1 DEF EntriesRight, Honest
    <3>2. ASSUME NEW w \in BOOLEAN, recv'[m] = Received("pulled", 0, FileOf(life, n), w),
                 IF w THEN TRUE ELSE "cut" \in mishaps'
          PROVE  /\ recv'[m].file.life > 0
                 /\ Clean' => recv'[m].file = FileOf(1, n) /\ recv'[m].whole = TRUE
      <4>1. recv'[m].file = FileOf(life, n) /\ recv'[m].whole = w /\ recv'[m].file.life = life
        BY <3>2 DEF Received, FileOf
      <4>2. life > 0 /\ (Clean' => life = 1)
        BY <1>a, <1>b, CleanLife DEF Lives
      <4>3. Clean' => w = TRUE
        BY <3>2 DEF Clean
      <4> QED
        BY <4>1, <4>2, <4>3
    <3> QED
      BY <1>7, <3>1, <3>2
  <2>5. \A k \in old.left \ {n} : handler'[t][c].text[k] = k
    <3>1. old.left \subseteq Numbers
      BY <1>c DEF HandlerStates
    <3> QED
      BY <1>5, <2>3, <3>1
  <2>6. ASSUME NEW k \in Numbers \ (old.left \ {n})
        PROVE  \/ means'[t][k] = NoFile
               \/ handler'[t][c].text[k] = 0
               \/ /\ handler'[t][c].text[k] \in DOMAIN recv'
                  /\ WillAnswer(recv'[handler'[t][c].text[k]], t, k)
    <3>1. CASE old.text[k] # n
      <4>1. k \in Numbers \ old.left /\ handler'[t][c].text[k] = old.text[k]
        BY <1>3, <2>3, <3>1
      <4> QED
        BY <1>2, <1>4, <4>1
    \* The number put for k before is n, or k is n.
    <3>2. CASE old.text[k] = n /\ m # 0 /\ means[t][k] # NoFile
      <4>1. handler'[t][c].text[k] = m
        BY <2>3, <3>2
      <4>2. n \in FilesIn(t)' /\ Rank[n] >= Rank[k]
        <5>1. n \in FilesIn(t)
          BY <1>3 DEF FilesIn
        <5>2. k = n \/ Rank[k] <= Rank[n]
          BY <1>5, <1>d, <3>2
        <5> QED
          BY <1>2, <5>1, <5>2, FilesConstants
      <4>3. Clean' => recv'[m].file = means'[t][n] /\ recv'[m].whole = TRUE
        BY <1>2, <1>3, <1>b, <2>4, <3>2
      <4> QED
        BY <2>4, <3>2, <4>1, <4>2, <4>3 DEF WillAnswer
    <3>3. CASE old.text[k] = n /\ (m = 0 \/ means[t][k] = NoFile)
      BY <1>2, <2>3, <3>3
    <3> QED
      BY <3>1, <3>2, <3>3
  <2>7. \A k \in Numbers \ (old.left \ {n}), j \in old.left \ {n} :
            means'[t][k] = NoFile \/ Rank[k] <= Rank[j]
    BY <1>2, <1>5, <1>d
  <2> QED
    BY <1>2, <2>3, <2>5, <2>6, <2>7 DEF HandlerWillBeRight
<1> QED
  BY <1>1, <1>6, <1>7 DEF Turns, old

LEMMA HandlersKept ==
  ASSUME FilesTypeOK, Right, [FilesNext]_fileVars
  PROVE  HandlersRight'
<1>a. FilesTypeSplit!2 /\ ListedRight /\ \A t \in Texts, c \in Copies : HandlerRight(t, c)
  BY FilesTypeSplit DEF Right, HandlersRight, HandlerRight
<1> SUFFICES ASSUME NEW t \in Texts, NEW c \in Copies
             PROVE  HandlerWillBeRight(t, c)
  BY HandlersWillBe
<1>b. HandlerRight(t, c)
  BY <1>a
<1>1. CASE handler'[t][c] = handler[t][c] /\ recv' = recv
  BY <1>b, <1>1, RestingHandler
<1>2. ASSUME NEW u \in Texts, NEW d \in Copies, NEW n \in Numbers, Turns(u, d, n)
      PROVE  HandlerWillBeRight(t, c)
  <2>1. CASE u = t /\ d = c
    BY <1>2, <2>1, TurningHandler
  <2>2. CASE ~(u = t /\ d = c)
    <3>1. handler'[t][c] = handler[t][c]
      <4>1. \E h : handler' = [handler EXCEPT ![u][d] = h]
        BY <1>2 DEF Turns
      <4> QED
        BY <1>a, <2>2, <4>1
    <3>2. \A i \in DOMAIN recv : i \in DOMAIN recv' /\ recv'[i] = recv[i]
      BY <1>2, TurningHandler
    <3> QED
      BY <1>b, <3>1, <3>2, RestingHandler
  <2> QED
    BY <2>1, <2>2
<1>3. CASE OnSendFileMsg
  <2>1. PICK p \in BagToSet(pushes) : recv' \in {recv, Append(recv, p)} /\ handler' = handler
    BY <1>3 DEF OnSendFileMsg
  <2>2. \A i \in DOMAIN recv : i \in DOMAIN recv' /\ recv'[i] = recv[i]
    <3>1. p \in Entries /\ recv \in Seq(Entries)
      BY <1>a
    <3> QED
      BY <2>1, <3>1
  <2> QED
    BY <1>b, <2>1, <2>2, RestingHandler
<1>4. ASSUME NEW u \in Texts, NEW d \in Copies, OnChatWithTextMsg(u, d)
      PROVE  HandlerWillBeRight(t, c)
  <2>1. UNCHANGED <<aVars, recv>> /\ stage[u] = "sent"
    BY <1>4 DEF OnChatWithTextMsg
  <2>2. CASE ~(u = t /\ d = c)
    <3>1. handler'[t][c] = handler[t][c]
      BY <1>a, <1>4, <2>2 DEF OnChatWithTextMsg
    <3> QED
      BY <1>1, <2>1, <3>1
  <2>3. CASE u = t /\ d = c
    <3>1. /\ handler'[t][c].left = {n \in Numbers : fileList[t][n] # "none"}
          /\ \A n \in Numbers : handler'[t][c].text[n] = n
      BY <1>a, <1>4, <2>3 DEF OnChatWithTextMsg
    <3>2. stage'[t] = "sent" /\ means' = means
      BY <2>1, <2>3 DEF aVars
    <3>3. \A n \in Numbers : fileList[t][n] = "none" => means[t][n] = NoFile
      BY <1>a, <2>1, <2>3, NothingToDo DEF ListedRight
    <3> QED
      BY <3>1, <3>2, <3>3 DEF HandlerWillBeRight
  <2> QED
    BY <2>2, <2>3
<1>5. ASSUME NEW u \in Texts, NEW d \in Copies, PullStalls(u, d) \/ ShowText(u, d)
      PROVE  HandlerWillBeRight(t, c)
  <2>1. CASE ~(u = t /\ d = c)
    <3>1. handler'[t][c] = handler[t][c] /\ recv' = recv
      BY <1>a, <1>5, <2>1 DEF PullStalls, ShowText
    <3> QED
      BY <1>1, <3>1
  <2>2. CASE u = t /\ d = c
    <3>1. handler'[t][c].phase \in {"stuck", "done"}
      BY <1>a, <1>5, <2>2 DEF PullStalls, ShowText, HandlerStates, NoHandler
    <3> QED
      BY <3>1 DEF HandlerWillBeRight
  <2> QED
    BY <2>1, <2>2
<1>6. CASE RestartB
  <2>1. handler'[t][c] \in {NoHandler, [NoHandler EXCEPT !.phase = "done"]}
    BY <1>6 DEF RestartB
  <2>2. handler'[t][c].phase \in {"none", "done"}
    BY <2>1, NoHandlerFacts
  <2> QED
    BY <2>2 DEF HandlerWillBeRight
<1>7. CASE UNCHANGED fileVars
  BY <1>1, <1>7 DEF fileVars, bVars
<1> QED
  BY <1>1, <1>2, <1>3, <1>4, <1>5, <1>6, <1>7, FilesSteps, SenderSteps

-----------------------------------------------------------------------------
(* The theorems *)

LEMMA FilesBegin ==
  ASSUME FilesInit
  PROVE  FilesInv
<1>1. FilesTypeOK
  <2>1. 1 \in Lives /\ 0 \in 0 .. MaxFiles /\ 0 \in 0 .. MaxTryTimes - 1 /\ 0 \in 0 .. MaxNumber
    BY FilesConstants DEF Lives
  <2>2. IsABag(pushes) /\ BagToSet(pushes) = {}
    <3>1. pushes = [e \in {} |-> 1]
      BY DEF FilesInit, EmptyBag, SetToBag
    <3>2. DOMAIN pushes = {} /\ pushes \in [{} -> {n \in Nat : n > 0}]
      BY <3>1
    <3> QED
      BY <3>2 DEF IsABag, BagToSet
  <2>3. recv \in Seq(Entries)
    <3>1. PICK k \in 0 .. MaxStrangers :
            recv \in [1 .. k -> {Received("other", n, NoFile, TRUE) : n \in 1 .. MaxFiles}]
      BY DEF FilesInit
    <3>2. \A n \in 1 .. MaxFiles : Received("other", n, NoFile, TRUE) \in Entries
      <4>1. 1 .. MaxFiles \subseteq 0 .. MaxNumber
        BY FilesConstants
      <4> QED
        BY <4>1, FileFacts
    <3>3. k \in Nat
      BY FilesAssumption
    <3> DEFINE S == {Received("other", n, NoFile, TRUE) : n \in 1 .. MaxFiles}
    <3>4. S \subseteq Entries
      BY <3>2
    <3>5. recv \in [1 .. k -> S]
      BY <3>1
    <3> HIDE DEF S
    <3>6. recv \in [1 .. k -> Entries]
      BY <3>4, <3>5
    <3> QED
      BY <3>3, <3>6
  <2>4. handler \in [Texts -> [Copies -> HandlerStates]]
        /\ \A t \in Texts, c \in Copies :
              handler[t][c].left = {} /\ \A n \in Numbers : handler[t][c].text[n] = 0
    BY NoHandlerFacts DEF FilesInit
  <2>5. \A t \in Texts, c \in Copies : HandlerTyped(t, c)
    BY <2>3, <2>4 DEF HandlerTyped
  <2>6. means \in [Texts -> [Numbers -> Files]]
    BY DEF FilesInit, Files
  <2>7. /\ stage \in [Texts -> {"unwritten", "sending", "sent", "dropped"}]
        /\ todo \in [Texts -> Seq(Numbers)]
        /\ fileList \in [Texts -> [Numbers -> {"none", "pushed", "named"}]]
        /\ mishaps \subseteq {"restartA", "restartB", "cut", "silent"}
    BY DEF FilesInit
  <2>8. life \in Lives /\ selected \in 0 .. MaxFiles /\ tries \in [Texts -> 0 .. MaxTryTimes - 1]
    BY <2>1 DEF FilesInit
  <2> QED
    BY <2>2, <2>3, <2>4, <2>5, <2>6, <2>7, <2>8, FilesTypeSplit
<1>2. LifeRight
  BY DEF FilesInit, LifeRight
<1>3. EntriesRight
  <2>1. BagToSet(pushes) = {}
    BY DEF FilesInit, EmptyBag, SetToBag, BagToSet
  <2>2. \A i \in DOMAIN recv : recv[i].from = "other"
    BY DEF FilesInit, Received
  <2> QED
    BY <2>1, <2>2 DEF EntriesRight, Honest
<1>4. \A t \in Texts : stage[t] = "unwritten" /\ \A n \in Numbers : fileList[t][n] = "none"
  BY DEF FilesInit
<1>5. WrittenRight /\ ListedRight
  BY <1>4 DEF WrittenRight, ListedRight
<1>6. HandlersRight
  BY DEF FilesInit, HandlersRight, NoHandler
<1>7. ShownRight
  BY DEF FilesInit, ShownRight
<1> QED
  BY <1>1, <1>2, <1>3, <1>5, <1>6, <1>7 DEF FilesInv, Right

LEMMA FilesInvariant == FilesSpec => []FilesInv
<1>1. FilesInit => FilesInv
  BY FilesBegin
<1>2. FilesInv /\ [FilesNext]_fileVars => FilesInv'
  BY FilesStepTypes, EntriesKept, WrittenKept, ListedKept, HandlersKept, ShownKept
     DEF FilesInv, Right
<1> QED
  BY <1>1, <1>2, PTL DEF FilesSpec

\* The counters of OnChatWithTextMsg and SendTextThread stay below
\* MAX_TRY_TIMES; only listed numbers are left to replace, and what is put for
\* a number of A is a position of RecvFileList, which only grows, or 0.
THEOREM FilesTypeCorrect == FilesSpec => []FilesTypeOK
<1>1. FilesInv => FilesTypeOK
  BY DEF FilesInv
<1> QED
  BY <1>1, FilesInvariant, PTL

\* What the chat window finds for a file of A (GetRecvFile) is a file of A that
\* B has received or pulled, or the text shows 0, although a number that was
\* replaced can be replaced again.
THEOREM NoDanglingHolds == FilesSpec => []NoDangling
<1>1. FilesInv => NoDangling
  BY DEF FilesInv, Right, ShownRight, Answers, NoDangling
<1> QED
  BY <1>1, FilesInvariant, PTL

\* OnChatWithTextMsg shows in the place of each file of a text a whole file of
\* this text, its own or one later in the list, or 0, for pushes and pulls in
\* any order, any number of copies, lost connections and restarts of B, as long
\* as A runs on and no transfer breaks off in the middle.
THEOREM ShownIsOfTextHolds == FilesSpec => []ShownIsOfText
<1>1. FilesInv => ShownIsOfText
  <2> SUFFICES ASSUME FilesInv, Clean, NEW s \in shown
               PROVE  \/ means[s.text][s.at] = NoFile
                      \/ s.number = 0
                      \/ /\ s.found.whole
                         /\ \E n \in FilesIn(s.text) :
                               Rank[n] >= Rank[s.at] /\ s.found.file = means[s.text][n]
    BY DEF ShownIsOfText, Clean
  <2>1. \/ means[s.text][s.at] = NoFile
        \/ s.number = 0
        \/ Answers(s.found, s.text, s.at)
    BY DEF FilesInv, Right, ShownRight
  <2> QED
    BY <2>1 DEF Answers
<1> QED
  BY <1>1, FilesInvariant, PTL

-----------------------------------------------------------------------------
(* The argument behind TakenIsShown *)

LEMMA Least ==
  ASSUME NEW T \in SUBSET Nat, T # {}
  PROVE  \E x \in T : \A y \in T : x <= y
<1> DEFINE R == OpToRel(<, Nat)
<1>1. IsWellFoundedOn(R, Nat)
  BY NatLessThanWellFounded
<1>2. \A x, y \in Nat : <<x, y>> \in R <=> x < y
  BY DEF OpToRel
<1> HIDE DEF R
<1>3. PICK x \in T : \A y \in T : ~ (<<y, x>> \in R)
  BY <1>1, WFMin
<1>4. ASSUME NEW y \in T
      PROVE  x <= y
  <2>1. x \in Nat /\ y \in Nat /\ ~ (<<y, x>> \in R)
    BY <1>3
  <2> QED
    BY <1>2, <2>1
<1> QED
  BY <1>4

\* One of the numbers that are left comes first in the order of the list.
LEMMA FirstLeft ==
  ASSUME NEW S \in SUBSET Numbers, S # {}
  PROVE  \E n \in S : \A k \in S : Rank[n] <= Rank[k]
<1>1. \A n \in S : Rank[n] \in Nat
  BY FilesAssumption DEF Numbers
<1> DEFINE T == {Rank[n] : n \in S}
<1>2. T \in SUBSET Nat /\ T # {}
  BY <1>1
<1>3. PICK x \in T : \A y \in T : x <= y
  BY <1>2, Least
<1> QED
  BY <1>3

LEMMA BusyHasNext == FilesTypeOK => NeverIdle
<1> SUFFICES ASSUME FilesTypeOK, NEW t \in Texts, NEW c \in Copies,
                    handler[t][c].phase = "busy", handler[t][c].left # {}
             PROVE  \E n \in Numbers : Handles(t, c, n) /\ fileList[t][n] \in {"pushed", "named"}
  BY DEF NeverIdle
<1>1. handler[t][c] \in HandlerStates /\ HandlerTyped(t, c)
      /\ fileList[t] \in [Numbers -> {"none", "pushed", "named"}]
  BY FilesTypeSplit
<1>2. handler[t][c].left \in SUBSET Numbers
  BY <1>1 DEF HandlerStates
<1>3. PICK n \in handler[t][c].left : \A k \in handler[t][c].left : Rank[n] <= Rank[k]
  BY <1>2, FirstLeft
<1> QED
  BY <1>1, <1>2, <1>3 DEF Handles, HandlerTyped

\* What AdvanceStep says of one copy.
Nearer(t, c) ==
    \/ handler'[t][c] = handler[t][c]
    \/ handler'[t][c].phase = "done"
    \/ handler'[t][c].phase = "stuck" /\ "silent" \in mishaps'
    \/ /\ handler'[t][c].phase = "busy"
       /\ \/ /\ handler'[t][c].left \subseteq handler[t][c].left
             /\ handler'[t][c].left # handler[t][c].left
          \/ /\ handler'[t][c].left = handler[t][c].left
             /\ handler[t][c].looks < handler'[t][c].looks
             /\ handler'[t][c].looks < MaxTryTimes

LEMMA TurnIsNearer ==
  ASSUME FilesTypeOK, LifeRight, NEW t \in Texts, NEW c \in Copies, NEW n \in Numbers,
         Turns(t, c, n)
  PROVE  Nearer(t, c)
<1>1. handler \in [Texts -> [Copies -> HandlerStates]]
  BY FilesTypeSplit
<1> DEFINE old == handler[t][c]
<1>2. old \in HandlerStates /\ old.looks \in Nat /\ n \in old.left /\ old.phase = "busy"
  BY <1>1, FilesConstants DEF HandlerStates, Turns
<1>3. \A new : handler' = [handler EXCEPT ![t][c] = new] => handler'[t][c] = new
  BY <1>1
<1>4. ASSUME NEW m \in Nat, handler' = [handler EXCEPT ![t][c] = Replace(@, n, m)]
      PROVE  Nearer(t, c)
  <2>1. handler'[t][c] = Replace(old, n, m)
    BY <1>3, <1>4
  <2>2. handler'[t][c].phase = "busy" /\ handler'[t][c].left = old.left \ {n}
    BY <1>2, <2>1, ReplaceFacts
  <2> QED
    BY <1>2, <2>2 DEF Nearer
<1>5. ASSUME old.looks + 1 < MaxTryTimes,
             handler' = [handler EXCEPT ![t][c] = LooksAgain(@)]
      PROVE  Nearer(t, c)
  <2>1. handler'[t][c] = LooksAgain(old)
    BY <1>3, <1>5
  <2>2. LooksAgain(old).looks = old.looks + 1
    BY <1>2 DEF LooksAgain, HandlerStates
  <2>3. handler'[t][c].phase = "busy" /\ handler'[t][c].left = old.left
    BY <1>2, <1>5, <2>1, LooksAgainFacts
  <2>4. old.looks < handler'[t][c].looks /\ handler'[t][c].looks < MaxTryTimes
    BY <1>2, <1>5, <2>1, <2>2, FilesConstants
  <2> QED
    BY <2>3, <2>4 DEF Nearer
<1>6. \A i \in DOMAIN recv' : i \in Nat
  <2>1. recv' \in Seq(Entries)
    BY TurnTypes DEF FilesTypeOK
  <2> QED
    BY <2>1
<1> QED
  BY <1>4, <1>5, <1>6 DEF Turns

LEMMA StepIsNearer ==
  ASSUME FilesTypeOK, LifeRight, [FilesNext]_fileVars, NEW t \in Texts, NEW c \in Copies,
         handler[t][c].phase = "busy"
  PROVE  Nearer(t, c)
<1>1. handler \in [Texts -> [Copies -> HandlerStates]]
  BY FilesTypeSplit
<1>2. CASE UNCHANGED handler
  BY <1>2 DEF Nearer
<1>3. ASSUME NEW u \in Texts, NEW d \in Copies, NEW new,
             handler' = [handler EXCEPT ![u][d] = new], ~(u = t /\ d = c)
      PROVE  Nearer(t, c)
  <2>1. handler'[t][c] = handler[t][c]
    BY <1>1, <1>3
  <2> QED
    BY <2>1 DEF Nearer
<1>4. ASSUME NEW u \in Texts, NEW d \in Copies, NEW n \in Numbers, Turns(u, d, n)
      PROVE  Nearer(t, c)
  <2>1. CASE u = t /\ d = c
    BY <1>4, <2>1, TurnIsNearer
  <2>2. CASE ~(u = t /\ d = c)
    <3>1. \E new : handler' = [handler EXCEPT ![u][d] = new]
      BY <1>4 DEF Turns
    <3> QED
      BY <1>3, <2>2, <3>1
  <2> QED
    BY <2>1, <2>2
<1>5. ASSUME NEW u \in Texts, NEW d \in Copies, OnChatWithTextMsg(u, d)
      PROVE  Nearer(t, c)
  BY <1>3, <1>5 DEF OnChatWithTextMsg
<1>6. ASSUME NEW u \in Texts, NEW d \in Copies, PullStalls(u, d)
      PROVE  Nearer(t, c)
  <2>1. /\ "silent" \in mishaps'
        /\ handler' = [handler EXCEPT ![u][d].phase = "stuck"]
    BY <1>6 DEF PullStalls, Mishap
  <2>2. CASE u = t /\ d = c
    <3>1. handler'[t][c] = [handler[t][c] EXCEPT !.phase = "stuck"]
      BY <1>1, <2>1, <2>2
    <3>2. handler'[t][c].phase = "stuck"
      BY <1>1, <3>1 DEF HandlerStates
    <3> QED
      BY <2>1, <3>2 DEF Nearer
  <2>3. CASE ~(u = t /\ d = c)
    <3>1. handler'[t][c] = handler[t][c]
      BY <1>1, <2>1, <2>3
    <3> QED
      BY <3>1 DEF Nearer
  <2> QED
    BY <2>2, <2>3
<1>7. ASSUME NEW u \in Texts, NEW d \in Copies, ShowText(u, d)
      PROVE  Nearer(t, c)
  <2>1. handler' = [handler EXCEPT ![u][d] = [NoHandler EXCEPT !.phase = "done"]]
    BY <1>7 DEF ShowText
  <2>2. CASE u = t /\ d = c
    <3>1. handler'[t][c].phase = "done"
      BY <1>1, <2>1, <2>2 DEF NoHandler
    <3> QED
      BY <3>1 DEF Nearer
  <2> QED
    BY <1>3, <2>1, <2>2
<1>8. CASE RestartB
  <2>1. handler'[t][c] = [NoHandler EXCEPT !.phase = "done"]
    BY <1>8 DEF RestartB
  <2>2. handler'[t][c].phase = "done"
    BY <2>1 DEF NoHandler
  <2> QED
    BY <2>2 DEF Nearer
<1>9. ASSUME \/ SelectChatFile \/ RestartA \/ OnSendFileMsg \/ UNCHANGED fileVars
             \/ \E u \in Texts :
                   \/ ChatWithText(u) \/ SkipNumber(u) \/ AddMsg(u)
                   \/ \E n \in Numbers : Pushes(u, n)
      PROVE  UNCHANGED handler
  BY <1>9 DEF SelectChatFile, RestartA, OnSendFileMsg, fileVars, ChatWithText, SkipNumber,
              Attempt, AddMsg, Pushes, bVars
<1> QED
  BY <1>2, <1>4, <1>5, <1>6, <1>7, <1>8, <1>9, FilesSteps

\* The argument behind TakenIsShown, which itself is model-checked: a handler
\* of OnChatWithTextMsg always has a next thing to do, and each thing it does
\* leaves it fewer numbers, or fewer looks at the first of them, for any number
\* of files, copies and tries.  No step of another makes its way longer.
THEOREM AdvanceHolds == FilesSpec => []NeverIdle /\ Advance
<1>1. FilesInv => NeverIdle
  BY BusyHasNext DEF FilesInv
<1>2. FilesInv /\ [FilesNext]_fileVars => [AdvanceStep]_fileVars
  BY StepIsNearer DEF FilesInv, Right, Nearer, AdvanceStep
<1> QED
  BY <1>1, <1>2, FilesInvariant, PTL DEF FilesSpec, Advance
=============================================================================
