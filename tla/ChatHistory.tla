----------------------------- MODULE ChatHistory -----------------------------
(***************************************************************************)
(* Leafing through the chat history with one friend: the history panel of  *)
(* the chat window (Chat/layout/MainWnd.xml.lua), V6Chat3App::GetChatHistory*)
(* and the query of get_chatItems (db_interface).                          *)
(*                                                                         *)
(* A record has the id the database gave it: 1, 2, ... in the order of     *)
(* insert_chatItem; records are never deleted.  Texts go on arriving while *)
(* the panel is open.  The first text makes the table, even if it cannot   *)
(* itself be inserted (its text stands unquoted in the statement).  What is *)
(* kept of a page is its first and last id, as the Lua does; they are 0    *)
(* for a table without records and nil without a table.                    *)
(***************************************************************************)
EXTENDS Integers

CONSTANTS
    PageSize,       \* EACH_CHATHISTORYITEM_NUM, 20
    MaxRecords      \* bound of the model: records in the table

ASSUME HistoryAssumption == PageSize \in Nat \ {0} /\ MaxRecords \in Nat

VARIABLES
    table,      \* the table of the friend exists
    last,       \* the records of the table are 1 .. last
    open,       \* the panel is open
    beginMid,   \* ids of the first and last record on the page
    endMid,
    nil         \* the query failed: both ends are nil and not 0

historyVars == <<table, last, open, beginMid, endMid, nil>>

HistoryTypeOK ==
    /\ table \in BOOLEAN
    /\ last \in 0 .. MaxRecords
    /\ last > 0 => table
    /\ open \in BOOLEAN
    /\ nil \in BOOLEAN
    /\ endMid \in 0 .. last
    /\ beginMid \in 0 .. endMid
    /\ beginMid = 0 => endMid = 0

HistoryInit ==
    /\ table \in BOOLEAN
    /\ last \in IF table THEN 0 .. MaxRecords ELSE {0}
    /\ open = FALSE
    /\ nil = FALSE
    /\ beginMid = 0
    /\ endMid = 0

-----------------------------------------------------------------------------
(* The queries *)

\* The records of "limit offset,num": those after the first offset ones; a
\* negative num is no limit to SQLite.
Limit(offset, num) == {id \in 1 .. last : offset < id /\ (num < 0 \/ id <= offset + num)}

\* The records of "order by id desc limit num".
Recent(num) == {id \in 1 .. last : id > last - num}

\* Variant: an earlier page starts at the id asked for, not before it.
PageFromMid(dest, mid) ==
    IF dest THEN Limit(mid, PageSize)
    ELSE IF mid = 0 THEN Recent(PageSize)
    ELSE Limit(mid, PageSize)

\* Variant: a later page ends with a full page before the id asked for.
PageToMid(dest, mid) ==
    IF dest THEN Limit(mid - PageSize, PageSize)
    ELSE IF mid = 0 THEN Recent(PageSize)
    ELSE IF mid < PageSize THEN Limit(0, mid)
    ELSE Limit(mid - PageSize, PageSize)

\* GetChatHistory: the ids of the records it returns.
GetChatHistory(dest, mid) ==
    IF dest THEN Limit(mid, PageSize)
    ELSE IF mid = 0 THEN Recent(PageSize)
    ELSE IF mid < PageSize THEN Limit(0, mid)
    ELSE Limit(mid - PageSize, PageSize)

\* Variant: the ends are kept as the query for recent records lists them,
\* the last one first.
ShowReversed(page) ==
    /\ page # {}
    /\ beginMid' \in page
    /\ endMid' \in page
    /\ \A id \in page : beginMid' >= id /\ id >= endMid'

\* The panel shows a page and keeps its ends.
Show(page) ==
    /\ page # {}
    /\ beginMid' \in page
    /\ endMid' \in page
    /\ \A id \in page : beginMid' <= id /\ id <= endMid'

-----------------------------------------------------------------------------
(* The buttons *)

\* history_btn_OnDownClick: the most recent page.
Open ==
    /\ ~open
    /\ open' = TRUE
    /\ nil' = ~table
    /\ \/ Show(GetChatHistory(FALSE, 0))
       \/ GetChatHistory(FALSE, 0) = {} /\ beginMid' = 0 /\ endMid' = 0
    /\ UNCHANGED <<table, last>>

\* history_btn_OnUpClick.
Close ==
    /\ open
    /\ open' = FALSE
    /\ UNCHANGED <<table, last, beginMid, endMid, nil>>

\* history_pre_btn_OnClick: the page before, unless this is the first one.
\* The arithmetic on nil fails.
Previous ==
    /\ open
    /\ ~nil
    /\ beginMid # 1
    /\ Show(GetChatHistory(FALSE, beginMid - 1))
    /\ UNCHANGED <<table, last, open, nil>>

\* history_aft_btn_OnClick: a page without records is not shown.
Following ==
    /\ open
    /\ ~nil
    /\ Show(GetChatHistory(TRUE, endMid + 1))
    /\ UNCHANGED <<table, last, open, nil>>

\* insert_chatItem: a text is sent or received.
InsertChatItem ==
    /\ last < MaxRecords
    /\ table' = TRUE
    /\ last' \in {last, last + 1}
    /\ UNCHANGED <<open, beginMid, endMid, nil>>

HistoryNext == Open \/ Close \/ Previous \/ Following \/ InsertChatItem

HistorySpec == HistoryInit /\ [][HistoryNext]_historyVars

-----------------------------------------------------------------------------
(* Properties *)

\* Leafing back skips nothing and repeats nothing: the page before ends just
\* before this one begins and is full unless it is the first, wherever the
\* page is and though texts arrive meanwhile (the offset of the query is
\* mid - num cut off at 0, with num cut to mid).
BackIsSeamlessStep ==
    Previous /\ beginMid > 0 =>
        /\ endMid' = beginMid - 1
        /\ beginMid' = 1 \/ endMid' - beginMid' = PageSize - 1

BackIsSeamless == [][BackIsSeamlessStep]_historyVars

\* Leafing forward never shows a record again and never skips more than one.
\* (It does skip one: the id endMid + 1 that is asked for is used as an
\* offset, which counts from 0.)
ForwardGoesOn ==
    [][Following => endMid < beginMid' /\ beginMid' <= endMid + 2]_historyVars
=============================================================================
