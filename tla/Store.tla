-------------------------------- MODULE Store --------------------------------
(***************************************************************************)
(* The mapping store: the subscriber (scripts/scylla/subscriber.php) turns *)
(* every pair it receives into inserts, the cleaner (scripts/scylla/clean) *)
(* deletes the rows of past months.                                        *)
(*                                                                         *)
(* A row is named by its table, by the id it is looked up with (uid, and   *)
(* rmid in the tables <medium>_dmp) and by last_access, which is the first *)
(* of a month: that is how the cleaner's DELETEs address it.  The other id *)
(* is the value of the row and is left out.  last_access is the month in   *)
(* which the session was created, not the one of the insert.  Statements   *)
(* are sent with executeAsync and nobody looks at the result: they take    *)
(* effect later, in any order, or never.                                   *)
(***************************************************************************)
EXTENDS Integers

CONSTANTS
    LastId,       \* the ids 1 .. LastId, in the order in which Scylla pages them
    Exts,         \* the codes that arrive
    KeepMonths,   \* $month of the cleaner
    LastMonth,    \* bound: the clock
    MaxPairs,     \* bound: the pairs that arrive
    MaxErrors     \* bound: exceptions of nextPage

ASSUME StoreAssumption ==
    /\ LastId \in Nat /\ KeepMonths \in Nat \ {0} /\ LastMonth \in Nat
    /\ MaxPairs \in Nat /\ MaxErrors \in Nat

Ids    == 1 .. LastId
Months == 0 .. LastMonth

tablePairs ==
    [e \in {0, 2, 3, 5, 6, 8, 10, 11, 21, 26, 27, 29} |->
        CASE e = 0  -> "test"     [] e = 2  -> "tencent"   [] e = 3  -> "iqiyi"
          [] e = 5  -> "sohu"     [] e = 6  -> "miaozhen"  [] e = 8  -> "youku"
          [] e = 10 -> "ku6"      [] e = 11 -> "fengxing"  [] e = 21 -> "letv"
          [] e = 26 -> "pptv"     [] e = 27 -> "yinyuetai" [] e = 29 -> "mgtv"]

\* The media whose pairs are also stored the other way round.
Special == {3, 8}

\* A table of mapping: the one of a medium, or its copy <medium>_dmp.
Tables == [medium : {tablePairs[e] : e \in DOMAIN tablePairs}, dmp : BOOLEAN]
Row    == [table : Tables, id : Ids, last_access : Months]

\* The tables for which there is a program clean/<medium>.php that deletes.
Cleaned == [medium : {"fengxing", "iqiyi", "ku6", "letv", "pptv", "sohu", "yinyuetai"},
            dmp : {FALSE}]

\* Bound: of these, only the ones that are written.
Swept == {t \in Cleaned : \E e \in Exts \cap DOMAIN tablePairs : t.medium = tablePairs[e]}

VARIABLES
    now,       \* the clock, in months
    month,     \* scylla::$month_millisecond of the running subscriber
    rows,      \* the tables: the rows that exist
    inserts,   \* the INSERTs under way
    deletes,   \* the DELETEs under way
    cleaner,   \* what the cleaner is doing, on which table, $expirs, and the page it is at
    page,      \* the rows of the page it has fetched
    pairs, errors,
    due        \* history: the old rows the current sweep still has to delete

vars == <<now, month, rows, inserts, deletes, cleaner, page, pairs, errors, due>>

Idle == [at |-> "idle"]
Init ==
    /\ now = 0 /\ month = 0
    /\ rows = {} /\ inserts = {} /\ deletes = {}
    /\ cleaner = Idle /\ page = {}
    /\ pairs = 0 /\ errors = 0
    /\ due = {}

------------------------------------------------------------------------------
(* The subscriber *)

\* Mutant: the month is the one to come.
NextMonthSession ==
    /\ month # now
    /\ month' = now + 1
    /\ UNCHANGED <<now, rows, inserts, deletes, cleaner, page, pairs, errors, due>>

\* supervisord starts it again; createClustersSession fixes the month.
createClustersSession ==
    /\ month # now
    /\ month' = now
    /\ UNCHANGED <<now, rows, inserts, deletes, cleaner, page, pairs, errors, due>>

\* What insert writes to the table of ext, or to its copy.
NewRow(ext, d, id) ==
    [table |-> [medium |-> tablePairs[ext], dmp |-> d], id |-> id, last_access |-> month]

\* A message with the code ext; one of the ids may be empty, and then insert returns at once.
Receive(ext, rmid, uid) ==
    LET new == {NewRow(ext, FALSE, uid)} \cup
               IF ext \in Special THEN {NewRow(ext, TRUE, rmid)} ELSE {}
    IN /\ pairs < MaxPairs /\ pairs' = pairs + 1
       /\ inserts' = IF ext \notin DOMAIN tablePairs \/ rmid = 0 \/ uid = 0
                     THEN inserts ELSE inserts \cup new
       /\ UNCHANGED <<now, month, rows, deletes, cleaner, page, errors, due>>

------------------------------------------------------------------------------
(* Scylla *)

Write(r) ==
    /\ r \in inserts
    /\ inserts' = inserts \ {r}
    /\ rows' = rows \cup {r}
    /\ UNCHANGED <<now, month, deletes, cleaner, page, pairs, errors, due>>

\* Mutant: the DELETE names the id only.
RemoveAllMonths(r) ==
    /\ r \in deletes
    /\ deletes' = deletes \ {r}
    /\ rows' = {q \in rows : q.table # r.table \/ q.id # r.id}
    /\ due' = due \ {r}
    /\ UNCHANGED <<now, month, inserts, cleaner, page, pairs, errors>>

\* A row that is deleted before the sweep comes to it is not due any more.
Remove(r) ==
    /\ r \in deletes
    /\ deletes' = deletes \ {r}
    /\ rows' = rows \ {r}
    /\ due' = due \ {r}
    /\ UNCHANGED <<now, month, inserts, cleaner, page, pairs, errors>>

\* A statement that fails or whose process ends before it is sent.
Lose(r) ==
    /\ r \in inserts \cup deletes
    /\ inserts' = inserts \ {r} /\ deletes' = deletes \ {r}
    /\ UNCHANGED <<now, month, rows, cleaner, page, pairs, errors, due>>

------------------------------------------------------------------------------
(* mappingClean *)

\* date("Y-m-1 00:00:00", strtotime("-$month month")), in months: on the 31st, or at the end of
\* April, there may be no such day $month months ago, and PHP takes a day of the month after.
Expirs(m) == {m - KeepMonths, m - KeepMonths + 1}

Old(t, e) == {r \in rows : r.table = t /\ r.last_access <= e}

CleanStart(t) ==
    /\ cleaner = Idle /\ Ids # {}
    /\ \E e \in Expirs(now) :
          /\ cleaner' = [at |-> "fetch", table |-> t, expirs |-> e, pos |-> 1]
          /\ due' = Old(t, e)
    /\ UNCHANGED <<now, month, rows, inserts, deletes, page, pairs, errors>>

\* The first page of the SELECT, or nextPage: the rows as they are now.
Fetch ==
    /\ cleaner.at = "fetch"
    /\ page' = {r \in Old(cleaner.table, cleaner.expirs) : r.id = cleaner.pos}
    /\ cleaner' = [cleaner EXCEPT !.at = "delete"]
    /\ UNCHANGED <<now, month, rows, inserts, deletes, pairs, errors, due>>

\* Mutant: the page that could not be fetched is given up.
FetchThrowsSkipping ==
    /\ cleaner.at = "fetch" /\ cleaner.pos > 1
    /\ errors < MaxErrors /\ errors' = errors + 1
    /\ page' = {}
    /\ cleaner' = [cleaner EXCEPT !.at = "delete"]
    /\ UNCHANGED <<now, month, rows, inserts, deletes, pairs, due>>

\* nextPage throws and calls itself again; an exception of the first execute ends the program.
FetchThrows ==
    /\ cleaner.at = "fetch"
    /\ errors < MaxErrors /\ errors' = errors + 1
    /\ cleaner' = IF cleaner.pos > 1 THEN cleaner ELSE Idle
    /\ due' = IF cleaner.pos > 1 THEN due ELSE {}
    /\ UNCHANGED <<now, month, rows, inserts, deletes, page, pairs>>

\* Mutant: what nextPage returns is not kept.
DeletePageSamePage ==
    /\ cleaner.at = "delete"
    /\ deletes' = deletes \cup page
    /\ due' = due \ page
    /\ page' = {}
    /\ cleaner' = IF cleaner.pos = LastId THEN Idle ELSE [cleaner EXCEPT !.at = "fetch"]
    /\ UNCHANGED <<now, month, rows, inserts, pairs, errors>>

\* The body of the loop: a DELETE for every row of the page, then on to the next page.
DeletePage ==
    /\ cleaner.at = "delete"
    /\ deletes' = deletes \cup page
    /\ due' = due \ page
    /\ page' = {}
    /\ cleaner' = IF cleaner.pos = LastId THEN Idle
                  ELSE [cleaner EXCEPT !.at = "fetch", !.pos = @ + 1]
    /\ UNCHANGED <<now, month, rows, inserts, pairs, errors>>

Tick ==
    /\ now < LastMonth /\ now' = now + 1
    /\ UNCHANGED <<month, rows, inserts, deletes, cleaner, page, pairs, errors, due>>

Next ==
    \/ createClustersSession \/ Tick
    \/ \E ext \in Exts, rmid, uid \in Ids \cup {0} : Receive(ext, rmid, uid)
    \/ \E r \in inserts : Write(r)
    \/ \E r \in deletes : Remove(r)
    \/ \E r \in inserts \cup deletes : Lose(r)
    \/ \E t \in Swept : CleanStart(t)
    \/ Fetch \/ FetchThrows \/ DeletePage

Spec == Init /\ [][Next]_vars

\* The cleaner is a running program; the queries succeed in the end.
FairSpec == Spec /\ WF_vars(Fetch) /\ WF_vars(DeletePage)

------------------------------------------------------------------------------
(* Properties *)

\* Types: in particular rows under way are never stamped with a month that has not come.
TypeOK ==
    /\ now \in Months /\ month \in 0 .. now
    /\ rows \subseteq Row /\ inserts \subseteq Row /\ deletes \subseteq Row /\ page \subseteq Row
    /\ cleaner \in {Idle} \cup [at : {"fetch", "delete"}, table : Cleaned,
                                expirs : -KeepMonths .. LastMonth, pos : Ids]
    /\ pairs \in 0 .. MaxPairs /\ errors \in 0 .. MaxErrors
    /\ due \subseteq Row
    /\ \A r \in rows \cup inserts \cup deletes \cup page : r.last_access <= now

\* A row stamped with one of the last KeepMonths - 1 months is never deleted, whatever pages
\* were fetched before it was written and whatever DELETEs arrive late: a sweep that has an old
\* row of the same id in its page does not take the new one with it (DELETE ... AND
\* last_access).  It is one month less than $month because of the short months.
FreshRowsStay ==
    [][\A r \in rows \ rows' : r.last_access <= now - KeepMonths + 1]_vars

\* A sweep that ends has sent a DELETE for every row that was old when it began and that
\* nothing else has deleted meanwhile, also when pages had to be fetched again (nextPage).
SweepComplete == cleaner = Idle => due = {}

\* A sweep ends, though $i is never advanced in the loop of mappingClean, and though the
\* subscriber may go on inserting rows that are old already.
SweepEnds == cleaner # Idle ~> cleaner = Idle

==============================================================================
