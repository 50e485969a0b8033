----------------------------- MODULE StoreProofs -----------------------------
(***************************************************************************)
(* Theorems about Store: its types, that no fresh row is ever deleted, and *)
(* that a sweep leaves no old row out, for every number of ids, months,    *)
(* pairs and exceptions.                                                   *)
(***************************************************************************)
EXTENDS Store, TLAPS

\* A row a message produces is a row of the store: its table is one of tablePairs, or the
\* copy of one, and its stamp is the month of the session.
LEMMA NewRows ==
    ASSUME TypeOK, NEW ext \in DOMAIN tablePairs, NEW id \in Ids, NEW d \in BOOLEAN
    PROVE  NewRow(ext, d, id) \in Row /\ NewRow(ext, d, id).last_access <= now
  <1>1. month \in Months
    BY StoreAssumption DEF TypeOK, Months
  <1>2. [medium |-> tablePairs[ext], dmp |-> d] \in Tables
    BY DEF Tables
  <1>3. NewRow(ext, d, id).last_access = month
    BY DEF NewRow
  <1>4. month <= now
    BY StoreAssumption DEF TypeOK, Months
  <1> QED BY <1>1, <1>2, <1>3, <1>4 DEF Row, NewRow

\* Every step of Store keeps the types.
LEMMA TypeStep == TypeOK /\ [Next]_vars => TypeOK'
  <1> SUFFICES ASSUME TypeOK, [Next]_vars PROVE TypeOK' OBVIOUS
  <1> USE StoreAssumption
  <1>1. CASE createClustersSession
    BY <1>1 DEF createClustersSession, TypeOK, Months
  <1>2. CASE Tick
    <2>1. \A r \in rows \cup inserts \cup deletes \cup page : r.last_access \in Nat
      BY DEF TypeOK, Row, Months
    <2>2. \A r \in rows \cup inserts \cup deletes \cup page : r.last_access <= now + 1
      BY <2>1 DEF TypeOK, Months
    <2>3. now' \in Months /\ month \in 0 .. now'
      BY <1>2 DEF Tick, TypeOK, Months
    <2> QED BY <1>2, <2>2, <2>3 DEF Tick, TypeOK
  <1>3. ASSUME NEW ext \in Exts, NEW rmid \in Ids \cup {0}, NEW uid \in Ids \cup {0},
               Receive(ext, rmid, uid)
        PROVE  TypeOK'
    <2>1. inserts' \subseteq Row /\ \A r \in inserts' : r.last_access <= now
      <3>1. CASE ext \notin DOMAIN tablePairs \/ rmid = 0 \/ uid = 0
        BY <1>3, <3>1 DEF Receive, TypeOK
      <3>2. CASE ~(ext \notin DOMAIN tablePairs \/ rmid = 0 \/ uid = 0)
        <4>1. inserts' \subseteq inserts \cup {NewRow(ext, FALSE, uid), NewRow(ext, TRUE, rmid)}
          BY <1>3, <3>2 DEF Receive
        <4>2. uid \in Ids /\ rmid \in Ids /\ ext \in DOMAIN tablePairs
          BY <3>2
        <4>3. /\ NewRow(ext, FALSE, uid) \in Row /\ NewRow(ext, TRUE, rmid) \in Row
              /\ NewRow(ext, FALSE, uid).last_access <= now
              /\ NewRow(ext, TRUE, rmid).last_access <= now
          BY <4>2, NewRows
        <4> QED BY <4>1, <4>3 DEF TypeOK
      <3> QED BY <3>1, <3>2
    <2>2. /\ pairs' \in 0 .. MaxPairs
          /\ UNCHANGED <<now, month, rows, deletes, cleaner, page, errors, due>>
      BY <1>3 DEF Receive, TypeOK
    <2> QED BY <2>1, <2>2 DEF TypeOK
  <1>4. ASSUME NEW r \in inserts, Write(r) PROVE TypeOK'
    BY <1>4 DEF Write, TypeOK
  <1>5. ASSUME NEW r \in deletes, Remove(r) PROVE TypeOK'
    BY <1>5 DEF Remove, TypeOK
  <1>6. ASSUME NEW r \in inserts \cup deletes, Lose(r) PROVE TypeOK'
    BY <1>6 DEF Lose, TypeOK
  <1>7. ASSUME NEW t \in Swept, CleanStart(t) PROVE TypeOK'
    <2>1. Expirs(now) \subseteq -KeepMonths .. LastMonth
      BY DEF Expirs, TypeOK, Months
    <2>2. 1 \in Ids
      BY <1>7 DEF CleanStart, Ids
    <2>3. t \in Cleaned
      BY DEF Swept
    <2>4. cleaner' \in [at : {"fetch", "delete"}, table : Cleaned,
                        expirs : -KeepMonths .. LastMonth, pos : Ids]
      <3> HIDE DEF Expirs
      <3> QED BY <1>7, <2>1, <2>2, <2>3 DEF CleanStart
    <2>5. due' \subseteq Row
      BY <1>7 DEF CleanStart, Old, TypeOK
    <2> QED BY <1>7, <2>4, <2>5 DEF CleanStart, TypeOK
  <1>8. CASE Fetch
    <2>1. cleaner \in [at : {"fetch", "delete"}, table : Cleaned,
                       expirs : -KeepMonths .. LastMonth, pos : Ids]
      BY <1>8 DEF Fetch, TypeOK, Idle
    <2>2. page' \subseteq rows
      BY <1>8 DEF Fetch, Old
    <2>3. cleaner' \in [at : {"fetch", "delete"}, table : Cleaned,
                        expirs : -KeepMonths .. LastMonth, pos : Ids]
      BY <1>8, <2>1 DEF Fetch
    <2>4. UNCHANGED <<now, month, rows, inserts, deletes, pairs, errors, due>>
      BY <1>8 DEF Fetch
    <2> QED BY <2>2, <2>3, <2>4 DEF TypeOK
  <1>9. CASE FetchThrows
    BY <1>9 DEF FetchThrows, TypeOK
  <1>10. CASE DeletePage
    <2>1. cleaner \in [at : {"fetch", "delete"}, table : Cleaned,
                       expirs : -KeepMonths .. LastMonth, pos : Ids]
      BY <1>10 DEF DeletePage, TypeOK, Idle
    <2>2. cleaner' \in {Idle} \cup [at : {"fetch", "delete"}, table : Cleaned,
                                    expirs : -KeepMonths .. LastMonth, pos : Ids]
      <3>1. CASE cleaner.pos = LastId
        BY <1>10, <3>1 DEF DeletePage
      <3>2. CASE cleaner.pos # LastId
        <4>1. cleaner.pos + 1 \in Ids
          <5>1. cleaner.pos \in 1 .. LastId
            BY <2>1 DEF Ids
          <5> QED BY <3>2, <5>1 DEF Ids
        <4>2. cleaner' = [cleaner EXCEPT !.at = "fetch", !.pos = cleaner.pos + 1]
          BY <1>10, <3>2 DEF DeletePage
        <4> QED BY <2>1, <4>1, <4>2
      <3> QED BY <3>1, <3>2
    <2>3. deletes' \subseteq Row /\ due' \subseteq Row /\ page' \subseteq Row
      BY <1>10 DEF DeletePage, TypeOK
    <2> QED BY <1>10, <2>2, <2>3 DEF DeletePage, TypeOK
  <1>11. CASE UNCHANGED vars
    BY <1>11 DEF vars, TypeOK
  <1> QED BY <1>1, <1>2, <1>3, <1>4, <1>5, <1>6, <1>7, <1>8, <1>9, <1>10, <1>11 DEF Next

\* createClustersSession, insert, mappingClean: types, and no row, statement or page carries a
\* month that has not come.
THEOREM TypeCorrect == Spec => []TypeOK
  <1>1. Init => TypeOK
    BY StoreAssumption DEF Init, TypeOK, Months
  <1> QED BY <1>1, TypeStep, PTL DEF Spec

------------------------------------------------------------------------------
\* What makes FreshRowsStay hold: whatever the cleaner has in hand was old when it was fetched,
\* and does not get younger.  The cleaner's $expirs may lag behind the clock, never run ahead.
OnlyOldInHand ==
    /\ \A r \in deletes \cup page : r.last_access <= now - KeepMonths + 1
    /\ cleaner # Idle => cleaner.expirs <= now - KeepMonths + 1

\* Every step keeps what the cleaner has in hand old.
LEMMA OldStep == TypeOK /\ OnlyOldInHand /\ [Next]_vars => OnlyOldInHand'
  <1> SUFFICES ASSUME TypeOK, OnlyOldInHand, [Next]_vars PROVE OnlyOldInHand' OBVIOUS
  <1> USE StoreAssumption
  <1>1. now \in Nat /\ \A r \in rows \cup deletes \cup page : r.last_access \in Nat
    BY DEF TypeOK, Row, Months
  <1>2. CASE Tick
    <2>1. now' - KeepMonths + 1 >= now - KeepMonths + 1
      BY <1>1, <1>2 DEF Tick
    <2>2. cleaner # Idle => cleaner.expirs \in Int
      BY DEF TypeOK
    <2> QED BY <1>1, <1>2, <2>1, <2>2 DEF Tick, OnlyOldInHand
  <1>3. ASSUME NEW r \in deletes, Remove(r) PROVE OnlyOldInHand'
    BY <1>3 DEF Remove, OnlyOldInHand
  <1>4. ASSUME NEW r \in inserts \cup deletes, Lose(r) PROVE OnlyOldInHand'
    BY <1>4 DEF Lose, OnlyOldInHand
  <1>5. ASSUME NEW t \in Swept, CleanStart(t) PROVE OnlyOldInHand'
    BY <1>1, <1>5 DEF CleanStart, Expirs, OnlyOldInHand
  <1>6. CASE Fetch
    <2>1. cleaner # Idle /\ cleaner.expirs \in Int
      BY <1>6 DEF Fetch, TypeOK, Idle
    <2>2. \A r \in page' : r \in rows /\ r.last_access <= cleaner.expirs
      BY <1>6 DEF Fetch, Old
    <2>3. \A r \in page' : r.last_access <= now - KeepMonths + 1
      BY <1>1, <2>1, <2>2 DEF OnlyOldInHand
    <2>4. cleaner'.expirs = cleaner.expirs
      BY <1>6, <2>1 DEF Fetch, TypeOK
    <2> QED BY <1>6, <2>1, <2>3, <2>4 DEF Fetch, OnlyOldInHand
  <1>7. CASE FetchThrows
    BY <1>7 DEF FetchThrows, OnlyOldInHand
  <1>8. CASE DeletePage
    <2>1. cleaner # Idle
      BY <1>8 DEF DeletePage, Idle
    <2>2. cleaner' # Idle => cleaner'.expirs = cleaner.expirs
      BY <1>8, <2>1 DEF DeletePage, TypeOK
    <2> QED BY <1>8, <2>1, <2>2 DEF DeletePage, OnlyOldInHand
  <1>9. CASE UNCHANGED <<now, deletes, page, cleaner>>
    BY <1>9 DEF OnlyOldInHand
  <1>10. createClustersSession \/ UNCHANGED vars => UNCHANGED <<now, deletes, page, cleaner>>
    BY DEF createClustersSession, vars
  <1>11. ASSUME NEW ext \in Exts, NEW rmid \in Ids \cup {0}, NEW uid \in Ids \cup {0},
                Receive(ext, rmid, uid)
         PROVE  UNCHANGED <<now, deletes, page, cleaner>>
    BY <1>11 DEF Receive
  <1>12. ASSUME NEW r \in inserts, Write(r) PROVE UNCHANGED <<now, deletes, page, cleaner>>
    BY <1>12 DEF Write
  <1> QED BY <1>2, <1>3, <1>4, <1>5, <1>6, <1>7, <1>8, <1>9, <1>10, <1>11, <1>12 DEF Next

\* A row can only go by a DELETE that is under way.
LEMMA OnlyRemove ==
    ASSUME [Next]_vars, NEW r \in rows, r \notin rows'
    PROVE  r \in deletes
  <1>1. CASE \E q \in deletes : Remove(q)
    BY <1>1 DEF Remove
  <1>2. CASE ~ \E q \in deletes : Remove(q)
    <2>1. rows \subseteq rows'
      BY <1>2 DEF Next, createClustersSession, Tick, Receive, Write, Lose, CleanStart, Fetch,
                  FetchThrows, DeletePage, vars
    <2> QED BY <2>1
  <1> QED BY <1>1, <1>2

\* mappingClean: no sweep ever deletes a row of the last KeepMonths - 1 months, whatever pages it has
\* fetched and however late its DELETEs arrive.
THEOREM NoFreshRowDeleted == Spec => FreshRowsStay
  <1>1. Init => OnlyOldInHand
    BY DEF Init, OnlyOldInHand
  <1>2. TypeOK /\ OnlyOldInHand /\ [Next]_vars =>
           [\A r \in rows \ rows' : r.last_access <= now - KeepMonths + 1]_vars
    BY OnlyRemove DEF OnlyOldInHand
  <1> QED BY <1>1, <1>2, TypeCorrect, OldStep, PTL DEF Spec, FreshRowsStay

------------------------------------------------------------------------------
\* What makes SweepComplete hold.  A row that is still due exists, is one the SELECT of the
\* sweep finds, and lies on the page the sweep is at or on a later one; between nextPage and
\* the loop over its rows, those of the current page have been fetched.
SweepInv ==
    /\ SweepComplete
    /\ cleaner # Idle =>
          \A r \in due : r \in Old(cleaner.table, cleaner.expirs) /\ r.id >= cleaner.pos
    /\ cleaner.at = "delete" => \A r \in due : r.id = cleaner.pos => r \in page

\* The steps of a running sweep.
LEMMA SweepStep ==
    ASSUME TypeOK, SweepInv, Fetch \/ FetchThrows \/ DeletePage
    PROVE  SweepInv'
  <1> USE StoreAssumption
  <1>1. /\ cleaner # Idle /\ cleaner.at \in {"fetch", "delete"}
        /\ cleaner \in [at : {"fetch", "delete"}, table : Cleaned,
                        expirs : -KeepMonths .. LastMonth, pos : Ids]
    BY DEF Fetch, FetchThrows, DeletePage, TypeOK, Idle
  <1>2. cleaner.pos \in Nat /\ cleaner.pos <= LastId /\ \A r \in due : r.id \in Nat /\ r.id <= LastId
    <2>1. cleaner.pos \in 1 .. LastId /\ \A r \in due : r.id \in 1 .. LastId
      BY <1>1 DEF TypeOK, Row, Ids
    <2> QED BY <2>1
  <1>3. \A r \in due : r \in Old(cleaner.table, cleaner.expirs) /\ r.id >= cleaner.pos
    BY <1>1 DEF SweepInv
  <1>4. CASE Fetch
    <2>1. /\ cleaner' = [cleaner EXCEPT !.at = "delete"] /\ rows' = rows /\ due' = due
          /\ page' = {r \in Old(cleaner.table, cleaner.expirs) : r.id = cleaner.pos}
      BY <1>4 DEF Fetch
    <2>2. /\ cleaner'.at = "delete" /\ cleaner'.table = cleaner.table
          /\ cleaner'.expirs = cleaner.expirs /\ cleaner'.pos = cleaner.pos
      BY <1>1, <2>1
    <2>3. cleaner' # Idle
      BY <2>2 DEF Idle
    <2>4. \A r \in due' : r \in Old(cleaner.table, cleaner.expirs)' /\ r.id >= cleaner'.pos
      BY <1>3, <2>1, <2>2 DEF Old
    <2>5. \A r \in due' : r.id = cleaner'.pos => r \in page'
      BY <1>3, <2>1, <2>2
    <2> QED BY <2>3, <2>4, <2>5 DEF SweepInv, SweepComplete
  <1>5. CASE FetchThrows
    <2>1. CASE cleaner.pos > 1
      BY <1>5, <2>1 DEF FetchThrows, SweepInv, SweepComplete, Old
    <2>2. CASE ~(cleaner.pos > 1)
      BY <1>5, <2>2 DEF FetchThrows, SweepInv, SweepComplete, Idle
    <2> QED BY <2>1, <2>2
  <1>6. CASE DeletePage
    <2>1. cleaner.at = "delete" /\ due' = due \ page /\ rows' = rows
      BY <1>6 DEF DeletePage
    <2>2. \A r \in due' : r.id > cleaner.pos
      <3>1. \A r \in due : r.id = cleaner.pos => r \in page
        BY <2>1 DEF SweepInv
      <3> QED BY <1>2, <1>3, <2>1, <3>1
    <2>3. CASE cleaner.pos = LastId
      <3>1. due' = {}
        BY <1>2, <2>1, <2>2, <2>3
      <3>2. cleaner' = Idle
        BY <1>6, <2>3 DEF DeletePage
      <3> QED BY <3>1, <3>2 DEF SweepInv, SweepComplete, Idle
    <2>4. CASE cleaner.pos # LastId
      <3>1. cleaner' = [cleaner EXCEPT !.at = "fetch", !.pos = cleaner.pos + 1]
        BY <1>6, <2>4 DEF DeletePage
      <3>2. /\ cleaner'.at = "fetch" /\ cleaner'.table = cleaner.table
            /\ cleaner'.expirs = cleaner.expirs /\ cleaner'.pos = cleaner.pos + 1
        BY <1>1, <3>1
      <3>3. cleaner' # Idle
        BY <3>2 DEF Idle
      <3>4. \A r \in due' : r \in Old(cleaner.table, cleaner.expirs)'
        BY <1>3, <2>1, <3>2 DEF Old
      <3>5. \A r \in due' : r.id >= cleaner'.pos
        BY <1>2, <2>1, <2>2, <3>2
      <3> QED BY <3>2, <3>3, <3>4, <3>5 DEF SweepInv, SweepComplete
    <2> QED BY <2>3, <2>4
  <1> QED BY <1>4, <1>5, <1>6

\* Every step keeps SweepInv: rows are added and taken away under a sweep, but one that is
\* taken away is not due any more.
LEMMA SweepInvStep == TypeOK /\ SweepInv /\ [Next]_vars => SweepInv'
  <1> SUFFICES ASSUME TypeOK, SweepInv, [Next]_vars PROVE SweepInv' OBVIOUS
  <1> USE StoreAssumption
  <1>1. ASSUME UNCHANGED <<cleaner, page>>, due' \subseteq due, due' \subseteq rows'
        PROVE  SweepInv'
    <2>1. cleaner # Idle =>
             \A r \in due' : r \in Old(cleaner.table, cleaner.expirs)' /\ r.id >= cleaner.pos
      BY <1>1 DEF SweepInv, Old
    <2> QED BY <1>1, <2>1 DEF SweepInv, SweepComplete
  <1>2. due \subseteq rows
    BY DEF SweepInv, SweepComplete, Old
  <1>3. ASSUME NEW r \in inserts, Write(r) PROVE SweepInv'
    BY <1>1, <1>2, <1>3 DEF Write
  <1>4. ASSUME NEW r \in deletes, Remove(r) PROVE SweepInv'
    BY <1>1, <1>2, <1>4 DEF Remove
  <1>5. ASSUME NEW t \in Swept, CleanStart(t) PROVE SweepInv'
    <2>1. PICK e \in Expirs(now) :
             /\ cleaner' = [at |-> "fetch", table |-> t, expirs |-> e, pos |-> 1]
             /\ due' = Old(t, e)
      BY <1>5 DEF CleanStart
    <2>2. /\ cleaner'.at = "fetch" /\ cleaner'.table = t /\ cleaner'.expirs = e
          /\ cleaner'.pos = 1 /\ cleaner' # Idle /\ rows' = rows
      BY <1>5, <2>1 DEF CleanStart, Idle
    <2>3. \A r \in rows : r.id \in 1 .. LastId
      BY DEF TypeOK, Row, Ids
    <2>4. \A r \in due' : r \in Old(cleaner.table, cleaner.expirs)' /\ r.id >= cleaner'.pos
      BY <2>1, <2>2, <2>3 DEF Old
    <2> QED BY <2>2, <2>4 DEF SweepInv, SweepComplete
  <1>6. CASE Fetch \/ FetchThrows \/ DeletePage
    BY <1>6, SweepStep
  <1>7. CASE UNCHANGED <<cleaner, page, due, rows>>
    BY <1>1, <1>2, <1>7
  <1>8. createClustersSession \/ Tick \/ UNCHANGED vars => UNCHANGED <<cleaner, page, due, rows>>
    BY DEF createClustersSession, Tick, vars
  <1>9. ASSUME NEW ext \in Exts, NEW rmid \in Ids \cup {0}, NEW uid \in Ids \cup {0},
               Receive(ext, rmid, uid)
        PROVE  UNCHANGED <<cleaner, page, due, rows>>
    BY <1>9 DEF Receive
  <1>10. ASSUME NEW r \in inserts \cup deletes, Lose(r)
         PROVE  UNCHANGED <<cleaner, page, due, rows>>
    BY <1>10 DEF Lose
  <1> QED BY <1>3, <1>4, <1>5, <1>6, <1>7, <1>8, <1>9, <1>10 DEF Next

\* mappingClean and nextPage: a sweep that ends has sent a DELETE for every row that was old
\* when it began and that is still there, however many pages there are, however often one has
\* to be fetched again, and whatever is inserted and deleted under it.
THEOREM SweepsAreComplete == Spec => []SweepComplete
  <1>1. Init => SweepInv
    BY DEF Init, SweepInv, SweepComplete, Idle
  <1>2. SweepInv => SweepComplete
    BY DEF SweepInv
  <1> QED BY <1>1, <1>2, TypeCorrect, SweepInvStep, PTL DEF Spec

==============================================================================
