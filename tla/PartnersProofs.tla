---------------------------- MODULE PartnersProofs ----------------------------
(***************************************************************************)
(* Theorems about Partners, for every number of workers, keys, edits,      *)
(* failures and deaths: a complete pass leaves every entry at least as new *)
(* as Redis was when the pass began, no entry ever goes back while its     *)
(* worker lives, and a worker loses no more connections than it can open.  *)
(***************************************************************************)
EXTENDS Partners, TLAPS

\* A worker that reads has a connection: it could open one more.
ReadersConnected == \A w \in Workers : st[w] = "read" => lost[w] < FdLimit

\* Redis only moves on: what a worker holds of a key, and what its pass has to pick up,
\* is never newer than the hash.
RedisIsNewest ==
    \A w \in Workers : \A k \in Keys :
       redis[k].v >= partners[w][k] /\ redis[k].v >= due[w][k]

\* In the middle of a pass, the keys already read are as new as the pass owes them.
PassSoFar ==
    \A w \in Workers : st[w] = "read" =>
       \A k \in Keys : k < i[w] => partners[w][k] >= due[w][k]

\* The inductive invariant.
IInv ==
    /\ TypeOK
    /\ ReadersConnected
    /\ RedisIsNewest
    /\ PassSoFar
    /\ FreshAfterPass

------------------------------------------------------------------------------

LEMMA InitIInv == Init => IInv
  <1> SUFFICES ASSUME Init PROVE IInv OBVIOUS
  <1> USE ConstantsAssumption DEF Keys, None, Nothing
  <1>1. TypeOK
    <2>1. edits \in 1 .. MaxEdits + 1 /\ breaks \in 0 .. MaxBreaks /\ deaths \in 0 .. MaxDeaths
      BY DEF Init
    <2>2. redis \in [Keys -> [v : 0 .. edits, kind : Kinds]]
      BY DEF Init, Kinds
    <2>3. Nothing \in [Keys -> 0 .. edits]
      BY DEF Init
    <2>4. /\ partners \in [Workers -> [Keys -> 0 .. edits]]
          /\ due \in [Workers -> [Keys -> 0 .. edits]]
          /\ current \in [Workers -> [Keys -> 0 .. edits]]
      BY <2>3 DEF Init
    <2>5. /\ st \in [Workers -> {"connect", "read", "idle", "dead"}]
          /\ i \in [Workers -> 0 .. maxPartnerId + 1]
          /\ lost \in [Workers -> 0 .. FdLimit]
      BY DEF Init
    <2> QED BY <2>1, <2>2, <2>4, <2>5 DEF TypeOK
  <1>2. ReadersConnected /\ PassSoFar
    BY DEF Init, ReadersConnected, PassSoFar
  <1>3. RedisIsNewest /\ FreshAfterPass
    BY DEF Init, RedisIsNewest, FreshAfterPass
  <1> QED BY <1>1, <1>2, <1>3 DEF IInv

LEMMA EditStep ==
    ASSUME IInv, NEW k \in Keys, Edit(k) PROVE IInv'
  <1> USE ConstantsAssumption
  <1>1. edits \in Nat /\ edits' = edits + 1 /\ edits' \in 1 .. MaxEdits + 1
    BY DEF Edit, IInv, TypeOK
  <1>2. PICK kind \in Kinds : redis' = [redis EXCEPT ![k] = [v |-> edits + 1, kind |-> kind]]
    BY DEF Edit
  <1>3. redis' \in [Keys -> [v : 0 .. edits', kind : Kinds]]
    BY <1>1, <1>2 DEF IInv, TypeOK
  <1>4. /\ partners' \in [Workers -> [Keys -> 0 .. edits']]
        /\ due' \in [Workers -> [Keys -> 0 .. edits']]
        /\ current' \in [Workers -> [Keys -> 0 .. edits']]
    BY <1>1 DEF Edit, IInv, TypeOK
  <1>5. TypeOK'
    BY <1>1, <1>3, <1>4 DEF Edit, IInv, TypeOK
  <1>6. \A j \in Keys : redis'[j].v >= redis[j].v
    BY <1>1, <1>2 DEF IInv, TypeOK
  <1>7. RedisIsNewest'
    <2> SUFFICES ASSUME NEW w \in Workers, NEW j \in Keys
                 PROVE  redis'[j].v >= partners[w][j] /\ redis'[j].v >= due[w][j]
      BY DEF RedisIsNewest, Edit
    <2>1. redis[j].v \in Nat /\ redis'[j].v \in Nat /\ partners[w][j] \in Nat /\ due[w][j] \in Nat
      BY <1>1, <1>3 DEF IInv, TypeOK
    <2> QED BY <1>6, <2>1 DEF IInv, RedisIsNewest
  <1>8. ReadersConnected' /\ PassSoFar' /\ FreshAfterPass'
    BY DEF Edit, IInv, ReadersConnected, PassSoFar, FreshAfterPass
  <1> QED BY <1>5, <1>7, <1>8 DEF IInv

LEMMA ConnectStep ==
    ASSUME IInv, NEW w \in Workers, Connect(w) PROVE IInv'
  <1> USE ConstantsAssumption
  <1>1. Versions \in [Keys -> 0 .. edits] /\ \A k \in Keys : redis[k].v >= Versions[k]
    BY DEF Versions, IInv, TypeOK, None
  <1>2. /\ due' = [due EXCEPT ![w] = Versions] /\ i' = [i EXCEPT ![w] = 0]
        /\ st' = [st EXCEPT ![w] = "read"] /\ lost[w] < FdLimit
        /\ UNCHANGED <<redis, edits, partners, lost, breaks, deaths, current>>
    BY DEF Connect
  <1>3. TypeOK'
    BY <1>1, <1>2 DEF IInv, TypeOK
  <1>4. ReadersConnected'
    BY <1>2 DEF IInv, TypeOK, ReadersConnected
  <1>5. RedisIsNewest'
    BY <1>1, <1>2 DEF IInv, TypeOK, RedisIsNewest
  <1>6. PassSoFar'
    <2>1. ASSUME NEW v \in Workers, st'[v] = "read", NEW k \in Keys, k < i'[v]
          PROVE  partners[v][k] >= due'[v][k]
      <3>1. v # w
        BY <1>2, <2>1 DEF IInv, TypeOK, Keys
      <3> QED BY <1>2, <2>1, <3>1 DEF IInv, TypeOK, PassSoFar
    <2> QED BY <1>2, <2>1 DEF PassSoFar
  <1>7. FreshAfterPass'
    BY <1>2 DEF IInv, FreshAfterPass
  <1> QED BY <1>3, <1>4, <1>5, <1>6, <1>7 DEF IInv

LEMMA ConnectFailsStep ==
    ASSUME IInv, NEW w \in Workers, ConnectFails(w) PROVE IInv'
  <1> USE ConstantsAssumption
  <1>1. /\ breaks' \in 0 .. MaxBreaks /\ lost' \in [Workers -> 0 .. FdLimit]
        /\ \A v \in Workers \ {w} : lost'[v] = lost[v]
    <2>1. CASE lost[w] < FdLimit
      <3>1. PICK n \in {0, 1} : lost' = [lost EXCEPT ![w] = @ + n]
        BY <2>1 DEF ConnectFails
      <3>2. breaks' \in 0 .. MaxBreaks
        BY <2>1 DEF ConnectFails, IInv, TypeOK
      <3>3. lost[w] + n \in 0 .. FdLimit
        BY <2>1 DEF IInv, TypeOK
      <3> QED BY <3>1, <3>2, <3>3 DEF IInv, TypeOK
    <2>2. CASE ~(lost[w] < FdLimit)
      BY <2>2 DEF ConnectFails, IInv, TypeOK
    <2> QED BY <2>1, <2>2
  <1>2. /\ st' = [st EXCEPT ![w] = "idle"]
        /\ UNCHANGED <<redis, edits, partners, i, deaths, due, current>>
    BY DEF ConnectFails
  <1>3. TypeOK'
    BY <1>1, <1>2 DEF IInv, TypeOK
  <1>4. ReadersConnected'
    BY <1>1, <1>2 DEF IInv, TypeOK, ReadersConnected
  <1>5. RedisIsNewest' /\ FreshAfterPass'
    BY <1>2 DEF IInv, RedisIsNewest, FreshAfterPass
  <1>6. PassSoFar'
    BY <1>2 DEF IInv, TypeOK, PassSoFar
  <1> QED BY <1>3, <1>4, <1>5, <1>6 DEF IInv

\* What one turn of the loop does: the entry of its key becomes the version of the hash, or
\* the pass no longer owes it; everything else stays.
LEMMA ReadKeyEffect ==
    ASSUME IInv, NEW w \in Workers, ReadKey(w)
    PROVE  /\ i[w] \in Keys
           /\ i' = [i EXCEPT ![w] = i[w] + 1]
           /\ \/ /\ partners' = [partners EXCEPT ![w] = [@ EXCEPT ![i[w]] = redis[i[w]].v]]
                 /\ due' = due
              \/ /\ due' = [due EXCEPT ![w] = [@ EXCEPT ![i[w]] = 0]]
                 /\ partners' = partners
           /\ UNCHANGED <<redis, edits, st, lost, breaks, deaths, current>>
  <1>1. i[w] \in Keys
    BY ConstantsAssumption DEF ReadKey, IInv, TypeOK, Keys
  <1>2. /\ i' = [i EXCEPT ![w] = i[w] + 1]
        /\ UNCHANGED <<redis, edits, st, lost, breaks, deaths, current>>
    BY DEF ReadKey
  <1>3. CASE redis[i[w]].kind = "good"
    <2>1. /\ partners' = [partners EXCEPT ![w] = [@ EXCEPT ![i[w]] = redis[i[w]].v]]
          /\ due' = due
      BY <1>3 DEF ReadKey
    <2> QED BY <1>1, <1>2, <2>1
  <1>4. CASE redis[i[w]].kind # "good"
    <2>1. /\ due' = [due EXCEPT ![w] = [@ EXCEPT ![i[w]] = 0]]
          /\ partners' = partners
      BY <1>4 DEF ReadKey, None
    <2> QED BY <1>1, <1>2, <2>1
  <1> QED BY <1>3, <1>4

LEMMA ReadKeyStep ==
    ASSUME IInv, NEW w \in Workers, ReadKey(w) PROVE IInv'
  <1> USE ConstantsAssumption
  <1> DEFINE k == i[w]
  <1>1. k \in Keys /\ i' = [i EXCEPT ![w] = k + 1] /\ st[w] = "read"
        /\ UNCHANGED <<redis, edits, st, lost, breaks, deaths, current>>
    BY ReadKeyEffect DEF ReadKey
  <1>2. /\ partners' \in [Workers -> [Keys -> 0 .. edits]]
        /\ due' \in [Workers -> [Keys -> 0 .. edits]]
    <2>1. redis[k].v \in 0 .. edits /\ 0 \in 0 .. edits
      BY <1>1 DEF IInv, TypeOK
    <2>2. /\ [partners[w] EXCEPT ![k] = redis[k].v] \in [Keys -> 0 .. edits]
          /\ [due[w] EXCEPT ![k] = 0] \in [Keys -> 0 .. edits]
      BY <1>1, <2>1 DEF IInv, TypeOK
    <2>3. CASE /\ partners' = [partners EXCEPT ![w] = [@ EXCEPT ![k] = redis[k].v]]
               /\ due' = due
      BY <2>2, <2>3 DEF IInv, TypeOK
    <2>4. CASE /\ due' = [due EXCEPT ![w] = [@ EXCEPT ![k] = 0]]
               /\ partners' = partners
      BY <2>2, <2>4 DEF IInv, TypeOK
    <2> QED BY <2>3, <2>4, ReadKeyEffect
  <1>3. i' \in [Workers -> 0 .. maxPartnerId + 1]
    <2>1. k + 1 \in 0 .. maxPartnerId + 1
      BY <1>1 DEF Keys
    <2> HIDE DEF k
    <2> QED BY <1>1, <2>1 DEF IInv, TypeOK
  <1>4. TypeOK'
    BY <1>1, <1>2, <1>3 DEF IInv, TypeOK
  <1>5. /\ \A v \in Workers, j \in Keys :
              (v # w \/ j # k) => partners'[v][j] = partners[v][j] /\ due'[v][j] = due[v][j]
        /\ \/ partners'[w][k] = redis[k].v /\ due'[w][k] = due[w][k]
           \/ due'[w][k] = 0 /\ partners'[w][k] = partners[w][k]
    BY <1>1, ReadKeyEffect DEF IInv, TypeOK
  <1>6. /\ redis[k].v \in Nat /\ partners[w][k] \in Nat /\ due[w][k] \in Nat
        /\ redis[k].v >= partners[w][k] /\ redis[k].v >= due[w][k]
    BY <1>1 DEF IInv, TypeOK, RedisIsNewest
  <1>7. ReadersConnected'
    BY <1>1 DEF IInv, ReadersConnected
  <1>8. RedisIsNewest'
    BY <1>1, <1>5, <1>6 DEF IInv, RedisIsNewest
  <1>9. partners'[w][k] >= due'[w][k] /\ partners'[w][k] >= partners[w][k]
    BY <1>5, <1>6
  <1>10. PassSoFar'
    <2> SUFFICES ASSUME NEW v \in Workers, st[v] = "read", NEW j \in Keys, j < i'[v]
                 PROVE  partners'[v][j] >= due'[v][j]
      BY <1>1 DEF PassSoFar
    <2>1. CASE v = w /\ j = k
      BY <1>9, <2>1
    <2>2. CASE v # w \/ j # k
      <3>1. j < i[v]
        BY <1>1, <2>2 DEF IInv, TypeOK, Keys
      <3> QED BY <1>5, <2>2, <3>1 DEF IInv, PassSoFar
    <2> QED BY <2>1, <2>2
  <1>11. FreshAfterPass'
    <2> SUFFICES ASSUME NEW v \in Workers, NEW j \in Keys
                 PROVE  partners'[v][j] >= current[v][j]
      BY <1>1 DEF FreshAfterPass
    <2>1. /\ partners[v][j] \in Nat /\ current[v][j] \in Nat /\ partners'[v][j] \in Nat
          /\ partners[v][j] >= current[v][j]
      BY <1>2 DEF IInv, TypeOK, FreshAfterPass
    <2>2. partners'[v][j] >= partners[v][j]
      BY <1>5, <1>9, <2>1
    <2> QED BY <2>1, <2>2
  <1> QED BY <1>4, <1>7, <1>8, <1>10, <1>11 DEF IInv

LEMMA ReadBreaksStep ==
    ASSUME IInv, NEW w \in Workers, ReadBreaks(w) PROVE IInv'
  <1> USE ConstantsAssumption
  <1>1. lost[w] < FdLimit
    BY DEF ReadBreaks, IInv, ReadersConnected
  <1>2. /\ breaks' \in 0 .. MaxBreaks /\ lost' \in [Workers -> 0 .. FdLimit]
        /\ \A v \in Workers \ {w} : lost'[v] = lost[v]
    BY <1>1 DEF ReadBreaks, IInv, TypeOK
  <1>3. /\ st' = [st EXCEPT ![w] = "idle"]
        /\ UNCHANGED <<redis, edits, partners, i, deaths, due, current>>
    BY DEF ReadBreaks
  <1>4. TypeOK'
    BY <1>2, <1>3 DEF IInv, TypeOK
  <1>5. ReadersConnected'
    BY <1>2, <1>3 DEF IInv, TypeOK, ReadersConnected
  <1>6. RedisIsNewest' /\ FreshAfterPass'
    BY <1>3 DEF IInv, RedisIsNewest, FreshAfterPass
  <1>7. PassSoFar'
    BY <1>3 DEF IInv, TypeOK, PassSoFar
  <1> QED BY <1>4, <1>5, <1>6, <1>7 DEF IInv

LEMMA FinishStep ==
    ASSUME IInv, NEW w \in Workers, Finish(w) PROVE IInv'
  <1> USE ConstantsAssumption
  <1>1. /\ st[w] = "read" /\ i[w] > maxPartnerId
        /\ st' = [st EXCEPT ![w] = "idle"]
        /\ current' = [current EXCEPT ![w] = due[w]]
        /\ UNCHANGED <<redis, edits, partners, i, lost, breaks, deaths, due>>
    BY DEF Finish
  <1>2. TypeOK'
    BY <1>1 DEF IInv, TypeOK
  <1>3. ReadersConnected' /\ PassSoFar'
    BY <1>1 DEF IInv, TypeOK, ReadersConnected, PassSoFar
  <1>4. RedisIsNewest'
    BY <1>1 DEF IInv, RedisIsNewest
  <1>5. FreshAfterPass'
    <2>1. \A k \in Keys : k < i[w]
      BY <1>1 DEF Keys, IInv, TypeOK
    <2>2. \A k \in Keys : partners[w][k] >= due[w][k]
      BY <1>1, <2>1 DEF IInv, PassSoFar
    <2> QED BY <1>1, <2>2 DEF IInv, TypeOK, FreshAfterPass
  <1> QED BY <1>2, <1>3, <1>4, <1>5 DEF IInv

LEMMA TimerStep ==
    ASSUME IInv, NEW w \in Workers, Timer(w) PROVE IInv'
  <1>1. TypeOK'
    BY DEF Timer, IInv, TypeOK
  <1>2. ReadersConnected' /\ PassSoFar'
    BY DEF Timer, IInv, TypeOK, ReadersConnected, PassSoFar
  <1>3. RedisIsNewest' /\ FreshAfterPass'
    BY DEF Timer, IInv, RedisIsNewest, FreshAfterPass
  <1> QED BY <1>1, <1>2, <1>3 DEF IInv

LEMMA DieStep ==
    ASSUME IInv, NEW w \in Workers, Die(w) PROVE IInv'
  <1>1. TypeOK'
    BY ConstantsAssumption DEF Die, IInv, TypeOK
  <1>2. ReadersConnected' /\ PassSoFar'
    BY DEF Die, IInv, TypeOK, ReadersConnected, PassSoFar
  <1>3. RedisIsNewest' /\ FreshAfterPass'
    BY DEF Die, IInv, RedisIsNewest, FreshAfterPass
  <1> QED BY <1>1, <1>2, <1>3 DEF IInv

LEMMA RespawnStep ==
    ASSUME IInv, NEW w \in Workers, Respawn(w) PROVE IInv'
  <1> USE ConstantsAssumption
  <1>1. Nothing \in [Keys -> 0 .. edits] /\ \A k \in Keys : Nothing[k] = 0
    BY DEF Nothing, None, IInv, TypeOK
  <1>2. /\ st' = [st EXCEPT ![w] = "connect"]
        /\ partners' = [partners EXCEPT ![w] = Nothing]
        /\ current' = [current EXCEPT ![w] = Nothing]
        /\ lost' = [lost EXCEPT ![w] = 0]
        /\ UNCHANGED <<redis, edits, i, breaks, deaths, due>>
    BY DEF Respawn
  <1>3. TypeOK'
    BY <1>1, <1>2 DEF IInv, TypeOK
  <1>4. ReadersConnected'
    BY <1>2 DEF IInv, TypeOK, ReadersConnected
  <1>5. PassSoFar'
    BY <1>2 DEF IInv, TypeOK, PassSoFar
  <1>6. RedisIsNewest'
    BY <1>1, <1>2 DEF IInv, TypeOK, RedisIsNewest
  <1>7. FreshAfterPass'
    BY <1>1, <1>2 DEF IInv, TypeOK, FreshAfterPass
  <1> QED BY <1>3, <1>4, <1>5, <1>6, <1>7 DEF IInv

LEMMA NextIInv == IInv /\ [Next]_vars => IInv'
  <1> SUFFICES ASSUME IInv, [Next]_vars PROVE IInv' OBVIOUS
  <1>1. CASE UNCHANGED vars
    BY <1>1 DEF vars, IInv, TypeOK, ReadersConnected, RedisIsNewest, PassSoFar, FreshAfterPass
  <1>2. ASSUME NEW k \in Keys, Edit(k) PROVE IInv'
    BY <1>2, EditStep
  <1>3. ASSUME NEW w \in Workers, Sync(w) PROVE IInv'
    BY <1>3, ConnectStep, ConnectFailsStep, ReadKeyStep, ReadBreaksStep, FinishStep DEF Sync
  <1>4. ASSUME NEW w \in Workers, Timer(w) \/ Die(w) \/ Respawn(w) PROVE IInv'
    BY <1>4, TimerStep, DieStep, RespawnStep
  <1> QED BY <1>1, <1>2, <1>3, <1>4 DEF Next

LEMMA InvHolds == Spec => []IInv
  BY InitIInv, NextIInv, PTL DEF Spec

------------------------------------------------------------------------------

\* The types, and with them that a worker never loses more connections than FdLimit.
THEOREM TypeCorrect == Spec => []TypeOK
  <1>1. IInv => TypeOK
    BY DEF IInv
  <1> QED BY <1>1, InvHolds, PTL

\* syncPartners: whatever the operator edits meanwhile, a pass that is not broken off leaves
\* every entry at least as new as the hash was when the pass began.
THEOREM PassesAreFresh == Spec => []FreshAfterPass
  <1>1. IInv => FreshAfterPass
    BY DEF IInv
  <1> QED BY <1>1, InvHolds, PTL

\* No step of syncPartners, of Redis or of the timer puts an older version of an entry back
\* or takes it away while the worker lives.
THEOREM EntriesNeverGoBack == Spec => NeverBackward
  <1> DEFINE Forward == \A w \in Workers : \A k \in Keys :
                           st[w] # "dead" => partners'[w][k] >= partners[w][k]
  <1>1. IInv /\ [Next]_vars => [Forward]_vars
    <2> SUFFICES ASSUME IInv, Next, NEW v \in Workers, NEW j \in Keys, st[v] # "dead"
                 PROVE  partners'[v][j] >= partners[v][j]
      OBVIOUS
    <2>1. partners[v][j] \in Nat
      BY ConstantsAssumption DEF IInv, TypeOK
    <2>2. CASE partners' = partners
      BY <2>1, <2>2
    <2>3. ASSUME NEW w \in Workers, ReadKey(w) PROVE partners'[v][j] >= partners[v][j]
      <3>1. redis[j].v \in Nat /\ redis[j].v >= partners[v][j]
        BY ConstantsAssumption DEF IInv, TypeOK, RedisIsNewest
      <3>2. partners'[v][j] = partners[v][j] \/ partners'[v][j] = redis[j].v
        <4>1. CASE v = w /\ j = i[w]
          BY <2>3, <4>1, ReadKeyEffect DEF IInv, TypeOK
        <4>2. CASE v # w \/ j # i[w]
          BY <2>3, <4>2, ReadKeyEffect DEF IInv, TypeOK
        <4> QED BY <4>1, <4>2
      <3> QED BY <2>1, <3>1, <3>2
    <2>4. ASSUME NEW w \in Workers, Respawn(w) PROVE partners'[v][j] >= partners[v][j]
      <3>1. v # w
        BY <2>4 DEF Respawn
      <3> QED BY <2>1, <2>4, <3>1 DEF Respawn, IInv, TypeOK
    <2> QED BY <2>2, <2>3, <2>4 DEF Next, Sync, Edit, Connect, ConnectFails, ReadBreaks,
                                    Finish, Timer, Die
  <1> QED BY <1>1, InvHolds, PTL DEF Spec, NeverBackward

==============================================================================
