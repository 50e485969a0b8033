-------------------------- MODULE RedisLoaderProofs --------------------------
(***************************************************************************)
(* Theorems about RedisLoader, for every table of programs, set of ids,    *)
(* PACK_NUM, number of hours, lines and exceptions: what the cluster holds *)
(* after retries of a kept pipeline, and how much of it is left behind.    *)
(***************************************************************************)
EXTENDS RedisLoader, SequenceTheorems, WellFoundedInduction, TLAPS

\* $perNum counts up to PACK_NUM and starts again; a process that waits has read nothing.
Counting == \A h \in Hours :
    /\ pc[h] = "wait" => perNum[h] = 0 /\ lines[h] = 0
    /\ pc[h] = "read" => perNum[h] < PACK_NUM

\* Where the commands of a pipeline and the newest lines stand in the logs.
Places == \A h \in Hours :
    /\ \A i \in DOMAIN pipeline[h] :
          pipeline[h][i].at[1] = h /\ pipeline[h][i].at[2] <= lines[h]
    /\ \A k \in Ids : newest[k][1] = h => newest[k][2] <= lines[h]

\* A line has one command, and one key.
SameKey == \A h \in Hours : \A i \in DOMAIN pipeline[h] : \A k \in Ids :
    pipeline[h][i].at = newest[k] => pipeline[h][i].key = k

\* A pipeline loses its commands from the front: as long as it holds some command for a key
\* it holds, not before that one, the newest of its hour.
LastKept == \A h \in Hours : \A i \in DOMAIN pipeline[h] :
    \/ newest[pipeline[h][i].key][1] > h
    \/ \E j \in i .. Len(pipeline[h]) :
          /\ pipeline[h][j].key = pipeline[h][i].key
          /\ pipeline[h][j].at = newest[pipeline[h][i].key]

\* Hours that are loaded in their order: no later one has begun while one is running.
InOrder == ~ disorder => \A h \in Running : \A g \in Hours : g > h => pc[g] = "wait"

\* The inductive invariant.
IInv ==
    /\ TypeOK
    /\ Counting
    /\ LeftOver
    /\ Places
    /\ SameKey
    /\ LastKept
    /\ InOrder
    /\ NewestStored

------------------------------------------------------------------------------
(* Numbers, places and sequences *)

\* A non-empty set of places has a last one.
LEMMA MaxOfPlaces ==
    ASSUME NEW n \in Nat, NEW S, S \subseteq 1 .. n, S # {}
    PROVE  Max(S) \in S /\ \A j \in S : j <= Max(S)
  <1> DEFINE T == {n - x : x \in S}
             R == OpToRel(<, Nat)
  <1>1. \A x \in S : x \in Nat /\ n - x \in Nat
    OBVIOUS
  <1>2. T \subseteq Nat /\ T # {}
    BY <1>1
  <1>3. IsWellFoundedOn(R, Nat)
    BY NatLessThanWellFounded
  <1>4. PICK y \in T : \A z \in T : ~ (<<z, y>> \in R)
    <2> HIDE DEF T, R
    <2> QED BY <1>2, <1>3, WFMin
  <1>5. PICK x \in S : y = n - x
    BY <1>4
  <1>6. \A z \in S : ~ (n - z < n - x)
    BY <1>1, <1>4, <1>5 DEF OpToRel
  <1>7. ASSUME NEW z \in S PROVE x >= z
    <2>1. x \in Nat /\ z \in Nat /\ ~ (n - z < n - x)
      BY <1>1, <1>6
    <2> QED BY <2>1
  <1>8. \E m \in S : \A z \in S : m >= z
    BY <1>7
  <1>9. Max(S) \in S /\ \A z \in S : Max(S) >= z
    BY <1>8 DEF Max
  <1> QED BY <1>1, <1>9

\* What is left of a pipeline.
LEMMA Rest ==
    ASSUME NEW p \in Seq(Command), NEW n \in 0 .. Len(p)
    PROVE  /\ SubSeq(p, n + 1, Len(p)) \in Seq(Command)
           /\ Len(SubSeq(p, n + 1, Len(p))) = Len(p) - n
           /\ \A i \in 1 .. Len(p) - n : SubSeq(p, n + 1, Len(p))[i] = p[n + i]
  <1>1. Len(p) \in Nat /\ n \in Nat
    OBVIOUS
  <1>2. CASE n < Len(p)
    <2> DEFINE m == n + 1
               l == Len(p)
    <2>1. m \in 1 .. Len(p) + 1 /\ l \in 0 .. Len(p) /\ m \in Nat /\ l \in Nat /\ m <= l
      BY <1>1, <1>2
    <2>2. l - m + 1 = l - n
      BY <1>1
    <2>3. \A i \in 1 .. l - m + 1 : m + i - 1 = n + i
      BY <1>1
    <2> HIDE DEF m, l
    <2>4. /\ SubSeq(p, m, l) \in Seq(Command)
          /\ Len(SubSeq(p, m, l)) = l - m + 1
          /\ \A i \in 1 .. l - m + 1 : SubSeq(p, m, l)[i] = p[m + i - 1]
      BY <2>1, SubSeqProperties
    <2>5. \A i \in 1 .. l - m + 1 : SubSeq(p, m, l)[i] = p[n + i]
      BY <2>3, <2>4
    <2> QED BY <2>2, <2>4, <2>5 DEF m, l
  <1>3. CASE n = Len(p)
    <2>1. SubSeq(p, n + 1, Len(p)) = << >>
      BY <1>1, <1>3
    <2> QED BY <1>1, <1>3, <2>1
  <1> QED BY <1>1, <1>2, <1>3

\* One more exception, one more pipeline.
LEMMA OneMore ==
    ASSUME NEW f \in Nat
    PROVE  /\ PACK_NUM * f \in Nat /\ PACK_NUM * (f + 1) = PACK_NUM * f + PACK_NUM
           /\ PACK_NUM % PACK_NUM = 0
  BY LoaderAssumption

\* What TypeOK says of one hour.
LEMMA HourTypes ==
    ASSUME TypeOK, NEW h \in Hours
    PROVE  /\ h \in Nat \ {0} /\ lines[h] \in Nat /\ lines[h] <= MaxLines
           /\ pipeline[h] \in Seq(Command) /\ Len(pipeline[h]) \in Nat
           /\ DOMAIN pipeline[h] = 1 .. Len(pipeline[h])
           /\ perNum[h] \in Nat /\ perNum[h] <= PACK_NUM
           /\ fails[h] \in Nat /\ fails[h] <= MaxFails
           /\ behind[h] \in BOOLEAN
  <1> USE LoaderAssumption
  <1>1. h \in Nat \ {0}
    BY DEF Hours
  <1>2. lines[h] \in 0 .. MaxLines /\ perNum[h] \in 0 .. PACK_NUM /\ fails[h] \in 0 .. MaxFails
        /\ behind[h] \in BOOLEAN /\ pipeline[h] \in Seq(Command)
    BY DEF TypeOK
  <1> QED BY <1>1, <1>2

LEMMA CommandTypes ==
    ASSUME TypeOK, NEW h \in Hours, NEW i \in DOMAIN pipeline[h]
    PROVE  /\ pipeline[h][i] \in Command /\ pipeline[h][i].key \in Ids
           /\ pipeline[h][i].at \in Hours \X (1 .. MaxLines)
  <1>1. pipeline[h] \in Seq(Command) /\ i \in 1 .. Len(pipeline[h])
    BY HourTypes
  <1>2. pipeline[h][i] \in Command
    BY <1>1
  <1> QED BY <1>2 DEF Command

LEMMA NewestTypes ==
    ASSUME TypeOK, NEW k \in Ids
    PROVE  newest[k][1] \in Nat /\ newest[k][2] \in Nat
  <1>1. newest[k] = <<0, 0>> \/ newest[k] \in Hours \X (1 .. MaxLines)
    BY DEF TypeOK, Start0
  <1>2. CASE newest[k] = <<0, 0>>
    BY <1>2
  <1>3. CASE newest[k] \in Hours \X (1 .. MaxLines)
    BY <1>3, LoaderAssumption DEF Hours
  <1> QED BY <1>1, <1>2, <1>3

------------------------------------------------------------------------------
(* The steps *)

LEMMA InitIInv == Init => IInv
  <1> SUFFICES ASSUME Init PROVE IInv OBVIOUS
  <1> USE LoaderAssumption
  <1>1. TypeOK
    <2>1. /\ redis \in [Ids -> Command \cup {NoCommand}]
          /\ newest \in [Ids -> {Start0} \cup (Hours \X (1 .. MaxLines))]
      BY DEF Init
    <2>2. pipeline \in [Hours -> Seq(Command)]
      BY DEF Init
    <2>3. /\ lines \in [Hours -> 0 .. MaxLines] /\ perNum \in [Hours -> 0 .. PACK_NUM]
          /\ fails \in [Hours -> 0 .. MaxFails]
      BY DEF Init
    <2>4. /\ pc \in [Hours -> {"wait", "read", "full", "last", "done", "dead"}]
          /\ behind \in [Hours -> BOOLEAN] /\ disorder \in BOOLEAN
          /\ unsure \subseteq Hours \X (1 .. MaxLines) /\ program \in Programs
      BY DEF Init
    <2> QED BY <2>1, <2>2, <2>3, <2>4 DEF TypeOK
  <1>2. \A h \in Hours : DOMAIN pipeline[h] = {} /\ Len(pipeline[h]) = 0 /\ fails[h] = 0
    BY DEF Init
  <1>3. Counting /\ SameKey /\ LastKept
    BY <1>2 DEF Init, Counting, SameKey, LastKept
  <1>4. Places
    BY <1>2 DEF Init, Places, Start0
  <1>5. InOrder
    BY DEF Init, InOrder, Running
  <1>6. LeftOver
    BY <1>2, OneMore DEF Init, LeftOver
  <1>7. NewestStored
    BY DEF Init, NewestStored, NoCommand, Start0
  <1> QED BY <1>1, <1>3, <1>4, <1>5, <1>6, <1>7 DEF IInv

\* cron starts an hour.
LEMMA StartStep == ASSUME IInv, NEW h \in Hours, Start(h) PROVE IInv'
  <1> USE LoaderAssumption
  <1>1. PICK where \in {"read", "dead"} : pc' = [pc EXCEPT ![h] = where]
    BY DEF Start
  <1>2. /\ pc[h] = "wait"
        /\ disorder' = (disorder \/ Running # {} \/ \E g \in Hours : g > h /\ pc[g] # "wait")
        /\ UNCHANGED <<program, lines, pipeline, perNum, behind, fails, redis, newest, unsure>>
    BY DEF Start
  <1>3. /\ pc' \in [Hours -> {"wait", "read", "full", "last", "done", "dead"}]
        /\ pc'[h] \in {"read", "dead"} /\ \A g \in Hours \ {h} : pc'[g] = pc[g]
    BY <1>1 DEF IInv, TypeOK
  <1>4. TypeOK'
    <2>1. disorder' \in BOOLEAN
      BY <1>2 DEF IInv, TypeOK
    <2> QED BY <1>2, <1>3, <2>1 DEF IInv, TypeOK
  <1>5. Counting'
    BY <1>2, <1>3 DEF IInv, Counting
  <1>6. LeftOver'
    BY <1>2, <1>3 DEF IInv, LeftOver
  <1>7. Places' /\ SameKey' /\ LastKept'
    BY <1>2 DEF IInv, Places, SameKey, LastKept
  <1>8. InOrder'
    <2> SUFFICES ASSUME ~ disorder', NEW r \in Hours, r \in Running', NEW g \in Hours, g > r
                 PROVE  pc'[g] = "wait"
      BY DEF InOrder, Running
    <2>1. Running = {} /\ \A f \in Hours : f > h => pc[f] = "wait"
      BY <1>2
    <2>2. r = h
      BY <1>3, <2>1 DEF Running
    <2>3. g # h
      BY <2>2 DEF Hours
    <2> QED BY <1>3, <2>1, <2>2, <2>3
  <1>9. NewestStored'
    <2>1. Queued' = Queued
      BY <1>2 DEF Queued
    <2>2. ~ disorder' => ~ disorder
      BY <1>2
    <2> QED BY <1>2, <2>1, <2>2 DEF IInv, NewestStored
  <1> QED BY <1>4, <1>5, <1>6, <1>7, <1>8, <1>9 DEF IInv

LEMMA EofStep == ASSUME IInv, NEW h \in Hours, Eof(h) PROVE IInv'
  <1> USE LoaderAssumption
  <1>1. /\ pc[h] = "read"
        /\ pc' = [pc EXCEPT ![h] = IF perNum[h] > 0 THEN "last" ELSE "done"]
        /\ UNCHANGED <<program, lines, pipeline, perNum, behind, fails, redis, newest, unsure,
                       disorder>>
    BY DEF Eof
  <1>2. /\ pc' \in [Hours -> {"wait", "read", "full", "last", "done", "dead"}]
        /\ pc'[h] = (IF perNum[h] > 0 THEN "last" ELSE "done")
        /\ \A g \in Hours \ {h} : pc'[g] = pc[g]
    BY <1>1 DEF IInv, TypeOK
  <1>3. TypeOK'
    BY <1>1, <1>2 DEF IInv, TypeOK
  <1>4. Counting'
    BY <1>1, <1>2 DEF IInv, Counting
  <1>5. LeftOver'
    <2>1. pc'[h] = "done" => Len(pipeline[h]) <= PACK_NUM * fails[h]
      <3>1. perNum[h] \in Nat /\ fails[h] \in Nat /\ Len(pipeline[h]) \in Nat
        BY HourTypes DEF IInv
      <3>2. PACK_NUM * fails[h] \in Nat /\ Len(pipeline[h]) <= perNum[h] + PACK_NUM * fails[h]
        BY <3>1, OneMore DEF IInv, LeftOver
      <3>3. pc'[h] = "done" => perNum[h] = 0
        BY <1>2, <3>1
      <3> QED BY <3>1, <3>2, <3>3
    <2> QED BY <1>1, <1>2, <2>1 DEF IInv, LeftOver
  <1>6. Places' /\ SameKey' /\ LastKept'
    BY <1>1 DEF IInv, Places, SameKey, LastKept
  <1>7. InOrder'
    BY <1>1, <1>2 DEF IInv, InOrder, Running
  <1>8. NewestStored'
    BY <1>1 DEF IInv, NewestStored, Queued
  <1> QED BY <1>3, <1>4, <1>5, <1>6, <1>7, <1>8 DEF IInv

\* A command is queued where some pipeline holds it.
LEMMA QueuedMeans ==
    \A x : x \in Queued <=> \E g \in Hours : \E i \in DOMAIN pipeline[g] : x = pipeline[g][i].at
  BY DEF Queued

LEMMA QueuedMeansNext ==
    \A x : x \in Queued' <=>
              \E g \in Hours : \E i \in DOMAIN pipeline'[g] : x = pipeline'[g][i].at
  BY DEF Queued

\* The key of a line that is accepted.
LEMMA AcceptedKey ==
    ASSUME TypeOK, NEW l \in Lines(program), Accepted(program, l)
    PROVE  Key(program, l) \in Ids
  <1>1. program.key \in {"uid", "rmid"}
    BY ProgramsAssumption DEF TypeOK
  <1>2. l.uid \in Ids /\ l.rmid \in Ids
    BY DEF Lines, Accepted
  <1> QED BY <1>1, <1>2 DEF Key

\* A line that is passed over.
LEMMA SkipStep ==
    ASSUME IInv, NEW h \in Hours, lines[h] < MaxLines, pc[h] = "read",
           lines' = [lines EXCEPT ![h] = lines[h] + 1],
           UNCHANGED <<program, pc, pipeline, perNum, behind, fails, redis, newest, unsure,
                       disorder>>
    PROVE  IInv'
  <1> USE LoaderAssumption
  <1>1. lines[h] \in Nat
    BY HourTypes DEF IInv
  <1>2. /\ lines' \in [Hours -> 0 .. MaxLines] /\ lines'[h] = lines[h] + 1
        /\ \A g \in Hours \ {h} : lines'[g] = lines[g]
    BY <1>1 DEF IInv, TypeOK
  <1>3. TypeOK'
    BY <1>2 DEF IInv, TypeOK
  <1>4. Counting'
    BY <1>2 DEF IInv, Counting
  <1>5. Places'
    <2>1. \A k \in Ids : newest[k][2] \in Nat
      BY NewestTypes DEF IInv
    <2>2. \A i \in DOMAIN pipeline[h] : pipeline[h][i].at[2] \in Nat
      BY CommandTypes DEF IInv
    <2>3. \A i \in DOMAIN pipeline[h] : pipeline[h][i].at[2] <= lines[h] + 1
      BY <1>1, <2>2 DEF IInv, Places
    <2>4. \A k \in Ids : newest[k][1] = h => newest[k][2] <= lines[h] + 1
      BY <1>1, <2>1 DEF IInv, Places
    <2> QED BY <1>2, <2>3, <2>4 DEF IInv, Places
  <1>6. LeftOver' /\ SameKey' /\ LastKept' /\ InOrder'
    BY DEF IInv, LeftOver, SameKey, LastKept, InOrder, Running
  <1>7. Queued' = Queued
    BY DEF Queued
  <1>8. NewestStored'
    BY <1>7 DEF IInv, NewestStored
  <1> QED BY <1>3, <1>4, <1>5, <1>6, <1>8 DEF IInv

\* A line that becomes a command at the end of the pipeline: what ReadLine does with it.
Enqueues(h, k, at) ==
    /\ lines[h] < MaxLines /\ pc[h] = "read" /\ at = <<h, lines[h] + 1>>
    /\ lines' = [lines EXCEPT ![h] = lines[h] + 1]
    /\ pipeline' = [pipeline EXCEPT ![h] = Append(pipeline[h], [key |-> k, at |-> at])]
    /\ perNum' = [perNum EXCEPT ![h] = perNum[h] + 1]
    /\ pc' = IF perNum'[h] % PACK_NUM = 0 THEN [pc EXCEPT ![h] = "full"] ELSE pc
    /\ newest' = IF Before(newest[k], at) THEN [newest EXCEPT ![k] = at] ELSE newest
    /\ UNCHANGED <<program, behind, fails, redis, unsure, disorder>>

LEMMA AcceptStep ==
    ASSUME IInv, NEW h \in Hours, NEW k \in Ids, NEW at, Enqueues(h, k, at)
    PROVE  IInv'
  <1> USE LoaderAssumption
  <1> DEFINE n == Len(pipeline[h])
             c == [key |-> k, at |-> at]
  <1>1. /\ h \in Nat /\ lines[h] \in Nat /\ n \in Nat /\ perNum[h] \in Nat
        /\ pipeline[h] \in Seq(Command) /\ DOMAIN pipeline[h] = 1 .. n /\ fails[h] \in Nat
    BY HourTypes DEF IInv
  <1>0. /\ pc[h] = "read" /\ lines[h] < MaxLines /\ at = <<h, lines[h] + 1>>
        /\ lines' = [lines EXCEPT ![h] = lines[h] + 1]
        /\ newest' = IF Before(newest[k], at) THEN [newest EXCEPT ![k] = at] ELSE newest
        /\ UNCHANGED <<program, behind, fails, redis, unsure, disorder>>
    BY DEF Enqueues
  <1>2. /\ lines' \in [Hours -> 0 .. MaxLines] /\ lines'[h] = lines[h] + 1
        /\ \A g \in Hours \ {h} : lines'[g] = lines[g]
    <2>1. lines[h] + 1 \in 0 .. MaxLines
      BY <1>0, <1>1
    <2> QED BY <1>0, <2>1 DEF IInv, TypeOK
  <1>3. at \in Hours \X (1 .. MaxLines) /\ at[1] = h /\ at[2] = lines[h] + 1
    BY <1>0, <1>1
  <1>4. c \in Command /\ c.key = k /\ c.at = at
    BY <1>3 DEF Command
  <1>5. /\ pipeline' \in [Hours -> Seq(Command)] /\ pipeline'[h] = Append(pipeline[h], c)
        /\ \A g \in Hours \ {h} : pipeline'[g] = pipeline[g]
    BY <1>1, <1>4 DEF IInv, TypeOK, Enqueues
  <1>6. /\ Len(pipeline'[h]) = n + 1 /\ DOMAIN pipeline'[h] = 1 .. n + 1
        /\ pipeline'[h][n + 1] = c /\ \A i \in 1 .. n : pipeline'[h][i] = pipeline[h][i]
    <2> HIDE DEF c
    <2> QED BY <1>1, <1>4, <1>5
  <1>7. perNum[h] < PACK_NUM
    BY <1>0 DEF IInv, Counting
  <1>8. /\ perNum' \in [Hours -> 0 .. PACK_NUM] /\ perNum'[h] = perNum[h] + 1
        /\ \A g \in Hours \ {h} : perNum'[g] = perNum[g]
    <2>1. perNum' = [perNum EXCEPT ![h] = perNum[h] + 1]
      BY DEF Enqueues
    <2>2. perNum[h] + 1 \in 0 .. PACK_NUM
      BY <1>1, <1>7
    <2> QED BY <2>1, <2>2 DEF IInv, TypeOK
  <1>9. /\ pc' \in [Hours -> {"wait", "read", "full", "last", "done", "dead"}]
        /\ pc'[h] = (IF (perNum[h] + 1) % PACK_NUM = 0 THEN "full" ELSE "read")
        /\ \A g \in Hours \ {h} : pc'[g] = pc[g]
    BY <1>8 DEF IInv, TypeOK, Enqueues
  <1>10. /\ newest' \in [Ids -> {Start0} \cup (Hours \X (1 .. MaxLines))]
         /\ \A q \in Ids \ {k} : newest'[q] = newest[q]
         /\ \/ newest'[k] = at /\ Before(newest[k], at)
            \/ newest'[k] = newest[k] /\ newest[k][1] > h
    <2>1. newest[k][1] \in Nat /\ newest[k][2] \in Nat
      BY NewestTypes DEF IInv
    <2>2. newest[k][1] = h => newest[k][2] <= lines[h]
      BY DEF IInv, Places
    <2>3. ~ Before(newest[k], at) => newest[k][1] > h
      <3>1. ~ Before(newest[k], at) =>
               ~(newest[k][1] < h) /\ ~(newest[k][1] = h /\ newest[k][2] < lines[h] + 1)
        BY <1>3 DEF Before
      <3> QED BY <1>1, <2>1, <2>2, <3>1
    <2> QED BY <1>0, <1>3, <2>3 DEF IInv, TypeOK
  <1> HIDE DEF c
  <1>11. TypeOK'
    BY <1>0, <1>2, <1>5, <1>8, <1>9, <1>10 DEF IInv, TypeOK
  <1>12. Counting'
    <2>1. pc'[h] = "read" => perNum'[h] < PACK_NUM
      <3>1. perNum[h] + 1 = PACK_NUM => (perNum[h] + 1) % PACK_NUM = 0
        BY OneMore
      <3> QED BY <1>1, <1>7, <1>8, <1>9, <3>1
    <2> QED BY <1>2, <1>8, <1>9, <2>1 DEF IInv, Counting
  <1>13. LeftOver'
    <2>1. n <= perNum[h] + PACK_NUM * fails[h] /\ PACK_NUM * fails[h] \in Nat
      BY <1>1, OneMore DEF IInv, LeftOver
    <2>2. n + 1 <= perNum[h] + 1 + PACK_NUM * fails[h]
      <3> DEFINE a == PACK_NUM * fails[h]
      <3>1. n <= perNum[h] + a /\ a \in Nat
        BY <2>1
      <3> HIDE DEF a, n
      <3>2. n + 1 <= perNum[h] + 1 + a
        BY <1>1, <3>1
      <3> QED BY <3>2 DEF a
    <2>3. \A g \in Hours \ {h} :
             /\ Len(pipeline'[g]) <= perNum'[g] + PACK_NUM * fails'[g]
             /\ pc'[g] = "done" => Len(pipeline'[g]) <= PACK_NUM * fails'[g]
      BY <1>0, <1>5, <1>8, <1>9 DEF IInv, LeftOver
    <2>4. pc'[h] # "done"
      BY <1>9
    <2> QED BY <1>0, <1>6, <1>8, <2>2, <2>3, <2>4 DEF LeftOver
  <1>14. Places'
    <2>1. \A i \in 1 .. n : pipeline[h][i].at[2] \in Nat /\ pipeline[h][i].at[2] <= lines[h]
                            /\ pipeline[h][i].at[1] = h
      BY <1>1, CommandTypes DEF IInv, Places
    <2>2. \A i \in 1 .. n + 1 : pipeline'[h][i].at[1] = h /\ pipeline'[h][i].at[2] <= lines[h] + 1
      <3>1. \A i \in 1 .. n + 1 : i \in 1 .. n \/ i = n + 1
        BY <1>1
      <3>2. pipeline'[h][n + 1].at[1] = h /\ pipeline'[h][n + 1].at[2] <= lines[h] + 1
        BY <1>1, <1>3, <1>4, <1>6
      <3>3. \A i \in 1 .. n : pipeline[h][i].at[2] <= lines[h] + 1
        <4> TAKE i \in 1 .. n
        <4>1. pipeline[h][i].at[2] \in Nat /\ pipeline[h][i].at[2] <= lines[h]
          BY <2>1
        <4> QED BY <1>1, <4>1
      <3> QED BY <1>6, <2>1, <3>1, <3>2, <3>3
    <2>3. \A q \in Ids : newest[q][2] \in Nat
      BY NewestTypes DEF IInv
    <2>4. \A q \in Ids : newest'[q][1] = h => newest'[q][2] <= lines[h] + 1
      <3> TAKE q \in Ids
      <3>1. newest[q][2] \in Nat /\ (newest[q][1] = h => newest[q][2] <= lines[h])
        BY <2>3 DEF IInv, Places
      <3>2. newest'[q] = at \/ newest'[q] = newest[q]
        BY <1>10
      <3>3. newest[q][1] = h => newest[q][2] <= lines[h] + 1
        BY <1>1, <3>1
      <3>4. at[2] <= lines[h] + 1
        BY <1>1, <1>3
      <3> QED BY <3>2, <3>3, <3>4
    <2>5. \A g \in Hours \ {h} : \A q \in Ids : newest'[q][1] = g => newest'[q][2] <= lines[g]
      BY <1>3, <1>10 DEF IInv, Places
    <2>6. \A i \in DOMAIN pipeline'[h] :
             pipeline'[h][i].at[1] = h /\ pipeline'[h][i].at[2] <= lines'[h]
      BY <1>2, <1>6, <2>2
    <2>7. \A g \in Hours \ {h} : \A i \in DOMAIN pipeline'[g] :
             pipeline'[g][i].at[1] = g /\ pipeline'[g][i].at[2] <= lines'[g]
      BY <1>2, <1>5 DEF IInv, Places
    <2>8. \A g \in Hours : \A q \in Ids : newest'[q][1] = g => newest'[q][2] <= lines'[g]
      BY <1>2, <2>4, <2>5
    <2> QED BY <2>6, <2>7, <2>8 DEF Places
  <1>15. SameKey'
    <2> SUFFICES ASSUME NEW g \in Hours, NEW i \in DOMAIN pipeline'[g], NEW q \in Ids,
                        pipeline'[g][i].at = newest'[q]
                 PROVE  pipeline'[g][i].key = q
      BY DEF SameKey
    <2>1. CASE g = h /\ i = n + 1
      <3>1. newest[q][2] \in Nat /\ (newest[q][1] = h => newest[q][2] <= lines[h])
        BY NewestTypes DEF IInv, Places
      <3>2. newest[q] # at
        BY <1>1, <1>3, <3>1
      <3> QED BY <1>4, <1>6, <1>10, <2>1, <3>2
    <2>2. CASE ~(g = h /\ i = n + 1)
      <3>1. i \in DOMAIN pipeline[g] /\ pipeline'[g][i] = pipeline[g][i]
        <4>1. CASE g # h
          BY <1>5, <4>1
        <4>2. CASE g = h
          <5>1. i \in 1 .. n + 1 /\ i # n + 1
            BY <1>6, <2>2, <4>2
          <5>2. i \in 1 .. n
            BY <1>1, <5>1
          <5> QED BY <1>1, <1>6, <4>2, <5>2
        <4> QED BY <4>1, <4>2
      <3>2. pipeline[g][i].at[1] = g /\ pipeline[g][i].at[2] <= lines[g]
        BY <3>1 DEF IInv, Places
      <3>3. pipeline[g][i].at # at
        BY <1>1, <1>3, <3>2
      <3> QED BY <1>10, <3>1, <3>3 DEF IInv, SameKey
    <2> QED BY <2>1, <2>2
  <1>16. LastKept'
    <2> SUFFICES ASSUME NEW g \in Hours, NEW i \in DOMAIN pipeline'[g]
                 PROVE  \/ newest'[pipeline'[g][i].key][1] > g
                        \/ \E j \in i .. Len(pipeline'[g]) :
                              /\ pipeline'[g][j].key = pipeline'[g][i].key
                              /\ pipeline'[g][j].at = newest'[pipeline'[g][i].key]
      BY DEF LastKept
    <2> DEFINE q == pipeline'[g][i].key
    <2>1. CASE g = h
      <3>1. i \in 1 .. n + 1 /\ n + 1 \in i .. Len(pipeline'[g])
        BY <1>1, <1>6, <2>1
      <3>2. CASE q = k
        <4>1. pipeline'[g][n + 1].key = q /\ pipeline'[g][n + 1].at = at
          BY <1>4, <1>6, <2>1, <3>2
        <4>2. newest'[q] = at \/ newest'[q][1] > g
          BY <1>10, <2>1, <3>2
        <4> QED BY <3>1, <4>1, <4>2
      <3>3. CASE q # k
        <4>1. i \in 1 .. n /\ pipeline'[g][i] = pipeline[g][i]
          BY <1>1, <1>4, <1>6, <2>1, <3>1, <3>3
        <4>2. q \in Ids /\ newest'[q] = newest[q]
          BY <1>1, <1>10, <2>1, <3>3, <4>1, CommandTypes DEF IInv
        <4>3. \/ newest[q][1] > h
              \/ \E j \in i .. n : pipeline[h][j].key = q /\ pipeline[h][j].at = newest[q]
          <5>1. q = pipeline[h][i].key /\ i \in DOMAIN pipeline[h]
            BY <1>1, <2>1, <4>1
          <5> HIDE DEF q
          <5> QED BY <5>1 DEF IInv, LastKept
        <4>4. \A j \in i .. n : j \in 1 .. n /\ j \in i .. Len(pipeline'[g])
          BY <1>1, <1>6, <2>1, <4>1
        <4> QED BY <1>6, <2>1, <4>2, <4>3, <4>4
      <3> QED BY <3>2, <3>3
    <2>2. CASE g # h
      <3>1. pipeline'[g] = pipeline[g]
        BY <1>5, <2>2
      <3>2. \/ newest[q][1] > g
            \/ \E j \in i .. Len(pipeline[g]) :
                  pipeline[g][j].key = q /\ pipeline[g][j].at = newest[q]
        <4>1. q = pipeline[g][i].key /\ i \in DOMAIN pipeline[g]
          BY <3>1
        <4> HIDE DEF q
        <4> QED BY <4>1 DEF IInv, LastKept
      <3>3. q \in Ids
        BY <3>1, CommandTypes DEF IInv
      <3>4. CASE newest'[q] = newest[q]
        BY <3>1, <3>2, <3>4
      <3>5. CASE newest'[q] # newest[q]
        <4>1. q = k /\ newest'[q] = at /\ Before(newest[q], at)
          BY <1>10, <3>3, <3>5
        <4>2. CASE newest[q][1] > g
          <5>1. newest[q][1] \in Nat /\ g \in Nat
            BY <3>3, NewestTypes, HourTypes DEF IInv
          <5>2. newest[q][1] < h \/ newest[q][1] = h
            BY <1>3, <4>1 DEF Before
          <5>3. h > g
            BY <1>1, <4>2, <5>1, <5>2
          <5> QED BY <1>3, <4>1, <5>3
        <4>3. ASSUME NEW j \in i .. Len(pipeline[g]),
                     pipeline[g][j].key = q, pipeline[g][j].at = newest[q]
              PROVE  h > g
          <5>1. j \in DOMAIN pipeline[g]
            BY <3>1, HourTypes DEF IInv
          <5>2. newest[q][1] = g /\ g \in Nat
            BY <4>3, <5>1, HourTypes DEF IInv, Places
          <5> QED BY <1>1, <1>3, <2>2, <4>1, <5>2 DEF Before
        <4> QED BY <1>3, <3>2, <4>1, <4>2, <4>3
      <3> QED BY <3>4, <3>5
    <2> QED BY <2>1, <2>2
  <1>17. InOrder'
    BY <1>0, <1>9 DEF IInv, InOrder, Running
  <1>18. NewestStored'
    <2> SUFFICES ASSUME ~ disorder, NEW q \in Ids
                 PROVE  newest'[q] \in {redis[q].at} \cup Queued' \cup unsure
      BY <1>0 DEF NewestStored
    <2>1. Queued \subseteq Queued'
      <3> SUFFICES ASSUME NEW g \in Hours, NEW i \in DOMAIN pipeline[g]
                   PROVE  i \in DOMAIN pipeline'[g] /\ pipeline'[g][i] = pipeline[g][i]
        BY QueuedMeans, QueuedMeansNext
      <3>1. 1 .. n \subseteq 1 .. n + 1
        BY <1>1
      <3> QED BY <1>1, <1>5, <1>6, <3>1
    <2>2. at \in Queued'
      <3>1. n + 1 \in DOMAIN pipeline'[h] /\ at = pipeline'[h][n + 1].at
        BY <1>1, <1>4, <1>6
      <3> QED BY <3>1, QueuedMeansNext
    <2>3. newest[q] \in {redis[q].at} \cup Queued \cup unsure
      BY DEF IInv, NewestStored
    <2> QED BY <1>10, <2>1, <2>2, <2>3
  <1> QED BY <1>11, <1>12, <1>13, <1>14, <1>15, <1>16, <1>17, <1>18 DEF IInv

\* One turn of the loop.
LEMMA ReadLineStep == ASSUME IInv, NEW h \in Hours, ReadLine(h) PROVE IInv'
  <1>1. /\ pc[h] = "read" /\ lines[h] < MaxLines
        /\ lines' = [lines EXCEPT ![h] = lines[h] + 1]
        /\ UNCHANGED <<program, behind, fails, redis, unsure, disorder>>
    BY DEF ReadLine
  <1>2. lines'[h] = lines[h] + 1
    BY <1>1 DEF IInv, TypeOK
  <1>3. CASE UNCHANGED <<pc, pipeline, perNum, newest>>
    BY <1>1, <1>3, SkipStep
  <1>4. CASE ~ UNCHANGED <<pc, pipeline, perNum, newest>>
    <2>1. PICK l \in Lines(program) :
             /\ Accepted(program, l)
             /\ pipeline' = [pipeline EXCEPT ![h] = Append(pipeline[h],
                               [key |-> Key(program, l), at |-> <<h, lines'[h]>>])]
             /\ perNum' = [perNum EXCEPT ![h] = perNum[h] + 1]
             /\ pc' = IF perNum'[h] % PACK_NUM = 0 THEN [pc EXCEPT ![h] = "full"] ELSE pc
             /\ newest' = IF Before(newest[Key(program, l)], <<h, lines'[h]>>)
                          THEN [newest EXCEPT ![Key(program, l)] = <<h, lines'[h]>>] ELSE newest
      BY <1>4 DEF ReadLine
    <2>2. Key(program, l) \in Ids
      BY <2>1, AcceptedKey DEF IInv
    <2> DEFINE k == Key(program, l)
               at == <<h, lines'[h]>>
    <2>3. at = <<h, lines[h] + 1>>
      BY <1>2
    <2> HIDE DEF k, at
    <2>4. Enqueues(h, k, at)
      BY <1>1, <2>1, <2>3 DEF Enqueues, k, at
    <2> QED BY <2>2, <2>4, AcceptStep DEF k
  <1> QED BY <1>3, <1>4

------------------------------------------------------------------------------
(* execute: what every one of its outcomes has in common *)

\* The first n commands leave the pipeline of h; of those, the ones at U without an answer,
\* the others were executed, unless the answers are those of earlier commands.
Settles(h, n, U, A) ==
    /\ U \subseteq 1 .. n /\ A \subseteq DOMAIN pipeline[h]
    /\ behind[h] \/ \A i \in 1 .. n : i \in U \/ i \in A
    /\ Apply(h, A) /\ Dequeue(h, n, U)

Outcome(h) == Executed(h) \/ WriteBreaks(h) \/ ReplyBreaks(h) \/ ReplyError(h)

LEMMA OutcomeSettles ==
    ASSUME TypeOK, NEW h \in Hours, Outcome(h)
    PROVE  /\ Returned(h) /\ behind' \in [Hours -> BOOLEAN]
           /\ \E n \in 0 .. Len(pipeline[h]) : \E U, A :
                 /\ Settles(h, n, U, A)
                 /\ \/ fails' = fails /\ n = Len(pipeline[h])
                    \/ fails[h] < MaxFails /\ fails' = [fails EXCEPT ![h] = fails[h] + 1]
  <1> DEFINE l == Len(pipeline[h])
             More == fails[h] < MaxFails /\ fails' = [fails EXCEPT ![h] = fails[h] + 1]
  <1>1. pipeline[h] \in Seq(Command) /\ l \in Nat /\ DOMAIN pipeline[h] = 1 .. l
    BY HourTypes
  <1>2. behind \in [Hours -> BOOLEAN]
    BY DEF TypeOK
  <1>3. CASE Executed(h)
    <2>1. PICK A \in Reached(h, l) : Apply(h, A)
      BY <1>3 DEF Executed
    <2>2. Settles(h, l, {}, A)
      BY <1>3, <2>1 DEF Executed, Reached, Settles
    <2>3. l \in 0 .. Len(pipeline[h])
      BY <1>1
    <2> QED BY <1>2, <1>3, <2>2, <2>3 DEF Executed
  <1>4. CASE WriteBreaks(h)
    <2>1. PICK A \in Reached(h, 0) : Apply(h, A)
      BY <1>4 DEF WriteBreaks
    <2>2. /\ UNCHANGED <<pipeline, unsure>> /\ Thrown(h)
          /\ behind' = [behind EXCEPT ![h] = TRUE]
      BY <1>4 DEF WriteBreaks
    <2>3. Dequeue(h, 0, {})
      <3>1. SubSeq(pipeline[h], 0 + 1, Len(pipeline[h])) = pipeline[h]
        BY <1>1, SubSeqFull
      <3>2. pipeline' = [pipeline EXCEPT ![h] = SubSeq(@, 0 + 1, Len(@))]
        BY <2>2, <3>1 DEF TypeOK
      <3>3. {pipeline[h][i].at : i \in IF behind[h] THEN 1 .. 0 ELSE {}} = {}
        OBVIOUS
      <3> QED BY <2>2, <3>2, <3>3 DEF Dequeue
    <2>4. Settles(h, 0, {}, A)
      BY <2>1, <2>3 DEF Reached, Settles
    <2>5. 0 \in 0 .. Len(pipeline[h]) /\ More
      BY <1>1, <2>2 DEF Thrown
    <2> QED BY <1>2, <2>2, <2>4, <2>5 DEF Thrown
  <1>5. CASE ReplyBreaks(h) \/ ReplyError(h)
    <2>1. PICK n \in DOMAIN pipeline[h] :
             /\ \E A \in Reached(h, n - 1) : Apply(h, A)
             /\ Dequeue(h, n, {n})
      BY <1>5 DEF ReplyBreaks, ReplyError
    <2>2. PICK A \in Reached(h, n - 1) : Apply(h, A)
      BY <2>1
    <2>3. n \in 0 .. Len(pipeline[h]) /\ n \in 1 .. n
      BY <1>1
    <2>4. \A i \in 1 .. n : i = n \/ i \in 1 .. n - 1
      BY <2>3
    <2>5. Settles(h, n, {n}, A)
      <3>1. A \subseteq DOMAIN pipeline[h] /\ (behind[h] \/ 1 .. n - 1 \subseteq A)
        BY DEF Reached
      <3>2. behind[h] \/ \A i \in 1 .. n : i \in {n} \/ i \in A
        BY <2>4, <3>1
      <3> QED BY <2>1, <2>2, <2>3, <3>1, <3>2 DEF Settles
    <2>6. Returned(h) /\ More /\ behind' \in [Hours -> BOOLEAN]
      BY <1>2, <1>5 DEF ReplyBreaks, ReplyError, Thrown
    <2> QED BY <2>3, <2>5, <2>6
  <1> QED BY <1>3, <1>4, <1>5 DEF Outcome

\* The pipeline that is left, and the types.
LEMMA SettledPipeline ==
    ASSUME TypeOK, NEW h \in Hours, NEW n \in 0 .. Len(pipeline[h]), NEW U, NEW A,
           Settles(h, n, U, A)
    PROVE  /\ pipeline' \in [Hours -> Seq(Command)]
           /\ \A g \in Hours \ {h} : pipeline'[g] = pipeline[g]
           /\ Len(pipeline'[h]) = Len(pipeline[h]) - n
           /\ DOMAIN pipeline'[h] = 1 .. Len(pipeline[h]) - n
           /\ \A i \in 1 .. Len(pipeline[h]) - n : pipeline'[h][i] = pipeline[h][n + i]
           /\ unsure' \subseteq Hours \X (1 .. MaxLines)
           /\ unsure \subseteq unsure'
  <1> DEFINE p == pipeline[h]
             r == SubSeq(p, n + 1, Len(p))
  <1>1. p \in Seq(Command) /\ Len(p) \in Nat /\ DOMAIN p = 1 .. Len(p) /\ n \in Nat
    BY HourTypes
  <1>2. /\ r \in Seq(Command) /\ Len(r) = Len(p) - n
        /\ \A i \in 1 .. Len(p) - n : r[i] = p[n + i]
    BY <1>1, Rest
  <1>3. DOMAIN r = 1 .. Len(p) - n
    <2> HIDE DEF r
    <2> QED BY <1>2
  <1>4. pipeline' = [pipeline EXCEPT ![h] = r]
    BY DEF Settles, Dequeue
  <1>5. /\ pipeline' \in [Hours -> Seq(Command)] /\ pipeline'[h] = r
        /\ \A g \in Hours \ {h} : pipeline'[g] = pipeline[g]
    <2> HIDE DEF r
    <2> QED BY <1>2, <1>4 DEF TypeOK
  <1>6. /\ unsure' \subseteq Hours \X (1 .. MaxLines) /\ unsure \subseteq unsure'
    <2>1. U \subseteq 1 .. n /\ 1 .. n \subseteq DOMAIN pipeline[h]
      BY <1>1 DEF Settles
    <2>2. unsure' = unsure \cup {pipeline[h][i].at : i \in IF behind[h] THEN 1 .. n ELSE U}
      BY DEF Settles, Dequeue
    <2>3. \A i \in IF behind[h] THEN 1 .. n ELSE U :
             pipeline[h][i].at \in Hours \X (1 .. MaxLines)
      BY <2>1, CommandTypes
    <2> QED BY <2>2, <2>3 DEF TypeOK
  <1> HIDE DEF r
  <1> QED BY <1>2, <1>3, <1>5, <1>6

\* What the cluster holds of each key afterwards.
LEMMA SettledRedis ==
    ASSUME TypeOK, NEW h \in Hours, NEW n \in 0 .. Len(pipeline[h]), NEW U, NEW A,
           Settles(h, n, U, A), NEW k \in Ids
    PROVE  \/ redis'[k] = redis[k] /\ \A i \in A : pipeline[h][i].key # k
           \/ \E m \in A : /\ pipeline[h][m].key = k /\ redis'[k] = pipeline[h][m]
                           /\ \A i \in A : pipeline[h][i].key = k => i <= m
  <1> DEFINE S == {i \in A : pipeline[h][i].key = k}
  <1>1. redis'[k] = IF S = {} THEN redis[k] ELSE pipeline[h][Max(S)]
    BY DEF Settles, Apply
  <1>2. Len(pipeline[h]) \in Nat /\ A \subseteq 1 .. Len(pipeline[h])
    BY HourTypes DEF Settles
  <1>3. CASE S = {}
    BY <1>1, <1>3
  <1>4. CASE S # {}
    <2>1. S \subseteq 1 .. Len(pipeline[h])
      BY <1>2
    <2>2. Max(S) \in S /\ \A j \in S : j <= Max(S)
      <3> HIDE DEF S
      <3> QED BY <1>2, <1>4, <2>1, MaxOfPlaces
    <2> QED BY <1>1, <1>4, <2>2
  <1> QED BY <1>3, <1>4

\* A newest line that was in the cluster or in the pipeline still is, or is unsure.
LEMMA SettledStored ==
    ASSUME IInv, NEW h \in Hours, NEW n \in 0 .. Len(pipeline[h]), NEW U, NEW A,
           Settles(h, n, U, A), pc[h] \in {"full", "last"}, UNCHANGED <<newest, disorder>>
    PROVE  NewestStored'
  <1> SUFFICES ASSUME ~ disorder, NEW k \in Ids
               PROVE  newest[k] \in {redis'[k].at} \cup Queued' \cup unsure'
    BY DEF NewestStored
  <1> DEFINE p == pipeline[h]
             l == Len(pipeline[h])
  <1>1. TypeOK /\ l \in Nat /\ n \in Nat /\ n <= l /\ DOMAIN p = 1 .. l /\ h \in Nat
    BY HourTypes DEF IInv
  <1>2. /\ \A g \in Hours \ {h} : pipeline'[g] = pipeline[g]
        /\ DOMAIN pipeline'[h] = 1 .. l - n
        /\ \A i \in 1 .. l - n : pipeline'[h][i] = p[n + i]
        /\ unsure \subseteq unsure'
    BY <1>1, SettledPipeline
  \* Where a command of the pipeline is afterwards.
  <1>3. ASSUME NEW i \in 1 .. l, i \notin A
        PROVE  p[i].at \in Queued' \cup unsure'
    <2>1. CASE i > n
      <3>1. i - n \in 1 .. l - n /\ n + (i - n) = i
        BY <1>1, <2>1
      <3>2. pipeline'[h][i - n] = p[i] /\ i - n \in DOMAIN pipeline'[h]
        BY <1>2, <3>1
      <3> QED BY <3>2, QueuedMeansNext
    <2>2. CASE ~(i > n)
      <3>1. i \in 1 .. n
        BY <1>1, <2>2
      <3>2. i \in IF behind[h] THEN 1 .. n ELSE U
        BY <1>3, <3>1 DEF Settles
      <3> QED BY <3>2 DEF Settles, Dequeue
    <2> QED BY <2>1, <2>2
  \* No later hour has begun: the newest line of a key in the pipeline is in the pipeline.
  <1>4. ~(newest[k][1] > h)
    <2> SUFFICES ASSUME newest[k][1] > h PROVE FALSE OBVIOUS
    <2>1. newest[k] \in Hours \X (1 .. MaxLines)
      BY <1>1 DEF TypeOK, Start0
    <2>2. newest[k][1] \in Hours /\ newest[k][2] \in 1 .. MaxLines
      BY <2>1
    <2>3. newest[k][2] <= lines[newest[k][1]]
      BY <2>2 DEF IInv, Places
    <2>4. h \in Running
      BY DEF Running
    <2>5. pc[newest[k][1]] = "wait"
      BY <2>2, <2>4 DEF IInv, InOrder
    <2>6. lines[newest[k][1]] = 0
      BY <2>2, <2>5 DEF IInv, Counting
    <2> QED BY <2>2, <2>3, <2>6
  <1>5. CASE redis'[k] = redis[k] /\ \A i \in A : p[i].key # k
    <2>1. newest[k] \in {redis[k].at} \cup Queued \cup unsure
      BY DEF IInv, NewestStored
    <2>2. ASSUME newest[k] \in Queued
          PROVE  newest[k] \in Queued' \cup unsure'
      <3>1. PICK g \in Hours : \E i \in DOMAIN pipeline[g] : newest[k] = pipeline[g][i].at
        BY <2>2, QueuedMeans
      <3>2. PICK i \in DOMAIN pipeline[g] : newest[k] = pipeline[g][i].at
        BY <3>1
      <3>3. CASE g # h
        BY <1>2, <3>2, <3>3, QueuedMeansNext
      <3>4. CASE g = h
        <4>1. p[i].key = k
          BY <3>2, <3>4 DEF IInv, SameKey
        <4>2. i \notin A /\ i \in 1 .. l
          BY <1>1, <1>5, <3>4, <4>1
        <4> QED BY <1>3, <3>2, <3>4, <4>2
      <3> QED BY <3>3, <3>4
    <2> QED BY <1>2, <1>5, <2>1, <2>2
  <1>6. ASSUME NEW m \in A, p[m].key = k, redis'[k] = p[m],
               \A i \in A : p[i].key = k => i <= m
        PROVE  newest[k] \in {redis'[k].at} \cup Queued' \cup unsure'
    <2>1. m \in 1 .. l
      BY <1>1 DEF Settles
    <2>2. PICK j \in m .. l : p[j].key = k /\ p[j].at = newest[k]
      BY <1>1, <1>4, <1>6, <2>1 DEF IInv, LastKept
    <2>3. j \in 1 .. l
      BY <1>1, <2>1
    <2>4. CASE j \in A
      <3>1. j = m
        BY <1>1, <1>6, <2>1, <2>2, <2>3, <2>4
      <3> QED BY <1>6, <2>2, <3>1
    <2>5. CASE j \notin A
      BY <1>3, <2>2, <2>3, <2>5
    <2> QED BY <2>4, <2>5
  <1> QED BY <1>1, <1>5, <1>6, SettledRedis

\* execute returns or throws.
LEMMA OutcomeStep == ASSUME IInv, NEW h \in Hours, Outcome(h) PROVE IInv'
  <1> USE LoaderAssumption
  <1> DEFINE p == pipeline[h]
             l == Len(pipeline[h])
  <1>1. TypeOK /\ p \in Seq(Command) /\ l \in Nat /\ DOMAIN p = 1 .. l /\ h \in Nat
        /\ perNum[h] \in Nat /\ perNum[h] <= PACK_NUM /\ fails[h] \in Nat
    BY HourTypes DEF IInv
  <1>2. Returned(h) /\ behind' \in [Hours -> BOOLEAN]
    BY <1>1, OutcomeSettles
  <1> DEFINE Fails(n) == \/ fails' = fails /\ n = l
                         \/ /\ fails[h] < MaxFails
                            /\ fails' = [fails EXCEPT ![h] = fails[h] + 1]
  <1>3. PICK n \in 0 .. l : \E U, A : Settles(h, n, U, A) /\ Fails(n)
    BY <1>1, OutcomeSettles
  <1>3a. PICK U, A : Settles(h, n, U, A) /\ Fails(n)
    BY <1>3
  <1>4. n \in Nat /\ n <= l /\ l - n \in Nat
    BY <1>1
  <1>5. /\ pc[h] \in {"full", "last"} /\ UNCHANGED <<program, lines, newest, disorder>>
        /\ pc' = [pc EXCEPT ![h] = IF pc[h] = "full" THEN "read" ELSE "done"]
        /\ perNum' = IF pc[h] = "full" THEN [perNum EXCEPT ![h] = 0] ELSE perNum
    BY <1>2 DEF Returned
  <1>6. /\ pc' \in [Hours -> {"wait", "read", "full", "last", "done", "dead"}]
        /\ pc'[h] = (IF pc[h] = "full" THEN "read" ELSE "done")
        /\ \A g \in Hours \ {h} : pc'[g] = pc[g]
    BY <1>1, <1>5 DEF TypeOK
  <1>7. /\ perNum' \in [Hours -> 0 .. PACK_NUM]
        /\ perNum'[h] = (IF pc[h] = "full" THEN 0 ELSE perNum[h])
        /\ \A g \in Hours \ {h} : perNum'[g] = perNum[g]
    BY <1>1, <1>5 DEF TypeOK
  <1>8. /\ pipeline' \in [Hours -> Seq(Command)]
        /\ \A g \in Hours \ {h} : pipeline'[g] = pipeline[g]
        /\ Len(pipeline'[h]) = l - n /\ DOMAIN pipeline'[h] = 1 .. l - n
        /\ \A i \in 1 .. l - n : pipeline'[h][i] = p[n + i]
        /\ unsure' \subseteq Hours \X (1 .. MaxLines)
    BY <1>1, <1>3a, SettledPipeline
  <1>9. \A i \in 1 .. l - n : n + i \in 1 .. l
    BY <1>1, <1>4
  <1>10. /\ fails' \in [Hours -> 0 .. MaxFails] /\ \A g \in Hours \ {h} : fails'[g] = fails[g]
         /\ (fails'[h] = fails[h] /\ n = l) \/ fails'[h] = fails[h] + 1
    <2>1. CASE fails' = fails /\ n = l
      BY <1>1, <2>1 DEF TypeOK
    <2>2. CASE fails[h] < MaxFails /\ fails' = [fails EXCEPT ![h] = fails[h] + 1]
      BY <1>1, <2>2 DEF TypeOK
    <2> QED BY <1>3a, <2>1, <2>2
  <1>11. TypeOK'
    <2>1. redis' \in [Ids -> Command \cup {NoCommand}]
      <3>1. \A k \in Ids : redis'[k] \in Command \cup {NoCommand}
        <4> TAKE k \in Ids
        <4>1. CASE redis'[k] = redis[k]
          BY <1>1, <4>1 DEF TypeOK
        <4>2. ASSUME NEW m \in A, redis'[k] = p[m] PROVE redis'[k] \in Command
          BY <1>1, <1>3a, <4>2, CommandTypes DEF Settles
        <4>3. \/ redis'[k] = redis[k]
              \/ \E m \in A : redis'[k] = p[m]
          BY <1>1, <1>3a, SettledRedis
        <4> QED BY <4>1, <4>2, <4>3
      <3>2. redis' = [k \in Ids |-> redis'[k]]
        BY <1>3a DEF Settles, Apply
      <3> QED BY <3>1, <3>2
    <2>2. /\ newest' \in [Ids -> {Start0} \cup (Hours \X (1 .. MaxLines))]
          /\ lines' \in [Hours -> 0 .. MaxLines] /\ program' \in Programs /\ disorder' \in BOOLEAN
      BY <1>1, <1>5 DEF TypeOK
    <2> QED BY <1>2, <1>6, <1>7, <1>8, <1>10, <2>1, <2>2 DEF TypeOK
  <1>12. Counting'
    BY <1>5, <1>6, <1>7 DEF IInv, Counting
  <1>13. LeftOver'
    <2>1. \A g \in Hours \ {h} :
             /\ Len(pipeline'[g]) <= perNum'[g] + PACK_NUM * fails'[g]
             /\ pc'[g] = "done" => Len(pipeline'[g]) <= PACK_NUM * fails'[g]
      BY <1>6, <1>7, <1>8, <1>10 DEF IInv, LeftOver
    <2>2. perNum'[h] \in Nat
      BY <1>1, <1>7
    <2>3. fails'[h] \in Nat /\ PACK_NUM * fails'[h] \in Nat
      BY <1>1, <1>10, OneMore
    <2>4. l - n <= PACK_NUM * fails'[h]
      <3>1. CASE n = l
        BY <1>1, <2>3, <3>1
      <3>2. CASE fails'[h] = fails[h] + 1
        <4>1. l <= perNum[h] + PACK_NUM * fails[h]
          BY DEF IInv, LeftOver
        <4>2. PACK_NUM * fails'[h] = PACK_NUM * fails[h] + PACK_NUM /\ PACK_NUM * fails[h] \in Nat
          BY <1>1, <3>2, OneMore
        <4> DEFINE a == PACK_NUM * fails[h]
                   b == PACK_NUM * fails'[h]
        <4>3. a \in Nat /\ b = a + PACK_NUM /\ l <= perNum[h] + a
          BY <4>1, <4>2
        <4> HIDE DEF a, b
        <4>4. l - n <= b
          BY <1>1, <1>4, <4>3
        <4> QED BY <4>4 DEF b
      <3> QED BY <1>10, <3>1, <3>2
    <2>5. l - n <= perNum'[h] + PACK_NUM * fails'[h]
      <3> DEFINE b == PACK_NUM * fails'[h]
      <3>1. b \in Nat /\ l - n <= b
        BY <2>3, <2>4
      <3> HIDE DEF b
      <3>2. l - n <= perNum'[h] + b
        BY <1>4, <2>2, <3>1
      <3> QED BY <3>2 DEF b
    <2> QED BY <1>8, <2>1, <2>4, <2>5 DEF LeftOver
  <1>14. Places'
    <2> SUFFICES ASSUME NEW g \in Hours, NEW i \in DOMAIN pipeline'[g]
                 PROVE  pipeline'[g][i].at[1] = g /\ pipeline'[g][i].at[2] <= lines[g]
      BY <1>5 DEF IInv, Places
    <2>1. CASE g = h
      <3>1. pipeline'[h][i] = p[n + i] /\ n + i \in DOMAIN p
        BY <1>1, <1>8, <1>9, <2>1
      <3> QED BY <2>1, <3>1 DEF IInv, Places
    <2>2. CASE g # h
      BY <1>8, <2>2 DEF IInv, Places
    <2> QED BY <2>1, <2>2
  <1>15. SameKey'
    <2> SUFFICES ASSUME NEW g \in Hours, NEW i \in DOMAIN pipeline'[g], NEW k \in Ids,
                        pipeline'[g][i].at = newest[k]
                 PROVE  pipeline'[g][i].key = k
      BY <1>5 DEF SameKey
    <2>1. CASE g = h
      <3>1. pipeline'[h][i] = p[n + i] /\ n + i \in DOMAIN p
        BY <1>1, <1>8, <1>9, <2>1
      <3> QED BY <2>1, <3>1 DEF IInv, SameKey
    <2>2. CASE g # h
      BY <1>8, <2>2 DEF IInv, SameKey
    <2> QED BY <2>1, <2>2
  <1>16. LastKept'
    <2> SUFFICES ASSUME NEW g \in Hours, NEW i \in DOMAIN pipeline'[g]
                 PROVE  \/ newest[pipeline'[g][i].key][1] > g
                        \/ \E j \in i .. Len(pipeline'[g]) :
                              /\ pipeline'[g][j].key = pipeline'[g][i].key
                              /\ pipeline'[g][j].at = newest[pipeline'[g][i].key]
      BY <1>5 DEF LastKept
    <2>1. CASE g = h
      <3>1. pipeline'[h][i] = p[n + i] /\ n + i \in DOMAIN p /\ i \in 1 .. l - n
        BY <1>1, <1>8, <1>9, <2>1
      <3> DEFINE q == p[n + i].key
      <3>2. \/ newest[q][1] > h
            \/ \E j \in n + i .. l : p[j].key = q /\ p[j].at = newest[q]
        BY <3>1 DEF IInv, LastKept
      <3>3. ASSUME NEW j \in n + i .. l, p[j].key = q, p[j].at = newest[q]
            PROVE  \E m \in i .. l - n : pipeline'[h][m].key = q /\ pipeline'[h][m].at = newest[q]
        <4>1. j - n \in i .. l - n /\ j - n \in 1 .. l - n /\ n + (j - n) = j
          <5>1. i \in Nat \ {0} /\ j \in Nat /\ n + i <= j /\ j <= l
            BY <1>1, <1>4, <3>1
          <5>2. l \in Nat /\ n \in Nat
            BY <1>1, <1>4
          <5> HIDE DEF l
          <5> QED BY <5>1, <5>2
        <4>2. pipeline'[h][j - n] = p[j]
          BY <1>8, <4>1
        <4> QED BY <3>3, <4>1, <4>2
      <3>4. pipeline'[g][i].key = q /\ Len(pipeline'[g]) = l - n
        BY <1>8, <2>1, <3>1
      <3> HIDE DEF q
      <3> QED BY <2>1, <3>2, <3>3, <3>4
    <2>2. CASE g # h
      <3>1. pipeline'[g] = pipeline[g]
        BY <1>8, <2>2
      <3> QED BY <3>1 DEF IInv, LastKept
    <2> QED BY <2>1, <2>2
  <1>17. InOrder'
    <2>1. Running' \subseteq Running
      BY <1>5, <1>6 DEF Running
    <2>2. \A g \in Hours : pc[g] = "wait" => pc'[g] = "wait"
      BY <1>5, <1>6
    <2> QED BY <1>5, <2>1, <2>2 DEF IInv, InOrder
  <1>18. NewestStored'
    BY <1>3a, <1>5, SettledStored
  <1> QED BY <1>11, <1>12, <1>13, <1>14, <1>15, <1>16, <1>17, <1>18 DEF IInv

LEMMA NextIInv == IInv /\ [Next]_vars => IInv'
  <1> SUFFICES ASSUME IInv, [Next]_vars PROVE IInv' OBVIOUS
  <1>1. ASSUME NEW h \in Hours, Start(h) PROVE IInv'
    BY <1>1, StartStep
  <1>2. ASSUME NEW h \in Hours, ReadLine(h) PROVE IInv'
    BY <1>2, ReadLineStep
  <1>3. ASSUME NEW h \in Hours, Eof(h) PROVE IInv'
    BY <1>3, EofStep
  <1>4. ASSUME NEW h \in Hours, Outcome(h) PROVE IInv'
    BY <1>4, OutcomeStep
  <1>5. CASE UNCHANGED vars
    <2>1. Queued' = Queued /\ Running' = Running
      BY <1>5 DEF vars, Queued, Running
    <2>2. TypeOK' /\ Counting' /\ LeftOver'
      BY <1>5 DEF IInv, vars, TypeOK, Counting, LeftOver
    <2>3. Places' /\ SameKey' /\ LastKept'
      BY <1>5 DEF IInv, vars, Places, SameKey, LastKept
    <2>4. InOrder' /\ NewestStored'
      BY <1>5, <2>1 DEF IInv, vars, InOrder, NewestStored
    <2> QED BY <2>2, <2>3, <2>4 DEF IInv
  <1>6. CASE Next
    BY <1>1, <1>2, <1>3, <1>4, <1>6 DEF Next, Outcome
  <1> QED BY <1>5, <1>6

LEMMA InvHolds == Spec => []IInv
  BY InitIInv, NextIInv, PTL DEF Spec

------------------------------------------------------------------------------
(* The results *)

\* The variables of every program of startReadLogToRedis keep their types; in particular
\* $perNum never passes PACK_NUM, though a pipeline that execute threw out of may hold more.
THEOREM TypeCorrect == Spec => []TypeOK
  <1>1. IInv => TypeOK
    BY DEF IInv
  <1> QED BY <1>1, InvHolds, PTL

\* The catch of startReadLogToRedis keeps the pipeline, and the next execute sends its
\* commands again: hours that are loaded one after the other and in their order nevertheless
\* leave the last accepted pair of every key in the cluster, unless its command is still
\* queued or was given up without an OK of its own.
THEOREM NewestIsStored == Spec => []NewestStored
  <1>1. IInv => NewestStored
    BY DEF IInv
  <1> QED BY <1>1, InvHolds, PTL

\* However many exceptions a program of startReadLogToRedis swallows, each leaves at most
\* one pipeline behind, and a program that met none ends with an empty one.
THEOREM LeftOverIsBounded == Spec => []LeftOver
  <1>1. IInv => LeftOver
    BY DEF IInv
  <1> QED BY <1>1, InvHolds, PTL

==============================================================================
