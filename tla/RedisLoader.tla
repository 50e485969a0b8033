----------------------------- MODULE RedisLoader -----------------------------
(***************************************************************************)
(* The programs scripts/redis/loadMapLogFromPip_*.php, which cron starts   *)
(* for the log file of the past hour.  Each copies the pairs of one medium *)
(* into a Redis cluster of its own, in pipelines of PACK_NUM commands.     *)
(*                                                                         *)
(* An exception of execute is swallowed: the count starts again at zero,   *)
(* but the pipeline object stays, with every command Predis has not yet    *)
(* taken out of it, and so do the connections to the other nodes of the    *)
(* cluster, with the replies nobody has read.  From then on a reply may be *)
(* the one of an earlier command ("behind").  Nothing stops cron from      *)
(* starting the next hour while the last one is still loading.             *)
(*                                                                         *)
(* Of a line only ext, m, f and the two ids count; an id 0 is an empty one.*)
(***************************************************************************)
EXTENDS Integers, Sequences, FiniteSetsExt

CONSTANTS
    Programs,   \* the programs of the table below that are run
    Ids,        \* the ids that occur, as uid or as rmid
    PACK_NUM,   \* the commands of a pipeline
    LastHour,   \* bound: the hours 1 .. LastHour
    MaxLines,   \* bound: lines of a file
    MaxFails    \* bound: exceptions of a process

ASSUME LoaderAssumption ==
    /\ PACK_NUM \in Nat \ {0} /\ LastHour \in Nat
    /\ MaxLines \in Nat /\ MaxFails \in Nat
    /\ Ids \subseteq Nat \ {0}

Hours == 1 .. LastHour

------------------------------------------------------------------------------
(* The programs: which ext they load, which id is the key, and whether the *)
(* line must carry f = 1.                                                  *)

ByUid(ext)  == [ext |-> ext, key |-> "uid", flag |-> FALSE]
ByRmid(ext) == [ext |-> ext, key |-> "rmid", flag |-> FALSE]

tencent  == [ByUid(2) EXCEPT !.flag = TRUE]
iqiyi    == ByUid(3)
iqiyidmp == ByRmid(3)
sohu     == ByUid(5)
mz       == ByRmid(6)
youku    == ByUid(8)
youkudmp == ByRmid(8)
ku6      == ByUid(10)
fengxing == ByUid(11)
letv     == ByUid(21)
pptv     == ByUid(26)
yinyt    == ByUid(27)

AllPrograms == {tencent, iqiyi, iqiyidmp, sohu, mz, youku, youkudmp, ku6,
                fengxing, letv, pptv, yinyt}
OneOfAKind  == {tencent, iqiyi, mz}

\* A program has one of the two ids for its key.
ASSUME ProgramsAssumption == \A p \in Programs : p.key \in {"uid", "rmid"}

\* What json_decode makes of a broken line, or of a piece of one of 1024 bytes and more.
NoData == [ext |-> 0, m |-> 0, f |-> 0, uid |-> 0, rmid |-> 0]

\* The lines awk lets through for a program: of its ext, or of one that begins with it.
Lines(p) ==
    {NoData} \cup [ext : {p.ext, 10 * p.ext}, m : {0}, f : {0, 1}, uid : Ids \cup {0},
                   rmid : Ids \cup {0}]

Accepted(p, l) ==
    /\ l # NoData
    /\ l.ext = p.ext /\ l.m = 0
    /\ p.flag => l.f = 1
    /\ l.uid # 0 /\ l.rmid # 0

\* set(key, the other id): the value is the one of the line, which the command names.
Key(p, l) == l[p.key]

------------------------------------------------------------------------------
VARIABLES
    program,  \* the program that is run, hour after hour
    pc,       \* per hour: where its process is
    lines,    \* the lines it has read
    pipeline, \* the commands queued in $redis
    perNum,   \* $perNum
    behind,   \* some connection holds replies that were never read
    fails,    \* how often execute has thrown
    redis,    \* the cluster: per key the command that set it, or NoCommand
    newest,   \* history: per key the accepted line that is last in the logs
    unsure,   \* history: the commands taken out of a pipeline without their own OK
    disorder  \* history: some hour was started before the last one had ended, or after a later one

vars == <<program, pc, lines, pipeline, perNum, behind, fails, redis, newest,
          unsure, disorder>>

\* Where a line stands in the logs: its hour and its place in the file.
Start0 == <<0, 0>>
Before(a, b) == a[1] < b[1] \/ (a[1] = b[1] /\ a[2] < b[2])

NoCommand == [key |-> 0, at |-> Start0]
Command   == [key : Ids, at : Hours \X (1 .. MaxLines)]

Running == {h \in Hours : pc[h] \in {"read", "full", "last"}}

Init ==
    /\ program \in Programs
    /\ pc = [h \in Hours |-> "wait"]
    /\ lines = [h \in Hours |-> 0]
    /\ pipeline = [h \in Hours |-> <<>>]
    /\ perNum = [h \in Hours |-> 0]
    /\ behind = [h \in Hours |-> FALSE]
    /\ fails = [h \in Hours |-> 0]
    /\ redis = [k \in Ids |-> NoCommand]
    /\ newest = [k \in Ids |-> Start0]
    /\ unsure = {}
    /\ disorder = FALSE

------------------------------------------------------------------------------
(* The process of an hour *)

\* mapping.redis.sh, started by cron for the past hour, or loadMapLogFromPip_mz.sh for the
\* hours of yesterday; initRedis connects outside of any try, and its exception ends the program.
Start(h) ==
    /\ pc[h] = "wait"
    /\ \E where \in {"read", "dead"} : pc' = [pc EXCEPT ![h] = where]
    /\ disorder' = (disorder \/ Running # {} \/ \E g \in Hours : g > h /\ pc[g] # "wait")
    /\ UNCHANGED <<program, lines, pipeline, perNum, behind, fails, redis, newest, unsure>>

\* One turn of the loop up to the decision to execute.
ReadLine(h) ==
    /\ pc[h] = "read" /\ lines[h] < MaxLines
    /\ lines' = [lines EXCEPT ![h] = @ + 1]
    /\ \E l \in Lines(program) :
          \/ /\ ~ Accepted(program, l)
             /\ UNCHANGED <<pc, pipeline, perNum, newest>>
          \/ LET k  == Key(program, l)
                 at == <<h, lines'[h]>>
             IN /\ Accepted(program, l)
                /\ pipeline' = [pipeline EXCEPT ![h] = Append(@, [key |-> k, at |-> at])]
                /\ perNum' = [perNum EXCEPT ![h] = @ + 1]
                /\ pc' = IF perNum'[h] % PACK_NUM = 0 THEN [pc EXCEPT ![h] = "full"] ELSE pc
                /\ newest' = IF Before(newest[k], at) THEN [newest EXCEPT ![k] = at] ELSE newest
    /\ UNCHANGED <<program, behind, fails, redis, unsure, disorder>>

\* Mutant: the file ends without a last pipeline.
EofForgetful(h) ==
    /\ pc[h] = "read"
    /\ pc' = [pc EXCEPT ![h] = "done"]
    /\ UNCHANGED <<program, lines, pipeline, perNum, behind, fails, redis, newest, unsure, disorder>>

\* The end of the file.
Eof(h) ==
    /\ pc[h] = "read"
    /\ pc' = [pc EXCEPT ![h] = IF perNum[h] > 0 THEN "last" ELSE "done"]
    /\ UNCHANGED <<program, lines, pipeline, perNum, behind, fails, redis, newest, unsure, disorder>>

\* The commands at the places A of the pipeline reach the cluster, in their order.
Apply(h, A) ==
    redis' = [k \in Ids |->
                LET S == {i \in A : pipeline[h][i].key = k}
                IN IF S = {} THEN redis[k] ELSE pipeline[h][Max(S)]]

\* The places of which the cluster can have executed the commands when the first n replies
\* were read as OK: these n, unless the replies belong to other commands, and any others.
Reached(h, n) ==
    {A \in SUBSET DOMAIN pipeline[h] : behind[h] \/ 1 .. n \subseteq A}

\* Predis has taken the first n commands out of the pipeline; of those at the places U the
\* reply was not their own OK.
Dequeue(h, n, U) ==
    /\ pipeline' = [pipeline EXCEPT ![h] = SubSeq(@, n + 1, Len(@))]
    /\ unsure' = unsure \cup {pipeline[h][i].at : i \in IF behind[h] THEN 1 .. n ELSE U}

\* Mutant: the count is not reset.
ReturnedCounting(h) ==
    /\ pc[h] \in {"full", "last"}
    /\ pc' = [pc EXCEPT ![h] = IF @ = "full" THEN "read" ELSE "done"]
    /\ UNCHANGED <<program, lines, perNum, newest, disorder>>

\* The try of the loop goes on with the next line, the last one ends the program.
Returned(h) ==
    /\ pc[h] \in {"full", "last"}
    /\ pc' = [pc EXCEPT ![h] = IF @ = "full" THEN "read" ELSE "done"]
    /\ perNum' = IF pc[h] = "full" THEN [perNum EXCEPT ![h] = 0] ELSE perNum
    /\ UNCHANGED <<program, lines, newest, disorder>>

Executed(h) ==
    /\ Returned(h)
    /\ \E A \in Reached(h, Len(pipeline[h])) : Apply(h, A)
    /\ Dequeue(h, Len(pipeline[h]), {})
    /\ UNCHANGED <<behind, fails>>

\* The catch.
Thrown(h) ==
    /\ Returned(h)
    /\ fails[h] < MaxFails
    /\ fails' = [fails EXCEPT ![h] = @ + 1]

\* A connection breaks while the commands are written: none is taken out of the pipeline.
WriteBreaks(h) ==
    /\ Thrown(h)
    /\ \E A \in Reached(h, 0) : Len(pipeline[h]) \notin A /\ Apply(h, A)
    /\ behind' = [behind EXCEPT ![h] = TRUE]
    /\ UNCHANGED <<pipeline, unsure>>

\* A connection breaks at the nth reply; that node's connection is closed, the others not.
ReplyBreaks(h) ==
    /\ Thrown(h)
    /\ \E n \in DOMAIN pipeline[h] :
          /\ \E A \in Reached(h, n - 1) : Apply(h, A)
          /\ Dequeue(h, n, {n})
    /\ behind' = [behind EXCEPT ![h] = TRUE]

\* Mutant: the pipeline is given up with the exception.
ReplyErrorDropping(h) ==
    /\ Thrown(h)
    /\ \E n \in DOMAIN pipeline[h] :
          /\ \E A \in Reached(h, n - 1) : (behind[h] \/ n \notin A) /\ Apply(h, A)
          /\ unsure' = unsure \cup {pipeline[h][n].at}
    /\ pipeline' = [pipeline EXCEPT ![h] = <<>>]
    /\ behind' = [behind EXCEPT ![h] = FALSE]

\* The nth reply is an error of the server: Predis closes all connections.
ReplyError(h) ==
    /\ Thrown(h)
    /\ \E n \in DOMAIN pipeline[h] :
          /\ \E A \in Reached(h, n - 1) : (behind[h] \/ n \notin A) /\ Apply(h, A)
          /\ Dequeue(h, n, {n})
    /\ behind' = [behind EXCEPT ![h] = FALSE]

Next == \E h \in Hours :
    \/ Start(h) \/ ReadLine(h) \/ Eof(h)
    \/ Executed(h) \/ WriteBreaks(h) \/ ReplyBreaks(h) \/ ReplyError(h)

Spec == Init /\ [][Next]_vars

------------------------------------------------------------------------------
(* Properties *)

\* Types: in particular the count of a pipeline never passes PACK_NUM, whatever execute threw.
TypeOK ==
    /\ program \in Programs
    /\ pc \in [Hours -> {"wait", "read", "full", "last", "done", "dead"}]
    /\ lines \in [Hours -> 0 .. MaxLines]
    /\ pipeline \in [Hours -> Seq(Command)]
    /\ perNum \in [Hours -> 0 .. PACK_NUM]
    /\ behind \in [Hours -> BOOLEAN]
    /\ fails \in [Hours -> 0 .. MaxFails]
    /\ redis \in [Ids -> Command \cup {NoCommand}]
    /\ newest \in [Ids -> {Start0} \cup (Hours \X (1 .. MaxLines))]
    /\ unsure \subseteq Hours \X (1 .. MaxLines)
    /\ disorder \in BOOLEAN

Queued == UNION {{pipeline[h][i].at : i \in DOMAIN pipeline[h]} : h \in Hours}

\* As long as the hours are loaded one after the other and in their order, the cluster holds
\* for every key the pair of the last accepted line, unless that line's command is still in
\* its pipeline or was taken out of it without an OK of its own: retries of a kept pipeline
\* may set older values again, but never over a newer one that is through (the catch of
\* startReadLogToRedis).
NewestStored ==
    ~ disorder => \A k \in Ids :
        newest[k] \in {redis[k].at} \cup Queued \cup unsure

\* What the pipeline holds is bounded by the failures, and a program that has met none ends
\* with an empty one: the last, shorter pipeline is executed too, and what a program leaves
\* behind is at most one pipeline for each exception it swallowed.
LeftOver == \A h \in Hours :
    /\ Len(pipeline[h]) <= perNum[h] + PACK_NUM * fails[h]
    /\ pc[h] = "done" => Len(pipeline[h]) <= PACK_NUM * fails[h]

==============================================================================
