------------------------------ MODULE Partners -------------------------------
(***************************************************************************)
(* How the workers learn the partner tables (src/model/partner.h and the   *)
(* timer of src/ngx_ad.cc).  Every worker reads the hashes Mapping_0 ..    *)
(* Mapping_<maxPartnerId> from Redis, one HGETALL each, when it starts and *)
(* then every five minutes; the operator edits the hashes meanwhile, and   *)
(* the connection may break between any two replies.                       *)
(*                                                                         *)
(* Of a hash only its version matters, and whether it parses ("good"), is  *)
(* not there ("gone"), or is a key of another type ("wrong"), which is an  *)
(* error reply.  A worker's entry is the version it holds, or None.        *)
(* Nothing ever erases an entry: an early return leaves the keys it did    *)
(* not reach as they were, a hash that does not parse keeps its old entry, *)
(* and so does a deleted one.                                              *)
(***************************************************************************)
EXTENDS Integers

CONSTANTS
    Workers,
    maxPartnerId,   \* the last key of the loop
    FdLimit,        \* descriptors a worker can lose before it cannot connect
    MaxEdits, MaxBreaks, MaxDeaths   \* bounds: edits in Redis, failures, worker exits

ASSUME ConstantsAssumption ==
    /\ maxPartnerId \in Nat /\ FdLimit \in Nat
    /\ MaxEdits \in Nat /\ MaxBreaks \in Nat /\ MaxDeaths \in Nat

Keys == 0 .. maxPartnerId
None == 0

VARIABLES
    redis,    \* per key: the version of the hash and what HGETALL yields
    edits,    \* the number of edits so far: the last version given out
    partners, \* model::partners of each worker: the versions of its entries
    st,       \* what a worker is doing
    i,        \* the loop variable of its pass
    lost,     \* the connections it never closed
    breaks, deaths,
    due,      \* history: the versions a pass must have picked up when it ends
    current   \* history: the same, of the last pass that was not broken off

vars == <<redis, edits, partners, st, i, lost, breaks, deaths, due, current>>

Nothing == [k \in Keys |-> None]

\* The tables are configured before nginx starts; every key may be there or not.
Init ==
    /\ redis \in [Keys -> {[v |-> 0, kind |-> "gone"], [v |-> 1, kind |-> "good"]}]
    /\ edits = 1
    /\ partners = [w \in Workers |-> Nothing]
    /\ st = [w \in Workers |-> "connect"]
    /\ i = [w \in Workers |-> 0]
    /\ lost = [w \in Workers |-> 0]
    /\ breaks = 0 /\ deaths = 0
    /\ due = [w \in Workers |-> Nothing]
    /\ current = [w \in Workers |-> Nothing]

------------------------------------------------------------------------------
(* Redis *)

Kinds == {"good", "bad", "gone", "wrong"}

\* The operator writes, spoils or deletes one hash, or puts another type in its place.
Edit(k) ==
    /\ edits <= MaxEdits
    /\ edits' = edits + 1
    /\ \E kind \in Kinds :
          redis' = [redis EXCEPT ![k] = [v |-> edits + 1, kind |-> kind]]
    /\ UNCHANGED <<partners, st, i, lost, breaks, deaths, due, current>>

------------------------------------------------------------------------------
(* syncPartners *)

Versions == [k \in Keys |-> IF redis[k].kind = "good" THEN redis[k].v ELSE None]

Connect(w) ==
    /\ st[w] = "connect" /\ lost[w] < FdLimit
    /\ st' = [st EXCEPT ![w] = "read"]
    /\ i' = [i EXCEPT ![w] = 0]
    /\ due' = [due EXCEPT ![w] = Versions]
    /\ UNCHANGED <<redis, edits, partners, lost, breaks, deaths, current>>

\* redisConnect reports an error: redisReconnect is tried, its outcome is not looked
\* at, and the context is dropped, with an open connection if it succeeded.
ConnectFails(w) ==
    /\ st[w] = "connect"
    /\ IF lost[w] < FdLimit
       THEN /\ breaks < MaxBreaks /\ breaks' = breaks + 1
            /\ \E n \in {0, 1} : lost' = [lost EXCEPT ![w] = @ + n]
       ELSE UNCHANGED <<breaks, lost>>
    /\ st' = [st EXCEPT ![w] = "idle"]
    /\ UNCHANGED <<redis, edits, partners, i, deaths, due, current>>

\* Mutant: the loop shares its variable with the loop over the fields, which steps by two.
ReadKeySharedI(w) ==
    LET k == i[w]
    IN  /\ st[w] = "read" /\ k <= maxPartnerId /\ redis[k].kind # "wrong"
        /\ IF redis[k].kind = "good"
           THEN /\ partners' = [partners EXCEPT ![w][k] = redis[k].v]
                /\ UNCHANGED due
           ELSE /\ due' = [due EXCEPT ![w][k] = None]
                /\ UNCHANGED partners
        /\ i' = [i EXCEPT ![w] = k + 2]
        /\ UNCHANGED <<redis, edits, st, lost, breaks, deaths, current>>

\* Mutant: the entry is cleared before the hash is parsed.
ReadKeyClearing(w) ==
    LET k == i[w]
    IN  /\ st[w] = "read" /\ k <= maxPartnerId /\ redis[k].kind # "wrong"
        /\ partners' = [partners EXCEPT ![w][k] = IF redis[k].kind = "good"
                                                  THEN redis[k].v ELSE None]
        /\ i' = [i EXCEPT ![w] = k + 1]
        /\ UNCHANGED <<redis, edits, st, lost, breaks, deaths, due, current>>

\* One turn of the loop: HGETALL, and the entry is replaced if the hash parses.
ReadKey(w) ==
    LET k == i[w]
    IN  /\ st[w] = "read" /\ k <= maxPartnerId /\ redis[k].kind # "wrong"
        /\ IF redis[k].kind = "good"
           THEN /\ partners' = [partners EXCEPT ![w][k] = redis[k].v]
                /\ UNCHANGED due
           ELSE /\ due' = [due EXCEPT ![w][k] = None]
                /\ UNCHANGED partners
        /\ i' = [i EXCEPT ![w] = k + 1]
        /\ UNCHANGED <<redis, edits, st, lost, breaks, deaths, current>>

\* No reply, or an error reply: the function returns without redisFree.
ReadBreaks(w) ==
    /\ st[w] = "read" /\ i[w] <= maxPartnerId
    /\ \/ breaks < MaxBreaks /\ breaks' = breaks + 1
       \/ redis[i[w]].kind = "wrong" /\ UNCHANGED breaks
    /\ lost' = [lost EXCEPT ![w] = @ + 1]
    /\ st' = [st EXCEPT ![w] = "idle"]
    /\ UNCHANGED <<redis, edits, partners, i, deaths, due, current>>

\* Mutant: the loop stops before the last key.
FinishEarly(w) ==
    /\ st[w] = "read" /\ i[w] >= maxPartnerId
    /\ st' = [st EXCEPT ![w] = "idle"]
    /\ current' = [current EXCEPT ![w] = due[w]]
    /\ UNCHANGED <<redis, edits, partners, i, lost, breaks, deaths, due>>

Finish(w) ==
    /\ st[w] = "read" /\ i[w] > maxPartnerId
    /\ st' = [st EXCEPT ![w] = "idle"]
    /\ current' = [current EXCEPT ![w] = due[w]]
    /\ UNCHANGED <<redis, edits, partners, i, lost, breaks, deaths, due>>

------------------------------------------------------------------------------
(* The worker *)

\* Mutant: the timer is armed again only after a complete pass.
TimerAfterSuccess(w) ==
    /\ st[w] = "idle" /\ i[w] > maxPartnerId
    /\ st' = [st EXCEPT ![w] = "connect"]
    /\ UNCHANGED <<redis, edits, partners, i, lost, breaks, deaths, due, current>>

\* ngx_timer_partner: the timer is armed again whatever the last pass did.
Timer(w) ==
    /\ st[w] = "idle"
    /\ st' = [st EXCEPT ![w] = "connect"]
    /\ UNCHANGED <<redis, edits, partners, i, lost, breaks, deaths, due, current>>

Die(w) ==
    /\ st[w] # "dead" /\ deaths < MaxDeaths
    /\ deaths' = deaths + 1
    /\ st' = [st EXCEPT ![w] = "dead"]
    /\ UNCHANGED <<redis, edits, partners, i, lost, breaks, due, current>>

\* The master starts a new worker; ngx_http_mapping_init_worker syncs first.
Respawn(w) ==
    /\ st[w] = "dead"
    /\ st' = [st EXCEPT ![w] = "connect"]
    /\ partners' = [partners EXCEPT ![w] = Nothing]
    /\ current' = [current EXCEPT ![w] = Nothing]
    /\ lost' = [lost EXCEPT ![w] = 0]
    /\ UNCHANGED <<redis, edits, i, breaks, deaths, due>>

Sync(w) == Connect(w) \/ ConnectFails(w) \/ ReadKey(w) \/ ReadBreaks(w) \/ Finish(w)

Next ==
    \/ \E k \in Keys : Edit(k)
    \/ \E w \in Workers : Sync(w) \/ Timer(w) \/ Die(w) \/ Respawn(w)

Spec == Init /\ [][Next]_vars

\* A worker runs its loop, nginx fires its timers and the master respawns workers.
FairSpec == Spec /\ \A w \in Workers : WF_vars(Sync(w) \/ Timer(w) \/ Respawn(w))

------------------------------------------------------------------------------
(* Properties *)

\* The type invariant.
TypeOK ==
    /\ edits \in 1 .. MaxEdits + 1
    /\ redis \in [Keys -> [v : 0 .. edits, kind : Kinds]]
    /\ partners \in [Workers -> [Keys -> 0 .. edits]]
    /\ st \in [Workers -> {"connect", "read", "idle", "dead"}]
    /\ i \in [Workers -> 0 .. maxPartnerId + 1]
    /\ lost \in [Workers -> 0 .. FdLimit]
    /\ breaks \in 0 .. MaxBreaks /\ deaths \in 0 .. MaxDeaths
    /\ due \in [Workers -> [Keys -> 0 .. edits]]
    /\ current \in [Workers -> [Keys -> 0 .. edits]]

\* syncPartners: after a pass that was not broken off a worker holds, of every key
\* that parsed when it was read, the version Redis had when the pass began or a
\* later one; later passes, broken off or not, do not undo that.
FreshAfterPass ==
    \A w \in Workers : \A k \in Keys : partners[w][k] >= current[w][k]

\* syncPartners: while a worker lives, an edit that does not parse, a deletion or a
\* broken pass never takes an entry away or puts an older version back.
NeverBackward ==
    [][\A w \in Workers : \A k \in Keys :
          st[w] # "dead" => partners'[w][k] >= partners[w][k]]_vars

\* syncPartners and its timer: when Redis is left alone, every worker that can still
\* connect ends up with the configured version of every partner.  A key of the wrong
\* type ends every pass, so that only the partners before it are sure to arrive.
Converges ==
    \A w \in Workers : \A k \in Keys :
       <>[](/\ redis[k].kind = "good" /\ lost[w] < FdLimit
            /\ \A j \in 0 .. k : redis[j].kind # "wrong"
            => partners[w][k] = redis[k].v)

==============================================================================
