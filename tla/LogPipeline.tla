----------------------------- MODULE LogPipeline -----------------------------
(***************************************************************************)
(* From the workers to the logger: the three message queues in shared      *)
(* memory that ngx_http_mapping_init_module creates, log_save which sends  *)
(* to them from every worker, and the threads of logger/logger.cc which    *)
(* empty them into files and onto a ZeroMQ PUB socket.                     *)
(*                                                                         *)
(* send blocks while its queue is full, and with it the whole event loop   *)
(* of the worker; a message larger than the queue allows is an exception   *)
(* that log_save swallows.  What a thread has received sits in the memory  *)
(* of the logger (the asynchronous queue of spdlog, the buffer of the PUB  *)
(* socket) until it is written, and is gone if the process is killed.  A   *)
(* thread whose queue does not exist yet ends; the process goes on with    *)
(* the others and exits only when all three have ended.  Two failures jam  *)
(* a queue while everything stays up: a process killed inside send or      *)
(* receive leaves the mutex of the queue locked, and an exception of the   *)
(* file sink ends the writing thread of spdlog.                            *)
(***************************************************************************)
EXTENDS Integers, Sequences

CONSTANTS
    Workers,
    Jobs,           \* what log_save may have to send: the queues, the oversized ones
    Cap,            \* max_num_msg of the queues (100000)
    Buf,            \* the buffers inside the logger (4096 in spdlog)
    MaxRequests, MaxFaults   \* bounds: requests; kills and exceptions, of workers and logger

ASSUME ConstantsAssumption ==
    /\ Cap \in Nat \ {0} /\ Buf \in Nat \ {0}
    /\ MaxRequests \in Nat /\ MaxFaults \in Nat

VARIABLES
    made,     \* how many of the queues exist
    mq,       \* their contents
    todo,     \* of each worker: the sends of its log_save that are left
    req,      \* of each worker: the request it serves, 0 when it serves none
    big,      \* of each worker: the queues its messages are too large for
    requests, \* how many requests have come
    logger,   \* the process: "up", "down" or, given up by supervisord, "fatal"
    thread,   \* its threads: "new", "recv" or "ended"
    held,     \* received and not yet written
    out,      \* written to the file, or delivered to the subscriber
    sub,      \* whether the subscriber is connected
    locked,   \* the queues whose mutex a killed process has left locked
    broken,   \* the queues whose lines nobody writes: the thread of spdlog has ended
    faults,
    lossy,    \* history: the queues that have lost something with the logger
    sent,     \* history: the messages each queue has accepted
    refused   \* history: the messages that were too large for it

vars == <<made, mq, todo, req, big, requests, logger, thread, held, out, sub,
          locked, broken, faults, lossy, sent, refused>>

nginxVars  == <<made, todo, req, big, requests, sent, refused>>
loggerVars == <<logger, thread, held, out, sub, broken, lossy>>
faultVars  == <<locked, faults>>

\* Mutant: the pair goes out before the log record.
OrderPairFirst == <<"test_mq", "mapping_scylla", "mapping_log">>

\* The queues in the order in which init_module creates them and log_save uses them.
Order  == <<"test_mq", "mapping_log", "mapping_scylla">>
Queues == {Order[n] : n \in 1 .. 3}

Exists(q) == \E n \in 1 .. made : Order[n] = q

Empty == [q \in Queues |-> <<>>]

Init ==
    /\ made = 0
    /\ mq = Empty /\ held = Empty /\ out = Empty /\ sent = Empty
    /\ refused = [q \in Queues |-> {}]
    /\ todo = [w \in Workers |-> <<>>]
    /\ req = [w \in Workers |-> 0]
    /\ big = [w \in Workers |-> {}]
    /\ requests = 0
    /\ logger = "down" /\ thread = [q \in Queues |-> "new"]
    /\ sub = FALSE
    /\ locked = {} /\ broken = {} /\ lossy = {}
    /\ faults = 0

------------------------------------------------------------------------------
(* nginx *)

\* init_module, in the master, before any worker is started.
CreateQueue ==
    /\ made < 3
    /\ made' = made + 1
    /\ UNCHANGED <<mq, todo, req, big, requests, sent, refused, faultVars, loggerVars>>

\* A request reaches log_save: test_mq only for ad.gif, mapping_scylla only for a
\* pair that is stored, mapping_log always.
Sends == {SubSeq(Order, first, last) : first \in {1, 2}, last \in {2, 3}}

ASSUME JobsAssumption ==
    \A j \in Jobs : j.sends \in Sends /\ j.big \subseteq Queues

Request(w) ==
    /\ made = 3 /\ req[w] = 0 /\ requests < MaxRequests
    /\ requests' = requests + 1
    /\ req' = [req EXCEPT ![w] = requests + 1]
    /\ \E j \in Jobs :
          todo' = [todo EXCEPT ![w] = j.sends] /\ big' = [big EXCEPT ![w] = j.big]
    /\ UNCHANGED <<made, mq, sent, refused, faultVars, loggerVars>>

NextQueue(w) == Head(todo[w])

\* Mutant: send does not wait for room.
SendUnbounded(w) ==
    LET q == NextQueue(w)
    IN  /\ todo[w] # <<>> /\ q \notin big[w] /\ q \notin locked
        /\ mq' = [mq EXCEPT ![q] = Append(@, req[w])]
        /\ sent' = [sent EXCEPT ![q] = Append(@, req[w])]
        /\ todo' = [todo EXCEPT ![w] = Tail(@)]
        /\ UNCHANGED <<made, req, big, requests, refused, faultVars, loggerVars>>

\* message_queue::send returns: there is room.
Send(w) ==
    LET q == NextQueue(w)
    IN  /\ todo[w] # <<>> /\ q \notin big[w] /\ q \notin locked /\ Len(mq[q]) < Cap
        /\ mq' = [mq EXCEPT ![q] = Append(@, req[w])]
        /\ sent' = [sent EXCEPT ![q] = Append(@, req[w])]
        /\ todo' = [todo EXCEPT ![w] = Tail(@)]
        /\ UNCHANGED <<made, req, big, requests, refused, faultVars, loggerVars>>

\* message_queue::send throws: the message is too large, and is dropped.
SendThrows(w) ==
    /\ todo[w] # <<>> /\ NextQueue(w) \in big[w]
    /\ refused' = [refused EXCEPT ![NextQueue(w)] = @ \cup {req[w]}]
    /\ todo' = [todo EXCEPT ![w] = Tail(@)]
    /\ UNCHANGED <<made, mq, req, big, requests, sent, faultVars, loggerVars>>

\* log_save is done and the response goes out.
Answered(w) ==
    /\ req[w] # 0 /\ todo[w] = <<>>
    /\ req' = [req EXCEPT ![w] = 0]
    /\ big' = [big EXCEPT ![w] = {}]
    /\ UNCHANGED <<made, mq, todo, requests, sent, refused, faultVars, loggerVars>>

\* A worker is killed and started again; it opens the queues it finds.  If it was
\* inside send, the mutex of the queue may stay locked for everybody.
WorkerDies(w) ==
    /\ made = 3 /\ faults < MaxFaults
    /\ faults' = faults + 1
    /\ \E left \in {{}} \cup (IF todo[w] = <<>> \/ NextQueue(w) \in big[w] THEN {}
                             ELSE {{NextQueue(w)}}) :
          locked' = locked \cup left
    /\ req' = [req EXCEPT ![w] = 0]
    /\ todo' = [todo EXCEPT ![w] = <<>>]
    /\ big' = [big EXCEPT ![w] = {}]
    /\ UNCHANGED <<made, mq, requests, sent, refused, loggerVars>>

------------------------------------------------------------------------------
(* The logger and its supervisor *)

StartLogger ==
    /\ logger = "down"
    /\ logger' = "up"
    /\ UNCHANGED <<mq, thread, held, out, sub, broken, lossy, faultVars, nginxVars>>

\* The queue is opened, or does not exist: the exception ends the thread.
OpenQueue(q) ==
    /\ logger = "up" /\ thread[q] = "new"
    /\ thread' = [thread EXCEPT ![q] = IF Exists(q) THEN "recv" ELSE "ended"]
    /\ UNCHANGED <<mq, logger, held, out, sub, broken, lossy, faultVars, nginxVars>>

\* Mutant: the asynchronous logger discards what it has no room for.
ReceiveLogDiscarding(q) ==
    /\ q # "mapping_scylla"
    /\ logger = "up" /\ thread[q] = "recv" /\ mq[q] # <<>> /\ q \notin locked
    /\ held' = [held EXCEPT ![q] = IF Len(@) < Buf THEN Append(@, Head(mq[q])) ELSE @]
    /\ mq' = [mq EXCEPT ![q] = Tail(@)]
    /\ UNCHANGED <<logger, thread, out, sub, broken, lossy, faultVars, nginxVars>>

\* Mutant: the message stays in the queue until it is written.
ReceiveLogPeeking(q) ==
    /\ q # "mapping_scylla"
    /\ logger = "up" /\ thread[q] = "recv" /\ mq[q] # <<>> /\ q \notin locked
    /\ Len(held[q]) < Buf
    /\ held' = [held EXCEPT ![q] = Append(@, Head(mq[q]))]
    /\ UNCHANGED <<mq, logger, thread, out, sub, broken, lossy, faultVars, nginxVars>>

\* The consumers of the log queues: the asynchronous logger blocks when it is full.
ReceiveLog(q) ==
    /\ q # "mapping_scylla"
    /\ logger = "up" /\ thread[q] = "recv" /\ mq[q] # <<>> /\ q \notin locked
    /\ Len(held[q]) < Buf
    /\ held' = [held EXCEPT ![q] = Append(@, Head(mq[q]))]
    /\ mq' = [mq EXCEPT ![q] = Tail(@)]
    /\ UNCHANGED <<logger, thread, out, sub, broken, lossy, faultVars, nginxVars>>

\* Mutant: the socket waits for a subscriber.
ReceiveScyllaBlocking ==
    LET q == "mapping_scylla"
    IN  /\ logger = "up" /\ thread[q] = "recv" /\ mq[q] # <<>> /\ q \notin locked /\ sub
        /\ held' = [held EXCEPT ![q] = IF Len(@) < Buf THEN Append(@, Head(mq[q])) ELSE @]
        /\ mq' = [mq EXCEPT ![q] = Tail(@)]
        /\ UNCHANGED <<logger, thread, out, sub, broken, lossy, faultVars, nginxVars>>

\* Mutant: the message is sent again when the next one is received.
ReceiveScyllaTwice ==
    LET q == "mapping_scylla"
    IN  /\ logger = "up" /\ thread[q] = "recv" /\ mq[q] # <<>> /\ q \notin locked
        /\ held' = [held EXCEPT ![q] = IF sub THEN @ \o <<Head(mq[q]), Head(mq[q])>> ELSE @]
        /\ mq' = [mq EXCEPT ![q] = Tail(@)]
        /\ UNCHANGED <<logger, thread, out, sub, broken, lossy, faultVars, nginxVars>>

\* scylla_consumer: a PUB socket never blocks, it drops what it cannot buffer.
ReceiveScylla ==
    LET q == "mapping_scylla"
    IN  /\ logger = "up" /\ thread[q] = "recv" /\ mq[q] # <<>> /\ q \notin locked
        /\ held' = [held EXCEPT ![q] = IF sub /\ Len(@) < Buf
                                       THEN Append(@, Head(mq[q])) ELSE @]
        /\ mq' = [mq EXCEPT ![q] = Tail(@)]
        /\ UNCHANGED <<logger, thread, out, sub, broken, lossy, faultVars, nginxVars>>

\* spdlog writes the line; ZeroMQ hands the message to the subscriber.
Write(q) ==
    /\ logger = "up" /\ held[q] # <<>> /\ q \notin broken
    /\ out' = [out EXCEPT ![q] = Append(@, Head(held[q]))]
    /\ held' = [held EXCEPT ![q] = Tail(@)]
    /\ UNCHANGED <<mq, logger, thread, sub, broken, lossy, faultVars, nginxVars>>

\* The sink throws (the disk is full, the next file cannot be opened): the exception
\* is caught outside the loop of spdlog's thread, and ends it with the line in hand.
WriterThrows(q) ==
    /\ q # "mapping_scylla"
    /\ logger = "up" /\ held[q] # <<>> /\ q \notin broken /\ faults < MaxFaults
    /\ faults' = faults + 1
    /\ broken' = broken \cup {q} /\ lossy' = lossy \cup {q}
    /\ held' = [held EXCEPT ![q] = Tail(@)]
    /\ UNCHANGED <<mq, logger, thread, out, sub, locked, nginxVars>>

Subscribe ==
    /\ logger = "up" /\ ~sub
    /\ sub' = TRUE
    /\ UNCHANGED <<mq, logger, thread, held, out, broken, lossy, faultVars, nginxVars>>

\* The subscriber exits: what is buffered for it is discarded.
Unsubscribe ==
    /\ sub
    /\ sub' = FALSE
    /\ held' = [held EXCEPT !["mapping_scylla"] = <<>>]
    /\ UNCHANGED <<mq, logger, thread, out, broken, lossy, faultVars, nginxVars>>

\* main returns once its three threads are joined; supervisord starts it again, or
\* gives up after too many quick exits.
LoggerExits ==
    /\ logger = "up" /\ \A q \in Queues : thread[q] = "ended"
    /\ logger' \in {"down", "fatal"}
    /\ thread' = [q \in Queues |-> "new"]
    /\ sub' = FALSE
    /\ UNCHANGED <<mq, held, out, broken, lossy, faultVars, nginxVars>>

\* The logger crashes or is killed, maybe inside receive; supervisord starts it again.
LoggerKilled ==
    /\ logger = "up" /\ faults < MaxFaults
    /\ faults' = faults + 1
    /\ \E left \in {{}} \cup {{q} : q \in {p \in Queues : thread[p] = "recv"}} :
          locked' = locked \cup left
    /\ logger' = "down"
    /\ held' = Empty /\ lossy' = Queues
    /\ thread' = [q \in Queues |-> "new"] /\ broken' = {}
    /\ sub' = FALSE
    /\ UNCHANGED <<mq, out, nginxVars>>

Nginx(w) == Request(w) \/ Send(w) \/ SendThrows(w) \/ Answered(w) \/ WorkerDies(w)

Consume(q) == OpenQueue(q) \/ ReceiveLog(q) \/ Write(q) \/ WriterThrows(q)

Next ==
    \/ CreateQueue
    \/ \E w \in Workers : Nginx(w)
    \/ StartLogger \/ LoggerExits \/ LoggerKilled
    \/ \E q \in Queues : Consume(q)
    \/ ReceiveScylla \/ Subscribe \/ Unsubscribe

Spec == Init /\ [][Next]_vars

\* A worker goes on when its send can return, supervisord restarts what has exited,
\* and every thread of the logger gets to run.
FairSpec ==
    /\ Spec
    /\ \A w \in Workers : WF_vars(Send(w) \/ SendThrows(w) \/ Answered(w))
    /\ WF_vars(StartLogger) /\ WF_vars(LoggerExits) /\ WF_vars(CreateQueue)
    /\ \A q \in Queues : WF_vars(OpenQueue(q) \/ ReceiveLog(q)) /\ WF_vars(Write(q))
    /\ WF_vars(ReceiveScylla)

------------------------------------------------------------------------------
(* Properties *)

Messages == 1 .. MaxRequests

\* The type invariant, with the limits of the queues and of the buffers.
TypeOK ==
    /\ made \in 0 .. 3 /\ requests \in 0 .. MaxRequests
    /\ mq \in [Queues -> Seq(Messages)] /\ \A q \in Queues : Len(mq[q]) <= Cap
    /\ held \in [Queues -> Seq(Messages)] /\ \A q \in Queues : Len(held[q]) <= Buf
    /\ out \in [Queues -> Seq(Messages)] /\ sent \in [Queues -> Seq(Messages)]
    /\ refused \in [Queues -> SUBSET Messages]
    /\ req \in [Workers -> 0 .. MaxRequests]
    /\ todo \in [Workers -> Seq(Queues)]
    /\ big \in [Workers -> SUBSET Queues]
    /\ logger \in {"up", "down", "fatal"}
    /\ thread \in [Queues -> {"new", "recv", "ended"}]
    /\ sub \in BOOLEAN
    /\ locked \subseteq Queues /\ broken \subseteq lossy /\ lossy \subseteq Queues
    /\ faults \in 0 .. MaxFaults

\* log_save to the files: as long as the logger is not killed and its sink does not
\* throw, every message the log queues accepted is in the file, in the logger or in the
\* queue, once and in order, whichever workers sent it and however they died.
NothingLost ==
    \A q \in Queues \ ({"mapping_scylla"} \cup lossy) :
       sent[q] = out[q] \o held[q] \o mq[q]

\* Each queue with its consumer is a Channel, also when the logger is killed, when
\* the subscriber goes away or when the PUB socket drops.  test_mq is served by the
\* same code as mapping_log.
LogChannel    == INSTANCE Channel WITH
                    pending <- held["mapping_log"] \o mq["mapping_log"],
                    delivered <- out["mapping_log"]
ScyllaChannel == INSTANCE Channel WITH
                    pending <- held["mapping_scylla"] \o mq["mapping_scylla"],
                    delivered <- out["mapping_scylla"]

IsLogChannel    == LogChannel!Spec
IsScyllaChannel == ScyllaChannel!Spec

Occurs(m, s) == \E n \in 1 .. Len(s) : s[n] = m

\* log_save sends the log record first: a pair that was sent to the mapping store has
\* been sent to the log as well, wherever its worker died, unless it was too large.
StoredMeansLogged ==
    \A m \in Messages :
       Occurs(m, sent["mapping_scylla"]) =>
          Occurs(m, sent["mapping_log"]) \/ m \in refused["mapping_log"]

\* A worker that waits in send gets out of it, unless nobody will ever empty the very
\* queue it waits for: its consumer thread ended at start-up, spdlog's thread behind it
\* has ended, a killed process left its mutex locked, or supervisord gave up.
Jammed(q) == logger = "fatal" \/ q \in locked \cup broken \/ thread[q] = "ended"

SendReturns ==
    \A w \in Workers :
       todo[w] # <<>> ~> (todo[w] = <<>> \/ Jammed(NextQueue(w)))

==============================================================================
