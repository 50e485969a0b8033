----------------------------- MODULE ThreadPool ------------------------------
(***************************************************************************)
(* The thread pool of logger/utils/threadPool.h: a queue of tasks under a  *)
(* mutex, workers that wait on a condition variable, enqueue which refuses *)
(* tasks once the pool stops, and the destructor which stops the workers   *)
(* and joins them.                                                         *)
(*                                                                         *)
(* A section under queue_mutex is one step.  The notifications come after  *)
(* the mutex is released, as steps of their own: between the two, workers  *)
(* may find the task, fall asleep or be woken for nothing.                 *)
(***************************************************************************)
EXTENDS Integers, Sequences

CONSTANTS
    Workers,   \* the threads of the pool
    Clients,   \* the threads that enqueue
    MaxTasks   \* bound: how many tasks are enqueued

ASSUME PoolAssumption == Workers # {} /\ MaxTasks \in Nat

VARIABLES
    tasks,    \* the queue
    stop,
    pc,       \* of each worker: "check" the queue, "wait", "run" a task, "exit"
    task,     \* of each worker: the task it runs, 0 for none
    client,   \* of each client: "idle" or, after its push, "notify"
    dtor,     \* the destructor: "no", "notify", "join", "done"
    accepted, \* how many tasks enqueue has taken
    finished, \* the tasks that have been run
    runs      \* history: how often each task has been started

vars == <<tasks, stop, pc, task, client, dtor, accepted, finished, runs>>

Tasks == 1 .. MaxTasks

Init ==
    /\ tasks = <<>> /\ stop = FALSE
    /\ pc = [w \in Workers |-> "check"]
    /\ task = [w \in Workers |-> 0]
    /\ client = [c \in Clients |-> "idle"]
    /\ dtor = "no"
    /\ accepted = 0 /\ finished = {}
    /\ runs = [t \in Tasks |-> 0]

------------------------------------------------------------------------------
(* The loop of a worker *)

\* Mutant: the worker waits without looking at the queue.
SleepUnchecked(w) ==
    /\ pc[w] = "check" /\ ~stop
    /\ pc' = [pc EXCEPT ![w] = "wait"]
    /\ UNCHANGED <<tasks, stop, task, client, dtor, accepted, finished, runs>>

\* The predicate of condition.wait does not hold: the worker sleeps.
Sleep(w) ==
    /\ pc[w] = "check" /\ ~stop /\ tasks = <<>>
    /\ pc' = [pc EXCEPT ![w] = "wait"]
    /\ UNCHANGED <<tasks, stop, task, client, dtor, accepted, finished, runs>>

\* Mutant: a stopped worker leaves without emptying the queue.
LeaveAtOnce(w) ==
    /\ pc[w] = "check" /\ stop
    /\ pc' = [pc EXCEPT ![w] = "exit"]
    /\ UNCHANGED <<tasks, stop, task, client, dtor, accepted, finished, runs>>

Leave(w) ==
    /\ pc[w] = "check" /\ stop /\ tasks = <<>>
    /\ pc' = [pc EXCEPT ![w] = "exit"]
    /\ UNCHANGED <<tasks, stop, task, client, dtor, accepted, finished, runs>>

\* Mutant: the front of the queue is not removed.
PopKeeping(w) ==
    /\ pc[w] = "check" /\ tasks # <<>>
    /\ pc' = [pc EXCEPT ![w] = "run"]
    /\ task' = [task EXCEPT ![w] = Head(tasks)]
    /\ runs' = [runs EXCEPT ![Head(tasks)] = @ + 1]
    /\ UNCHANGED <<tasks, stop, client, dtor, accepted, finished>>

Pop(w) ==
    /\ pc[w] = "check" /\ tasks # <<>>
    /\ pc' = [pc EXCEPT ![w] = "run"]
    /\ task' = [task EXCEPT ![w] = Head(tasks)]
    /\ tasks' = Tail(tasks)
    /\ runs' = [runs EXCEPT ![Head(tasks)] = @ + 1]
    /\ UNCHANGED <<stop, client, dtor, accepted, finished>>

\* Mutant: the task is moved away before it is run.
RunMovedFrom(w) ==
    /\ pc[w] = "run"
    /\ pc' = [pc EXCEPT ![w] = "check"]
    /\ finished' = finished \cup {0}
    /\ task' = [task EXCEPT ![w] = 0]
    /\ UNCHANGED <<tasks, stop, client, dtor, accepted, runs>>

Run(w) ==
    /\ pc[w] = "run"
    /\ pc' = [pc EXCEPT ![w] = "check"]
    /\ finished' = finished \cup {task[w]}
    /\ task' = [task EXCEPT ![w] = 0]
    /\ UNCHANGED <<tasks, stop, client, dtor, accepted, runs>>

\* A condition variable may wake a thread for no reason.
SpuriousWakeup(w) ==
    /\ pc[w] = "wait"
    /\ pc' = [pc EXCEPT ![w] = "check"]
    /\ UNCHANGED <<tasks, stop, task, client, dtor, accepted, finished, runs>>

------------------------------------------------------------------------------
(* enqueue *)

Push(c) ==
    /\ client[c] = "idle" /\ accepted < MaxTasks
    /\ ~stop     \* else it throws, and nothing changes
    /\ tasks' = Append(tasks, accepted + 1)
    /\ accepted' = accepted + 1
    /\ client' = [client EXCEPT ![c] = "notify"]
    /\ UNCHANGED <<stop, pc, task, dtor, finished, runs>>

\* Mutant: nobody is notified.
NotifyNobody(c) ==
    /\ client[c] = "notify"
    /\ client' = [client EXCEPT ![c] = "idle"]
    /\ UNCHANGED <<tasks, stop, pc, task, dtor, accepted, finished, runs>>

\* notify_one wakes one of the threads that wait, whichever, or nobody.
NotifyOne(c) ==
    /\ client[c] = "notify"
    /\ client' = [client EXCEPT ![c] = "idle"]
    /\ IF \E w \in Workers : pc[w] = "wait"
       THEN \E w \in Workers : pc[w] = "wait" /\ pc' = [pc EXCEPT ![w] = "check"]
       ELSE UNCHANGED pc
    /\ UNCHANGED <<tasks, stop, task, dtor, accepted, finished, runs>>

------------------------------------------------------------------------------
(* ~ThreadPool *)

Stop ==
    /\ dtor = "no"
    /\ stop' = TRUE
    /\ dtor' = "notify"
    /\ UNCHANGED <<tasks, pc, task, client, accepted, finished, runs>>

\* Mutant: the destructor notifies one worker only.
NotifyAllOne ==
    /\ dtor = "notify"
    /\ dtor' = "join"
    /\ IF \E w \in Workers : pc[w] = "wait"
       THEN \E w \in Workers : pc[w] = "wait" /\ pc' = [pc EXCEPT ![w] = "check"]
       ELSE UNCHANGED pc
    /\ UNCHANGED <<tasks, stop, task, client, accepted, finished, runs>>

NotifyAll ==
    /\ dtor = "notify"
    /\ dtor' = "join"
    /\ pc' = [w \in Workers |-> IF pc[w] = "wait" THEN "check" ELSE pc[w]]
    /\ UNCHANGED <<tasks, stop, task, client, accepted, finished, runs>>

Join ==
    /\ dtor = "join" /\ \A w \in Workers : pc[w] = "exit"
    /\ dtor' = "done"
    /\ UNCHANGED <<tasks, stop, pc, task, client, accepted, finished, runs>>

Worker(w) == Sleep(w) \/ Leave(w) \/ Pop(w) \/ Run(w)

Next ==
    \/ \E w \in Workers : Worker(w) \/ SpuriousWakeup(w)
    \/ \E c \in Clients : Push(c) \/ NotifyOne(c)
    \/ Stop \/ NotifyAll \/ Join

Spec == Init /\ [][Next]_vars

\* The scheduler runs every thread that can move; nobody has to enqueue, to wake
\* without reason or to destroy the pool.
FairSpec ==
    /\ Spec
    /\ \A w \in Workers : WF_vars(Worker(w))
    /\ \A c \in Clients : WF_vars(NotifyOne(c))
    /\ WF_vars(NotifyAll) /\ WF_vars(Join)

------------------------------------------------------------------------------
(* Properties *)

\* The type invariant.
TypeOK ==
    /\ tasks \in Seq(Tasks) /\ stop \in BOOLEAN
    /\ pc \in [Workers -> {"check", "wait", "run", "exit"}]
    /\ task \in [Workers -> Tasks \cup {0}]
    /\ client \in [Clients -> {"idle", "notify"}]
    /\ dtor \in {"no", "notify", "join", "done"}
    /\ accepted \in 0 .. MaxTasks /\ finished \subseteq Tasks
    /\ runs \in [Tasks -> Nat]

\* enqueue notifies after it has released the mutex: even so, whenever a task is
\* queued some worker will look at the queue or a notification is still to come.
NoLostWakeup ==
    tasks # <<>> => \/ \E w \in Workers : pc[w] \in {"check", "run"}
                    \/ \E c \in Clients : client[c] = "notify"
                    \/ dtor = "notify"

\* ~ThreadPool: when the destructor has returned, every task enqueue ever took has
\* been run to its end.
DestructorDrains == dtor = "done" => finished = 1 .. accepted

\* The workers pop under the mutex: no task is started twice, and none before it is
\* accepted.
RunOnce == \A t \in Tasks : runs[t] <= 1 /\ (runs[t] = 1 => t <= accepted)

\* Every task that is accepted is run, with or without a destructor.
EveryTaskRuns == \A t \in Tasks : accepted >= t ~> t \in finished

\* Once the destructor has begun it returns: no worker sleeps through the stop.
DestructorReturns == dtor = "notify" ~> dtor = "done"

==============================================================================
