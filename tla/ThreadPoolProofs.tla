--------------------------- MODULE ThreadPoolProofs ---------------------------
(***************************************************************************)
(* Theorems about ThreadPool, for every number of workers, clients and     *)
(* tasks: no task is started twice, no wakeup is lost although enqueue     *)
(* notifies after it has released the mutex, and the destructor returns    *)
(* only when every accepted task has been run to its end.                  *)
(***************************************************************************)
EXTENDS ThreadPool, TLAPS

\* How many tasks the workers have taken out of the queue.
Taken == accepted - Len(tasks)

\* The queue holds the latest tasks, in the order in which they were accepted.
QueueInOrder ==
    /\ Len(tasks) <= accepted
    /\ \A i \in 1 .. Len(tasks) : tasks[i] = Taken + i

\* Exactly the tasks that were taken have been started, each of them once.
StartedOnce == \A t \in Tasks : runs[t] = IF t <= Taken THEN 1 ELSE 0

\* A task that was taken is finished or in the hands of a worker that runs it, and
\* nothing else is.
TakenIsServed ==
    /\ \A t \in Tasks :
          t <= Taken => t \in finished \/ \E w \in Workers : pc[w] = "run" /\ task[w] = t
    /\ \A t \in finished : t <= Taken
    /\ \A w \in Workers : pc[w] = "run" => task[w] \in Tasks /\ task[w] <= Taken

\* What the destructor and the workers know of each other: a worker leaves a stopped
\* and empty pool only, nobody sleeps after notify_all, and join waits for all of them.
Shutdown ==
    /\ stop <=> dtor # "no"
    /\ \A w \in Workers : pc[w] = "exit" => stop /\ tasks = <<>>
    /\ dtor \in {"join", "done"} => \A w \in Workers : pc[w] # "wait"
    /\ dtor = "done" => \A w \in Workers : pc[w] = "exit"

\* The inductive invariant.
IInv ==
    /\ TypeOK
    /\ QueueInOrder
    /\ StartedOnce
    /\ TakenIsServed
    /\ Shutdown
    /\ NoLostWakeup

------------------------------------------------------------------------------

LEMMA InitIInv == Init => IInv
  <1> SUFFICES ASSUME Init PROVE IInv OBVIOUS
  <1> USE PoolAssumption DEF Tasks
  <1>1. TypeOK
    <2>1. tasks \in Seq(Tasks)
      BY DEF Init
    <2>2. stop \in BOOLEAN
      BY DEF Init
    <2>3. accepted \in 0 .. MaxTasks /\ finished \subseteq Tasks
      BY DEF Init
    <2>4. runs \in [Tasks -> Nat]
      BY DEF Init
    <2>5. /\ pc \in [Workers -> {"check", "wait", "run", "exit"}]
          /\ task \in [Workers -> Tasks \cup {0}]
          /\ client \in [Clients -> {"idle", "notify"}]
          /\ dtor \in {"no", "notify", "join", "done"}
      BY DEF Init
    <2> QED BY <2>1, <2>2, <2>3, <2>4, <2>5 DEF TypeOK
  <1>2. Taken = 0
    <2>1. Len(tasks) = 0 /\ accepted = 0
      BY DEF Init
    <2> QED BY <2>1 DEF Taken
  <1>3. QueueInOrder /\ StartedOnce /\ TakenIsServed
    BY <1>2 DEF Init, QueueInOrder, StartedOnce, TakenIsServed
  <1>4. Shutdown /\ NoLostWakeup
    BY DEF Init, Shutdown, NoLostWakeup
  <1> QED BY <1>1, <1>3, <1>4 DEF IInv

\* Sleep, Leave, SpuriousWakeup, NotifyOne and NotifyAll move workers between "check",
\* "wait" and "exit" only: the queue and the tasks that run stay as they are.
LEMMA QueueUntouched ==
    ASSUME IInv, UNCHANGED <<tasks, task, accepted, finished, runs>>,
           pc' \in [Workers -> {"check", "wait", "run", "exit"}],
           \A w \in Workers : pc'[w] = "run" <=> pc[w] = "run"
    PROVE  (QueueInOrder /\ StartedOnce /\ TakenIsServed)'
  <1>1. Taken' = Taken
    BY DEF Taken
  <1>2. QueueInOrder'
    BY <1>1 DEF IInv, QueueInOrder
  <1>3. StartedOnce'
    BY <1>1 DEF IInv, StartedOnce
  <1>4. TakenIsServed'
    BY <1>1 DEF IInv, TakenIsServed
  <1> QED BY <1>2, <1>3, <1>4

LEMMA SleepStep ==
    ASSUME IInv, NEW w \in Workers, Sleep(w) PROVE IInv'
  <1>1. TypeOK'
    BY DEF IInv, TypeOK, Sleep
  <1>2. (QueueInOrder /\ StartedOnce /\ TakenIsServed)'
    BY <1>1, QueueUntouched DEF IInv, TypeOK, Sleep
  <1>3. Shutdown'
    BY DEF IInv, TypeOK, Shutdown, Sleep
  <1>4. NoLostWakeup'
    BY DEF Sleep, NoLostWakeup
  <1> QED BY <1>1, <1>2, <1>3, <1>4 DEF IInv

LEMMA LeaveStep ==
    ASSUME IInv, NEW w \in Workers, Leave(w) PROVE IInv'
  <1>1. TypeOK'
    BY DEF IInv, TypeOK, Leave
  <1>2. (QueueInOrder /\ StartedOnce /\ TakenIsServed)'
    BY <1>1, QueueUntouched DEF IInv, TypeOK, Leave
  <1>3. Shutdown'
    BY DEF IInv, TypeOK, Shutdown, Leave
  <1>4. NoLostWakeup'
    BY DEF Leave, NoLostWakeup
  <1> QED BY <1>1, <1>2, <1>3, <1>4 DEF IInv

LEMMA PopStep ==
    ASSUME IInv, NEW w \in Workers, Pop(w) PROVE IInv'
  <1> USE PoolAssumption DEF Tasks
  <1>1. /\ tasks \in Seq(Tasks) /\ Len(tasks) \in Nat /\ Len(tasks) > 0
        /\ accepted \in Nat /\ runs \in [Tasks -> Nat]
    BY DEF IInv, TypeOK, Pop
  <1>2. Head(tasks) = Taken + 1 /\ Head(tasks) \in Tasks
    BY <1>1 DEF IInv, QueueInOrder, Taken
  <1>3. /\ Tail(tasks) \in Seq(Tasks) /\ Len(Tail(tasks)) = Len(tasks) - 1
        /\ \A i \in 1 .. Len(Tail(tasks)) : Tail(tasks)[i] = tasks[i + 1]
    BY <1>1
  <1>4. Taken' = Taken + 1 /\ Taken \in Nat
    BY <1>1, <1>3 DEF Pop, Taken, IInv, QueueInOrder
  <1>5. TypeOK'
    BY <1>1, <1>2, <1>3 DEF IInv, TypeOK, Pop
  <1>6. QueueInOrder'
    <2>1. Len(tasks') <= accepted'
      BY <1>1, <1>3 DEF Pop, IInv, QueueInOrder
    <2>2. ASSUME NEW i \in 1 .. Len(tasks') PROVE tasks'[i] = Taken' + i
      <3>1. i + 1 \in 1 .. Len(tasks) /\ tasks'[i] = tasks[i + 1]
        BY <1>1, <1>3 DEF Pop
      <3>2. tasks[i + 1] = Taken + (i + 1)
        BY <3>1 DEF IInv, QueueInOrder
      <3> QED BY <3>1, <3>2, <1>4
    <2> QED BY <2>1, <2>2 DEF QueueInOrder
  <1>7. StartedOnce'
    <2> SUFFICES ASSUME NEW t \in Tasks
                 PROVE  runs'[t] = IF t <= Taken' THEN 1 ELSE 0
      BY DEF StartedOnce
    <2>1. runs[t] = IF t <= Taken THEN 1 ELSE 0
      BY DEF IInv, StartedOnce
    <2>2. runs'[t] = IF t = Taken + 1 THEN runs[t] + 1 ELSE runs[t]
      BY <1>1, <1>2 DEF Pop
    <2> QED BY <1>4, <2>1, <2>2
  <1>8. TakenIsServed'
    <2>1. /\ pc'[w] = "run" /\ task'[w] = Taken + 1
          /\ \A v \in Workers \ {w} : pc'[v] = pc[v] /\ task'[v] = task[v]
          /\ pc[w] # "run" /\ finished' = finished
      BY <1>2 DEF Pop, IInv, TypeOK
    <2>2. ASSUME NEW t \in Tasks, t <= Taken'
          PROVE  t \in finished' \/ \E v \in Workers : pc'[v] = "run" /\ task'[v] = t
      <3>1. CASE t = Taken + 1
        BY <3>1, <2>1
      <3>2. CASE t <= Taken
        BY <3>2, <2>1 DEF IInv, TakenIsServed
      <3> QED BY <3>1, <3>2, <2>2, <1>4
    <2>3. \A t \in finished' : t <= Taken'
      BY <2>1, <1>4 DEF IInv, TypeOK, TakenIsServed
    <2>4. ASSUME NEW v \in Workers, pc'[v] = "run"
          PROVE  task'[v] \in Tasks /\ task'[v] <= Taken'
      <3>1. CASE v = w
        BY <3>1, <2>1, <1>2, <1>4
      <3>2. CASE v # w
        BY <3>2, <2>1, <2>4, <1>4 DEF IInv, TakenIsServed
      <3> QED BY <3>1, <3>2
    <2> QED BY <2>2, <2>3, <2>4 DEF TakenIsServed
  <1>9. Shutdown'
    BY DEF IInv, TypeOK, Shutdown, Pop
  <1>10. NoLostWakeup'
    BY DEF IInv, TypeOK, NoLostWakeup, Pop
  <1> QED BY <1>5, <1>6, <1>7, <1>8, <1>9, <1>10 DEF IInv

LEMMA RunStep ==
    ASSUME IInv, NEW w \in Workers, Run(w) PROVE IInv'
  <1> USE PoolAssumption DEF Tasks
  <1>1. task[w] \in Tasks /\ task[w] <= Taken
    BY DEF IInv, TakenIsServed, Run
  <1>2. Taken' = Taken
    BY DEF Run, Taken
  <1>3. TypeOK'
    BY <1>1 DEF IInv, TypeOK, Run
  <1>4. QueueInOrder' /\ StartedOnce'
    BY <1>2 DEF IInv, QueueInOrder, StartedOnce, Run
  <1>5. TakenIsServed'
    <2>1. /\ pc'[w] = "check"
          /\ \A v \in Workers \ {w} : pc'[v] = pc[v] /\ task'[v] = task[v]
          /\ finished' = finished \cup {task[w]}
      BY DEF Run, IInv, TypeOK
    <2> QED BY <1>1, <1>2, <2>1 DEF IInv, TakenIsServed
  <1>6. Shutdown'
    BY DEF IInv, TypeOK, Shutdown, Run
  <1>7. NoLostWakeup'
    BY DEF IInv, TypeOK, NoLostWakeup, Run
  <1> QED BY <1>3, <1>4, <1>5, <1>6, <1>7 DEF IInv

LEMMA WakeupStep ==
    ASSUME IInv, NEW w \in Workers, SpuriousWakeup(w) PROVE IInv'
  <1>1. TypeOK'
    BY DEF IInv, TypeOK, SpuriousWakeup
  <1>2. (QueueInOrder /\ StartedOnce /\ TakenIsServed)'
    BY <1>1, QueueUntouched DEF IInv, TypeOK, SpuriousWakeup
  <1>3. Shutdown'
    BY DEF IInv, TypeOK, Shutdown, SpuriousWakeup
  <1>4. NoLostWakeup'
    BY DEF IInv, TypeOK, NoLostWakeup, SpuriousWakeup
  <1> QED BY <1>1, <1>2, <1>3, <1>4 DEF IInv

LEMMA PushStep ==
    ASSUME IInv, NEW c \in Clients, Push(c) PROVE IInv'
  <1> USE PoolAssumption DEF Tasks
  <1>1. tasks \in Seq(Tasks) /\ Len(tasks) \in Nat /\ accepted \in Nat /\ accepted + 1 \in Tasks
    BY DEF IInv, TypeOK, Push
  <1>2. /\ tasks' \in Seq(Tasks) /\ Len(tasks') = Len(tasks) + 1
        /\ tasks'[Len(tasks) + 1] = accepted + 1
        /\ \A i \in 1 .. Len(tasks) : tasks'[i] = tasks[i]
    BY <1>1 DEF Push
  <1>3. Taken' = Taken
    BY <1>1, <1>2 DEF Taken, Push
  <1>4. TypeOK'
    BY <1>1, <1>2 DEF IInv, TypeOK, Push
  <1>5. QueueInOrder'
    BY <1>1, <1>2, <1>3 DEF IInv, QueueInOrder, Taken, Push
  <1>6. StartedOnce' /\ TakenIsServed'
    BY <1>3 DEF IInv, StartedOnce, TakenIsServed, Push
  <1>7. Shutdown'
    BY DEF IInv, TypeOK, Shutdown, Push
  <1>8. NoLostWakeup'
    BY DEF IInv, TypeOK, NoLostWakeup, Push
  <1> QED BY <1>4, <1>5, <1>6, <1>7, <1>8 DEF IInv

\* The wakeup enqueue owes: if nobody waits when notify_one comes, then the workers are all
\* awake, since none of them has left a pool whose queue is not empty.
LEMMA NotifyOneStep ==
    ASSUME IInv, NEW c \in Clients, NotifyOne(c) PROVE IInv'
  <1>1. /\ pc' \in [Workers -> {"check", "wait", "run", "exit"}]
        /\ \A v \in Workers : pc'[v] = pc[v] \/ (pc[v] = "wait" /\ pc'[v] = "check")
    BY DEF NotifyOne, IInv, TypeOK
  <1>2. TypeOK'
    BY <1>1 DEF IInv, TypeOK, NotifyOne
  <1>3. (QueueInOrder /\ StartedOnce /\ TakenIsServed)'
    BY <1>1, QueueUntouched DEF NotifyOne
  <1>4. Shutdown'
    BY <1>1 DEF IInv, Shutdown, NotifyOne
  <1>5. NoLostWakeup'
    <2> SUFFICES ASSUME tasks # <<>>
                 PROVE  \E v \in Workers : pc'[v] \in {"check", "run"}
      BY DEF NoLostWakeup, NotifyOne
    <2>1. CASE \E v \in Workers : pc[v] = "wait"
      BY <2>1 DEF NotifyOne, IInv, TypeOK
    <2>2. CASE ~ \E v \in Workers : pc[v] = "wait"
      <3>1. PICK v \in Workers : TRUE
        BY PoolAssumption
      <3>2. pc[v] # "exit"
        BY DEF IInv, Shutdown
      <3> QED BY <2>2, <3>1, <3>2 DEF NotifyOne, IInv, TypeOK
    <2> QED BY <2>1, <2>2
  <1> QED BY <1>2, <1>3, <1>4, <1>5 DEF IInv

LEMMA StopStep ==
    ASSUME IInv, Stop PROVE IInv'
  <1>1. TypeOK'
    BY DEF IInv, TypeOK, Stop
  <1>2. (QueueInOrder /\ StartedOnce /\ TakenIsServed)'
    BY QueueUntouched DEF IInv, TypeOK, Stop
  <1>3. Shutdown' /\ NoLostWakeup'
    BY DEF IInv, Shutdown, NoLostWakeup, Stop
  <1> QED BY <1>1, <1>2, <1>3 DEF IInv

LEMMA NotifyAllStep ==
    ASSUME IInv, NotifyAll PROVE IInv'
  <1>1. TypeOK'
    BY DEF IInv, TypeOK, NotifyAll
  <1>2. \A w \in Workers : pc'[w] = IF pc[w] = "wait" THEN "check" ELSE pc[w]
    BY DEF NotifyAll
  <1>3. (QueueInOrder /\ StartedOnce /\ TakenIsServed)'
    BY <1>1, <1>2, QueueUntouched DEF TypeOK, NotifyAll
  <1>4. Shutdown'
    BY <1>2 DEF IInv, Shutdown, NotifyAll
  <1>5. NoLostWakeup'
    <2> SUFFICES ASSUME tasks # <<>>
                 PROVE  \E v \in Workers : pc'[v] \in {"check", "run"}
      BY DEF NoLostWakeup, NotifyAll
    <2>1. PICK v \in Workers : TRUE
      BY PoolAssumption
    <2>2. pc[v] # "exit" /\ pc[v] \in {"check", "wait", "run", "exit"}
      BY DEF IInv, TypeOK, Shutdown
    <2> QED BY <1>2, <2>2
  <1> QED BY <1>1, <1>3, <1>4, <1>5 DEF IInv

LEMMA JoinStep ==
    ASSUME IInv, Join PROVE IInv'
  <1>1. TypeOK'
    BY DEF IInv, TypeOK, Join
  <1>2. (QueueInOrder /\ StartedOnce /\ TakenIsServed)'
    BY QueueUntouched DEF IInv, TypeOK, Join
  <1>3. Shutdown' /\ NoLostWakeup'
    BY DEF IInv, Shutdown, NoLostWakeup, Join
  <1> QED BY <1>1, <1>2, <1>3 DEF IInv

LEMMA NextIInv == IInv /\ [Next]_vars => IInv'
  <1> SUFFICES ASSUME IInv, [Next]_vars PROVE IInv' OBVIOUS
  <1>1. CASE UNCHANGED vars
    <2>1. (QueueInOrder /\ StartedOnce /\ TakenIsServed)'
      BY <1>1, QueueUntouched DEF vars, IInv, TypeOK
    <2> QED BY <1>1, <2>1 DEF vars, IInv, TypeOK, Shutdown, NoLostWakeup
  <1>2. ASSUME NEW w \in Workers, Worker(w) \/ SpuriousWakeup(w) PROVE IInv'
    BY <1>2, SleepStep, LeaveStep, PopStep, RunStep, WakeupStep DEF Worker
  <1>3. ASSUME NEW c \in Clients, Push(c) \/ NotifyOne(c) PROVE IInv'
    BY <1>3, PushStep, NotifyOneStep
  <1>4. CASE Stop \/ NotifyAll \/ Join
    BY <1>4, StopStep, NotifyAllStep, JoinStep
  <1> QED BY <1>1, <1>2, <1>3, <1>4 DEF Next

LEMMA InvHolds == Spec => []IInv
  BY InitIInv, NextIInv, PTL DEF Spec

------------------------------------------------------------------------------

\* The variables of the pool keep their types.
THEOREM TypeCorrect == Spec => []TypeOK
  <1>1. IInv => TypeOK
    BY DEF IInv
  <1> QED BY <1>1, InvHolds, PTL

\* The workers pop under the mutex: however many they are, no task is started twice, and none
\* before enqueue has accepted it.
THEOREM StartedAtMostOnce == Spec => []RunOnce
  <1>1. IInv => RunOnce
    BY PoolAssumption DEF IInv, TypeOK, QueueInOrder, StartedOnce, RunOnce, Taken, Tasks
  <1> QED BY <1>1, InvHolds, PTL

\* enqueue notifies outside its critical section, and still no wakeup is lost: while a task is
\* queued, some worker is awake or a notification is on its way.
THEOREM NoWakeupIsLost == Spec => []NoLostWakeup
  <1>1. IInv => NoLostWakeup
    BY DEF IInv
  <1> QED BY <1>1, InvHolds, PTL

\* ~ThreadPool returns only when every accepted task has been run to its end: a worker leaves
\* an empty queue only, and join waits for all of them.
THEOREM DestructorIsLast == Spec => []DestructorDrains
  <1>1. IInv => DestructorDrains
    <2> SUFFICES ASSUME IInv, dtor = "done" PROVE finished = 1 .. accepted
      BY DEF DestructorDrains
    <2>1. \A w \in Workers : pc[w] = "exit"
      BY DEF IInv, Shutdown
    <2>2. Taken = accepted
      BY <2>1, PoolAssumption DEF IInv, TypeOK, Shutdown, Taken
    <2>3. finished \subseteq Tasks /\ \A t \in finished : t <= accepted
      BY <2>2 DEF IInv, TypeOK, TakenIsServed
    <2>4. \A t \in Tasks : t <= accepted => t \in finished
      BY <2>1, <2>2 DEF IInv, TakenIsServed
    <2>5. accepted \in 0 .. MaxTasks
      BY DEF IInv, TypeOK
    <2>6. finished \subseteq 1 .. accepted
      BY <2>3, <2>5, PoolAssumption DEF Tasks
    <2>7. 1 .. accepted \subseteq Tasks
      BY <2>5, PoolAssumption DEF Tasks
    <2>8. 1 .. accepted \subseteq finished
      BY <2>4, <2>5, <2>7, PoolAssumption
    <2> QED BY <2>6, <2>8
  <1> QED BY <1>1, InvHolds, PTL

==============================================================================
