-------------------------- MODULE LogPipelineProofs ---------------------------
(***************************************************************************)
(* Theorems about LogPipeline, for every number of workers and requests,   *)
(* every capacity and every number of faults: nothing the log queues       *)
(* accepted disappears while the logger lives, a stored pair is a logged   *)
(* one, and each queue with its consumer implements a Channel.             *)
(***************************************************************************)
EXTENDS LogPipeline, SequenceTheorems, TLAPS

------------------------------------------------------------------------------
(* Sequences *)

\* A message sent joins the end of what is under way.
LEMMA AppendToConcat ==
    ASSUME NEW S, NEW s \in Seq(S), NEW t \in Seq(S), NEW m \in S
    PROVE  s \o Append(t, m) = Append(s \o t, m)
  <1>1. Append(t, m) = t \o <<m>> /\ <<m>> \in Seq(S)
    BY AppendIsConcat
  <1>2. s \o t \in Seq(S)
    BY ConcatProperties
  <1>3. Append(s \o t, m) = (s \o t) \o <<m>>
    BY <1>2, AppendIsConcat
  <1> QED BY <1>1, <1>3, ConcatAssociative

\* A message received moves from the front of one sequence to the end of the one before it.
LEMMA MoveHead ==
    ASSUME NEW S, NEW s \in Seq(S), NEW t \in Seq(S), t # <<>>
    PROVE  Append(s, Head(t)) \o Tail(t) = s \o t
  <1>1. /\ Head(t) \in S /\ Tail(t) \in Seq(S) /\ Len(Tail(t)) = Len(t) - 1
        /\ \A n \in 1 .. Len(Tail(t)) : Tail(t)[n] = t[n + 1]
    BY HeadTailProperties
  <1>2. /\ Append(s, Head(t)) \in Seq(S) /\ Len(Append(s, Head(t))) = Len(s) + 1
        /\ \A n \in 1 .. Len(s) : Append(s, Head(t))[n] = s[n]
        /\ Append(s, Head(t))[Len(s) + 1] = Head(t)
    BY <1>1, AppendProperties
  <1>3. Len(s) \in Nat /\ Len(t) \in Nat \ {0} /\ Head(t) = t[1]
    BY EmptySeq, LenProperties
  <1> DEFINE a == Append(s, Head(t)) \o Tail(t)
             b == s \o t
  <1>4. /\ a \in Seq(S) /\ Len(a) = Len(s) + Len(t)
        /\ \A n \in 1 .. Len(s) + Len(t) :
              a[n] = IF n <= Len(s) + 1 THEN Append(s, Head(t))[n] ELSE Tail(t)[n - (Len(s) + 1)]
    BY <1>1, <1>2, <1>3, ConcatProperties
  <1>5. /\ b \in Seq(S) /\ Len(b) = Len(s) + Len(t)
        /\ \A n \in 1 .. Len(s) + Len(t) : b[n] = IF n <= Len(s) THEN s[n] ELSE t[n - Len(s)]
    BY ConcatProperties
  <1>6. ASSUME NEW n \in 1 .. Len(s) + Len(t) PROVE a[n] = b[n]
    <2>1. CASE n <= Len(s)
      BY <2>1, <1>2, <1>3, <1>4, <1>5
    <2>2. CASE n = Len(s) + 1
      BY <2>2, <1>2, <1>3, <1>4, <1>5
    <2>3. CASE n > Len(s) + 1
      <3>1. n - (Len(s) + 1) \in 1 .. Len(Tail(t))
        BY <2>3, <1>1, <1>3
      <3>2. Tail(t)[n - (Len(s) + 1)] = t[n - Len(s)]
        BY <3>1, <1>1, <1>3
      <3> QED BY <2>3, <3>2, <1>3, <1>4, <1>5
    <2> QED BY <2>1, <2>2, <2>3, <1>3
  <1> HIDE DEF a, b
  <1>7. a = b
    BY <1>3, <1>4, <1>5, <1>6, SeqEqual
  <1> QED BY <1>7 DEF a, b

\* The first part of a concatenation gives its head.
LEMMA HeadTailOfConcat ==
    ASSUME NEW S, NEW s \in Seq(S), NEW t \in Seq(S), s # <<>>
    PROVE  s \o t # <<>> /\ Head(s \o t) = Head(s) /\ Tail(s \o t) = Tail(s) \o t
  <1>1. Len(s) \in Nat \ {0} /\ Len(t) \in Nat
    BY EmptySeq, LenProperties
  <1>2. /\ s \o t \in Seq(S) /\ Len(s \o t) = Len(s) + Len(t)
        /\ \A n \in 1 .. Len(s) + Len(t) :
              (s \o t)[n] = IF n <= Len(s) THEN s[n] ELSE t[n - Len(s)]
    BY ConcatProperties
  <1>3. s \o t # <<>> /\ Head(s \o t) = Head(s)
    BY <1>1, <1>2, EmptySeq
  <1>4. /\ Tail(s) \in Seq(S) /\ Len(Tail(s)) = Len(s) - 1
        /\ \A n \in 1 .. Len(Tail(s)) : Tail(s)[n] = s[n + 1]
    BY HeadTailProperties
  <1> DEFINE a == Tail(s \o t)
             b == Tail(s) \o t
  <1>5. /\ a \in Seq(S) /\ Len(a) = Len(s) + Len(t) - 1
        /\ \A n \in 1 .. Len(a) : a[n] = (s \o t)[n + 1]
    BY <1>2, <1>3, HeadTailProperties
  <1>6. /\ b \in Seq(S) /\ Len(b) = Len(s) - 1 + Len(t)
        /\ \A n \in 1 .. Len(s) - 1 + Len(t) :
              b[n] = IF n <= Len(s) - 1 THEN Tail(s)[n] ELSE t[n - (Len(s) - 1)]
    BY <1>4, ConcatProperties
  <1> HIDE DEF a, b
  <1>7. ASSUME NEW n \in 1 .. Len(a) PROVE a[n] = b[n]
    <2>1. a[n] = (s \o t)[n + 1] /\ n + 1 \in 1 .. Len(s) + Len(t)
      BY <1>1, <1>5
    <2>2. CASE n <= Len(s) - 1
      BY <2>1, <2>2, <1>1, <1>2, <1>4, <1>5, <1>6
    <2>3. CASE n > Len(s) - 1
      BY <2>1, <2>3, <1>1, <1>2, <1>5, <1>6
    <2> QED BY <2>2, <2>3, <1>1, <1>5
  <1>8. a = b
    BY <1>1, <1>5, <1>6, <1>7, SeqEqual
  <1> QED BY <1>3, <1>8 DEF a, b

\* What is left of a concatenation when its first part is lost.
LEMMA SecondPart ==
    ASSUME NEW S, NEW s \in Seq(S), NEW t \in Seq(S)
    PROVE  SubSeq(s \o t, Len(s) + 1, Len(s \o t)) = t
  <1>1. Len(s) \in Nat /\ Len(t) \in Nat
    BY LenProperties
  <1>2. /\ s \o t \in Seq(S) /\ Len(s \o t) = Len(s) + Len(t)
        /\ \A n \in 1 .. Len(s) + Len(t) :
              (s \o t)[n] = IF n <= Len(s) THEN s[n] ELSE t[n - Len(s)]
    BY ConcatProperties
  <1>3. \A n \in Len(s) + 1 .. Len(s) + Len(t) : (s \o t)[n] \in S
    BY <1>1, <1>2, ElementOfSeq
  <1> DEFINE a == SubSeq(s \o t, Len(s) + 1, Len(s) + Len(t))
  <1>4. /\ a \in Seq(S)
        /\ Len(a) = IF Len(s) + 1 <= Len(s) + Len(t) THEN Len(s) + Len(t) - (Len(s) + 1) + 1 ELSE 0
        /\ \A n \in 1 .. Len(s) + Len(t) - (Len(s) + 1) + 1 : a[n] = (s \o t)[(Len(s) + 1) + n - 1]
    <2>1. Len(s) + 1 \in Int /\ Len(s) + Len(t) \in Int
      BY <1>1
    <2> QED BY <1>3, <2>1, SubSeqProperties
  <1> HIDE DEF a
  <1>5. Len(a) = Len(t)
    BY <1>1, <1>4
  <1>6. \A n \in 1 .. Len(t) : a[n] = t[n]
    BY <1>1, <1>2, <1>4
  <1>7. a = t
    BY <1>4, <1>5, <1>6, SeqEqual
  <1> QED BY <1>2, <1>7 DEF a

\* What is left when the oldest message of the second part is dropped.
LEMMA DropBetween ==
    ASSUME NEW S, NEW s \in Seq(S), NEW t \in Seq(S), t # <<>>
    PROVE  /\ Len(s) + 1 \in 1 .. Len(s \o t)
           /\ SubSeq(s \o t, 1, Len(s)) \o SubSeq(s \o t, Len(s) + 2, Len(s \o t)) = s \o Tail(t)
  <1>1. Len(s) \in Nat /\ Len(t) \in Nat \ {0} /\ Len(s \o t) = Len(s) + Len(t)
    BY EmptySeq, LenProperties, ConcatProperties
  <1>2. SubSeq(s \o t, 1, Len(s)) = s
    <2>1. CASE Len(s) = 0
      BY <2>1, EmptySeq, SubSeqEmpty
    <2>2. CASE Len(s) # 0
      BY <2>2, <1>1, SubSeqOfConcat1, SubSeqFull
    <2> QED BY <2>1, <2>2
  <1>3. Head(t) \in S /\ Tail(t) \in Seq(S)
    BY HeadTailProperties
  <1>4. Append(s, Head(t)) \in Seq(S) /\ Len(Append(s, Head(t))) = Len(s) + 1
    BY <1>3, AppendProperties
  <1>5. SubSeq(Append(s, Head(t)) \o Tail(t), (Len(s) + 1) + 1, Len(Append(s, Head(t)) \o Tail(t)))
           = Tail(t)
    BY <1>3, <1>4, SecondPart
  <1>6. SubSeq(s \o t, Len(s) + 2, Len(s \o t)) = Tail(t)
    <2>1. Append(s, Head(t)) \o Tail(t) = s \o t
      BY MoveHead
    <2>2. (Len(s) + 1) + 1 = Len(s) + 2
      BY <1>1
    <2> QED BY <1>5, <2>1, <2>2
  <1>7. Len(s) + 1 \in 1 .. Len(s \o t)
    BY <1>1
  <1> QED BY <1>2, <1>6, <1>7

LEMMA OccursAppend ==
    ASSUME NEW S, NEW s \in Seq(S), NEW x \in S, NEW m
    PROVE  Occurs(m, Append(s, x)) <=> Occurs(m, s) \/ m = x
  <1>1. /\ Len(s) \in Nat /\ Len(Append(s, x)) = Len(s) + 1
        /\ \A n \in 1 .. Len(s) : Append(s, x)[n] = s[n]
        /\ Append(s, x)[Len(s) + 1] = x
    BY LenProperties, AppendProperties
  <1>2. ASSUME Occurs(m, Append(s, x)) PROVE Occurs(m, s) \/ m = x
    BY <1>1, <1>2 DEF Occurs
  <1>3. ASSUME Occurs(m, s) \/ m = x PROVE Occurs(m, Append(s, x))
    BY <1>1, <1>3 DEF Occurs
  <1> QED BY <1>2, <1>3

LEMMA OccursTail ==
    ASSUME NEW S, NEW s \in Seq(S), s # <<>>, NEW m
    PROVE  Occurs(Head(s), s) /\ (Occurs(m, Tail(s)) => Occurs(m, s))
  <1>1. /\ Len(s) \in Nat \ {0} /\ Head(s) = s[1] /\ Len(Tail(s)) = Len(s) - 1
        /\ \A n \in 1 .. Len(Tail(s)) : Tail(s)[n] = s[n + 1]
    BY EmptySeq, HeadTailProperties
  <1>2. Occurs(Head(s), s)
    BY <1>1 DEF Occurs
  <1>3. ASSUME Occurs(m, Tail(s)) PROVE Occurs(m, s)
    <2>1. PICK n \in 1 .. Len(Tail(s)) : Tail(s)[n] = m
      BY <1>3 DEF Occurs
    <2>2. n + 1 \in 1 .. Len(s) /\ s[n + 1] = m
      BY <1>1, <2>1
    <2> QED BY <2>2 DEF Occurs
  <1> QED BY <1>2, <1>3

LEMMA OccursConcat ==
    ASSUME NEW S, NEW s \in Seq(S), NEW t \in Seq(S), NEW m, Occurs(m, s \o t)
    PROVE  Occurs(m, s) \/ Occurs(m, t)
  <1>1. /\ Len(s) \in Nat /\ Len(t) \in Nat /\ Len(s \o t) = Len(s) + Len(t)
        /\ \A n \in 1 .. Len(s) + Len(t) :
              (s \o t)[n] = IF n <= Len(s) THEN s[n] ELSE t[n - Len(s)]
    BY LenProperties, ConcatProperties
  <1>2. PICK n \in 1 .. Len(s) + Len(t) : (s \o t)[n] = m
    BY <1>1 DEF Occurs
  <1>3. CASE n <= Len(s)
    BY <1>1, <1>2, <1>3 DEF Occurs
  <1>4. CASE n > Len(s)
    <2>1. n - Len(s) \in 1 .. Len(t) /\ t[n - Len(s)] = m
      BY <1>1, <1>2, <1>4
    <2> QED BY <2>1 DEF Occurs
  <1> QED BY <1>1, <1>3, <1>4

------------------------------------------------------------------------------
(* The inductive invariant *)

\* What log_save may have left to do, by the order of its sends.
Todos == {<<>>, <<"mapping_log">>, <<"mapping_scylla">>, <<"mapping_log", "mapping_scylla">>,
          <<"test_mq", "mapping_log">>, <<"test_mq", "mapping_log", "mapping_scylla">>}

TodoShape == \A w \in Workers : todo[w] \in Todos /\ (todo[w] # <<>> => req[w] # 0)

\* Requests are told apart, and what was sent belongs to one that has come.
Distinct ==
    /\ \A w \in Workers : req[w] <= requests
    /\ \A v, w \in Workers : v # w /\ req[v] # 0 => req[v] # req[w]
    /\ \A q \in Queues : \A m \in Messages : Occurs(m, sent[q]) => m <= requests

\* What a worker has still to send to a queue it has not sent there before.
NotYetSent ==
    \A w \in Workers : \A q \in Queues : Occurs(q, todo[w]) => ~Occurs(req[w], sent[q])

\* A worker that comes to the mapping store is done with the log.
LogFirst ==
    \A w \in Workers : todo[w] # <<>> /\ NextQueue(w) = "mapping_scylla" =>
       Occurs(req[w], sent["mapping_log"]) \/ req[w] \in refused["mapping_log"]

NginxInv == TodoShape /\ Distinct /\ NotYetSent /\ LogFirst /\ StoredMeansLogged

\* Whatever is on its way or has arrived has been sent.
OnlySent ==
    \A q \in Queues : \A m \in Messages :
       Occurs(m, mq[q]) \/ Occurs(m, held[q]) \/ Occurs(m, out[q]) => Occurs(m, sent[q])

TransportInv == OnlySent /\ NothingLost

IInv == TypeOK /\ NginxInv /\ TransportInv

LEMMA QueuesAre == Queues = {"test_mq", "mapping_log", "mapping_scylla"}
  <1>1. /\ Order[1] = "test_mq" /\ Order[2] = "mapping_log" /\ Order[3] = "mapping_scylla"
    BY DEF Order
  <1>2. 1 .. 3 = {1, 2, 3}
    OBVIOUS
  <1> QED BY <1>1, <1>2 DEF Queues

\* log_save takes the queues in their order, and skips the first or the last at most.
LEMMA SendsAreTodos == Sends \subseteq Todos
  <1> SUFFICES ASSUME NEW s \in Sends PROVE s \in Todos OBVIOUS
  <1>1. PICK first \in {1, 2}, last \in {2, 3} : s = SubSeq(Order, first, last)
    BY DEF Sends
  <1>2. /\ Order[1] = "test_mq" /\ Order[2] = "mapping_log" /\ Order[3] = "mapping_scylla"
    BY DEF Order
  <1>3. \A n \in first .. last : Order[n] \in Queues
    BY DEF Queues
  <1>4. /\ SubSeq(Order, first, last) \in Seq(Queues)
        /\ Len(SubSeq(Order, first, last)) = IF first <= last THEN last - first + 1 ELSE 0
        /\ \A n \in 1 .. last - first + 1 : SubSeq(Order, first, last)[n] = Order[first + n - 1]
    <2>1. first \in Int /\ last \in Int
      OBVIOUS
    <2> QED BY <1>3, <2>1, SubSeqProperties
  <1>5. CASE first = 1 /\ last = 2
    <2>1. Len(s) = 2 /\ s[1] = "test_mq" /\ s[2] = "mapping_log" /\ s \in Seq(Queues)
      BY <1>2, <1>1, <1>4, <1>5
    <2>2. s = <<"test_mq", "mapping_log">>
      BY <2>1
    <2> QED BY <2>2 DEF Todos
  <1>6. CASE first = 1 /\ last = 3
    <2>1. /\ Len(s) = 3 /\ s[1] = "test_mq" /\ s[2] = "mapping_log" /\ s[3] = "mapping_scylla"
          /\ s \in Seq(Queues)
      BY <1>2, <1>1, <1>4, <1>6
    <2>2. s = <<"test_mq", "mapping_log", "mapping_scylla">>
      BY <2>1
    <2> QED BY <2>2 DEF Todos
  <1>7. CASE first = 2 /\ last = 2
    <2>1. Len(s) = 1 /\ s[1] = "mapping_log" /\ s \in Seq(Queues)
      BY <1>2, <1>1, <1>4, <1>7
    <2>2. s = <<"mapping_log">>
      BY <2>1
    <2> QED BY <2>2 DEF Todos
  <1>8. CASE first = 2 /\ last = 3
    <2>1. Len(s) = 2 /\ s[1] = "mapping_log" /\ s[2] = "mapping_scylla" /\ s \in Seq(Queues)
      BY <1>2, <1>1, <1>4, <1>8
    <2>2. s = <<"mapping_log", "mapping_scylla">>
      BY <2>1
    <2> QED BY <2>2 DEF Todos
  <1> QED BY <1>5, <1>6, <1>7, <1>8

\* Sending to the first queue of the list leaves a list of the same kind without that queue,
\* and brings the mapping store to the front only if the queue was the one of the log.
LEMMA TodoTail ==
    ASSUME NEW s \in Todos, s # <<>>
    PROVE  /\ Head(s) \in Queues /\ Tail(s) \in Todos
           /\ ~Occurs(Head(s), Tail(s))
           /\ Tail(s) # <<>> /\ Head(Tail(s)) = "mapping_scylla" => Head(s) = "mapping_log"
  <1>1. CASE s = <<"mapping_log">> \/ s = <<"mapping_scylla">>
    BY <1>1, QueuesAre DEF Todos, Occurs
  <1>2. CASE s = <<"mapping_log", "mapping_scylla">>
    BY <1>2, QueuesAre DEF Todos, Occurs
  <1>3. CASE s = <<"test_mq", "mapping_log">>
    BY <1>3, QueuesAre DEF Todos, Occurs
  <1>4. CASE s = <<"test_mq", "mapping_log", "mapping_scylla">>
    BY <1>4, QueuesAre DEF Todos, Occurs
  <1> QED BY <1>1, <1>2, <1>3, <1>4 DEF Todos

LEMMA TodosTyped == Todos \subseteq Seq(Queues)
  BY QueuesAre DEF Todos

\* A new list does not begin with the mapping store.
LEMMA SendsStart ==
    ASSUME NEW s \in Sends
    PROVE  s # <<>> /\ Head(s) # "mapping_scylla"
  <1>1. PICK first \in {1, 2}, last \in {2, 3} : s = SubSeq(Order, first, last)
    BY DEF Sends
  <1>2. Order \in Seq(Queues) /\ Len(Order) = 3
    BY QueuesAre DEF Order
  <1>3. first \in 1 .. Len(Order) /\ last \in first .. Len(Order)
    BY <1>2
  <1>4. Head(s) = Order[first]
    BY <1>1, <1>2, <1>3, HeadTailOfSubSeq
  <1>5. Len(s) > 0
    BY <1>1, <1>2, <1>3
  <1>6. Order[first] # "mapping_scylla"
    BY DEF Order
  <1> QED BY <1>4, <1>5, <1>6

------------------------------------------------------------------------------
(* Types *)

LEMMA InitIInv == Init => IInv
  <1> SUFFICES ASSUME Init PROVE IInv OBVIOUS
  <1> USE ConstantsAssumption
  <1>1. Empty \in [Queues -> Seq(Messages)] /\ \A q \in Queues : Empty[q] = <<>>
    BY EmptySeq DEF Empty
  <1>2. Len(<<>>) = 0
    BY EmptySeq
  <1>3. \A m : ~Occurs(m, <<>>)
    BY <1>2 DEF Occurs
  <1>4. TypeOK
    <2>1. made \in 0 .. 3 /\ requests \in 0 .. MaxRequests /\ faults \in 0 .. MaxFaults
      BY DEF Init
    <2>2. /\ mq \in [Queues -> Seq(Messages)] /\ \A q \in Queues : Len(mq[q]) <= Cap
          /\ held \in [Queues -> Seq(Messages)] /\ \A q \in Queues : Len(held[q]) <= Buf
          /\ out \in [Queues -> Seq(Messages)] /\ sent \in [Queues -> Seq(Messages)]
      BY <1>1, <1>2 DEF Init
    <2>3. todo \in [Workers -> Seq(Queues)]
      BY EmptySeq DEF Init
    <2>4. /\ refused \in [Queues -> SUBSET Messages]
          /\ req \in [Workers -> 0 .. MaxRequests]
          /\ big \in [Workers -> SUBSET Queues]
          /\ logger \in {"up", "down", "fatal"}
          /\ thread \in [Queues -> {"new", "recv", "ended"}]
      BY DEF Init
    <2>5. /\ sub \in BOOLEAN
          /\ locked \subseteq Queues /\ broken \subseteq lossy /\ lossy \subseteq Queues
      BY DEF Init
    <2> QED BY <2>1, <2>2, <2>3, <2>4, <2>5 DEF TypeOK
  <1>5. TodoShape
    BY DEF Init, TodoShape, Todos
  <1>6. Distinct
    BY <1>1, <1>3 DEF Init, Distinct
  <1>7. NotYetSent /\ LogFirst
    BY <1>1, <1>3 DEF Init, NotYetSent, LogFirst
  <1>8. StoredMeansLogged
    BY <1>1, <1>3, QueuesAre DEF Init, StoredMeansLogged
  <1>9. OnlySent
    BY <1>1, <1>3 DEF Init, OnlySent
  <1>10. NothingLost
    <2>1. <<>> \o <<>> \o <<>> = <<>>
      BY EmptySeq, ConcatEmptySeq
    <2> QED BY <1>1, <2>1 DEF Init, NothingLost
  <1> QED BY <1>4, <1>5, <1>6, <1>7, <1>8, <1>9, <1>10 DEF IInv, NginxInv, TransportInv

\* What Send does: the request of the worker joins the end of the queue and of its history.
LEMMA SendEffect ==
    ASSUME TypeOK, TodoShape, NEW w \in Workers, Send(w)
    PROVE  /\ NextQueue(w) \in Queues /\ req[w] \in Messages
           /\ mq' = [mq EXCEPT ![NextQueue(w)] = Append(mq[NextQueue(w)], req[w])]
           /\ sent' = [sent EXCEPT ![NextQueue(w)] = Append(sent[NextQueue(w)], req[w])]
           /\ todo' = [todo EXCEPT ![w] = Tail(todo[w])]
           /\ Append(mq[NextQueue(w)], req[w]) \in Seq(Messages)
           /\ Append(sent[NextQueue(w)], req[w]) \in Seq(Messages)
           /\ Len(Append(mq[NextQueue(w)], req[w])) <= Cap
  <1>1. NextQueue(w) \in Queues
    BY TodoTail DEF NextQueue, TodoShape, Send
  <1>2. req[w] \in Messages
    BY ConstantsAssumption DEF TodoShape, Send, TypeOK, Messages
  <1>3. mq[NextQueue(w)] \in Seq(Messages) /\ sent[NextQueue(w)] \in Seq(Messages)
    BY <1>1 DEF TypeOK
  <1>4. /\ Append(mq[NextQueue(w)], req[w]) \in Seq(Messages)
        /\ Append(sent[NextQueue(w)], req[w]) \in Seq(Messages)
        /\ Len(Append(mq[NextQueue(w)], req[w])) = Len(mq[NextQueue(w)]) + 1
    BY <1>2, <1>3, AppendProperties
  <1>5. Len(Append(mq[NextQueue(w)], req[w])) <= Cap
    BY <1>3, <1>4, ConstantsAssumption, LenProperties DEF Send
  <1>6. /\ mq' = [mq EXCEPT ![NextQueue(w)] = Append(mq[NextQueue(w)], req[w])]
        /\ sent' = [sent EXCEPT ![NextQueue(w)] = Append(sent[NextQueue(w)], req[w])]
        /\ todo' = [todo EXCEPT ![w] = Tail(todo[w])]
    BY DEF Send
  <1> QED BY <1>1, <1>2, <1>4, <1>5, <1>6

\* The lists of sends keep their type.
LEMMA TodoTyped ==
    ASSUME TypeOK, TodoShape, NEW w \in Workers, todo[w] # <<>>,
           todo' = [todo EXCEPT ![w] = Tail(todo[w])]
    PROVE  todo' \in [Workers -> Seq(Queues)]
  <1>1. Tail(todo[w]) \in Seq(Queues)
    BY TodoTail, TodosTyped DEF TodoShape
  <1> QED BY <1>1 DEF TypeOK

\* The nginx side keeps the types.
LEMMA NginxTypes ==
    ASSUME TypeOK, TodoShape, NEW w \in Workers, Nginx(w)
    PROVE  TypeOK'
  <1> USE ConstantsAssumption
  <1>1. CASE Request(w)
    <2>1. PICK j \in Jobs :
             todo' = [todo EXCEPT ![w] = j.sends] /\ big' = [big EXCEPT ![w] = j.big]
      BY <1>1 DEF Request
    <2>2. j.sends \in Seq(Queues) /\ j.big \subseteq Queues
      BY JobsAssumption, SendsAreTodos, TodosTyped
    <2>3. requests' \in 0 .. MaxRequests /\ req' \in [Workers -> 0 .. MaxRequests]
      BY <1>1 DEF Request, TypeOK
    <2>4. todo' \in [Workers -> Seq(Queues)] /\ big' \in [Workers -> SUBSET Queues]
      BY <2>1, <2>2 DEF TypeOK
    <2> QED BY <1>1, <2>3, <2>4 DEF Request, TypeOK, faultVars, loggerVars
  <1>2. CASE Send(w)
    <2>1. /\ mq' \in [Queues -> Seq(Messages)] /\ \A q \in Queues : Len(mq'[q]) <= Cap
          /\ sent' \in [Queues -> Seq(Messages)]
      <3> DEFINE q == NextQueue(w)
                 a == Append(mq[q], req[w])
                 b == Append(sent[q], req[w])
      <3>1. /\ q \in Queues /\ a \in Seq(Messages) /\ b \in Seq(Messages) /\ Len(a) <= Cap
            /\ mq' = [mq EXCEPT ![q] = a] /\ sent' = [sent EXCEPT ![q] = b]
        BY <1>2, SendEffect
      <3> HIDE DEF q, a, b
      <3> QED BY <3>1 DEF TypeOK
    <2>2. todo' \in [Workers -> Seq(Queues)]
      BY <1>2, SendEffect, TodoTyped DEF Send
    <2> QED BY <1>2, <2>1, <2>2 DEF Send, TypeOK, faultVars, loggerVars
  <1>3. CASE SendThrows(w)
    <2>1. NextQueue(w) \in Queues
      BY <1>3, TodoTail DEF NextQueue, TodoShape, SendThrows
    <2>2. req[w] \in Messages
      BY <1>3 DEF TodoShape, SendThrows, TypeOK, Messages
    <2>3. refused' \in [Queues -> SUBSET Messages]
      BY <1>3, <2>1, <2>2 DEF SendThrows, TypeOK
    <2>4. todo' \in [Workers -> Seq(Queues)]
      BY <1>3, TodoTyped DEF SendThrows
    <2> QED BY <1>3, <2>3, <2>4 DEF SendThrows, TypeOK, faultVars, loggerVars
  <1>4. CASE Answered(w)
    <2>1. req' \in [Workers -> 0 .. MaxRequests] /\ big' \in [Workers -> SUBSET Queues]
      BY <1>4 DEF Answered, TypeOK
    <2> QED BY <1>4, <2>1 DEF Answered, TypeOK, faultVars, loggerVars
  <1>5. CASE WorkerDies(w)
    <2>1. req' \in [Workers -> 0 .. MaxRequests] /\ big' \in [Workers -> SUBSET Queues]
      BY <1>5 DEF WorkerDies, TypeOK
    <2>2. todo' \in [Workers -> Seq(Queues)]
      BY <1>5, EmptySeq DEF WorkerDies, TypeOK
    <2>3. todo[w] # <<>> => NextQueue(w) \in Queues
      BY TodoTail DEF NextQueue, TodoShape
    <2>4. locked' \subseteq Queues
      <3>1. PICK left \in {{}} \cup (IF todo[w] = <<>> \/ NextQueue(w) \in big[w] THEN {}
                                    ELSE {{NextQueue(w)}}) : locked' = locked \cup left
        BY <1>5 DEF WorkerDies
      <3>2. left \subseteq Queues
        BY <2>3
      <3> QED BY <3>1, <3>2 DEF TypeOK
    <2>5. faults' \in 0 .. MaxFaults
      BY <1>5 DEF WorkerDies, TypeOK
    <2> QED BY <1>5, <2>1, <2>2, <2>4, <2>5 DEF WorkerDies, TypeOK, loggerVars
  <1> QED BY <1>1, <1>2, <1>3, <1>4, <1>5 DEF Nginx

\* What ReceiveLog and Write do: the oldest message goes one stage on.
LEMMA ReceiveLogEffect ==
    ASSUME TypeOK, NEW q \in Queues, ReceiveLog(q)
    PROVE  /\ mq[q] \in Seq(Messages) /\ held[q] \in Seq(Messages) /\ mq[q] # <<>>
           /\ Head(mq[q]) \in Messages /\ Tail(mq[q]) \in Seq(Messages)
           /\ Append(held[q], Head(mq[q])) \in Seq(Messages)
           /\ Len(Tail(mq[q])) <= Cap /\ Len(Append(held[q], Head(mq[q]))) <= Buf
           /\ held' = [held EXCEPT ![q] = Append(held[q], Head(mq[q]))]
           /\ mq' = [mq EXCEPT ![q] = Tail(mq[q])]
  <1>1. mq[q] \in Seq(Messages) /\ held[q] \in Seq(Messages) /\ mq[q] # <<>>
    BY DEF TypeOK, ReceiveLog
  <1>2. Len(mq[q]) \in Nat /\ Len(held[q]) \in Nat /\ Len(mq[q]) <= Cap /\ Len(held[q]) < Buf
    BY <1>1, LenProperties DEF TypeOK, ReceiveLog
  <1>3. /\ Head(mq[q]) \in Messages /\ Tail(mq[q]) \in Seq(Messages)
        /\ Len(Tail(mq[q])) = Len(mq[q]) - 1
    BY <1>1, HeadTailProperties
  <1>4. /\ Append(held[q], Head(mq[q])) \in Seq(Messages)
        /\ Len(Append(held[q], Head(mq[q]))) = Len(held[q]) + 1
    BY <1>1, <1>3, AppendProperties
  <1>5. Len(Tail(mq[q])) <= Cap /\ Len(Append(held[q], Head(mq[q]))) <= Buf
    BY <1>2, <1>3, <1>4, ConstantsAssumption
  <1> QED BY <1>1, <1>3, <1>4, <1>5 DEF ReceiveLog

LEMMA WriteEffect ==
    ASSUME TypeOK, NEW q \in Queues, Write(q)
    PROVE  /\ out[q] \in Seq(Messages) /\ held[q] \in Seq(Messages) /\ held[q] # <<>>
           /\ Head(held[q]) \in Messages /\ Tail(held[q]) \in Seq(Messages)
           /\ Append(out[q], Head(held[q])) \in Seq(Messages)
           /\ Len(Tail(held[q])) <= Buf
           /\ out' = [out EXCEPT ![q] = Append(out[q], Head(held[q]))]
           /\ held' = [held EXCEPT ![q] = Tail(held[q])]
  <1>1. out[q] \in Seq(Messages) /\ held[q] \in Seq(Messages) /\ held[q] # <<>>
    BY DEF TypeOK, Write
  <1>2. Len(held[q]) \in Nat /\ Len(held[q]) <= Buf
    BY <1>1, LenProperties DEF TypeOK
  <1>3. /\ Head(held[q]) \in Messages /\ Tail(held[q]) \in Seq(Messages)
        /\ Len(Tail(held[q])) = Len(held[q]) - 1
    BY <1>1, HeadTailProperties
  <1>4. Append(out[q], Head(held[q])) \in Seq(Messages)
    BY <1>1, <1>3, AppendProperties
  <1>5. Len(Tail(held[q])) <= Buf
    BY <1>2, <1>3, ConstantsAssumption
  <1> QED BY <1>1, <1>3, <1>4, <1>5 DEF Write

\* What the thread of the PUB socket does: the message goes on, or is dropped.
LEMMA ReceiveScyllaEffect ==
    ASSUME TypeOK, ReceiveScylla
    PROVE  LET q == "mapping_scylla"
           IN  /\ q \in Queues
               /\ mq[q] \in Seq(Messages) /\ held[q] \in Seq(Messages) /\ mq[q] # <<>>
               /\ Head(mq[q]) \in Messages /\ Tail(mq[q]) \in Seq(Messages)
               /\ Len(Tail(mq[q])) <= Cap
               /\ mq' = [mq EXCEPT ![q] = Tail(mq[q])]
               /\ \/ held' = held
                  \/ /\ Append(held[q], Head(mq[q])) \in Seq(Messages)
                     /\ Len(Append(held[q], Head(mq[q]))) <= Buf
                     /\ held' = [held EXCEPT ![q] = Append(held[q], Head(mq[q]))]
  <1> DEFINE q == "mapping_scylla"
  <1>1. q \in Queues
    BY QueuesAre
  <1>2. mq[q] \in Seq(Messages) /\ held[q] \in Seq(Messages) /\ mq[q] # <<>>
    BY <1>1 DEF TypeOK, ReceiveScylla
  <1>3. Len(mq[q]) \in Nat /\ Len(held[q]) \in Nat /\ Len(mq[q]) <= Cap
    BY <1>1, <1>2, LenProperties DEF TypeOK
  <1>4. /\ Head(mq[q]) \in Messages /\ Tail(mq[q]) \in Seq(Messages)
        /\ Len(Tail(mq[q])) = Len(mq[q]) - 1
    BY <1>2, HeadTailProperties
  <1>5. /\ Append(held[q], Head(mq[q])) \in Seq(Messages)
        /\ Len(Append(held[q], Head(mq[q]))) = Len(held[q]) + 1
    BY <1>2, <1>4, AppendProperties
  <1>6. Len(Tail(mq[q])) <= Cap
    BY <1>3, <1>4, ConstantsAssumption
  <1>7. mq' = [mq EXCEPT ![q] = Tail(mq[q])]
    BY DEF ReceiveScylla
  <1>8. CASE sub /\ Len(held[q]) < Buf
    <2>1. held' = [held EXCEPT ![q] = Append(held[q], Head(mq[q]))]
      BY <1>8 DEF ReceiveScylla
    <2>2. Len(Append(held[q], Head(mq[q]))) <= Buf
      BY <1>3, <1>5, <1>8, ConstantsAssumption
    <2> QED BY <1>1, <1>2, <1>4, <1>5, <1>6, <1>7, <2>1, <2>2
  <1>9. CASE ~(sub /\ Len(held[q]) < Buf)
    <2>1. held' = [held EXCEPT ![q] = held[q]]
      BY <1>9 DEF ReceiveScylla
    <2>2. held' = held
      BY <1>1, <2>1 DEF TypeOK
    <2> QED BY <1>1, <1>2, <1>4, <1>6, <1>7, <2>2
  <1> QED BY <1>8, <1>9

\* One queue or buffer of the family changes, within its bound.
LEMMA BoundedUpdate ==
    ASSUME NEW f \in [Queues -> Seq(Messages)], NEW g, NEW b, NEW q \in Queues,
           NEW s \in Seq(Messages), g = [f EXCEPT ![q] = s],
           \A p \in Queues : Len(f[p]) <= b, Len(s) <= b
    PROVE  g \in [Queues -> Seq(Messages)] /\ \A p \in Queues : Len(g[p]) <= b
  <1>1. g \in [Queues -> Seq(Messages)] /\ g[q] = s /\ \A p \in Queues \ {q} : g[p] = f[p]
    OBVIOUS
  <1> QED BY <1>1

\* The logger side keeps the types.
LEMMA LoggerTypes ==
    ASSUME TypeOK,
           \/ StartLogger \/ LoggerExits \/ LoggerKilled
           \/ ReceiveScylla \/ Subscribe \/ Unsubscribe
           \/ \E q \in Queues : Consume(q)
    PROVE  TypeOK'
  <1>1. Empty \in [Queues -> Seq(Messages)] /\ \A q \in Queues : Len(Empty[q]) <= Buf
    BY EmptySeq, ConstantsAssumption DEF Empty
  <1>2. CASE StartLogger
    BY <1>2 DEF StartLogger, TypeOK, faultVars, nginxVars
  <1>3. CASE LoggerExits
    <2>1. thread' \in [Queues -> {"new", "recv", "ended"}] /\ logger' \in {"up", "down", "fatal"}
      BY <1>3 DEF LoggerExits
    <2> QED BY <1>3, <2>1 DEF LoggerExits, TypeOK, faultVars, nginxVars
  <1>4. CASE LoggerKilled
    <2>1. thread' \in [Queues -> {"new", "recv", "ended"}] /\ logger' \in {"up", "down", "fatal"}
      BY <1>4 DEF LoggerKilled
    <2>2. held' \in [Queues -> Seq(Messages)] /\ \A q \in Queues : Len(held'[q]) <= Buf
      BY <1>1, <1>4 DEF LoggerKilled
    <2>3. locked' \subseteq Queues /\ broken' \subseteq lossy' /\ lossy' \subseteq Queues
      BY <1>4 DEF LoggerKilled, TypeOK
    <2>4. faults' \in 0 .. MaxFaults
      BY <1>4, ConstantsAssumption DEF LoggerKilled, TypeOK
    <2> QED BY <1>4, <2>1, <2>2, <2>3, <2>4 DEF LoggerKilled, TypeOK, nginxVars
  <1>5. CASE ReceiveScylla
    <2>1. /\ mq' \in [Queues -> Seq(Messages)] /\ \A p \in Queues : Len(mq'[p]) <= Cap
          /\ held' \in [Queues -> Seq(Messages)] /\ \A p \in Queues : Len(held'[p]) <= Buf
      <3> DEFINE q == "mapping_scylla"
                 tail == Tail(mq[q])
                 more == Append(held[q], Head(mq[q]))
      <3>1. /\ q \in Queues /\ tail \in Seq(Messages) /\ Len(tail) <= Cap
            /\ mq' = [mq EXCEPT ![q] = tail]
            /\ \/ held' = held
               \/ /\ more \in Seq(Messages) /\ Len(more) <= Buf
                  /\ held' = [held EXCEPT ![q] = more]
        BY <1>5, ReceiveScyllaEffect
      <3>2. /\ mq \in [Queues -> Seq(Messages)] /\ \A p \in Queues : Len(mq[p]) <= Cap
            /\ held \in [Queues -> Seq(Messages)] /\ \A p \in Queues : Len(held[p]) <= Buf
        BY DEF TypeOK
      <3> HIDE DEF q, tail, more
      <3>3. mq' \in [Queues -> Seq(Messages)] /\ \A p \in Queues : Len(mq'[p]) <= Cap
        BY <3>1, <3>2, BoundedUpdate
      <3>4. held' \in [Queues -> Seq(Messages)] /\ \A p \in Queues : Len(held'[p]) <= Buf
        BY <3>1, <3>2, BoundedUpdate
      <3> QED BY <3>3, <3>4
    <2> QED BY <1>5, <2>1 DEF ReceiveScylla, TypeOK, faultVars, nginxVars
  <1>6. CASE Subscribe
    BY <1>6 DEF Subscribe, TypeOK, faultVars, nginxVars
  <1>7. CASE Unsubscribe
    <2>1. held' \in [Queues -> Seq(Messages)] /\ \A q \in Queues : Len(held'[q]) <= Buf
      <3>1. <<>> \in Seq(Messages) /\ Len(<<>>) <= Buf
        BY EmptySeq, ConstantsAssumption
      <3> DEFINE none == <<>>
      <3>2. held' = [held EXCEPT !["mapping_scylla"] = none]
        BY <1>7 DEF Unsubscribe
      <3>3. none \in Seq(Messages) /\ Len(none) <= Buf
        BY <3>1
      <3> HIDE DEF none
      <3> QED BY <3>2, <3>3 DEF TypeOK
    <2> QED BY <1>7, <2>1 DEF Unsubscribe, TypeOK, faultVars, nginxVars
  <1>8. ASSUME NEW q \in Queues, Consume(q) PROVE TypeOK'
    <2>1. CASE OpenQueue(q)
      BY <2>1 DEF OpenQueue, TypeOK, faultVars, nginxVars
    <2>2. CASE ReceiveLog(q)
      <3>1. /\ mq' \in [Queues -> Seq(Messages)] /\ \A p \in Queues : Len(mq'[p]) <= Cap
            /\ held' \in [Queues -> Seq(Messages)] /\ \A p \in Queues : Len(held'[p]) <= Buf
        <4> DEFINE tail == Tail(mq[q])
                   more == Append(held[q], Head(mq[q]))
        <4>1. /\ tail \in Seq(Messages) /\ Len(tail) <= Cap /\ mq' = [mq EXCEPT ![q] = tail]
              /\ more \in Seq(Messages) /\ Len(more) <= Buf
              /\ held' = [held EXCEPT ![q] = more]
          BY <2>2, ReceiveLogEffect
        <4>2. /\ mq \in [Queues -> Seq(Messages)] /\ \A p \in Queues : Len(mq[p]) <= Cap
              /\ held \in [Queues -> Seq(Messages)] /\ \A p \in Queues : Len(held[p]) <= Buf
          BY DEF TypeOK
        <4> HIDE DEF tail, more
        <4>3. mq' \in [Queues -> Seq(Messages)] /\ \A p \in Queues : Len(mq'[p]) <= Cap
          BY <4>1, <4>2, BoundedUpdate
        <4>4. held' \in [Queues -> Seq(Messages)] /\ \A p \in Queues : Len(held'[p]) <= Buf
          BY <4>1, <4>2, BoundedUpdate
        <4> QED BY <4>3, <4>4
      <3> QED BY <2>2, <3>1 DEF ReceiveLog, TypeOK, faultVars, nginxVars
    <2>3. CASE Write(q)
      <3>1. /\ out' \in [Queues -> Seq(Messages)]
            /\ held' \in [Queues -> Seq(Messages)] /\ \A p \in Queues : Len(held'[p]) <= Buf
        <4> DEFINE tail == Tail(held[q])
                   more == Append(out[q], Head(held[q]))
        <4>1. /\ tail \in Seq(Messages) /\ Len(tail) <= Buf /\ held' = [held EXCEPT ![q] = tail]
              /\ more \in Seq(Messages) /\ out' = [out EXCEPT ![q] = more]
          BY <2>3, WriteEffect
        <4>2. /\ out \in [Queues -> Seq(Messages)]
              /\ held \in [Queues -> Seq(Messages)] /\ \A p \in Queues : Len(held[p]) <= Buf
          BY DEF TypeOK
        <4> HIDE DEF tail, more
        <4>3. held' \in [Queues -> Seq(Messages)] /\ \A p \in Queues : Len(held'[p]) <= Buf
          BY <4>1, <4>2, BoundedUpdate
        <4> QED BY <4>1, <4>2, <4>3
      <3> QED BY <2>3, <3>1 DEF Write, TypeOK, faultVars, nginxVars
    <2>4. CASE WriterThrows(q)
      <3>1. /\ held[q] \in Seq(Messages) /\ held[q] # <<>> /\ Len(held[q]) \in Nat
            /\ Len(held[q]) <= Buf
        BY <2>4, LenProperties DEF TypeOK, WriterThrows
      <3>2. Tail(held[q]) \in Seq(Messages) /\ Len(Tail(held[q])) = Len(held[q]) - 1
        BY <3>1, HeadTailProperties
      <3>3. Len(Tail(held[q])) <= Buf
        BY <3>1, <3>2, ConstantsAssumption
      <3>4. held' \in [Queues -> Seq(Messages)] /\ \A p \in Queues : Len(held'[p]) <= Buf
        BY <2>4, <3>2, <3>3 DEF WriterThrows, TypeOK
      <3>5. broken' \subseteq lossy' /\ lossy' \subseteq Queues
        BY <2>4 DEF WriterThrows, TypeOK
      <3>6. faults' \in 0 .. MaxFaults
        BY <2>4, ConstantsAssumption DEF WriterThrows, TypeOK
      <3> QED BY <2>4, <3>4, <3>5, <3>6 DEF WriterThrows, TypeOK, nginxVars
    <2> QED BY <1>8, <2>1, <2>2, <2>3, <2>4 DEF Consume
  <1> QED BY <1>2, <1>3, <1>4, <1>5, <1>6, <1>7, <1>8

------------------------------------------------------------------------------
(* The nginx side *)

\* The logger does not touch what the workers keep.
LEMMA LoggerKeepsNginx ==
    ASSUME NginxInv, UNCHANGED nginxVars
    PROVE  NginxInv'
  <1>1. UNCHANGED <<todo, req, requests, sent, refused>>
    BY DEF nginxVars
  <1> QED BY <1>1 DEF NginxInv, TodoShape, Distinct, NotYetSent, LogFirst, StoredMeansLogged,
                      NextQueue

LEMMA RequestStep ==
    ASSUME TypeOK, NginxInv, NEW w \in Workers, Request(w)
    PROVE  NginxInv'
  <1> USE ConstantsAssumption
  <1>1. PICK j \in Jobs : todo' = [todo EXCEPT ![w] = j.sends]
    BY DEF Request
  <1>2. j.sends \in Todos /\ j.sends # <<>> /\ Head(j.sends) # "mapping_scylla"
    BY JobsAssumption, SendsAreTodos, SendsStart
  <1>3. /\ requests \in Nat /\ requests' = requests + 1 /\ requests' \in Messages
        /\ req[w] = 0 /\ req' = [req EXCEPT ![w] = requests + 1]
        /\ UNCHANGED <<sent, refused>>
    BY DEF Request, TypeOK, Messages
  <1>4. /\ req'[w] = requests + 1 /\ \A v \in Workers \ {w} : req'[v] = req[v]
        /\ todo'[w] = j.sends /\ \A v \in Workers \ {w} : todo'[v] = todo[v]
    BY <1>1, <1>3 DEF TypeOK
  <1>5. \A v \in Workers : req[v] \in Nat /\ req[v] <= requests
    <2>1. \A v \in Workers : req[v] \in Nat
      BY DEF TypeOK
    <2> QED BY <2>1 DEF NginxInv, Distinct
  <1>6. TodoShape'
    BY <1>2, <1>3, <1>4 DEF NginxInv, TodoShape
  <1>7. Distinct'
    <2>1. \A v \in Workers : req'[v] <= requests'
      BY <1>3, <1>4, <1>5
    <2>2. \A v, u \in Workers : v # u /\ req'[v] # 0 => req'[v] # req'[u]
      BY <1>3, <1>4, <1>5 DEF NginxInv, Distinct
    <2>3. \A q \in Queues : \A m \in Messages : Occurs(m, sent[q]) => m <= requests'
      BY <1>3 DEF NginxInv, Distinct, Messages
    <2> QED BY <1>3, <2>1, <2>2, <2>3 DEF Distinct
  <1>8. NotYetSent'
    <2> SUFFICES ASSUME NEW v \in Workers, NEW q \in Queues, Occurs(q, todo'[v])
                 PROVE  ~Occurs(req'[v], sent[q])
      BY <1>3 DEF NotYetSent
    <2>1. CASE v = w
      BY <2>1, <1>3, <1>4 DEF NginxInv, Distinct, Messages
    <2>2. CASE v # w
      BY <2>2, <1>4 DEF NginxInv, NotYetSent
    <2> QED BY <2>1, <2>2
  <1>9. LogFirst'
    <2> SUFFICES ASSUME NEW v \in Workers, todo'[v] # <<>>, Head(todo'[v]) = "mapping_scylla"
                 PROVE  Occurs(req'[v], sent["mapping_log"]) \/ req'[v] \in refused["mapping_log"]
      BY <1>3 DEF LogFirst, NextQueue
    <2>1. v # w
      BY <1>2, <1>4
    <2> QED BY <2>1, <1>4 DEF NginxInv, LogFirst, NextQueue
  <1>10. StoredMeansLogged'
    BY <1>3 DEF NginxInv, StoredMeansLogged
  <1> QED BY <1>6, <1>7, <1>8, <1>9, <1>10 DEF NginxInv

\* A worker that is done or dies forgets its request.
LEMMA ForgetStep ==
    ASSUME TypeOK, NginxInv, NEW w \in Workers, Answered(w) \/ WorkerDies(w)
    PROVE  NginxInv'
  <1> USE ConstantsAssumption
  <1>1. /\ req'[w] = 0 /\ \A v \in Workers \ {w} : req'[v] = req[v]
        /\ todo'[w] = <<>> /\ \A v \in Workers \ {w} : todo'[v] = todo[v]
        /\ UNCHANGED <<requests, sent, refused>>
    <2>1. CASE Answered(w)
      BY <2>1 DEF Answered, TypeOK
    <2>2. CASE WorkerDies(w)
      BY <2>2 DEF WorkerDies, TypeOK
    <2> QED BY <2>1, <2>2
  <1>2. requests \in Nat
    BY DEF TypeOK
  <1>3. ~ \E q : Occurs(q, <<>>)
    BY EmptySeq DEF Occurs
  <1>4. TodoShape'
    BY <1>1 DEF NginxInv, TodoShape, Todos
  <1>5. Distinct'
    BY <1>1, <1>2 DEF NginxInv, Distinct
  <1>6. NotYetSent'
    BY <1>1, <1>3 DEF NginxInv, NotYetSent
  <1>7. LogFirst'
    BY <1>1 DEF NginxInv, LogFirst, NextQueue
  <1>8. StoredMeansLogged'
    BY <1>1 DEF NginxInv, StoredMeansLogged
  <1> QED BY <1>4, <1>5, <1>6, <1>7, <1>8 DEF NginxInv

\* Only the queue a worker sends to hears of its request.
LEMMA SentGrows ==
    ASSUME TypeOK, TodoShape, NEW w \in Workers, Send(w), NEW p \in Queues, NEW m
    PROVE  Occurs(m, sent'[p]) <=> Occurs(m, sent[p]) \/ (p = NextQueue(w) /\ m = req[w])
  <1>1. /\ NextQueue(w) \in Queues /\ req[w] \in Messages
        /\ sent' = [sent EXCEPT ![NextQueue(w)] = Append(sent[NextQueue(w)], req[w])]
    BY SendEffect
  <1>2. CASE p = NextQueue(w)
    <2>1. sent'[p] = Append(sent[p], req[w]) /\ sent[p] \in Seq(Messages)
      BY <1>1, <1>2 DEF TypeOK
    <2> QED BY <1>1, <1>2, <2>1, OccursAppend
  <1>3. CASE p # NextQueue(w)
    BY <1>1, <1>3 DEF TypeOK
  <1> QED BY <1>2, <1>3

\* After a send, or after an exception of send, the worker has the rest of its list to do, and
\* its request is out of the way of the other workers.
LEMMA RestOfList ==
    ASSUME TypeOK, NginxInv, NEW w \in Workers, todo[w] # <<>>,
           todo' = [todo EXCEPT ![w] = Tail(todo[w])], req' = req
    PROVE  /\ TodoShape'
           /\ \A v \in Workers : \A p \in Queues : Occurs(p, todo'[v]) =>
                 /\ Occurs(p, todo[v]) /\ ~Occurs(req[v], sent[p])
                 /\ ~(p = NextQueue(w) /\ req[v] = req[w])
           /\ \A v \in Workers : todo'[v] # <<>> /\ Head(todo'[v]) = "mapping_scylla" =>
                 \/ v = w /\ NextQueue(w) = "mapping_log"
                 \/ Occurs(req[v], sent["mapping_log"]) \/ req[v] \in refused["mapping_log"]
  <1>1. todo'[w] = Tail(todo[w]) /\ \A v \in Workers \ {w} : todo'[v] = todo[v]
    BY DEF TypeOK
  <1>2. todo[w] \in Todos /\ req[w] # 0 /\ todo[w] \in Seq(Queues)
    BY TodosTyped DEF NginxInv, TodoShape
  <1>3. /\ Tail(todo[w]) \in Todos /\ ~Occurs(NextQueue(w), Tail(todo[w]))
        /\ Tail(todo[w]) # <<>> /\ Head(Tail(todo[w])) = "mapping_scylla"
              => NextQueue(w) = "mapping_log"
    BY <1>2, TodoTail DEF NextQueue
  <1>4. TodoShape'
    BY <1>1, <1>2, <1>3 DEF NginxInv, TodoShape
  <1>5. ASSUME NEW v \in Workers, NEW p \in Queues, Occurs(p, todo'[v])
        PROVE  /\ Occurs(p, todo[v]) /\ ~Occurs(req[v], sent[p])
               /\ ~(p = NextQueue(w) /\ req[v] = req[w])
    <2>1. CASE v = w
      <3>1. Occurs(p, todo[w])
        BY <1>1, <1>2, <1>5, <2>1, OccursTail
      <3>2. p # NextQueue(w)
        BY <1>1, <1>3, <1>5, <2>1
      <3> QED BY <2>1, <3>1, <3>2 DEF NginxInv, NotYetSent
    <2>2. CASE v # w
      <3>1. Occurs(p, todo[v])
        BY <1>1, <1>5, <2>2
      <3>2. req[v] # req[w]
        BY <1>2, <2>2 DEF NginxInv, Distinct
      <3> QED BY <3>1, <3>2 DEF NginxInv, NotYetSent
    <2> QED BY <2>1, <2>2
  <1>6. ASSUME NEW v \in Workers, todo'[v] # <<>>, Head(todo'[v]) = "mapping_scylla"
        PROVE  \/ v = w /\ NextQueue(w) = "mapping_log"
               \/ Occurs(req[v], sent["mapping_log"]) \/ req[v] \in refused["mapping_log"]
    <2>1. CASE v = w
      BY <1>1, <1>3, <1>6, <2>1
    <2>2. CASE v # w
      BY <1>1, <1>6, <2>2 DEF NginxInv, LogFirst, NextQueue
    <2> QED BY <2>1, <2>2
  <1> QED BY <1>4, <1>5, <1>6

LEMMA SendStep ==
    ASSUME TypeOK, NginxInv, NEW w \in Workers, Send(w)
    PROVE  NginxInv'
  <1>1. TodoShape
    BY DEF NginxInv
  <1>2. /\ NextQueue(w) \in Queues /\ req[w] \in Messages /\ todo[w] # <<>>
        /\ todo' = [todo EXCEPT ![w] = Tail(todo[w])]
        /\ UNCHANGED <<req, requests, refused>>
    BY <1>1, SendEffect DEF Send
  <1>3. \A p \in Queues : \A m :
           Occurs(m, sent'[p]) <=> Occurs(m, sent[p]) \/ (p = NextQueue(w) /\ m = req[w])
    BY <1>1, SentGrows
  <1>4. TodoShape'
    BY <1>2, RestOfList
  <1>5. Distinct'
    BY <1>2, <1>3 DEF NginxInv, Distinct
  <1>6. NotYetSent'
    <2> SUFFICES ASSUME NEW v \in Workers, NEW p \in Queues, Occurs(p, todo'[v])
                 PROVE  ~Occurs(req[v], sent'[p])
      BY <1>2 DEF NotYetSent
    <2>1. ~Occurs(req[v], sent[p]) /\ ~(p = NextQueue(w) /\ req[v] = req[w])
      BY <1>2, RestOfList
    <2> QED BY <1>3, <2>1
  <1>7. LogFirst'
    <2> SUFFICES ASSUME NEW v \in Workers, todo'[v] # <<>>, Head(todo'[v]) = "mapping_scylla"
                 PROVE  Occurs(req[v], sent'["mapping_log"]) \/ req[v] \in refused["mapping_log"]
      BY <1>2 DEF LogFirst, NextQueue
    <2>1. \/ v = w /\ NextQueue(w) = "mapping_log"
          \/ Occurs(req[v], sent["mapping_log"]) \/ req[v] \in refused["mapping_log"]
      BY <1>2, RestOfList
    <2> QED BY <1>3, <2>1, QueuesAre
  <1>8. StoredMeansLogged'
    <2> SUFFICES ASSUME NEW m \in Messages, Occurs(m, sent'["mapping_scylla"])
                 PROVE  Occurs(m, sent'["mapping_log"]) \/ m \in refused["mapping_log"]
      BY <1>2 DEF StoredMeansLogged, Messages
    <2>1. CASE Occurs(m, sent["mapping_scylla"])
      BY <1>3, <2>1, QueuesAre DEF NginxInv, StoredMeansLogged
    <2>2. CASE NextQueue(w) = "mapping_scylla" /\ m = req[w]
      BY <1>2, <1>3, <2>2, QueuesAre DEF NginxInv, LogFirst
    <2> QED BY <1>3, <2>1, <2>2, QueuesAre
  <1> QED BY <1>4, <1>5, <1>6, <1>7, <1>8 DEF NginxInv

LEMMA SendThrowsStep ==
    ASSUME TypeOK, NginxInv, NEW w \in Workers, SendThrows(w)
    PROVE  NginxInv'
  <1>1. /\ todo[w] # <<>> /\ todo' = [todo EXCEPT ![w] = Tail(todo[w])]
        /\ UNCHANGED <<req, requests, sent>>
        /\ refused' = [refused EXCEPT ![NextQueue(w)] = refused[NextQueue(w)] \cup {req[w]}]
    BY DEF SendThrows
  <1>2. /\ "mapping_log" \in Queues /\ refused["mapping_log"] \subseteq refused'["mapping_log"]
        /\ NextQueue(w) = "mapping_log" => req[w] \in refused'["mapping_log"]
    BY <1>1, QueuesAre DEF TypeOK
  <1>3. TodoShape'
    BY <1>1, RestOfList
  <1>4. Distinct'
    BY <1>1 DEF NginxInv, Distinct
  <1>5. NotYetSent'
    BY <1>1, RestOfList DEF NotYetSent
  <1>6. LogFirst'
    <2> SUFFICES ASSUME NEW v \in Workers, todo'[v] # <<>>, Head(todo'[v]) = "mapping_scylla"
                 PROVE  Occurs(req[v], sent["mapping_log"]) \/ req[v] \in refused'["mapping_log"]
      BY <1>1 DEF LogFirst, NextQueue
    <2>1. \/ v = w /\ NextQueue(w) = "mapping_log"
          \/ Occurs(req[v], sent["mapping_log"]) \/ req[v] \in refused["mapping_log"]
      BY <1>1, RestOfList
    <2> QED BY <1>2, <2>1
  <1>7. StoredMeansLogged'
    BY <1>1, <1>2 DEF NginxInv, StoredMeansLogged
  <1> QED BY <1>3, <1>4, <1>5, <1>6, <1>7 DEF NginxInv

------------------------------------------------------------------------------
(* The way of the messages *)

\* Nothing moves.
LEMMA TransportAtRest ==
    ASSUME TransportInv, UNCHANGED <<mq, held, out, sent>>, lossy \subseteq lossy'
    PROVE  TransportInv'
  <1>1. OnlySent'
    BY DEF TransportInv, OnlySent
  <1>2. NothingLost'
    BY DEF TransportInv, NothingLost
  <1> QED BY <1>1, <1>2 DEF TransportInv

LEMMA SendTransport ==
    ASSUME TypeOK, TodoShape, TransportInv, NEW w \in Workers, Send(w)
    PROVE  TransportInv'
  <1> DEFINE q == NextQueue(w)
  <1>1. /\ q \in Queues /\ req[w] \in Messages
        /\ mq' = [mq EXCEPT ![q] = Append(mq[q], req[w])]
        /\ sent' = [sent EXCEPT ![q] = Append(sent[q], req[w])]
        /\ UNCHANGED <<held, out, lossy>>
    BY SendEffect DEF Send, loggerVars
  <1>2. /\ mq[q] \in Seq(Messages) /\ held[q] \in Seq(Messages) /\ out[q] \in Seq(Messages)
        /\ sent[q] \in Seq(Messages)
    BY <1>1 DEF TypeOK
  <1>3. /\ mq'[q] = Append(mq[q], req[w]) /\ sent'[q] = Append(sent[q], req[w])
        /\ \A p \in Queues \ {q} : mq'[p] = mq[p] /\ sent'[p] = sent[p]
    BY <1>1 DEF TypeOK
  <1> HIDE DEF q
  <1>4. OnlySent'
    <2> SUFFICES ASSUME NEW p \in Queues, NEW m \in Messages,
                        Occurs(m, mq'[p]) \/ Occurs(m, held[p]) \/ Occurs(m, out[p])
                 PROVE  Occurs(m, sent'[p])
      BY <1>1 DEF OnlySent
    <2>1. CASE p # q
      BY <1>3, <2>1 DEF TransportInv, OnlySent
    <2>2. CASE p = q
      <3>1. Occurs(m, mq'[p]) => Occurs(m, mq[p]) \/ m = req[w]
        BY <1>1, <1>2, <1>3, <2>2, OccursAppend
      <3>2. Occurs(m, sent[p]) \/ m = req[w] => Occurs(m, sent'[p])
        BY <1>1, <1>2, <1>3, <2>2, OccursAppend
      <3> QED BY <3>1, <3>2 DEF TransportInv, OnlySent
    <2> QED BY <2>1, <2>2
  <1>5. NothingLost'
    <2> SUFFICES ASSUME NEW p \in Queues \ ({"mapping_scylla"} \cup lossy)
                 PROVE  sent'[p] = out[p] \o held[p] \o mq'[p]
      BY <1>1 DEF NothingLost
    <2>1. sent[p] = out[p] \o held[p] \o mq[p]
      BY DEF TransportInv, NothingLost
    <2>2. CASE p # q
      BY <1>3, <2>1, <2>2
    <2>3. CASE p = q
      <3>1. out[q] \o held[q] \in Seq(Messages)
        BY <1>2, ConcatProperties
      <3>2. (out[q] \o held[q]) \o Append(mq[q], req[w])
               = Append((out[q] \o held[q]) \o mq[q], req[w])
        <4> DEFINE a == out[q] \o held[q]
                   b == mq[q]
        <4>1. a \in Seq(Messages) /\ b \in Seq(Messages)
          BY <1>2, <3>1
        <4> HIDE DEF a, b
        <4>2. a \o Append(b, req[w]) = Append(a \o b, req[w])
          BY <1>1, <4>1, AppendToConcat
        <4> QED BY <4>2 DEF a, b
      <3> QED BY <1>3, <2>1, <2>3, <3>2
    <2> QED BY <2>2, <2>3
  <1> QED BY <1>4, <1>5 DEF TransportInv

LEMMA ReceiveLogTransport ==
    ASSUME TypeOK, TransportInv, NEW q \in Queues, ReceiveLog(q)
    PROVE  TransportInv'
  <1>1. /\ mq[q] \in Seq(Messages) /\ held[q] \in Seq(Messages) /\ mq[q] # <<>>
        /\ Head(mq[q]) \in Messages /\ Tail(mq[q]) \in Seq(Messages)
        /\ Append(held[q], Head(mq[q])) \in Seq(Messages)
        /\ held' = [held EXCEPT ![q] = Append(held[q], Head(mq[q]))]
        /\ mq' = [mq EXCEPT ![q] = Tail(mq[q])]
        /\ UNCHANGED <<out, sent, lossy>>
    BY ReceiveLogEffect DEF ReceiveLog, nginxVars
  <1>2. out[q] \in Seq(Messages)
    BY DEF TypeOK
  <1>3. /\ mq'[q] = Tail(mq[q]) /\ held'[q] = Append(held[q], Head(mq[q]))
        /\ \A p \in Queues \ {q} : mq'[p] = mq[p] /\ held'[p] = held[p]
    BY <1>1 DEF TypeOK
  <1>4. OnlySent'
    <2> SUFFICES ASSUME NEW p \in Queues, NEW m \in Messages,
                        Occurs(m, mq'[p]) \/ Occurs(m, held'[p]) \/ Occurs(m, out[p])
                 PROVE  Occurs(m, sent[p])
      BY <1>1 DEF OnlySent
    <2>1. CASE p # q
      BY <1>3, <2>1 DEF TransportInv, OnlySent
    <2>2. CASE p = q
      <3>1. Occurs(Head(mq[q]), mq[q]) /\ (Occurs(m, Tail(mq[q])) => Occurs(m, mq[q]))
        BY <1>1, OccursTail
      <3>2. Occurs(m, held'[q]) => Occurs(m, held[q]) \/ m = Head(mq[q])
        BY <1>1, <1>3, OccursAppend
      <3> QED BY <1>3, <2>2, <3>1, <3>2 DEF TransportInv, OnlySent
    <2> QED BY <2>1, <2>2
  <1>5. NothingLost'
    <2> SUFFICES ASSUME NEW p \in Queues \ ({"mapping_scylla"} \cup lossy)
                 PROVE  sent[p] = out[p] \o held'[p] \o mq'[p]
      BY <1>1 DEF NothingLost
    <2>1. sent[p] = out[p] \o held[p] \o mq[p]
      BY DEF TransportInv, NothingLost
    <2>2. CASE p # q
      BY <1>3, <2>1, <2>2
    <2>3. CASE p = q
      <3>1. Append(held[q], Head(mq[q])) \o Tail(mq[q]) = held[q] \o mq[q]
        BY <1>1, MoveHead
      <3>2. (out[q] \o held'[q]) \o mq'[q] = out[q] \o (held'[q] \o mq'[q])
        <4> DEFINE a == out[q]
                   b == held'[q]
                   c == mq'[q]
        <4>1. a \in Seq(Messages) /\ b \in Seq(Messages) /\ c \in Seq(Messages)
          BY <1>1, <1>2, <1>3
        <4> HIDE DEF a, b, c
        <4>2. (a \o b) \o c = a \o (b \o c)
          BY <4>1, ConcatAssociative
        <4> QED BY <4>2 DEF a, b, c
      <3>3. (out[q] \o held[q]) \o mq[q] = out[q] \o (held[q] \o mq[q])
        <4> DEFINE a == out[q]
                   b == held[q]
                   c == mq[q]
        <4>1. a \in Seq(Messages) /\ b \in Seq(Messages) /\ c \in Seq(Messages)
          BY <1>1, <1>2
        <4> HIDE DEF a, b, c
        <4>2. (a \o b) \o c = a \o (b \o c)
          BY <4>1, ConcatAssociative
        <4> QED BY <4>2 DEF a, b, c
      <3> QED BY <1>3, <2>1, <2>3, <3>1, <3>2, <3>3
    <2> QED BY <2>2, <2>3
  <1> QED BY <1>4, <1>5 DEF TransportInv

LEMMA WriteTransport ==
    ASSUME TypeOK, TransportInv, NEW q \in Queues, Write(q)
    PROVE  TransportInv'
  <1>1. /\ out[q] \in Seq(Messages) /\ held[q] \in Seq(Messages) /\ held[q] # <<>>
        /\ Head(held[q]) \in Messages /\ Tail(held[q]) \in Seq(Messages)
        /\ out' = [out EXCEPT ![q] = Append(out[q], Head(held[q]))]
        /\ held' = [held EXCEPT ![q] = Tail(held[q])]
        /\ UNCHANGED <<mq, sent, lossy>>
    BY WriteEffect DEF Write, nginxVars
  <1>2. /\ held'[q] = Tail(held[q]) /\ out'[q] = Append(out[q], Head(held[q]))
        /\ \A p \in Queues \ {q} : out'[p] = out[p] /\ held'[p] = held[p]
    BY <1>1 DEF TypeOK
  <1>3. OnlySent'
    <2> SUFFICES ASSUME NEW p \in Queues, NEW m \in Messages,
                        Occurs(m, mq[p]) \/ Occurs(m, held'[p]) \/ Occurs(m, out'[p])
                 PROVE  Occurs(m, sent[p])
      BY <1>1 DEF OnlySent
    <2>1. CASE p # q
      BY <1>2, <2>1 DEF TransportInv, OnlySent
    <2>2. CASE p = q
      <3>1. Occurs(Head(held[q]), held[q]) /\ (Occurs(m, Tail(held[q])) => Occurs(m, held[q]))
        BY <1>1, OccursTail
      <3>2. Occurs(m, out'[q]) => Occurs(m, out[q]) \/ m = Head(held[q])
        BY <1>1, <1>2, OccursAppend
      <3> QED BY <1>2, <2>2, <3>1, <3>2 DEF TransportInv, OnlySent
    <2> QED BY <2>1, <2>2
  <1>4. NothingLost'
    <2>1. Append(out[q], Head(held[q])) \o Tail(held[q]) = out[q] \o held[q]
      BY <1>1, MoveHead
    <2>2. \A p \in Queues : out'[p] \o held'[p] = out[p] \o held[p]
      BY <1>2, <2>1
    <2> QED BY <1>1, <2>2 DEF TransportInv, NothingLost
  <1> QED BY <1>3, <1>4 DEF TransportInv

\* What the logger loses is no longer on its way; the histories of the queues it lost something
\* of are not looked at any more.
LEMMA LossTransport ==
    ASSUME TypeOK, TransportInv,
           LoggerKilled \/ Unsubscribe \/ ReceiveScylla \/ \E q \in Queues : WriterThrows(q)
    PROVE  TransportInv'
  <1>1. CASE LoggerKilled
    <2>1. \A p \in Queues : held'[p] = <<>>
      BY <1>1 DEF LoggerKilled, Empty
    <2>2. \A m : ~Occurs(m, <<>>)
      BY EmptySeq DEF Occurs
    <2>3. OnlySent'
      BY <1>1, <2>1, <2>2 DEF LoggerKilled, nginxVars, TransportInv, OnlySent
    <2>4. NothingLost'
      BY <1>1 DEF LoggerKilled, NothingLost
    <2> QED BY <2>3, <2>4 DEF TransportInv
  <1>2. CASE Unsubscribe
    <2>1. /\ held'["mapping_scylla"] = <<>>
          /\ \A p \in Queues \ {"mapping_scylla"} : held'[p] = held[p]
          /\ UNCHANGED <<mq, out, sent, lossy>>
      BY <1>2, QueuesAre DEF Unsubscribe, TypeOK, nginxVars
    <2>2. \A m : ~Occurs(m, <<>>)
      BY EmptySeq DEF Occurs
    <2>3. OnlySent'
      BY <2>1, <2>2 DEF TransportInv, OnlySent
    <2>4. NothingLost'
      BY <2>1 DEF TransportInv, NothingLost
    <2> QED BY <2>3, <2>4 DEF TransportInv
  <1>3. CASE ReceiveScylla
    <2> DEFINE q == "mapping_scylla"
    <2>1. /\ q \in Queues
          /\ mq[q] \in Seq(Messages) /\ held[q] \in Seq(Messages) /\ mq[q] # <<>>
          /\ Head(mq[q]) \in Messages
          /\ mq' = [mq EXCEPT ![q] = Tail(mq[q])]
          /\ held' = held \/ held' = [held EXCEPT ![q] = Append(held[q], Head(mq[q]))]
          /\ UNCHANGED <<out, sent, lossy>>
      BY <1>3, ReceiveScyllaEffect DEF ReceiveScylla, nginxVars
    <2>2. /\ mq'[q] = Tail(mq[q])
          /\ held'[q] = held[q] \/ held'[q] = Append(held[q], Head(mq[q]))
          /\ \A p \in Queues \ {q} : mq'[p] = mq[p] /\ held'[p] = held[p]
      BY <2>1 DEF TypeOK
    <2>3. ASSUME NEW p \in Queues, NEW m \in Messages,
                 Occurs(m, mq'[p]) \/ Occurs(m, held'[p]) \/ Occurs(m, out[p])
          PROVE  Occurs(m, sent[p])
      <3>1. CASE p # q
        BY <2>2, <2>3, <3>1 DEF TransportInv, OnlySent
      <3>2. CASE p = q
        <4>1. Occurs(Head(mq[q]), mq[q]) /\ (Occurs(m, Tail(mq[q])) => Occurs(m, mq[q]))
          BY <2>1, OccursTail
        <4>2. Occurs(m, Append(held[q], Head(mq[q]))) => Occurs(m, held[q]) \/ m = Head(mq[q])
          BY <2>1, OccursAppend
        <4>3. Occurs(m, held'[q]) => Occurs(m, held[q]) \/ m = Head(mq[q])
          BY <2>2, <4>2
        <4> HIDE DEF q
        <4> QED BY <2>2, <2>3, <3>2, <4>1, <4>3 DEF TransportInv, OnlySent
      <3> QED BY <3>1, <3>2
    <2>4. OnlySent'
      BY <2>1, <2>3 DEF OnlySent, Messages
    <2>5. NothingLost'
      BY <2>1, <2>2 DEF TransportInv, NothingLost
    <2> QED BY <2>4, <2>5 DEF TransportInv
  <1>4. ASSUME NEW q \in Queues, WriterThrows(q) PROVE TransportInv'
    <2>1. /\ held[q] \in Seq(Messages) /\ held[q] # <<>>
          /\ held' = [held EXCEPT ![q] = Tail(held[q])] /\ lossy' = lossy \cup {q}
          /\ UNCHANGED <<mq, out, sent>>
      BY <1>4 DEF WriterThrows, TypeOK, nginxVars
    <2>2. held'[q] = Tail(held[q]) /\ \A p \in Queues \ {q} : held'[p] = held[p]
      BY <2>1 DEF TypeOK
    <2>3. \A m : Occurs(m, Tail(held[q])) => Occurs(m, held[q])
      BY <2>1, OccursTail
    <2>4. OnlySent'
      BY <2>1, <2>2, <2>3 DEF TransportInv, OnlySent
    <2>5. NothingLost'
      BY <2>1, <2>2 DEF TransportInv, NothingLost
    <2> QED BY <2>4, <2>5 DEF TransportInv
  <1> QED BY <1>1, <1>2, <1>3, <1>4

------------------------------------------------------------------------------
(* The invariant holds *)

LEMMA NextIInv == IInv /\ [Next]_vars => IInv'
  <1> SUFFICES ASSUME IInv, [Next]_vars PROVE IInv' OBVIOUS
  <1>1. TypeOK /\ NginxInv /\ TransportInv /\ TodoShape
    BY DEF IInv, NginxInv
  <1>2. CASE UNCHANGED vars
    <2>1. TypeOK'
      BY <1>1, <1>2 DEF vars, TypeOK
    <2>2. NginxInv'
      BY <1>1, <1>2, LoggerKeepsNginx DEF vars, nginxVars
    <2>3. TransportInv'
      BY <1>1, <1>2, TransportAtRest DEF vars
    <2> QED BY <2>1, <2>2, <2>3 DEF IInv
  <1>3. CASE CreateQueue
    <2>1. TypeOK'
      BY <1>1, <1>3 DEF CreateQueue, TypeOK, faultVars, loggerVars
    <2>2. NginxInv'
      <3>1. UNCHANGED <<todo, req, requests, sent, refused>>
        BY <1>3 DEF CreateQueue
      <3> QED BY <1>1, <3>1 DEF NginxInv, TodoShape, Distinct, NotYetSent, LogFirst,
                                StoredMeansLogged, NextQueue
    <2>3. TransportInv'
      BY <1>1, <1>3, TransportAtRest DEF CreateQueue, loggerVars
    <2> QED BY <2>1, <2>2, <2>3 DEF IInv
  <1>4. ASSUME NEW w \in Workers, Nginx(w) PROVE IInv'
    <2>1. TypeOK'
      BY <1>1, <1>4, NginxTypes
    <2>2. NginxInv'
      BY <1>1, <1>4, RequestStep, SendStep, SendThrowsStep, ForgetStep DEF Nginx
    <2>3. TransportInv'
      <3>1. CASE Send(w)
        BY <1>1, <3>1, SendTransport
      <3>2. CASE Request(w) \/ SendThrows(w) \/ Answered(w) \/ WorkerDies(w)
        BY <1>1, <3>2, TransportAtRest DEF Request, SendThrows, Answered, WorkerDies, loggerVars
      <3> QED BY <1>4, <3>1, <3>2 DEF Nginx
    <2> QED BY <2>1, <2>2, <2>3 DEF IInv
  <1>5. CASE \/ StartLogger \/ LoggerExits \/ LoggerKilled
             \/ ReceiveScylla \/ Subscribe \/ Unsubscribe
             \/ \E q \in Queues : Consume(q)
    <2>1. TypeOK'
      BY <1>1, <1>5, LoggerTypes
    <2>2. UNCHANGED nginxVars
      BY <1>5 DEF StartLogger, LoggerExits, LoggerKilled, ReceiveScylla, Subscribe, Unsubscribe,
                  Consume, OpenQueue, ReceiveLog, Write, WriterThrows
    <2>3. NginxInv'
      BY <1>1, <2>2, LoggerKeepsNginx
    <2>4. CASE LoggerKilled \/ Unsubscribe \/ ReceiveScylla \/ \E q \in Queues : WriterThrows(q)
      BY <1>1, <2>1, <2>3, <2>4, LossTransport DEF IInv
    <2>5. CASE StartLogger \/ LoggerExits \/ Subscribe \/ \E q \in Queues : OpenQueue(q)
      <3>1. UNCHANGED <<mq, held, out, sent, lossy>>
        BY <2>2, <2>5 DEF StartLogger, LoggerExits, Subscribe, OpenQueue, nginxVars
      <3> QED BY <1>1, <2>1, <2>3, <3>1, TransportAtRest DEF IInv
    <2>6. ASSUME NEW q \in Queues, ReceiveLog(q) \/ Write(q) PROVE IInv'
      BY <1>1, <2>1, <2>3, <2>6, ReceiveLogTransport, WriteTransport DEF IInv
    <2> QED BY <1>5, <2>4, <2>5, <2>6 DEF Consume
  <1> QED BY <1>2, <1>3, <1>4, <1>5 DEF Next

LEMMA InvHolds == Spec => []IInv
  BY InitIInv, NextIInv, PTL DEF Spec

\* The types, with the capacities: no queue ever holds more than max_num_msg messages, and no
\* buffer of the logger more than its size.
THEOREM TypeCorrect == Spec => []TypeOK
  <1>1. IInv => TypeOK
    BY DEF IInv
  <1> QED BY <1>1, InvHolds, PTL

\* While the logger is not killed and its sink does not throw, every message a log queue took is
\* in the queue, in the logger or in the file, once and in order.
THEOREM NothingIsLost == Spec => []NothingLost
  <1>1. IInv => NothingLost
    BY DEF IInv, TransportInv
  <1> QED BY <1>1, InvHolds, PTL

\* log_save sends the log record before the pair: whatever dies in between, a pair that reached
\* the queue of the mapping store has its record in the log queue, or was too large for it.
THEOREM StoredIsLogged == Spec => []StoredMeansLogged
  <1>1. IInv => StoredMeansLogged
    BY DEF IInv, NginxInv
  <1> QED BY <1>1, InvHolds, PTL

------------------------------------------------------------------------------
(* Each queue with its consumer implements a Channel *)

Pending(q) == held[q] \o mq[q]

\* A step of the channel of a queue, or none.
ChannelStep(q) ==
    \/ Pending(q)' = Pending(q) /\ out'[q] = out[q]
    \/ \E m \in Messages :
          /\ ~Occurs(m, Pending(q)) /\ ~Occurs(m, out[q])
          /\ Pending(q)' = Append(Pending(q), m) /\ out'[q] = out[q]
    \/ /\ Pending(q) # <<>>
       /\ out'[q] = Append(out[q], Head(Pending(q))) /\ Pending(q)' = Tail(Pending(q))
    \/ /\ \E n \in 1 .. Len(Pending(q)) :
             Pending(q)' = SubSeq(Pending(q), 1, n - 1)
                              \o SubSeq(Pending(q), n + 1, Len(Pending(q)))
       /\ out'[q] = out[q]
    \/ /\ \E n \in 1 .. Len(Pending(q)) :
             Pending(q)' = SubSeq(Pending(q), n + 1, Len(Pending(q)))
       /\ out'[q] = out[q]

\* A queue nothing happens to.
LEMMA AtRest ==
    ASSUME NEW q \in Queues, held'[q] = held[q], mq'[q] = mq[q], out'[q] = out[q]
    PROVE  ChannelStep(q)
  BY DEF ChannelStep, Pending

\* Send is a Put: the message is not under way already, since its worker has not sent it before.
LEMMA SendPuts ==
    ASSUME IInv, NEW w \in Workers, Send(w), NEW q \in Queues
    PROVE  ChannelStep(q)
  <1> DEFINE p == NextQueue(w)
             m == req[w]
  <1>1. TypeOK /\ TodoShape /\ NotYetSent /\ OnlySent
    BY DEF IInv, NginxInv, TransportInv
  <1>2. /\ p \in Queues /\ m \in Messages
        /\ mq' = [mq EXCEPT ![p] = Append(mq[p], m)]
        /\ UNCHANGED <<held, out>>
    BY <1>1, SendEffect DEF Send, loggerVars
  <1>3. CASE q # p
    BY <1>1, <1>2, <1>3, AtRest DEF TypeOK
  <1>4. CASE q = p
    <2>1. held[q] \in Seq(Messages) /\ mq[q] \in Seq(Messages) /\ mq'[q] = Append(mq[q], m)
      BY <1>1, <1>2, <1>4 DEF TypeOK
    <2>2. Occurs(q, todo[w])
      <3>1. todo[w] \in Seq(Queues) /\ todo[w] # <<>>
        BY <1>1, TodosTyped DEF TodoShape, Send
      <3> QED BY <1>4, <3>1, OccursTail DEF NextQueue
    <2>3. ~Occurs(m, sent[q])
      BY <1>1, <2>2 DEF NotYetSent
    <2>4. ~Occurs(m, mq[q]) /\ ~Occurs(m, held[q]) /\ ~Occurs(m, out[q])
      BY <1>1, <1>2, <2>3 DEF OnlySent
    <2> HIDE DEF m, p
    <2>5. ~Occurs(m, Pending(q))
      BY <2>1, <2>4, OccursConcat DEF Pending
    <2>6. Pending(q)' = Append(Pending(q), m)
      <3> DEFINE a == held[q]
                 b == mq[q]
      <3>1. a \in Seq(Messages) /\ b \in Seq(Messages)
        BY <2>1
      <3> HIDE DEF a, b
      <3>2. a \o Append(b, m) = Append(a \o b, m)
        BY <1>2, <3>1, AppendToConcat
      <3> QED BY <1>2, <2>1, <3>2 DEF Pending, a, b
    <2> QED BY <1>2, <2>4, <2>5, <2>6 DEF ChannelStep
  <1> QED BY <1>3, <1>4

\* Receiving moves a message inside the channel, writing it is a Deliver.
LEMMA ConsumeDelivers ==
    ASSUME IInv, NEW p \in Queues, ReceiveLog(p) \/ Write(p), NEW q \in Queues
    PROVE  ChannelStep(q)
  <1>1. TypeOK
    BY DEF IInv
  <1>2. CASE ReceiveLog(p)
    <2>1. /\ mq[p] \in Seq(Messages) /\ held[p] \in Seq(Messages) /\ mq[p] # <<>>
          /\ held' = [held EXCEPT ![p] = Append(held[p], Head(mq[p]))]
          /\ mq' = [mq EXCEPT ![p] = Tail(mq[p])]
          /\ UNCHANGED out
      BY <1>1, <1>2, ReceiveLogEffect DEF ReceiveLog
    <2>2. CASE q # p
      BY <1>1, <2>1, <2>2, AtRest DEF TypeOK
    <2>3. CASE q = p
      <3>1. held'[q] = Append(held[q], Head(mq[q])) /\ mq'[q] = Tail(mq[q])
        BY <1>1, <2>1, <2>3 DEF TypeOK
      <3>2. Append(held[q], Head(mq[q])) \o Tail(mq[q]) = held[q] \o mq[q]
        BY <2>1, <2>3, MoveHead
      <3> QED BY <2>1, <3>1, <3>2 DEF ChannelStep, Pending
    <2> QED BY <2>2, <2>3
  <1>3. CASE Write(p)
    <2>1. /\ held[p] \in Seq(Messages) /\ mq[p] \in Seq(Messages) /\ held[p] # <<>>
          /\ out' = [out EXCEPT ![p] = Append(out[p], Head(held[p]))]
          /\ held' = [held EXCEPT ![p] = Tail(held[p])]
          /\ UNCHANGED mq
      BY <1>1, <1>3, WriteEffect DEF Write, TypeOK
    <2>2. CASE q # p
      BY <1>1, <2>1, <2>2, AtRest DEF TypeOK
    <2>3. CASE q = p
      <3>1. /\ held'[q] = Tail(held[q]) /\ mq'[q] = mq[q]
            /\ out'[q] = Append(out[q], Head(held[q]))
        BY <1>1, <2>1, <2>3 DEF TypeOK
      <3>2. /\ Pending(q) # <<>> /\ Head(Pending(q)) = Head(held[q])
            /\ Tail(Pending(q)) = Tail(held[q]) \o mq[q]
        BY <2>1, <2>3, HeadTailOfConcat DEF Pending
      <3>3. Pending(q)' = Tail(Pending(q))
        BY <3>1, <3>2 DEF Pending
      <3> QED BY <3>1, <3>2, <3>3 DEF ChannelStep
    <2> QED BY <2>2, <2>3
  <1> QED BY <1>2, <1>3

\* When the buffer of a queue is emptied, the oldest messages are lost.
LEMMA BufferLost ==
    ASSUME TypeOK, NEW q \in Queues, held'[q] = <<>>, mq'[q] = mq[q], out'[q] = out[q]
    PROVE  ChannelStep(q)
  <1>1. held[q] \in Seq(Messages) /\ mq[q] \in Seq(Messages)
    BY DEF TypeOK
  <1>2. Pending(q)' = mq[q]
    BY <1>1, ConcatEmptySeq DEF Pending
  <1>3. CASE held[q] = <<>>
    BY <1>3, AtRest
  <1>4. CASE held[q] # <<>>
    <2> DEFINE n == Len(held[q])
    <2>1. n \in 1 .. Len(Pending(q))
      <3>1. Len(held[q]) \in Nat \ {0} /\ Len(mq[q]) \in Nat
        BY <1>1, <1>4, EmptySeq, LenProperties
      <3>2. Len(Pending(q)) = Len(held[q]) + Len(mq[q])
        BY <1>1, ConcatProperties DEF Pending
      <3>3. ASSUME NEW a \in Nat \ {0}, NEW b \in Nat, NEW c, c = a + b PROVE a \in 1 .. c
        BY <3>3
      <3> QED BY <3>1, <3>2, <3>3
    <2>2. SubSeq(Pending(q), n + 1, Len(Pending(q))) = mq[q]
      BY <1>1, SecondPart DEF Pending
    <2> HIDE DEF n
    <2> QED BY <1>2, <2>1, <2>2 DEF ChannelStep
  <1> QED BY <1>3, <1>4

\* The failures of the logger and the drops of the PUB socket are losses of the channel.
LEMMA FailuresLose ==
    ASSUME IInv, NEW q \in Queues,
           LoggerKilled \/ Unsubscribe \/ ReceiveScylla \/ \E p \in Queues : WriterThrows(p)
    PROVE  ChannelStep(q)
  <1>1. TypeOK
    BY DEF IInv
  <1>2. CASE LoggerKilled
    BY <1>1, <1>2, BufferLost DEF LoggerKilled, Empty
  <1>3. CASE Unsubscribe
    <2>1. UNCHANGED <<mq, out>> /\ (held'[q] = <<>> \/ held'[q] = held[q])
      BY <1>1, <1>3 DEF Unsubscribe, TypeOK
    <2> QED BY <1>1, <2>1, BufferLost, AtRest
  <1>4. CASE ReceiveScylla
    <2> DEFINE p == "mapping_scylla"
    <2>1. /\ p \in Queues
          /\ mq[p] \in Seq(Messages) /\ held[p] \in Seq(Messages) /\ mq[p] # <<>>
          /\ mq' = [mq EXCEPT ![p] = Tail(mq[p])]
          /\ held' = held \/ held' = [held EXCEPT ![p] = Append(held[p], Head(mq[p]))]
          /\ UNCHANGED out
      BY <1>1, <1>4, ReceiveScyllaEffect DEF ReceiveScylla
    <2> HIDE DEF p
    <2>2. CASE q # p
      BY <1>1, <2>1, <2>2, AtRest DEF TypeOK
    <2>3. CASE q = p /\ held' = held
      <3>1. mq'[q] = Tail(mq[q]) /\ held'[q] = held[q]
        BY <1>1, <2>1, <2>3 DEF TypeOK
      <3>2. /\ Len(held[q]) + 1 \in 1 .. Len(Pending(q)) /\ Len(held[q]) \in Nat
            /\ SubSeq(Pending(q), 1, Len(held[q]))
                  \o SubSeq(Pending(q), Len(held[q]) + 2, Len(Pending(q))) = held[q] \o Tail(mq[q])
        <4> DEFINE a == held[q]
                   b == mq[q]
        <4>1. a \in Seq(Messages) /\ b \in Seq(Messages) /\ b # <<>>
          BY <2>1, <2>3
        <4> HIDE DEF a, b
        <4>2. /\ Len(a) + 1 \in 1 .. Len(a \o b) /\ Len(a) \in Nat
              /\ SubSeq(a \o b, 1, Len(a)) \o SubSeq(a \o b, Len(a) + 2, Len(a \o b))
                    = a \o Tail(b)
          BY <4>1, DropBetween, LenProperties
        <4> QED BY <4>2 DEF Pending, a, b
      <3> DEFINE n == Len(held[q]) + 1
      <3>3. n \in 1 .. Len(Pending(q)) /\ n - 1 = Len(held[q]) /\ n + 1 = Len(held[q]) + 2
        BY <3>2
      <3>4. Pending(q)' = SubSeq(Pending(q), 1, n - 1)
                             \o SubSeq(Pending(q), n + 1, Len(Pending(q)))
        BY <3>1, <3>2, <3>3 DEF Pending
      <3> HIDE DEF n
      <3> QED BY <2>1, <3>3, <3>4 DEF ChannelStep
    <2>4. CASE q = p /\ held' # held
      <3>1. held'[q] = Append(held[q], Head(mq[q])) /\ mq'[q] = Tail(mq[q])
        BY <1>1, <2>1, <2>4 DEF TypeOK
      <3>2. Append(held[q], Head(mq[q])) \o Tail(mq[q]) = held[q] \o mq[q]
        BY <2>1, <2>4, MoveHead
      <3> QED BY <2>1, <3>1, <3>2 DEF ChannelStep, Pending
    <2> QED BY <2>2, <2>3, <2>4
  <1>5. ASSUME NEW p \in Queues, WriterThrows(p) PROVE ChannelStep(q)
    <2>1. /\ held[p] \in Seq(Messages) /\ mq[p] \in Seq(Messages) /\ held[p] # <<>>
          /\ held' = [held EXCEPT ![p] = Tail(held[p])]
          /\ UNCHANGED <<mq, out>>
      BY <1>1, <1>5 DEF WriterThrows, TypeOK
    <2>2. CASE q # p
      BY <1>1, <2>1, <2>2, AtRest DEF TypeOK
    <2>3. CASE q = p
      <3>1. held'[q] = Tail(held[q])
        BY <1>1, <2>1, <2>3 DEF TypeOK
      <3>2. /\ Pending(q) \in Seq(Messages) /\ Pending(q) # <<>>
            /\ Tail(Pending(q)) = Tail(held[q]) \o mq[q]
        BY <2>1, <2>3, HeadTailOfConcat, ConcatProperties DEF Pending
      <3>3. Pending(q)' = SubSeq(Pending(q), 2, Len(Pending(q)))
        <4>1. Pending(q)' = Tail(Pending(q))
          BY <2>1, <3>1, <3>2 DEF Pending
        <4> QED BY <3>2, <4>1, TailIsSubSeq
      <3>4. 1 \in 1 .. Len(Pending(q)) /\ 1 + 1 = 2
        BY <3>2, EmptySeq
      <3> QED BY <2>1, <3>3, <3>4 DEF ChannelStep
    <2> QED BY <2>2, <2>3
  <1> QED BY <1>2, <1>3, <1>4, <1>5

LEMMA EveryStepIsAChannelStep ==
    ASSUME IInv, [Next]_vars, NEW q \in Queues
    PROVE  ChannelStep(q)
  <1>1. CASE UNCHANGED <<mq, held, out>>
    BY <1>1, AtRest
  <1>2. ASSUME NEW w \in Workers, Nginx(w) PROVE ChannelStep(q)
    <2>1. CASE Send(w)
      BY <2>1, SendPuts
    <2>2. CASE Request(w) \/ SendThrows(w) \/ Answered(w) \/ WorkerDies(w)
      BY <1>1, <2>2 DEF Request, SendThrows, Answered, WorkerDies, loggerVars
    <2> QED BY <1>2, <2>1, <2>2 DEF Nginx
  <1>3. CASE LoggerKilled \/ Unsubscribe \/ ReceiveScylla
    BY <1>3, FailuresLose
  <1>4. CASE CreateQueue \/ StartLogger \/ LoggerExits \/ Subscribe
    BY <1>1, <1>4 DEF CreateQueue, StartLogger, LoggerExits, Subscribe, loggerVars
  <1>5. ASSUME NEW p \in Queues, Consume(p) PROVE ChannelStep(q)
    <2>1. CASE ReceiveLog(p) \/ Write(p)
      BY <2>1, ConsumeDelivers
    <2>2. CASE WriterThrows(p)
      BY <2>2, FailuresLose
    <2>3. CASE OpenQueue(p)
      BY <1>1, <2>3 DEF OpenQueue
    <2> QED BY <1>5, <2>1, <2>2, <2>3 DEF Consume
  <1>6. CASE UNCHANGED vars
    BY <1>1, <1>6 DEF vars
  <1> QED BY <1>2, <1>3, <1>4, <1>5, <1>6 DEF Next

\* mapping_log, with the logger behind it, implements Channel: what reaches the file reaches it
\* once and in the order of sending, whatever is killed.
THEOREM LogRefinesChannel == Spec => IsLogChannel
  <1>1. Init => LogChannel!Init
    BY EmptySeq, ConcatEmptySeq, QueuesAre DEF Init, Empty, LogChannel!Init
  <1>2. IInv /\ [Next]_vars
           => [LogChannel!Next]_<<held["mapping_log"] \o mq["mapping_log"], out["mapping_log"]>>
    <2> SUFFICES ASSUME IInv, [Next]_vars
                 PROVE  [LogChannel!Next]_<<held["mapping_log"] \o mq["mapping_log"],
                                            out["mapping_log"]>>
      OBVIOUS
    <2>1. ChannelStep("mapping_log")
      BY EveryStepIsAChannelStep, QueuesAre
    <2> QED BY <2>1 DEF ChannelStep, Pending, Occurs, LogChannel!Next, LogChannel!Put,
                        LogChannel!Deliver, LogChannel!Drop, LogChannel!LoseOldest,
                        LogChannel!Occurs
  <1> QED BY <1>1, <1>2, InvHolds, PTL DEF Spec, IsLogChannel, LogChannel!Spec

\* mapping_scylla, with the PUB socket behind it, implements Channel too: it drops what it
\* cannot buffer, and never repeats or reorders.
THEOREM ScyllaRefinesChannel == Spec => IsScyllaChannel
  <1>1. Init => ScyllaChannel!Init
    BY EmptySeq, ConcatEmptySeq, QueuesAre DEF Init, Empty, ScyllaChannel!Init
  <1>2. IInv /\ [Next]_vars
           => [ScyllaChannel!Next]_<<held["mapping_scylla"] \o mq["mapping_scylla"],
                                     out["mapping_scylla"]>>
    <2> SUFFICES ASSUME IInv, [Next]_vars
                 PROVE  [ScyllaChannel!Next]_<<held["mapping_scylla"] \o mq["mapping_scylla"],
                                               out["mapping_scylla"]>>
      OBVIOUS
    <2>1. ChannelStep("mapping_scylla")
      BY EveryStepIsAChannelStep, QueuesAre
    <2> QED BY <2>1 DEF ChannelStep, Pending, Occurs, ScyllaChannel!Next, ScyllaChannel!Put,
                        ScyllaChannel!Deliver, ScyllaChannel!Drop, ScyllaChannel!LoseOldest,
                        ScyllaChannel!Occurs
  <1> QED BY <1>1, <1>2, InvHolds, PTL DEF Spec, IsScyllaChannel, ScyllaChannel!Spec

==============================================================================
