------------------------------- MODULE Channel -------------------------------
(***************************************************************************)
(* What one message queue of the system promises its users, from log_save  *)
(* in a worker to the file or the subscriber at the other end: messages    *)
(* may be lost, but what arrives arrives once and in the order of sending. *)
(***************************************************************************)
EXTENDS Sequences, Integers

CONSTANT Messages

VARIABLES
    pending,    \* sent and not yet arrived, oldest first
    delivered   \* arrived, in the order of arrival

Init == pending = <<>> /\ delivered = <<>>

Occurs(m, s) == \E n \in 1 .. Len(s) : s[n] = m

\* Messages are told apart: none is sent while it is under way or has arrived.
Put(m) ==
    /\ ~Occurs(m, pending) /\ ~Occurs(m, delivered)
    /\ pending' = Append(pending, m)
    /\ UNCHANGED delivered

Deliver ==
    /\ pending # <<>>
    /\ delivered' = Append(delivered, Head(pending))
    /\ pending' = Tail(pending)

\* One message between others is dropped.
Drop ==
    /\ \E n \in 1 .. Len(pending) :
          pending' = SubSeq(pending, 1, n - 1) \o SubSeq(pending, n + 1, Len(pending))
    /\ UNCHANGED delivered

\* The oldest messages are lost together.
LoseOldest ==
    /\ \E n \in 1 .. Len(pending) : pending' = SubSeq(pending, n + 1, Len(pending))
    /\ UNCHANGED delivered

Next == (\E m \in Messages : Put(m)) \/ Deliver \/ Drop \/ LoseOldest

Spec == Init /\ [][Next]_<<pending, delivered>>

==============================================================================
