---------------------------- MODULE BoundedQueue ----------------------------
(* What a mailbox promises: a queue of at most Size messages.              *)
EXTENDS Naturals, Sequences

CONSTANTS Size, Msgs
VARIABLE q

Init == q = <<>>
Post(m) == Len(q) < Size /\ q' = Append(q, m)
Recv == q # <<>> /\ q' = Tail(q)
Next == Recv \/ \E m \in Msgs : Post(m)
Spec == Init /\ [][Next]_q
=============================================================================
