------------------------------- MODULE FifoLock -------------------------------
(***************************************************************************)
(* What spin_lock and spin_unlock promise: CPUs enter one at a time, in    *)
(* the order in which they asked.                                          *)
(***************************************************************************)
EXTENDS Sequences, Integers

CONSTANT CPUs

VARIABLES queue, inside     \* those that asked and have not left; who is in

Init == queue = <<>> /\ inside = {}

Ask(c) ==
    /\ \A k \in 1..Len(queue) : queue[k] # c
    /\ queue' = Append(queue, c)
    /\ UNCHANGED inside

Enter(c) ==
    /\ inside = {}
    /\ queue # <<>> /\ Head(queue) = c
    /\ inside' = {c}
    /\ UNCHANGED queue

Leave(c) ==
    /\ inside = {c}
    /\ inside' = {}
    /\ queue' = Tail(queue)

Next == \E c \in CPUs : Ask(c) \/ Enter(c) \/ Leave(c)

Spec == Init /\ [][Next]_<<queue, inside>>
==============================================================================
