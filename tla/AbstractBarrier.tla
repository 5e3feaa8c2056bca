--------------------------- MODULE AbstractBarrier ---------------------------
(***************************************************************************)
(* What a reusable barrier promises.  Every CPU passes the same barriers,  *)
(* in the same order.  arrived[c] is the number of barriers CPU c has      *)
(* entered, passed[c] the number it has left.  A CPU leaves a barrier only *)
(* when every CPU has entered it.                                          *)
(***************************************************************************)
EXTENDS Naturals

CONSTANTS CPUs, MaxRounds

VARIABLES arrived, passed

vars == <<arrived, passed>>

Init ==
    /\ arrived = [c \in CPUs |-> 0]
    /\ passed = [c \in CPUs |-> 0]

Arrive(c) ==
    /\ arrived[c] = passed[c]
    /\ arrived[c] < MaxRounds
    /\ arrived' = [arrived EXCEPT ![c] = @ + 1]
    /\ UNCHANGED passed

Leave(c) ==
    /\ passed[c] < arrived[c]
    /\ \A d \in CPUs : passed[c] < arrived[d]
    /\ passed' = [passed EXCEPT ![c] = @ + 1]
    /\ UNCHANGED arrived

Next == \E c \in CPUs : Arrive(c) \/ Leave(c)

Spec == Init /\ [][Next]_vars
==============================================================================
