-------------------------------- MODULE MCBoot --------------------------------
(***************************************************************************)
(* Configuration for Boot: two machines, of which one has two vcpus.       *)
(***************************************************************************)
EXTENDS Boot

MCTwoAndOne == [v \in 0..(NrVMs - 1) |-> IF v = 0 THEN 2 ELSE 1]

\* The first machine has 39 and the virtual timer 27, as in config.c; the other
\* has a neighbour of 39 in its granule, and then wants 39 too.
MCShared == [v \in 0..(NrVMs - 1) |-> IF v = 0 THEN <<39, 27>> ELSE <<40, 39>>]
==============================================================================
