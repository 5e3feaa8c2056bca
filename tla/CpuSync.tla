------------------------------- MODULE CpuSync -------------------------------
(***************************************************************************)
(* The CPU synchronisation token: struct cpu_synctoken, cpu_sync_init and  *)
(* cpu_sync_barrier of core/inc/cpu.h.                                     *)
(*                                                                         *)
(* The master publishes the token, every CPU then goes through the same    *)
(* sequence of barriers.  One step is one access to the shared token:      *)
(* atomic_inc_return and atomic_read are the single-copy atomic accesses   *)
(* of atomic.h.  exp_v is the local variable of cpu_sync_barrier, passed   *)
(* the number of barriers the CPU has left, MaxRounds the number of        *)
(* barriers on its path.                                                   *)
(***************************************************************************)
EXTENDS Integers, FiniteSets

CONSTANTS CPUs, Master, MaxRounds

ASSUME CPUsAssumption == IsFiniteSet(CPUs) /\ Master \in CPUs

ASSUME RoundsAssumption == MaxRounds \in Nat

VARIABLES ready, n, count, pc, exp_v, passed

vars == <<ready, n, count, pc, exp_v, passed>>

\* config.hyp.nr_cpus, the number of CPUs that run the boot path.
NrCPUs == Cardinality(CPUs)

\* The token is static data: ready is false, n and count are zero.
Init ==
    /\ ready = FALSE
    /\ n = 0
    /\ count = 0
    /\ pc = [c \in CPUs |-> IF c = Master THEN "init" ELSE "out"]
    /\ exp_v = [c \in CPUs |-> 0]
    /\ passed = [c \in CPUs |-> 0]

-----------------------------------------------------------------------------
\* Mutated forms of the operations below.

\* The token is published before its counter is set.
cpu_sync_init_swapped(c) ==
    \/ /\ pc[c] = "init"
       /\ ready' = TRUE
       /\ n' = NrCPUs
       /\ pc' = [pc EXCEPT ![c] = "publish"]
       /\ UNCHANGED <<count, exp_v, passed>>
    \/ /\ pc[c] = "publish"
       /\ count' = 0
       /\ pc' = [pc EXCEPT ![c] = "out"]
       /\ UNCHANGED <<ready, n, exp_v, passed>>

\* The expected count is rounded down.
ExpectedRoundedDown(val, tokens) == ((val - 1) \div tokens) * tokens
-----------------------------------------------------------------------------

\* cpu_sync_init: the counter first, then, after a fence, the ready flag.
cpu_sync_init(c) ==
    \/ /\ pc[c] = "init"
       /\ n' = NrCPUs
       /\ count' = 0
       /\ pc' = [pc EXCEPT ![c] = "publish"]
       /\ UNCHANGED <<ready, exp_v, passed>>
    \/ /\ pc[c] = "publish"
       /\ ready' = TRUE
       /\ pc' = [pc EXCEPT ![c] = "out"]
       /\ UNCHANGED <<n, count, exp_v, passed>>

\* The count at which the barrier of a CPU that arrived as number val opens.
Expected(val, tokens) == ((val - 1) \div tokens + 1) * tokens

\* cpu_sync_barrier, up to and including the increment of the counter.
cpu_sync_barrier_arrive(c) ==
    /\ pc[c] = "out"
    /\ passed[c] < MaxRounds
    /\ ready
    /\ count' = count + 1
    /\ exp_v' = [exp_v EXCEPT ![c] = Expected(count + 1, n)]
    /\ pc' = [pc EXCEPT ![c] = "wait"]
    /\ UNCHANGED <<ready, n, passed>>

\* The last read of the counter in cpu_sync_barrier: the loop ends.
cpu_sync_barrier_leave(c) ==
    /\ pc[c] = "wait"
    /\ count >= exp_v[c]
    /\ passed' = [passed EXCEPT ![c] = @ + 1]
    /\ pc' = [pc EXCEPT ![c] = "out"]
    /\ UNCHANGED <<ready, n, count, exp_v>>

Step(c) ==
    \/ cpu_sync_init(c)
    \/ cpu_sync_barrier_arrive(c)
    \/ cpu_sync_barrier_leave(c)

Next == \E c \in CPUs : Step(c)

Spec == Init /\ [][Next]_vars

\* Every CPU spins with interrupts masked: none of them stops running.
Fairness == \A c \in CPUs : WF_vars(Step(c))

FairSpec == Spec /\ Fairness
-----------------------------------------------------------------------------

TypeOK ==
    /\ ready \in BOOLEAN
    /\ n \in Nat
    /\ count \in Nat
    /\ pc \in [CPUs -> {"init", "publish", "out", "wait"}]
    /\ exp_v \in [CPUs -> Int]
    /\ passed \in [CPUs -> Nat]

\* The number of barriers CPU c has entered.
Arrived(c) == passed[c] + (IF pc[c] = "wait" THEN 1 ELSE 0)

\* No CPU returns from its k-th cpu_sync_barrier before every CPU has
\* entered its k-th: the wait loop never lets a CPU run ahead.
BarrierSafety == \A c, d \in CPUs : passed[c] <= Arrived(d)

\* The generation g of the token: every CPU has entered g or g + 1 barriers,
\* the counter has the g full rounds and those ahead in it, nobody has left
\* barrier g + 1 yet, and each waiting CPU waits for the end of its round.
Generation(g) ==
    /\ \A c \in CPUs : Arrived(c) \in {g, g + 1} /\ passed[c] <= g
    /\ count = g * NrCPUs + Cardinality({c \in CPUs : Arrived(c) = g + 1})
    /\ \A c \in CPUs : pc[c] = "wait" => exp_v[c] = Arrived(c) * NrCPUs

\* The inductive form of BarrierSafety: until cpu_sync_init has published
\* the token nobody has touched it, afterwards it has a generation.
IInv ==
    /\ TypeOK
    /\ \A c \in CPUs : pc[c] \in {"init", "publish"} <=> (c = Master /\ ~ready)
    /\ ~ready => \A c \in CPUs : pc[c] # "wait" /\ passed[c] = 0
    /\ ready \/ pc[Master] = "publish" => n = NrCPUs
    /\ pc[Master] = "publish" => count = 0
    /\ \A c \in CPUs : Arrived(c) <= MaxRounds
    /\ ready => \E g \in 0..MaxRounds : Generation(g)

\* cpu_sync_barrier behaves like the abstract barrier: an increment of the
\* counter is an arrival, the end of the wait loop a departure.
AB == INSTANCE AbstractBarrier WITH arrived <- [c \in CPUs |-> Arrived(c)]

RefinesBarrier == AB!Spec

\* Every CPU gets through all the barriers of its path: nobody spins in
\* cpu_sync_barrier for ever.
AllPass == <>(\A c \in CPUs : passed[c] = MaxRounds)
==============================================================================
