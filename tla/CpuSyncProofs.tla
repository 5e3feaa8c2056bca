---------------------------- MODULE CpuSyncProofs ----------------------------
(***************************************************************************)
(* Proofs about CpuSync, for any number of CPUs and of barriers: the       *)
(* inductive invariant, barrier safety, and the refinement of              *)
(* AbstractBarrier.                                                        *)
(***************************************************************************)
EXTENDS CpuSync, FiniteSetTheorems, TLAPS

\* The CPUs that have entered barrier g + 1.
Ahead(g) == {c \in CPUs : Arrived(c) = g + 1}

\* There is at least one CPU, and a set of CPUs has at most NrCPUs members.
LEMMA CardinalityFacts ==
    /\ NrCPUs \in Nat \ {0}
    /\ \A S \in SUBSET CPUs :
          /\ IsFiniteSet(S)
          /\ Cardinality(S) \in 0..NrCPUs
          /\ Cardinality(S) = NrCPUs => S = CPUs
          /\ \A c \in CPUs \ S : Cardinality(S \cup {c}) = Cardinality(S) + 1
<1>1. NrCPUs \in Nat
  BY CPUsAssumption, FS_CardinalityType DEF NrCPUs
<1>2. NrCPUs # 0
  BY CPUsAssumption, FS_EmptySet DEF NrCPUs
<1>3. ASSUME NEW S \in SUBSET CPUs
      PROVE  /\ IsFiniteSet(S)
             /\ Cardinality(S) <= NrCPUs
             /\ Cardinality(S) = NrCPUs => S = CPUs
  BY <1>3, CPUsAssumption, FS_Subset DEF NrCPUs
<1>4. ASSUME NEW S \in SUBSET CPUs
      PROVE  Cardinality(S) \in 0..NrCPUs
  BY <1>1, <1>3, FS_CardinalityType
<1>5. ASSUME NEW S \in SUBSET CPUs, NEW c \in CPUs \ S
      PROVE  Cardinality(S \cup {c}) = Cardinality(S) + 1
  BY <1>3, FS_AddElement
<1>6. QED
  BY <1>1, <1>2, <1>3, <1>4, <1>5

\* The expected count of a CPU that arrives when g rounds are complete and
\* k < N CPUs are ahead is the end of round g + 1.
LEMMA ExpectedRoundsUp ==
    ASSUME NEW N \in Nat \ {0}, NEW g \in Nat, NEW k \in 0..(N - 1)
    PROVE  Expected(g * N + k + 1, N) = (g + 1) * N
<1>1. (g * N + k) \div N = g
  BY SMT
<1>2. g * N \in Nat
  BY SMT
<1>3. (g * N + k + 1) - 1 = g * N + k
  BY <1>2
<1>4. QED
  BY <1>1, <1>3 DEF Expected

\* The initial state satisfies the inductive invariant.
LEMMA InitIInv == Init => IInv
<1> SUFFICES ASSUME Init PROVE IInv
  OBVIOUS
<1>1. TypeOK
  <2>1. ready \in BOOLEAN
    BY DEF Init
  <2>2. /\ n \in Nat /\ count \in Nat
        /\ exp_v \in [CPUs -> Int] /\ passed \in [CPUs -> Nat]
    BY DEF Init
  <2>3. pc \in [CPUs -> {"init", "publish", "out", "wait"}]
    BY DEF Init
  <2>4. QED
    BY <2>1, <2>2, <2>3 DEF TypeOK
<1>2. ASSUME NEW c \in CPUs
      PROVE  (pc[c] \in {"init", "publish"}) <=> (c = Master /\ ~ready)
  BY DEF Init
<1>3. /\ ~ready
      /\ \A c \in CPUs : pc[c] # "wait" /\ passed[c] = 0
      /\ pc[Master] # "publish"
  BY CPUsAssumption DEF Init
<1>4. QED
  BY <1>1, <1>2, <1>3, RoundsAssumption DEF IInv, Arrived

\* Publishing the token starts generation 0.
LEMMA InitStep ==
    ASSUME IInv, NEW c \in CPUs, cpu_sync_init(c)
    PROVE  IInv'
<1> USE CardinalityFacts, CPUsAssumption, RoundsAssumption
<1>1. CASE pc[c] = "init"
  BY <1>1 DEF IInv, TypeOK, cpu_sync_init, Arrived
<1>2. CASE pc[c] = "publish"
  <2>1. c = Master /\ ~ready /\ ready' /\ n' = NrCPUs /\ count' = 0
        /\ UNCHANGED <<passed, exp_v>> /\ pc' = [pc EXCEPT ![c] = "out"]
    BY <1>2 DEF IInv, TypeOK, cpu_sync_init
  <2>2. \A d \in CPUs : Arrived(d)' = 0 /\ passed'[d] = 0 /\ pc'[d] # "wait"
    BY <2>1 DEF IInv, TypeOK, Arrived
  <2>3. Ahead(0)' = {}
    BY <2>2 DEF Ahead
  <2>4. Cardinality(Ahead(0)') = 0
    BY <2>3, FS_EmptySet
  <2>5. Generation(0)'
    BY <2>1, <2>2, <2>4 DEF Generation, Ahead
  <2>6. TypeOK' /\ \A d \in CPUs : Arrived(d)' <= MaxRounds
    BY <2>1, <2>2 DEF IInv, TypeOK
  <2>7. QED
    BY <2>1, <2>2, <2>5, <2>6, <1>2 DEF IInv, TypeOK
<1>3. QED
  BY <1>1, <1>2 DEF cpu_sync_init

\* An arrival stays in its generation: the CPU was not ahead, joins those
\* that are, and waits for the end of round g + 1.
LEMMA ArriveStep ==
    ASSUME IInv, NEW c \in CPUs, cpu_sync_barrier_arrive(c)
    PROVE  IInv'
<1> USE CardinalityFacts, CPUsAssumption, RoundsAssumption
<1>1. PICK g \in 0..MaxRounds : Generation(g)
  BY DEF IInv, cpu_sync_barrier_arrive
<1>2. /\ pc[c] = "out" /\ ready /\ n = NrCPUs
      /\ passed[c] < MaxRounds /\ passed[c] = g /\ Arrived(c) = g
      /\ count' = count + 1 /\ UNCHANGED <<ready, n, passed>>
      /\ pc' = [pc EXCEPT ![c] = "wait"]
      /\ exp_v' = [exp_v EXCEPT ![c] = Expected(count + 1, n)]
  BY <1>1 DEF IInv, TypeOK, Generation, Arrived, cpu_sync_barrier_arrive
<1>3. /\ Arrived(c)' = g + 1
      /\ \A d \in CPUs \ {c} : Arrived(d)' = Arrived(d) /\ pc'[d] = pc[d]
  BY <1>2 DEF IInv, TypeOK, Arrived
<1>4. Ahead(g)' = Ahead(g) \cup {c} /\ c \notin Ahead(g)
  BY <1>2, <1>3 DEF Ahead
<1>5. /\ Cardinality(Ahead(g)) \in 0..(NrCPUs - 1)
      /\ Cardinality(Ahead(g)') = Cardinality(Ahead(g)) + 1
  <2>1. Ahead(g) \in SUBSET CPUs /\ c \in CPUs \ Ahead(g) /\ Ahead(g) # CPUs
    BY <1>4 DEF Ahead
  <2>2. QED
    BY <2>1, <1>4
<1>6. count = g * NrCPUs + Cardinality(Ahead(g))
  BY <1>1 DEF Generation, Ahead
<1>7. Expected(count + 1, n) = (g + 1) * NrCPUs
  BY <1>2, <1>5, <1>6, ExpectedRoundsUp
<1>8. Generation(g)'
  <2>1. \A d \in CPUs : Arrived(d)' \in {g, g + 1} /\ passed'[d] <= g
    BY <1>1, <1>2, <1>3 DEF Generation
  <2>2. count' = g * NrCPUs + Cardinality(Ahead(g)')
    BY <1>2, <1>5, <1>6
  <2>3. ASSUME NEW d \in CPUs, pc'[d] = "wait"
        PROVE  exp_v'[d] = Arrived(d)' * NrCPUs
    <3>1. CASE d = c
      BY <3>1, <1>2, <1>3, <1>7 DEF IInv, TypeOK
    <3>2. CASE d # c
      BY <3>2, <2>3, <1>1, <1>2, <1>3 DEF IInv, TypeOK, Generation
    <3>3. QED
      BY <3>1, <3>2
  <2>4. QED
    BY <2>1, <2>2, <2>3 DEF Generation, Ahead
<1>9. TypeOK'
  <2>1. (g + 1) * NrCPUs \in Int
    OBVIOUS
  <2>2. QED
    BY <1>2, <1>7, <2>1 DEF IInv, TypeOK
<1>10. \A d \in CPUs : Arrived(d)' <= MaxRounds
  BY <1>2, <1>3 DEF IInv
<1>11. QED
  BY <1>2, <1>8, <1>9, <1>10 DEF IInv, TypeOK

\* A departure from barrier g + 1 means that all CPUs are ahead, so that the
\* next generation begins; one from barrier g changes nothing else.
LEMMA LeaveStep ==
    ASSUME IInv, NEW c \in CPUs, cpu_sync_barrier_leave(c)
    PROVE  IInv'
<1> USE CardinalityFacts, CPUsAssumption, RoundsAssumption
<1>1. /\ pc[c] = "wait" /\ count >= exp_v[c]
      /\ passed' = [passed EXCEPT ![c] = @ + 1]
      /\ pc' = [pc EXCEPT ![c] = "out"]
      /\ UNCHANGED <<ready, n, count, exp_v>>
  BY DEF cpu_sync_barrier_leave
<1>2. ready /\ pc[Master] # "publish"
  BY <1>1 DEF IInv
<1>3. PICK g \in 0..MaxRounds : Generation(g)
  BY <1>2 DEF IInv
<1>4. \A d \in CPUs : Arrived(d)' = Arrived(d)
  BY <1>1 DEF IInv, TypeOK, Arrived
<1>5. TypeOK'
  BY <1>1 DEF IInv, TypeOK
<1>6. Arrived(c) = passed[c] + 1 /\ passed'[c] = Arrived(c)
  BY <1>1 DEF IInv, TypeOK, Arrived
<1>7. \A d \in CPUs : pc'[d] = "wait" => d # c /\ pc[d] = "wait"
  BY <1>1 DEF IInv, TypeOK
<1>8. \A h \in Nat : Ahead(h)' = Ahead(h)
  BY <1>4 DEF Ahead
<1>9. \A d \in CPUs : pc'[d] = "wait" => exp_v'[d] = Arrived(d)' * NrCPUs
  BY <1>1, <1>3, <1>4, <1>7 DEF Generation
<1>10. CASE Arrived(c) = g
  <2>1. \A d \in CPUs : Arrived(d)' \in {g, g + 1} /\ passed'[d] <= g
    <3>1. passed'[c] = g /\ \A d \in CPUs \ {c} : passed'[d] = passed[d]
      BY <1>1, <1>6, <1>10 DEF IInv, TypeOK
    <3>2. QED
      BY <3>1, <1>3, <1>4 DEF Generation
  <2>2. count' = g * NrCPUs + Cardinality(Ahead(g)')
    <3>1. count = g * NrCPUs + Cardinality(Ahead(g))
      BY <1>3 DEF Generation, Ahead
    <3>2. g \in Nat
      OBVIOUS
    <3>3. QED
      BY <3>1, <3>2, <1>1, <1>8
  <2>3. Generation(g)'
    BY <2>1, <2>2, <1>9 DEF Generation, Ahead
  <2>4. QED
    BY <2>3, <1>1, <1>2, <1>4, <1>5 DEF IInv, TypeOK
<1>11. CASE Arrived(c) = g + 1
  <2>1. exp_v[c] = (g + 1) * NrCPUs /\ count = g * NrCPUs + Cardinality(Ahead(g))
    BY <1>1, <1>3, <1>11 DEF Generation, Ahead
  <2>2. Ahead(g) \in SUBSET CPUs
    BY DEF Ahead
  <2>3. (g + 1) * NrCPUs = g * NrCPUs + NrCPUs /\ g * NrCPUs \in Nat
    OBVIOUS
  <2>4. Cardinality(Ahead(g)) = NrCPUs
    BY <2>1, <2>2, <2>3, <1>1
  <2>5. Ahead(g) = CPUs
    BY <2>2, <2>4
  <2>6. \A d \in CPUs : Arrived(d)' = g + 1 /\ passed'[d] <= g + 1
    <3>1. \A d \in CPUs : Arrived(d)' = g + 1
      BY <2>5, <1>4 DEF Ahead
    <3>2. \A d \in CPUs : passed'[d] <= g + 1
      BY <1>1, <1>3, <1>6, <1>11 DEF Generation, IInv, TypeOK
    <3>3. QED
      BY <3>1, <3>2
  <2>7. Ahead(g + 1)' = {}
    BY <2>6 DEF Ahead
  <2>8. count' = (g + 1) * NrCPUs + Cardinality(Ahead(g + 1)')
    BY <2>1, <2>3, <2>4, <2>7, <1>1, FS_EmptySet
  <2>9. Generation(g + 1)'
    BY <2>6, <2>8, <1>9 DEF Generation, Ahead
  <2>10. g + 1 \in 0..MaxRounds
    BY <1>11 DEF IInv
  <2>11. QED
    BY <2>9, <2>10, <1>1, <1>2, <1>4, <1>5 DEF IInv, TypeOK
<1>12. QED
  BY <1>3, <1>10, <1>11 DEF Generation

\* IInv is an invariant of the barrier, for every number of CPUs and rounds.
THEOREM InductiveInvariant == Spec => []IInv
<1>1. IInv /\ [Next]_vars => IInv'
  <2> SUFFICES ASSUME IInv, [Next]_vars PROVE IInv'
    OBVIOUS
  <2>1. CASE UNCHANGED vars
    BY <2>1 DEF vars, IInv, TypeOK, Generation, Arrived
  <2>2. ASSUME NEW c \in CPUs, Step(c) PROVE IInv'
    BY <2>2, InitStep, ArriveStep, LeaveStep DEF Step
  <2>3. QED
    BY <2>1, <2>2 DEF Next
<1>2. QED
  BY <1>1, InitIInv, PTL DEF Spec

\* No CPU returns from its k-th cpu_sync_barrier before every CPU has
\* entered its k-th, whatever the number of CPUs.
THEOREM BarrierIsSafe == Spec => []BarrierSafety
<1>1. IInv => BarrierSafety
  <2> SUFFICES ASSUME IInv, NEW c \in CPUs, NEW d \in CPUs
               PROVE  passed[c] <= Arrived(d)
    BY DEF BarrierSafety
  <2>1. CASE ~ready
    BY <2>1 DEF IInv, TypeOK, Arrived
  <2>2. CASE ready
    <3>1. PICK g \in 0..MaxRounds : Generation(g)
      BY <2>2 DEF IInv
    <3>2. passed[c] <= g /\ Arrived(d) \in {g, g + 1} /\ passed[c] \in Nat
      BY <3>1 DEF Generation, IInv, TypeOK
    <3>3. QED
      BY <3>2
  <2>3. QED
    BY <2>1, <2>2
<1>2. QED
  BY <1>1, InductiveInvariant, PTL

\* cpu_sync_barrier implements the abstract barrier: publishing the token is
\* a stutter, the increment an arrival, the end of the loop a departure.
THEOREM BarrierRefinement == Spec => RefinesBarrier
<1> DEFINE arr == [c \in CPUs |-> Arrived(c)]
<1>1. Init => AB!Init
  BY DEF Init, AB!Init, Arrived
<1>2. IInv /\ BarrierSafety' /\ [Next]_vars => [AB!Next]_(AB!vars)
  <2> SUFFICES ASSUME IInv, BarrierSafety', [Next]_vars
               PROVE  [AB!Next]_(AB!vars)
    OBVIOUS
  <2>1. CASE UNCHANGED vars
    BY <2>1 DEF vars, AB!vars, Arrived
  <2>2. ASSUME NEW c \in CPUs, cpu_sync_init(c) PROVE UNCHANGED AB!vars
    BY <2>2 DEF cpu_sync_init, AB!vars, Arrived, IInv, TypeOK
  <2>3. ASSUME NEW c \in CPUs, cpu_sync_barrier_arrive(c) PROVE AB!Arrive(c)
    <3>1. /\ pc[c] = "out" /\ passed[c] < MaxRounds /\ UNCHANGED passed
          /\ Arrived(c) = passed[c] /\ Arrived(c)' = Arrived(c) + 1
          /\ \A d \in CPUs \ {c} : Arrived(d)' = Arrived(d)
      BY <2>3 DEF cpu_sync_barrier_arrive, Arrived, IInv, TypeOK
    <3>2. arr' = [arr EXCEPT ![c] = @ + 1]
      BY <3>1
    <3>3. QED
      BY <3>1, <3>2 DEF AB!Arrive
  <2>4. ASSUME NEW c \in CPUs, cpu_sync_barrier_leave(c) PROVE AB!Leave(c)
    <3>1. /\ pc[c] = "wait" /\ passed' = [passed EXCEPT ![c] = @ + 1]
          /\ \A d \in CPUs : Arrived(d)' = Arrived(d)
      BY <2>4 DEF cpu_sync_barrier_leave, Arrived, IInv, TypeOK
    <3>2. \A d \in CPUs : passed[c] < Arrived(d) /\ Arrived(d) \in Nat
      BY <3>1 DEF BarrierSafety, IInv, TypeOK, Arrived
    <3>3. arr' = arr
      BY <3>1
    <3>4. QED
      BY <3>1, <3>2, <3>3 DEF AB!Leave
  <2>5. QED
    BY <2>1, <2>2, <2>3, <2>4 DEF Next, Step, AB!Next
<1>3. QED
  BY <1>1, <1>2, InductiveInvariant, BarrierIsSafe, PTL
  DEF Spec, RefinesBarrier, AB!Spec
==============================================================================
