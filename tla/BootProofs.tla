------------------------------ MODULE BootProofs ------------------------------
(***************************************************************************)
(* Proofs about Boot, for any number of CPUs, any machines, any numbers of *)
(* vcpus and any interrupts.  First that the barriers keep the CPUs of a   *)
(* machine together: no CPU leaves a barrier that another CPU of its       *)
(* machine has not entered.  Then what rests on it: a machine runs only    *)
(* when it is complete and has its interrupts, and a machine that runs is  *)
(* listed unless the list was reset.                                       *)
(***************************************************************************)
EXTENDS Boot, FiniteSetTheorems, TLAPS

\* The control points, by the number of barriers of vm->sync that a CPU has
\* entered on the way there.
Unassigned == {"list_init", "assign", "idle"}
Round0 == {"alloc", "vm_init", "fault", "master_init", "cpu_init", "barrier1"}
Round1 == {"wait1", "vcpu_init", "barrier2"}
Round2 == {"wait2", "barrier3"}
Round3 == {"wait3", "clear_add"}
Round4 == {"clear_read", "clear_wait", "barrier4"}
Round5 == {"wait4", "dev", "irq_set", "irq_store", "error", "barrier5"}
Round6 == {"wait5", "list_node", "list_add", "barrier6"}
Round7 == {"wait6", "run"}
Points == Unassigned \cup Round0 \cup Round1 \cup Round2 \cup Round3
          \cup Round4 \cup Round5 \cup Round6 \cup Round7

\* The barriers entered at control point p, and those left.
Entered(p) ==
    IF p \in Round1 THEN 1 ELSE IF p \in Round2 THEN 2
    ELSE IF p \in Round3 THEN 3 ELSE IF p \in Round4 THEN 4
    ELSE IF p \in Round5 THEN 5 ELSE IF p \in Round6 THEN 6
    ELSE IF p \in Round7 THEN 7 ELSE 0

Waiting == {"wait1", "wait2", "wait3", "clear_wait", "wait4", "wait5", "wait6"}

Left(p) == IF p \in Waiting \cup {"clear_read"} THEN Entered(p) - 1 ELSE Entered(p)

Addrs == VMs \cup {ListHead}
AnyIrq == UNION {{Irqs[v][k] : k \in Nat} : v \in VMs}

TypeInv ==
    /\ pc \in [CPUs -> Points]
    /\ vm \in [CPUs -> VMs \cup {-1}]
    /\ master \in [CPUs -> BOOLEAN]
    /\ id \in [CPUs -> Int] /\ idx \in [CPUs -> Nat] /\ exp_v \in [CPUs -> Nat]
    /\ sync \in [VMs -> [ready : BOOLEAN, count : Nat]]
    /\ assign \in [VMs -> [master : BOOLEAN, ncpus : Nat]]
    /\ allocated \in SUBSET VMs
    /\ cpus \in [VMs -> SUBSET CPUs]
    /\ nxt \in [Addrs -> Addrs \cup {-1}]
    /\ irqs \in [VMs -> SUBSET AnyIrq] /\ global \in SUBSET AnyIrq
    /\ word \in [CPUs -> SUBSET AnyIrq]
    /\ relinked \in BOOLEAN
    /\ \A c \in CPUs : /\ vm[c] = -1 <=> pc[c] \in Unassigned
                       /\ pc[c] \in {"list_init", "assign"} => idx[c] <= NrVMs

\* The CPUs of machine v.
Mine(v) == {c \in CPUs : vm[c] = v}

\* vm_assign counts the CPUs of a machine, and the first is its master.
AssignInv ==
    \A v \in VMs :
        /\ assign[v].ncpus = Cardinality(Mine(v)) /\ assign[v].ncpus <= NrVcpus[v]
        /\ IF assign[v].master THEN \E c \in Mine(v) : master[c] ELSE Mine(v) = {}
        /\ \A c, d \in Mine(v) : master[c] /\ master[d] => c = d

\* The token of a machine is made ready once, by its master, before anyone
\* has entered a barrier.
ReadyInv ==
    /\ \A v \in VMs : ~sync[v].ready =>
          sync[v].count = 0 /\ \A c \in Mine(v) : Entered(pc[c]) = 0
    /\ \A v \in VMs : sync[v].ready => assign[v].master
    /\ \A c \in CPUs : pc[c] \in {"master_init", "irq_set", "irq_store", "error"} => master[c]
    /\ \A c \in CPUs : /\ vm[c] \in VMs /\ master[c]
                       /\ pc[c] \in {"alloc", "vm_init", "master_init"}
                       => ~sync[vm[c]].ready

\* The CPUs of machine v in round g + 1.
Ahead(v, g) == {c \in Mine(v) : Entered(pc[c]) = g + 1}

\* All CPUs of v have entered g or g + 1 barriers, the counter says how many.
Generation(v, g) ==
    /\ \A c \in Mine(v) : Entered(pc[c]) \in {g, g + 1}
    /\ sync[v].count = g * NrVcpus[v] + Cardinality(Ahead(v, g))
    /\ g > 0 => Cardinality(Mine(v)) = NrVcpus[v]

GenInv == \A v \in VMs : \E g \in 0..7 : Generation(v, g)

\* A CPU waits for the end of its round at least, and has left a barrier only
\* when the counter was there.
PassInv ==
    \A c \in CPUs : vm[c] \in VMs =>
        /\ pc[c] \in Waiting => exp_v[c] >= Entered(pc[c]) * NrVcpus[vm[c]]
        /\ sync[vm[c]].count >= Left(pc[c]) * NrVcpus[vm[c]]

\* The barriers of every machine are in step with its CPUs.
SyncInv == TypeInv /\ AssignInv /\ ReadyInv /\ GenInv /\ PassInv

-----------------------------------------------------------------------------

\* Multiplication by the size of a machine: what the proofs need of it.
LEMMA Times ==
    ASSUME NEW N \in Nat
    PROVE  /\ \A a \in Nat : a * N \in Nat /\ (a + 1) * N = a * N + N
           /\ \A a, b \in Nat : a <= b => a * N <= b * N
<1>1. ASSUME NEW a \in Nat
      PROVE  a * N \in Nat /\ (a + 1) * N = a * N + N
  OBVIOUS
<1>2. ASSUME NEW a \in Nat, NEW b \in Nat, a <= b
      PROVE  a * N <= b * N
  <2>1. PICK k \in Nat : b = a + k
    BY <1>2, SMTT(30)
  <2>2. k * N \in Nat /\ a * N \in Nat /\ b * N = a * N + k * N
    BY <2>1
  <2>3. QED
    BY <2>2
<1>3. QED
  BY <1>1, <1>2, Zenon

\* The end of a round is a count.
LEMMA RoundEndNat ==
    ASSUME NEW n \in Nat \ {0}, NEW k \in Nat
    PROVE  RoundEnd(k, n) \in Nat
<1>1. k + n - 1 \in Nat
  OBVIOUS
<1>2. (k + n - 1) \div n \in Nat
  BY <1>1
<1>3. QED
  BY <1>2, Times, Zenon DEF RoundEnd

\* An arrival after the first m rounds belongs to a round that ends at
\* (m + 1) * n or later.
LEMMA RoundEndBound ==
    ASSUME NEW n \in Nat \ {0}, NEW m \in Nat, NEW k \in Nat, k > m * n
    PROVE  RoundEnd(k, n) \in Nat /\ RoundEnd(k, n) >= (m + 1) * n
<1> DEFINE q == (k + n - 1) \div n
<1>1. m * n \in Nat /\ (m + 1) * n = m * n + n
  BY Times, Zenon
<1>2. k + n - 1 >= (m + 1) * n
  BY <1>1
<1>3. q \in Nat /\ k + n - 1 < (q + 1) * n
  OBVIOUS
<1> HIDE DEF q
<1>4. q >= m + 1
  <2>1. SUFFICES ASSUME q + 1 <= m + 1 PROVE FALSE
    BY <1>3
  <2>2. (q + 1) * n <= (m + 1) * n
    BY <2>1, <1>3, Times
  <2>3. (q + 1) * n \in Nat /\ (m + 1) * n \in Nat
    BY <1>3, <1>1
  <2>4. QED
    BY <2>2, <2>3, <1>2, <1>3, SMTT(30)
<1>5. q * n \in Nat /\ q * n >= (m + 1) * n
  BY <1>3, <1>4, Times, SMTT(30)
<1>6. QED
  BY <1>5, Zenon DEF RoundEnd, q

\* Sets of CPUs are finite.
LEMMA CPUSets ==
    ASSUME NEW S \in SUBSET CPUs
    PROVE  /\ IsFiniteSet(S) /\ Cardinality(S) \in Nat
           /\ \A T \in SUBSET S : /\ Cardinality(T) <= Cardinality(S)
                                  /\ Cardinality(T) = Cardinality(S) => T = S
           /\ \A c \in CPUs \ S : Cardinality(S \cup {c}) = Cardinality(S) + 1
<1>1. IsFiniteSet(CPUs)
  BY BootAssumption, FS_Interval DEF CPUs
<1>2. IsFiniteSet(S) /\ Cardinality(S) \in Nat
  BY <1>1, FS_Subset, FS_CardinalityType, Zenon
<1>3. QED
  BY <1>2, FS_Subset, FS_AddElement, Zenon

-----------------------------------------------------------------------------

\* What a control point says of the barriers.
LEMMA PointFacts ==
    /\ \A p \in Points : Entered(p) \in 0..7 /\ Left(p) \in 0..7 /\ Left(p) <= Entered(p)
    /\ \A p \in DOMAIN Wait :
          /\ Left(p) = Entered(p) /\ Wait[p] \in Waiting
          /\ Entered(Wait[p]) = Entered(p) + 1 /\ Left(Wait[p]) = Entered(p)
    /\ \A p \in DOMAIN After :
          /\ p \in Waiting
          /\ Entered(After[p]) = Entered(p) /\ Left(After[p]) = Entered(p)
          /\ After[p] \notin Waiting \cup Unassigned
    /\ \A p \in DOMAIN Wait : Wait[p] \in DOMAIN After
<1> USE DEF Entered, Left, Waiting, Round0, Round1, Round2, Round3, Round4, Round5,
            Round6, Round7, Unassigned
<1>1. \A p \in Points : Entered(p) \in 0..7 /\ Left(p) \in 0..7 /\ Left(p) <= Entered(p)
  BY DEF Points
<1>2. ASSUME NEW p \in DOMAIN Wait
      PROVE  /\ Left(p) = Entered(p) /\ Wait[p] \in Waiting
             /\ Entered(Wait[p]) = Entered(p) + 1 /\ Left(Wait[p]) = Entered(p)
             /\ Wait[p] \in DOMAIN After
  BY SMTT(30) DEF Wait, After
<1>3. ASSUME NEW p \in DOMAIN After
      PROVE  /\ p \in Waiting
             /\ Entered(After[p]) = Entered(p) /\ Left(After[p]) = Entered(p)
             /\ After[p] \notin Waiting \cup Unassigned
  BY SMTT(30) DEF After
<1>4. QED
  BY <1>1, <1>2, <1>3, ZenonT(30)

\* The waits inside of the barriers one by one, and where they lead.
LEMMA AfterWait ==
    ASSUME NEW p \in DOMAIN After
    PROVE  \/ p = "wait1" /\ After[p] = "vcpu_init"
           \/ p = "wait2" /\ After[p] = "barrier3"
           \/ p = "wait3" /\ After[p] = "clear_add"
           \/ p = "wait4" /\ After[p] = "dev"
           \/ p = "wait5" /\ After[p] = "list_node"
           \/ p = "wait6" /\ After[p] = "run"
<1>1. p \in {"wait1", "wait2", "wait3", "wait4", "wait5", "wait6"}
  BY Zenon DEF After
<1>2. /\ After["wait1"] = "vcpu_init" /\ After["wait2"] = "barrier3"
      /\ After["wait3"] = "clear_add" /\ After["wait4"] = "dev"
      /\ After["wait5"] = "list_node" /\ After["wait6"] = "run"
  BY Zenon DEF After
<1>3. QED
  BY <1>1, <1>2, Zenon

\* The barriers one by one, with the wait inside of each and where it leads.
LEMMA WaitAfter ==
    ASSUME NEW p \in DOMAIN Wait
    PROVE  \/ p = "barrier1" /\ Wait[p] = "wait1" /\ After[Wait[p]] = "vcpu_init"
           \/ p = "barrier2" /\ Wait[p] = "wait2" /\ After[Wait[p]] = "barrier3"
           \/ p = "barrier3" /\ Wait[p] = "wait3" /\ After[Wait[p]] = "clear_add"
           \/ p = "barrier4" /\ Wait[p] = "wait4" /\ After[Wait[p]] = "dev"
           \/ p = "barrier5" /\ Wait[p] = "wait5" /\ After[Wait[p]] = "list_node"
           \/ p = "barrier6" /\ Wait[p] = "wait6" /\ After[Wait[p]] = "run"
<1>1. p \in {"barrier1", "barrier2", "barrier3", "barrier4", "barrier5", "barrier6"}
  BY Zenon DEF Wait
<1>2. /\ Wait["barrier1"] = "wait1" /\ Wait["barrier2"] = "wait2" /\ Wait["barrier3"] = "wait3"
      /\ Wait["barrier4"] = "wait4" /\ Wait["barrier5"] = "wait5" /\ Wait["barrier6"] = "wait6"
  BY Zenon DEF Wait
<1>3. /\ After["wait1"] = "vcpu_init" /\ After["wait2"] = "barrier3"
      /\ After["wait3"] = "clear_add" /\ After["wait4"] = "dev"
      /\ After["wait5"] = "list_node" /\ After["wait6"] = "run"
  BY Zenon DEF After
<1>4. QED
  BY <1>1, <1>2, <1>3, ZenonT(30)

\* The initial state.
LEMMA InitSync == Init => SyncInv
<1> SUFFICES ASSUME Init PROVE SyncInv
  OBVIOUS
<1>1. TypeInv
  <2>1. -1 \notin VMs /\ ListHead \notin VMs
    BY BootAssumption, SMTT(30) DEF VMs, ListHead
  <2>2. /\ pc \in [CPUs -> Points] /\ vm \in [CPUs -> VMs \cup {-1}]
        /\ \A c \in CPUs : vm[c] = -1 /\ pc[c] = "list_init" /\ idx[c] <= NrVMs
    BY BootAssumption DEF Init, Points, Unassigned
  <2>7. master \in [CPUs -> BOOLEAN] /\ relinked \in BOOLEAN
    BY Zenon DEF Init
  <2>3. /\ id \in [CPUs -> Int] /\ idx \in [CPUs -> Nat] /\ exp_v \in [CPUs -> Nat]
    BY DEF Init
  <2>4. /\ sync \in [VMs -> [ready : BOOLEAN, count : Nat]]
        /\ assign \in [VMs -> [master : BOOLEAN, ncpus : Nat]]
    BY Zenon DEF Init
  <2>5. /\ allocated \in SUBSET VMs /\ cpus \in [VMs -> SUBSET CPUs]
        /\ nxt \in [Addrs -> Addrs \cup {-1}]
        /\ irqs \in [VMs -> SUBSET AnyIrq] /\ global \in SUBSET AnyIrq
        /\ word \in [CPUs -> SUBSET AnyIrq]
    BY Zenon DEF Init, Addrs
  <2>6. QED
    BY <2>2, <2>3, <2>4, <2>5, <2>7, Zenon DEF TypeInv, Unassigned
<1>2. \A v \in VMs : Mine(v) = {}
  BY BootAssumption, SMTT(30) DEF Init, Mine, VMs
<1>3. AssignInv
  <2>1. ASSUME NEW v \in VMs
        PROVE  ~assign[v].master /\ assign[v].ncpus = 0 /\ NrVcpus[v] \in Nat
    BY BootAssumption, Zenon DEF Init
  <2>2. QED
    BY <1>2, <2>1, FS_EmptySet, SMTT(30) DEF AssignInv
<1>4. \A c \in CPUs : vm[c] \notin VMs /\ pc[c] = "list_init"
  BY BootAssumption DEF Init, VMs
<1>5. ReadyInv
  <2>1. \A v \in VMs : ~sync[v].ready /\ sync[v].count = 0
    BY Zenon DEF Init
  <2>2. QED
    BY <1>2, <1>4, <2>1, Zenon DEF ReadyInv
<1>6. ASSUME NEW v \in VMs PROVE Generation(v, 0)
  <2>1. Ahead(v, 0) = {}
    BY <1>2, Zenon DEF Ahead
  <2>2. 0 * NrVcpus[v] = 0
    BY BootAssumption
  <2>3. sync[v].count = 0
    BY Zenon DEF Init
  <2>4. QED
    BY <1>2, <2>1, <2>2, <2>3, FS_EmptySet, SMTT(30) DEF Generation
<1>7. GenInv
  BY <1>6 DEF GenInv
<1>8. PassInv
  BY <1>4, Zenon DEF Init, PassInv
<1>9. QED
  BY <1>1, <1>3, <1>5, <1>7, <1>8, Zenon DEF SyncInv

-----------------------------------------------------------------------------

\* What is left of a step of c for the other CPUs: nothing.
OthersKept(c) ==
    \A d \in CPUs \ {c} :
        /\ pc'[d] = pc[d] /\ vm'[d] = vm[d] /\ master'[d] = master[d]
        /\ id'[d] = id[d] /\ idx'[d] = idx[d] /\ exp_v'[d] = exp_v[d]
        /\ word'[d] = word[d]

\* The control points and the machine of a CPU.
LEMMA PointTyped ==
    ASSUME TypeInv, NEW c \in CPUs
    PROVE  /\ pc[c] \in Points
           /\ vm[c] \in VMs <=> pc[c] \notin Unassigned
           /\ vm[c] \notin VMs => vm[c] = -1
           /\ vm[c] \in VMs => NrVcpus[vm[c]] \in Nat \ {0}
  BY BootAssumption, SMTT(30) DEF TypeInv, VMs

\* A step of a CPU changes only that CPU's variables, and keeps the types.
LEMMA TypeStep ==
    ASSUME TypeInv, NEW c \in CPUs, Step(c)
    PROVE  TypeInv' /\ OthersKept(c)
<1> USE PointTyped DEF TypeInv, OthersKept, Goto, cpuvars, listvars, irqvars,
        Points, Unassigned, Round0, Round1, Round2, Round3, Round4, Round5, Round6, Round7
<1>1. CASE vm_list_init(c)
  <2>1. relinked' \in BOOLEAN
    BY <1>1, Zenon DEF vm_list_init
  <2>2. ListHead \in Addrs
    BY Zenon DEF Addrs
  <2>3. QED
    BY <1>1, <2>1, <2>2, BootAssumption, Zenon DEF vm_list_init
<1>2. CASE vmm_assign_vcpu(c)
  <2> DEFINE i == idx[c]
  <2>0. UNCHANGED <<exp_v, sync, allocated, cpus, nxt, relinked, global, irqs, word>>
    BY <1>2, Zenon DEF vmm_assign_vcpu
  <2> ~(NrVMs < NrVMs)
    BY BootAssumption
  <2>1. CASE i = NrVMs
    <3>1. pc' = [pc EXCEPT ![c] = "idle"] /\ UNCHANGED <<assign, vm, master, id, idx>>
      BY <1>2, <2>1, ZenonT(30) DEF vmm_assign_vcpu
    <3>2. vm[c] = -1
      BY <1>2, Zenon DEF vmm_assign_vcpu
    <3>3. QED
      BY <2>0, <3>1, <3>2, ZenonT(30)
  <2>2. CASE i < NrVMs /\ ~HasRoom(i)
    <3>1. idx' = [idx EXCEPT ![c] = i + 1] /\ UNCHANGED <<pc, assign, vm, master, id>>
      BY <1>2, <2>2, ZenonT(30) DEF vmm_assign_vcpu
    <3>2. i + 1 \in Nat /\ i + 1 <= NrVMs
      BY <2>2, BootAssumption, SMTT(30)
    <3>3. QED
      BY <2>0, <3>1, <3>2, ZenonT(30)
  <2>3. CASE i < NrVMs /\ HasRoom(i)
    <3>1. i \in VMs
      BY <1>2, <2>3, BootAssumption, SMTT(30) DEF VMs, vmm_assign_vcpu
    <3>2. /\ assign' = [assign EXCEPT ![i] = [master |-> TRUE, ncpus |-> assign[i].ncpus + 1]]
          /\ vm' = [vm EXCEPT ![c] = i]
          /\ master' = [master EXCEPT ![c] = ~assign[i].master]
          /\ idx' = [idx EXCEPT ![c] = 0]
          /\ pc' = [pc EXCEPT ![c] = "alloc"]
          /\ UNCHANGED <<id, exp_v, sync, allocated, cpus, nxt, relinked, global, irqs, word>>
      BY <1>2, <2>3, ZenonT(30) DEF vmm_assign_vcpu
    <3>3. assign' \in [VMs -> [master : BOOLEAN, ncpus : Nat]]
      BY <3>1, <3>2
    <3>4. master' \in [CPUs -> BOOLEAN] /\ \A d \in CPUs \ {c} : master'[d] = master[d]
      <4>1. (~assign[i].master) \in BOOLEAN
        BY Zenon
      <4> DEFINE b == ~assign[i].master
      <4> HIDE DEF b
      <4>2. master' = [master EXCEPT ![c] = b] /\ b \in BOOLEAN
        BY <3>2, <4>1, Zenon DEF b
      <4>3. QED
        BY <4>2, Zenon
    <3>5. i # -1
      BY <3>1, BootAssumption, SMTT(30) DEF VMs
    <3>6. QED
      BY <3>1, <3>2, <3>3, <3>4, <3>5, SMTT(30)
  <2>4. QED
    BY <1>2, <2>1, <2>2, <2>3, Zenon DEF vmm_assign_vcpu
<1>3. CASE vmm_alloc_install_vm(c)
  BY <1>3, SMTT(30) DEF vmm_alloc_install_vm
<1>4. CASE vm_allocation_init(c)
  BY <1>4, ZenonT(30) DEF vm_allocation_init
<1>5. CASE vm_master_init(c)
  BY <1>5, Zenon DEF vm_master_init
<1>6. CASE vm_cpu_init(c)
  BY <1>6, ZenonT(30) DEF vm_cpu_init
<1>7. CASE barrier_arrive(c)
  <2> DEFINE v == vm[c]
             n == sync[v].count + 1
             end == RoundEnd(n, NrVcpus[v])
             p == IF n < end THEN Wait[pc[c]] ELSE After[Wait[pc[c]]]
  <2>1. pc[c] \in DOMAIN Wait /\ v \in VMs
    BY <1>7, Zenon DEF barrier_arrive, Wait
  <2>2. n \in Nat /\ NrVcpus[v] \in Nat \ {0}
    BY <2>1
  <2>3. end \in Nat
    BY <2>2, RoundEndNat, Zenon
  <2>4. p \in Points \ Unassigned
    BY <2>1, SMTT(30) DEF Wait, After
  <2>5. /\ sync' = [sync EXCEPT ![v].count = n]
        /\ exp_v' = [exp_v EXCEPT ![c] = end]
        /\ pc' = [pc EXCEPT ![c] = p]
        /\ UNCHANGED <<vm, master, id, idx, assign, allocated, cpus, nxt, relinked,
                       global, irqs, word>>
    BY <1>7, Zenon DEF barrier_arrive
  <2> HIDE DEF n, end, p
  <2>6. sync' \in [VMs -> [ready : BOOLEAN, count : Nat]]
    BY <2>1, <2>2, <2>5, SMTT(30) DEF n
  <2>7. QED
    BY <2>1, <2>3, <2>4, <2>5, <2>6, ZenonT(30)
<1>8. CASE barrier_leave(c)
  BY <1>8, SMTT(30) DEF barrier_leave, After
<1>9. CASE vm_vcpu_init(c)
  <2>1. vm[c] \in VMs
    BY <1>9, Zenon DEF vm_vcpu_init
  <2>2. Cardinality({d \in cpus[vm[c]] : d < c}) \in Int
    BY <2>1, CPUSets
  <2>3. QED
    BY <1>9, <2>2, ZenonT(30) DEF vm_vcpu_init
<1>10. CASE clear_add(c)
  <2>1. vm[c] \in VMs
    BY <1>10, Zenon DEF clear_add
  <2>2. sync' \in [VMs -> [ready : BOOLEAN, count : Nat]]
    BY <1>10, <2>1, SMTT(30) DEF clear_add
  <2>3. QED
    BY <1>10, <2>2, ZenonT(30) DEF clear_add
<1>11. CASE clear_read(c)
  <2>1. vm[c] \in VMs
    BY <1>11, Zenon DEF clear_read
  <2>2. RoundEnd(sync[vm[c]].count, NrVcpus[vm[c]]) \in Nat
    BY <2>1, RoundEndNat, Zenon
  <2>3. QED
    BY <1>11, <2>2, ZenonT(30) DEF clear_read
<1>12. CASE clear_wait(c)
  BY <1>12, Zenon DEF clear_wait
<1>13. CASE interrupts_check(c)
  <2> DEFINE more == master[c] /\ idx[c] + 1 <= Len(Irqs[vm[c]])
  <2>0. UNCHANGED <<vm, master, id, exp_v, sync, assign, allocated, cpus, nxt, relinked,
                    global, irqs, word>>
    BY <1>13, Zenon DEF interrupts_check
  <2>1. CASE ~more
    <3>1. pc' = [pc EXCEPT ![c] = "barrier5"] /\ idx' = idx /\ pc[c] = "dev"
      BY <1>13, <2>1, Zenon DEF interrupts_check
    <3>2. QED
      BY <2>0, <3>1, Zenon
  <2>2. CASE more
    <3>1. PICK p \in {"error", "irq_set"} : pc' = [pc EXCEPT ![c] = p]
      BY <1>13, <2>2, ZenonT(30) DEF interrupts_check
    <3>2. idx' = [idx EXCEPT ![c] = idx[c] + 1] /\ pc[c] = "dev"
      BY <1>13, <2>2, ZenonT(30) DEF interrupts_check
    <3>3. QED
      BY <2>0, <3>1, <3>2, SMTT(30)
  <2>3. QED
    BY <2>1, <2>2, Zenon
<1>14. CASE interrupts_set(c)
  <2>1. vm[c] \in VMs
    BY <1>14, Zenon DEF interrupts_set
  <2>2. Asked(c) \in AnyIrq
    BY <2>1 DEF AnyIrq, Asked
  <2>3. irqs' \in [VMs -> SUBSET AnyIrq]
    BY <1>14, <2>1, <2>2, SMTT(30) DEF interrupts_set
  <2>4. word' \in [CPUs -> SUBSET AnyIrq] /\ \A d \in CPUs \ {c} : word'[d] = word[d]
    BY <1>14, Zenon DEF interrupts_set
  <2>5. QED
    BY <1>14, <2>3, <2>4, ZenonT(30) DEF interrupts_set
<1>18. CASE interrupts_store(c)
  <2>1. vm[c] \in VMs
    BY <1>18, Zenon DEF interrupts_store
  <2>2. Asked(c) \in AnyIrq
    BY <2>1 DEF AnyIrq, Asked
  <2>3. global' \in SUBSET AnyIrq
    BY <1>18, <2>2, Zenon DEF interrupts_store
  <2>4. QED
    BY <1>18, <2>3, ZenonT(30) DEF interrupts_store
<1>15. CASE init_list_node(c)
  BY <1>15, Zenon DEF init_list_node, Addrs
<1>16. CASE list_add(c)
  BY <1>16, ZenonT(30) DEF list_add, Addrs
<1>17. QED
  BY <1>1, <1>2, <1>3, <1>4, <1>5, <1>6, <1>7, <1>8, <1>9, <1>10, <1>11, <1>12,
     <1>13, <1>14, <1>15, <1>16, <1>18, Zenon DEF Step

\* What a step does to the state the barriers depend on.  Most steps move c
\* between two control points of one round.
Quiet(c) ==
    /\ UNCHANGED <<vm, master, assign, sync>>
    /\ Entered(pc'[c]) = Entered(pc[c])

\* c enters the next barrier of its machine.
Arrives(c) ==
    /\ UNCHANGED <<vm, master, assign>>
    /\ vm[c] \in VMs /\ sync[vm[c]].ready
    /\ sync' = [sync EXCEPT ![vm[c]].count = @ + 1]
    /\ Left(pc[c]) = Entered(pc[c])
    /\ Entered(pc'[c]) = Entered(pc[c]) + 1

\* c joins machine i.
Joins(c, i) ==
    /\ i \in VMs /\ assign[i].ncpus < NrVcpus[i]
    /\ pc[c] = "assign" /\ vm[c] = -1
    /\ assign' = [assign EXCEPT ![i] = [master |-> TRUE, ncpus |-> assign[i].ncpus + 1]]
    /\ vm' = [vm EXCEPT ![c] = i]
    /\ master' = [master EXCEPT ![c] = ~assign[i].master]
    /\ idx' = [idx EXCEPT ![c] = 0]
    /\ pc' = [pc EXCEPT ![c] = "alloc"]
    /\ UNCHANGED <<id, exp_v, sync, allocated, cpus, nxt, relinked, global, irqs>>

\* Every step is of one of these kinds, or makes the token ready.
LEMMA StepKinds ==
    ASSUME TypeInv, ReadyInv, NEW c \in CPUs, Step(c)
    PROVE  Quiet(c) \/ Arrives(c) \/ vm_master_init(c) \/ \E i \in VMs : Joins(c, i)
<1> USE PointTyped DEF TypeInv, Goto, cpuvars, listvars, irqvars, Quiet, Entered, Left,
        Waiting, Points, Unassigned, Round0, Round1, Round2, Round3, Round4, Round5, Round6,
        Round7
<1>1. CASE vm_list_init(c)
  BY <1>1, Zenon DEF vm_list_init
<1>2. CASE vmm_assign_vcpu(c)
  <2> DEFINE i == idx[c]
  <2>1. CASE i = NrVMs \/ (i < NrVMs /\ ~HasRoom(i))
    <3>1. (pc'[c] = "idle" \/ pc'[c] = "assign") /\ UNCHANGED <<vm, master, assign, sync>>
      BY <1>2, <2>1, BootAssumption DEF vmm_assign_vcpu
    <3>2. pc[c] = "assign"
      BY <1>2, Zenon DEF vmm_assign_vcpu
    <3>3. QED
      BY <3>1, <3>2, Zenon
  <2>2. CASE i < NrVMs /\ HasRoom(i)
    <3>1. i \in VMs
      BY <1>2, <2>2, BootAssumption, SMTT(30) DEF VMs, vmm_assign_vcpu
    <3>2. pc[c] = "assign" /\ vm[c] = -1 /\ assign[i].ncpus < NrVcpus[i]
      BY <1>2, <2>2, Zenon DEF vmm_assign_vcpu, HasRoom
    <3>3. Joins(c, i)
      BY <1>2, <2>2, <3>1, <3>2, BootAssumption, SMTT(30) DEF vmm_assign_vcpu, Joins
    <3>4. QED
      BY <3>1, <3>3, ZenonT(30)
  <2>3. QED
    BY <1>2, <2>1, <2>2, Zenon DEF vmm_assign_vcpu
<1>3. CASE vmm_alloc_install_vm(c)
  BY <1>3, Zenon DEF vmm_alloc_install_vm
<1>4. CASE vm_allocation_init(c)
  BY <1>4, Zenon DEF vm_allocation_init
<1>5. CASE vm_cpu_init(c)
  BY <1>5, Zenon DEF vm_cpu_init
<1>6. CASE barrier_arrive(c)
  <2> DEFINE v == vm[c]
             n == sync[v].count + 1
             end == RoundEnd(n, NrVcpus[v])
  <2>1. pc[c] \in DOMAIN Wait /\ v \in VMs /\ sync[v].ready
    BY <1>6, Zenon DEF barrier_arrive, Wait
  <2>2. sync' = [sync EXCEPT ![v].count = @ + 1]
    BY <1>6, Zenon DEF barrier_arrive
  <2>3. pc'[c] = Wait[pc[c]] \/ pc'[c] = After[Wait[pc[c]]]
    BY <1>6, <2>1, ZenonT(30) DEF barrier_arrive
  <2>4. Entered(pc'[c]) = Entered(pc[c]) + 1 /\ Left(pc[c]) = Entered(pc[c])
    <3> HIDE DEF Entered, Left
    <3>1. QED
      BY <2>1, <2>3, PointFacts
  <2>5. UNCHANGED <<vm, master, assign>>
    BY <1>6, ZenonT(30) DEF barrier_arrive
  <2>6. QED
    BY <2>1, <2>2, <2>4, <2>5, Zenon DEF Arrives
<1>7. CASE barrier_leave(c)
  <2>1. pc[c] \in DOMAIN After /\ pc'[c] = After[pc[c]] /\ UNCHANGED <<vm, master, assign, sync>>
    BY <1>7, Zenon DEF barrier_leave
  <2> HIDE DEF Entered
  <2>2. QED
    BY <2>1, PointFacts, SMTT(30)
<1>8. CASE vm_vcpu_init(c)
  BY <1>8, Zenon DEF vm_vcpu_init
<1>9. CASE clear_add(c)
  <2>1. vm[c] \in VMs /\ pc[c] = "clear_add" /\ pc'[c] = "clear_read"
    BY <1>9, Zenon DEF clear_add
  <2>2. sync[vm[c]].ready
    <3>1. c \in Mine(vm[c]) /\ Entered(pc[c]) = 3
      BY <2>1, Zenon DEF Mine
    <3>2. QED
      BY <2>1, <3>1, SMTT(30) DEF ReadyInv
  <2>3. sync' = [sync EXCEPT ![vm[c]].count = @ + 1] /\ UNCHANGED <<vm, master, assign>>
    BY <1>9, Zenon DEF clear_add
  <2>4. QED
    BY <2>1, <2>2, <2>3, SMTT(30) DEF Arrives
<1>10. CASE clear_read(c)
  BY <1>10, Zenon DEF clear_read
<1>11. CASE clear_wait(c)
  BY <1>11, Zenon DEF clear_wait
<1>12. CASE interrupts_check(c)
  <2>1. pc'[c] \in {"barrier5", "error", "irq_set"} /\ pc[c] = "dev"
    BY <1>12, SMTT(30) DEF interrupts_check
  <2>2. UNCHANGED <<vm, master, assign, sync>>
    BY <1>12, Zenon DEF interrupts_check
  <2>3. QED
    BY <2>1, <2>2, ZenonT(30)
<1>13. CASE interrupts_set(c) \/ interrupts_store(c)
  BY <1>13, ZenonT(30) DEF interrupts_set, interrupts_store
<1>14. CASE init_list_node(c)
  BY <1>14, Zenon DEF init_list_node
<1>15. CASE list_add(c)
  BY <1>15, ZenonT(30) DEF list_add
<1>16. QED
  BY <1>1, <1>2, <1>3, <1>4, <1>5, <1>6, <1>7, <1>8, <1>9, <1>10, <1>11, <1>12,
     <1>13, <1>14, <1>15, Zenon DEF Step

-----------------------------------------------------------------------------

\* Once a CPU of a machine has left its r-th barrier, the machine has all its
\* CPUs and each of them has entered that barrier.
LEMMA Complete ==
    ASSUME TypeInv, AssignInv, GenInv, PassInv, NEW c \in CPUs, vm[c] \in VMs,
           Left(pc[c]) > 0
    PROVE  /\ Cardinality(Mine(vm[c])) = NrVcpus[vm[c]]
           /\ \A d \in Mine(vm[c]) : Entered(pc[d]) >= Left(pc[c])
<1> DEFINE v == vm[c]
           N == NrVcpus[v]
           r == Left(pc[c])
<1>1. PICK g \in 0..7 : Generation(v, g)
  BY Zenon DEF GenInv
<1>2. /\ Mine(v) \in SUBSET CPUs /\ Ahead(v, g) \in SUBSET Mine(v)
      /\ Ahead(v, g) \in SUBSET CPUs
  BY Zenon DEF Mine, Ahead
<1>3. /\ Cardinality(Mine(v)) \in Nat /\ Cardinality(Ahead(v, g)) \in Nat
      /\ Cardinality(Ahead(v, g)) <= Cardinality(Mine(v))
      /\ Cardinality(Ahead(v, g)) = Cardinality(Mine(v)) => Ahead(v, g) = Mine(v)
  BY <1>2, CPUSets, Zenon
<1>4. Cardinality(Mine(v)) <= N
  BY Zenon DEF AssignInv
<1>5. sync[v].count = g * N + Cardinality(Ahead(v, g)) /\ sync[v].count >= r * N
  BY <1>1, Zenon DEF Generation, PassInv
<1>6. N \in Nat \ {0} /\ r \in 0..7 /\ r > 0
  BY PointTyped, PointFacts, Zenon
<1>7. ASSUME NEW d \in Mine(v) PROVE Entered(pc[d]) \in {g, g + 1}
  BY <1>1, Zenon DEF Generation
<1>8. CASE r <= g
  BY <1>1, <1>6, <1>7, <1>8, SMTT(30) DEF Generation
<1>9. CASE r > g
  <2> HIDE DEF N, r
  <2>1. (g + 1) * N <= r * N /\ (g + 1) * N = g * N + N /\ g * N \in Nat /\ r * N \in Nat
    <3>1. g \in Nat /\ g + 1 \in Nat /\ r \in Nat /\ g + 1 <= r /\ N \in Nat
      BY <1>6, <1>9, SMTT(30)
    <3>2. QED
      BY <3>1, Times, Zenon
  <2>2. Cardinality(Ahead(v, g)) = N /\ Cardinality(Mine(v)) = N
    BY <2>1, <1>3, <1>4, <1>5, <1>6, SMTT(30)
  <2>3. Ahead(v, g) = Mine(v)
    BY <2>2, <1>3, Zenon
  <2>4. r = g + 1
    <3>1. SUFFICES ASSUME r >= g + 1 + 1 PROVE FALSE
      BY <1>6, <1>9, SMTT(30)
    <3>2. (g + 1 + 1) * N <= r * N /\ (g + 1 + 1) * N = (g + 1) * N + N
      BY <3>1, <1>6, Times, SMTT(30)
    <3>3. QED
      BY <3>2, <2>1, <2>2, <1>5, <1>6, SMTT(30)
  <2>5. QED
    BY <2>2, <2>3, <2>4, SMTT(30) DEF Ahead, N, r
<1>10. QED
  BY <1>6, <1>8, <1>9, SMTT(30)

\* The generation of a machine, seen from a CPU that waits for nobody.
LEMMA Level ==
    ASSUME TypeInv, AssignInv, GenInv, PassInv, NEW c \in CPUs, vm[c] \in VMs,
           Left(pc[c]) = Entered(pc[c])
    PROVE  Generation(vm[c], Entered(pc[c]))
<1> DEFINE v == vm[c]
           N == NrVcpus[v]
           a == Entered(pc[c])
<1>1. PICK g \in 0..7 : Generation(v, g)
  BY Zenon DEF GenInv
<1>2. c \in Mine(v) /\ a \in 0..7 /\ N \in Nat \ {0}
  BY PointTyped, PointFacts, Zenon DEF Mine
<1>3. a = g \/ a = g + 1
  BY <1>1, <1>2, Zenon DEF Generation
<1>4. CASE a = g + 1
  <2>1. /\ Cardinality(Mine(v)) = N
        /\ \A d \in Mine(v) : Entered(pc[d]) >= a
    BY <1>4, <1>2, Complete, SMTT(30)
  <2>2. \A d \in Mine(v) : Entered(pc[d]) = a
    BY <2>1, <1>1, <1>4, SMTT(30) DEF Generation
  <2>3. Ahead(v, g) = Mine(v)
    BY <2>2, <1>4, Zenon DEF Ahead
  <2>4. Ahead(v, a) = {}
    BY <2>2, <1>2, SMTT(30) DEF Ahead
  <2>5. g * N \in Nat /\ (g + 1) * N = g * N + N
    <3>1. g \in Nat /\ N \in Nat
      BY <1>2, SMTT(30)
    <3> HIDE DEF N
    <3>2. QED
      BY <3>1, Times, Zenon
  <2>6. sync[v].count = a * N + Cardinality(Ahead(v, a))
    <3>1. sync[v].count = g * N + N /\ Cardinality(Ahead(v, a)) = 0
      BY <2>1, <2>3, <2>4, <1>1, FS_EmptySet, Zenon DEF Generation
    <3>2. a * N = (g + 1) * N
      BY <1>4, Zenon
    <3> HIDE DEF N, a
    <3>3. QED
      BY <1>2, <2>5, <3>1, <3>2, SMTT(30)
  <2>7. QED
    BY <2>1, <2>2, <2>6, Zenon DEF Generation
<1>5. QED
  BY <1>1, <1>3, <1>4, Zenon

\* The CPUs of the machines after a step.
LEMMA MineStep ==
    ASSUME TypeInv, NEW c \in CPUs, OthersKept(c)
    PROVE  /\ vm' = vm => \A v \in VMs : Mine(v)' = Mine(v)
           /\ \A i \in VMs : Joins(c, i) =>
                 /\ c \notin Mine(i) /\ Mine(i)' = Mine(i) \cup {c}
                 /\ \A v \in VMs \ {i} : Mine(v)' = Mine(v)
<1>1. vm' = vm => \A v \in VMs : Mine(v)' = Mine(v)
  BY Zenon DEF Mine
<1>2. ASSUME NEW i \in VMs, Joins(c, i)
      PROVE  /\ c \notin Mine(i) /\ Mine(i)' = Mine(i) \cup {c}
             /\ \A v \in VMs \ {i} : Mine(v)' = Mine(v)
  <2>1. vm[c] \notin VMs /\ vm'[c] = i /\ \A d \in CPUs \ {c} : vm'[d] = vm[d]
    BY <1>2, BootAssumption, SMTT(30) DEF Joins, OthersKept, TypeInv, VMs
  <2>2. QED
    BY <2>1, Zenon DEF Mine
<1>3. QED
  BY <1>1, <1>2, Zenon

-----------------------------------------------------------------------------

\* The assignment of CPUs to machines.
LEMMA AssignStep ==
    ASSUME TypeInv, AssignInv, ReadyInv, NEW c \in CPUs, Step(c)
    PROVE  AssignInv'
<1>1. OthersKept(c)
  BY TypeStep, Zenon
<1>2. CASE UNCHANGED <<vm, master, assign>>
  <2>1. \A v \in VMs : Mine(v)' = Mine(v)
    BY <1>1, <1>2, MineStep, Zenon
  <2>2. QED
    BY <1>2, <2>1, ZenonT(30) DEF AssignInv
<1>3. CASE \E i \in VMs : Joins(c, i)
  <2>1. PICK i \in VMs : Joins(c, i)
    BY <1>3, Zenon
  <2>2. /\ c \notin Mine(i) /\ Mine(i)' = Mine(i) \cup {c}
        /\ \A v \in VMs \ {i} : Mine(v)' = Mine(v)
    BY <1>1, <2>1, MineStep, Zenon
  <2>3. ASSUME NEW v \in VMs \ {i}
        PROVE  /\ Mine(v)' = Mine(v) /\ assign'[v] = assign[v]
               /\ \A d \in Mine(v) : master'[d] = master[d]
    <3>1. c \notin Mine(v)
      BY <2>1, BootAssumption DEF Joins, Mine, VMs
    <3>2. \A d \in Mine(v) : d \in CPUs \ {c}
      BY <3>1, Zenon DEF Mine
    <3>3. QED
      BY <1>1, <2>1, <2>2, <3>2, ZenonT(30) DEF Joins, OthersKept, TypeInv
  <2>4. /\ assign'[i].ncpus = assign[i].ncpus + 1 /\ assign'[i].master
        /\ assign[i].ncpus < NrVcpus[i] /\ assign[i].ncpus \in Nat
        /\ NrVcpus[i] \in Nat
    BY <2>1, BootAssumption, Zenon DEF Joins, TypeInv
  <2>5. Cardinality(Mine(i) \cup {c}) = Cardinality(Mine(i)) + 1
    <3>1. Mine(i) \in SUBSET CPUs
      BY Zenon DEF Mine
    <3>2. QED
      BY <2>2, <3>1, CPUSets, Zenon
  <2>6. /\ \A d \in Mine(i) : master'[d] = master[d]
        /\ master'[c] <=> ~assign[i].master
    <3>1. \A d \in Mine(i) : d \in CPUs \ {c}
      BY <2>2, Zenon DEF Mine
    <3>2. master'[c] = ~assign[i].master
      BY <2>1, Zenon DEF Joins, TypeInv
    <3>3. QED
      BY <1>1, <3>1, <3>2, Zenon DEF OthersKept
  <2>7. /\ IF assign[i].master THEN \E d \in Mine(i) : master[d] ELSE Mine(i) = {}
        /\ \A d, e \in Mine(i) : master[d] /\ master[e] => d = e
        /\ assign[i].ncpus = Cardinality(Mine(i))
    BY Zenon DEF AssignInv
  <2>8. /\ \E d \in Mine(i)' : master'[d]
        /\ \A d, e \in Mine(i)' : master'[d] /\ master'[e] => d = e
    BY <2>2, <2>6, <2>7, Zenon
  <2>9. /\ assign'[i].ncpus = Cardinality(Mine(i))'
        /\ assign'[i].ncpus <= NrVcpus[i]
    BY <2>2, <2>4, <2>5, <2>7, SMTT(30)
  <2>10. ASSUME NEW v \in VMs \ {i}
         PROVE  /\ assign'[v].ncpus = Cardinality(Mine(v))' /\ assign'[v].ncpus <= NrVcpus[v]
                /\ IF assign'[v].master THEN \E d \in Mine(v)' : master'[d] ELSE Mine(v)' = {}
                /\ \A d, e \in Mine(v)' : master'[d] /\ master'[e] => d = e
    BY <2>3 DEF AssignInv
  <2>11. QED
    BY <2>4, <2>8, <2>9, <2>10, Zenon DEF AssignInv
<1>4. vm_master_init(c) => UNCHANGED <<vm, master, assign>>
  BY Zenon DEF vm_master_init, cpuvars
<1>5. QED
  BY <1>2, <1>3, <1>4, StepKinds, Zenon DEF Quiet, Arrives

\* The generation of each machine.
LEMMA GenStep ==
    ASSUME TypeInv, AssignInv, ReadyInv, GenInv, PassInv, NEW c \in CPUs, Step(c)
    PROVE  GenInv'
<1>1. OthersKept(c) /\ TypeInv'
  BY TypeStep, Zenon
<1>2. ASSUME vm' = vm, Entered(pc'[c]) = Entered(pc[c]),
             NEW v \in VMs, sync'[v].count = sync[v].count
      PROVE  \E g \in 0..7 : Generation(v, g)'
  <2>1. PICK g \in 0..7 : Generation(v, g)
    BY Zenon DEF GenInv
  <2>2. Mine(v)' = Mine(v)
    BY <1>1, <1>2, MineStep, Zenon
  <2>3. \A d \in CPUs : Entered(pc'[d]) = Entered(pc[d])
    BY <1>1, <1>2, Zenon DEF OthersKept
  <2>4. Ahead(v, g)' = Ahead(v, g)
    BY <2>2, <2>3, Zenon DEF Ahead, Mine
  <2>5. QED
    BY <1>2, <2>1, <2>2, <2>3, <2>4, Zenon DEF Generation, Mine
<1>3. CASE Quiet(c)
  BY <1>2, <1>3, Zenon DEF Quiet, GenInv
<1>4. CASE vm_master_init(c)
  <2>1. /\ pc[c] = "master_init" /\ pc'[c] = "cpu_init" /\ vm' = vm
        /\ sync' = [sync EXCEPT ![vm[c]] = [ready |-> TRUE, count |-> 0]]
    BY <1>4, Zenon DEF vm_master_init, cpuvars, Goto, TypeInv
  <2>2. vm[c] \in VMs /\ master[c]
    BY <2>1, PointTyped, Zenon DEF ReadyInv, Unassigned
  <2>3. sync[vm[c]].count = 0
    BY <2>1, <2>2, Zenon DEF ReadyInv
  <2>4. \A v \in VMs : sync'[v].count = sync[v].count
    BY <2>1, <2>2, <2>3, Zenon DEF TypeInv
  <2>5. Entered(pc'[c]) = Entered(pc[c])
    BY <2>1, Zenon DEF Entered, Round1, Round2, Round3, Round4, Round5, Round6, Round7
  <2>6. QED
    BY <1>2, <2>1, <2>4, <2>5, Zenon DEF GenInv
<1>5. CASE Arrives(c)
  <2>0. PICK v \in VMs, a \in 0..7 : v = vm[c] /\ a = Entered(pc[c])
    BY <1>5, PointTyped, PointFacts, Zenon DEF Arrives
  <2>1. /\ vm' = vm /\ Left(pc[c]) = a /\ Entered(pc'[c]) = a + 1
        /\ sync' = [sync EXCEPT ![v].count = @ + 1]
    BY <1>5, <2>0, Zenon DEF Arrives
  <2>2. /\ sync'[v].count = sync[v].count + 1
        /\ \A w \in VMs \ {v} : sync'[w].count = sync[w].count
    BY <2>1, Zenon DEF TypeInv
  <2>3. \A w \in VMs : Mine(w)' = Mine(w)
    BY <1>1, <2>1, MineStep, Zenon
  <2>4. \A d \in CPUs \ {c} : Entered(pc'[d]) = Entered(pc[d])
    BY <1>1, Zenon DEF OthersKept
  <2>5. ASSUME NEW w \in VMs \ {v}
        PROVE  \E g \in 0..7 : Generation(w, g)'
    <3>1. PICK g \in 0..7 : Generation(w, g)
      BY Zenon DEF GenInv
    <3>2. \A d \in Mine(w) : Entered(pc'[d]) = Entered(pc[d])
      BY <2>0, <2>4, Zenon DEF Mine
    <3>3. Ahead(w, g)' = Ahead(w, g)
      BY <2>3, <3>2, Zenon DEF Ahead
    <3>4. QED
      BY <2>2, <2>3, <3>1, <3>2, <3>3, Zenon DEF Generation
  <2>6. Generation(v, a)'
    <3>1. Generation(v, a)
      BY <2>0, <2>1, Level, Zenon
    <3>2. c \in Mine(v)
      BY <2>0, Zenon DEF Mine
    <3>3. c \notin Ahead(v, a) /\ Ahead(v, a)' = Ahead(v, a) \cup {c}
      <4>1. c \notin Ahead(v, a)
        BY <2>0 DEF Ahead
      <4>2. \A d \in Mine(v) : d # c => Entered(pc'[d]) = Entered(pc[d])
        BY <2>4, Zenon DEF Mine
      <4>3. Ahead(v, a)' = {d \in Mine(v) : Entered(pc'[d]) = a + 1}
        BY <2>3, Zenon DEF Ahead
      <4>4. QED
        BY <2>1, <3>2, <4>1, <4>2, <4>3, Zenon DEF Ahead
    <3>4. Ahead(v, a) \in SUBSET CPUs
      BY Zenon DEF Ahead, Mine
    <3>5. /\ Cardinality(Ahead(v, a) \cup {c}) = Cardinality(Ahead(v, a)) + 1
          /\ Cardinality(Ahead(v, a)) \in Nat
      BY <3>3, <3>4, CPUSets, Zenon
    <3>6. a * NrVcpus[v] \in Nat
      BY <2>0, PointTyped, Times, SMTT(30)
    <3>7. sync'[v].count = a * NrVcpus[v] + Cardinality(Ahead(v, a)')
      BY <2>2, <3>1, <3>3, <3>5, <3>6, SMTT(30) DEF Generation
    <3>8. QED
      BY <2>1, <2>3, <2>4, <3>1, <3>7, Zenon DEF Generation, Mine
  <2>7. QED
    BY <2>5, <2>6, Zenon DEF GenInv
<1>6. CASE \E i \in VMs : Joins(c, i)
  <2>1. PICK i \in VMs : Joins(c, i)
    BY <1>6, Zenon
  <2>2. /\ c \notin Mine(i) /\ Mine(i)' = Mine(i) \cup {c}
        /\ \A v \in VMs \ {i} : Mine(v)' = Mine(v)
    BY <1>1, <2>1, MineStep, Zenon
  <2>3. \A d \in CPUs : Entered(pc'[d]) = Entered(pc[d])
    <3>1. pc[c] = "assign" /\ pc'[c] = "alloc"
      BY <2>1, Zenon DEF Joins, TypeInv
    <3>2. Entered(pc'[c]) = 0 /\ Entered(pc[c]) = 0
      BY <3>1, Zenon DEF Entered, Round1, Round2, Round3, Round4, Round5, Round6, Round7
    <3>3. QED
      BY <1>1, <3>2, Zenon DEF OthersKept
  <2>4. sync' = sync
    BY <2>1, Zenon DEF Joins
  <2>5. ASSUME NEW v \in VMs \ {i}
        PROVE  \E g \in 0..7 : Generation(v, g)'
    <3>1. PICK g \in 0..7 : Generation(v, g)
      BY Zenon DEF GenInv
    <3>2. Ahead(v, g)' = Ahead(v, g)
      BY <2>2, <2>3, Zenon DEF Ahead, Mine
    <3>3. QED
      BY <2>2, <2>3, <2>4, <3>1, <3>2, Zenon DEF Generation, Mine
  <2>6. Generation(i, 0)'
    <3>1. PICK g \in 0..7 : Generation(i, g)
      BY Zenon DEF GenInv
    <3>2. Cardinality(Mine(i)) < NrVcpus[i]
      BY <2>1, Zenon DEF Joins, AssignInv
    <3>3. g = 0
      <4>1. Mine(i) \in SUBSET CPUs
        BY Zenon DEF Mine
      <4>2. Cardinality(Mine(i)) \in Nat /\ NrVcpus[i] \in Nat
        BY <4>1, CPUSets, BootAssumption, Zenon
      <4>3. QED
        BY <3>1, <3>2, <4>2, SMTT(30) DEF Generation
    <3>4. Entered(pc'[c]) = 0
      <4>1. pc'[c] = "alloc"
        BY <2>1, Zenon DEF Joins, TypeInv
      <4>2. QED
        BY <4>1, Zenon DEF Entered, Round1, Round2, Round3, Round4, Round5, Round6, Round7
    <3>5. Ahead(i, 0)' = Ahead(i, 0)
      BY <2>2, <2>3, <3>4, SMTT(30) DEF Ahead, Mine
    <3>6. \A d \in Mine(i)' : Entered(pc'[d]) \in {0, 0 + 1}
      BY <2>2, <2>3, <3>1, <3>3, <3>4, Zenon DEF Generation, Mine
    <3>7. QED
      BY <2>4, <3>1, <3>3, <3>5, <3>6, SMTT(30) DEF Generation
  <2>7. QED
    BY <2>5, <2>6, SMTT(30) DEF GenInv
<1>7. QED
  BY <1>3, <1>4, <1>5, <1>6, StepKinds, Zenon

\* Only the master of a machine comes to the points where it acts alone.
LEMMA MasterPoints ==
    ASSUME TypeInv, ReadyInv, NEW c \in CPUs, Step(c)
    PROVE  /\ pc'[c] \in {"master_init", "irq_set", "irq_store", "error"} =>
                 master'[c] /\ ~Arrives(c)
           /\ pc'[c] \in {"alloc", "vm_init", "master_init"} =>
                 (\E i \in VMs : Joins(c, i)) \/ pc[c] \in {"alloc", "vm_init"}
<1> USE PointTyped DEF TypeInv, Goto, cpuvars, listvars, irqvars
<1>1. CASE vm_allocation_init(c)
  <2>1. pc'[c] \in {"master_init", "cpu_init", "fault"} /\ pc[c] = "vm_init"
        /\ sync' = sync /\ master' = master
    BY <1>1, Zenon DEF vm_allocation_init
  <2>2. pc'[c] = "master_init" => master[c]
    BY <1>1, Zenon DEF vm_allocation_init
  <2>3. ~Arrives(c)
    BY <2>1 DEF Arrives, Entered, Round1, Round2, Round3, Round4, Round5, Round6, Round7
  <2>4. QED
    BY <2>1, <2>2, <2>3, Zenon
<1>2. CASE interrupts_check(c)
  <2>1. pc'[c] \in {"barrier5", "irq_set", "error"} /\ pc[c] = "dev" /\ master' = master
    BY <1>2, ZenonT(30) DEF interrupts_check
  <2>2. pc'[c] \in {"irq_set", "error"} => master[c]
    BY <1>2, Zenon DEF interrupts_check
  <2>3. ~Arrives(c)
    BY <2>1, SMTT(30) DEF Arrives, Entered, Round1, Round2, Round3, Round4, Round5, Round6, Round7
  <2>4. QED
    BY <2>1, <2>2, <2>3, Zenon
<1>3. CASE vmm_assign_vcpu(c)
  <2>1. CASE pc'[c] = "alloc"
    <3>1. ~Quiet(c) \/ vm'[c] = -1
      BY <1>3, Zenon DEF vmm_assign_vcpu, Quiet, Unassigned
    <3>2. vm'[c] # -1
      BY <2>1, TypeStep, Zenon DEF Unassigned
    <3>3. ~Arrives(c) /\ ~vm_master_init(c)
      <4>1. pc[c] = "assign"
        BY <1>3, Zenon DEF vmm_assign_vcpu
      <4>2. QED
        BY <4>1, <2>1, SMTT(30) DEF vm_master_init, Arrives, Entered, Round1, Round2, Round3, Round4,
                          Round5, Round6, Round7
    <3>4. QED
      BY <2>1, <3>1, <3>2, <3>3, StepKinds, Zenon
  <2>2. CASE pc'[c] # "alloc"
    <3>1. pc'[c] \in {"idle", "assign"}
      BY <1>3, <2>2, Zenon DEF vmm_assign_vcpu
    <3>2. QED
      BY <3>1, Zenon
  <2>3. QED
    BY <2>1, <2>2, Zenon
<1>4. CASE vmm_alloc_install_vm(c)
  BY <1>4, Zenon DEF vmm_alloc_install_vm
<1>5. CASE barrier_arrive(c) \/ barrier_leave(c)
  BY <1>5, SMTT(30) DEF barrier_arrive, barrier_leave, Wait, After
<1>6. CASE vm_list_init(c) \/ vm_master_init(c) \/ vm_cpu_init(c) \/ vm_vcpu_init(c)
  BY <1>6, Zenon DEF vm_list_init, vm_master_init, vm_cpu_init, vm_vcpu_init
<1>7. CASE clear_add(c) \/ clear_read(c) \/ clear_wait(c)
  BY <1>7, ZenonT(30) DEF clear_add, clear_read, clear_wait
<1>8. CASE interrupts_store(c) \/ init_list_node(c) \/ list_add(c)
  BY <1>8, Zenon DEF interrupts_store, init_list_node, list_add
<1>9. CASE interrupts_set(c)
  <2>1. pc[c] = "irq_set" /\ pc'[c] = "irq_store" /\ master' = master
    BY <1>9, Zenon DEF interrupts_set
  <2>2. master[c]
    BY <2>1, Zenon DEF ReadyInv
  <2>3. ~Arrives(c)
    BY <2>1, SMTT(30) DEF Arrives, Entered, Round1, Round2, Round3, Round4, Round5, Round6, Round7
  <2>4. QED
    BY <2>1, <2>2, <2>3, Zenon
<1>10. QED
  BY <1>1, <1>2, <1>3, <1>4, <1>5, <1>6, <1>7, <1>8, <1>9, Zenon DEF Step

\* The token of each machine.
LEMMA ReadyStep ==
    ASSUME TypeInv, AssignInv, ReadyInv, NEW c \in CPUs, Step(c)
    PROVE  ReadyInv'
<1>1. OthersKept(c) /\ TypeInv'
  BY TypeStep, Zenon
<1>2. ASSUME NEW d \in CPUs, pc'[d] \in {"master_init", "irq_set", "irq_store", "error"}
      PROVE  master'[d]
  BY <1>1, <1>2, MasterPoints, Zenon DEF OthersKept, ReadyInv
<1>3. CASE UNCHANGED <<vm, master, assign>> /\ (Quiet(c) \/ Arrives(c))
  <2>1. ASSUME NEW v \in VMs PROVE sync'[v].ready = sync[v].ready /\ Mine(v)' = Mine(v)
    BY <1>1, <1>3, MineStep, SMTT(30) DEF Quiet, Arrives, TypeInv
  <2>2. ASSUME NEW v \in VMs, ~sync[v].ready
        PROVE  sync'[v].count = 0 /\ \A d \in Mine(v) : Entered(pc'[d]) = 0
    <3>1. sync[v].count = 0 /\ \A d \in Mine(v) : Entered(pc[d]) = 0
      BY <2>2, Zenon DEF ReadyInv
    <3>2. sync'[v] = sync[v]
      BY <1>3, <2>2, Zenon DEF Quiet, Arrives, TypeInv
    <3>3. c \in Mine(v) => Entered(pc'[c]) = Entered(pc[c])
      BY <1>3, <2>2, Zenon DEF Quiet, Arrives, Mine
    <3>4. QED
      BY <1>1, <3>1, <3>2, <3>3, Zenon DEF OthersKept, Mine
  <2>3. ASSUME NEW d \in CPUs, vm'[d] \in VMs, master'[d],
               pc'[d] \in {"alloc", "vm_init", "master_init"}
        PROVE  ~sync'[vm'[d]].ready
    <3>1. ~\E i \in VMs : Joins(c, i)
      BY <1>3, BootAssumption, SMTT(30) DEF Joins, TypeInv, VMs
    <3>2. pc[d] \in {"alloc", "vm_init", "master_init"}
      BY <1>1, <2>3, <3>1, MasterPoints, Zenon DEF OthersKept
    <3>3. QED
      BY <1>3, <2>1, <2>3, <3>2, Zenon DEF ReadyInv
  <2>4. QED
    BY <1>2, <1>3, <2>1, <2>2, <2>3, Zenon DEF ReadyInv
<1>4. CASE vm_master_init(c)
  <2>1. /\ pc[c] = "master_init" /\ pc'[c] = "cpu_init" /\ UNCHANGED <<vm, master, assign>>
        /\ sync' = [sync EXCEPT ![vm[c]] = [ready |-> TRUE, count |-> 0]]
    BY <1>4, Zenon DEF vm_master_init, cpuvars, Goto, TypeInv
  <2>2. vm[c] \in VMs /\ master[c]
    BY <2>1, PointTyped, Zenon DEF ReadyInv, Unassigned
  <2>3. sync'[vm[c]].ready /\ \A v \in VMs \ {vm[c]} : sync'[v] = sync[v]
    BY <2>1, <2>2, Zenon DEF TypeInv
  <2>4. \A v \in VMs : Mine(v)' = Mine(v)
    BY <1>1, <2>1, MineStep, ZenonT(30)
  <2>5. ASSUME NEW v \in VMs, ~sync'[v].ready
        PROVE  sync'[v].count = 0 /\ \A d \in Mine(v) : Entered(pc'[d]) = 0
    <3>1. v # vm[c]
      BY <2>3, <2>5, Zenon
    <3>2. QED
      BY <1>1, <2>3, <2>5, <3>1, SMTT(30) DEF OthersKept, Mine, ReadyInv
  <2>6. \A v \in VMs : sync'[v].ready => assign'[v].master
    <3>1. assign[vm[c]].master
      <4>1. c \in Mine(vm[c])
        BY Zenon DEF Mine
      <4>2. QED
        BY <2>2, <4>1, Zenon DEF AssignInv
    <3>2. QED
      BY <2>1, <2>3, <3>1, Zenon DEF ReadyInv
  <2>7. ASSUME NEW d \in CPUs, vm'[d] \in VMs, master'[d],
               pc'[d] \in {"alloc", "vm_init", "master_init"}
        PROVE  ~sync'[vm'[d]].ready
    <3>1. d # c /\ pc'[d] = pc[d]
      BY <1>1, <2>1, <2>7, Zenon DEF OthersKept
    <3>2. vm[d] # vm[c]
      <4>1. SUFFICES ASSUME vm[d] = vm[c] PROVE FALSE
        OBVIOUS
      <4>2. c \in Mine(vm[c]) /\ d \in Mine(vm[c])
        BY <4>1, Zenon DEF Mine
      <4>3. QED
        BY <2>1, <2>2, <2>7, <3>1, <4>2, Zenon DEF AssignInv
    <3>3. QED
      BY <2>1, <2>3, <2>7, <3>1, <3>2, SMTT(30) DEF ReadyInv
  <2>8. QED
    BY <1>2, <2>4, <2>5, <2>6, <2>7, Zenon DEF ReadyInv
<1>5. CASE \E i \in VMs : Joins(c, i)
  <2>1. PICK i \in VMs : Joins(c, i)
    BY <1>5, Zenon
  <2>2. /\ c \notin Mine(i) /\ Mine(i)' = Mine(i) \cup {c}
        /\ \A v \in VMs \ {i} : Mine(v)' = Mine(v)
    BY <1>1, <2>1, MineStep, Zenon
  <2>3. /\ pc'[c] = "alloc" /\ sync' = sync /\ vm'[c] = i
        /\ master'[c] => ~assign[i].master
    BY <2>1, Zenon DEF Joins, TypeInv
  <2>4. Entered(pc'[c]) = 0
    BY <2>3, ZenonT(30) DEF Entered, Round1, Round2, Round3, Round4, Round5, Round6, Round7
  <2>5. ASSUME NEW v \in VMs, ~sync'[v].ready
        PROVE  sync'[v].count = 0 /\ \A d \in Mine(v)' : Entered(pc'[d]) = 0
    BY <1>1, <2>2, <2>3, <2>4, <2>5, SMTT(30) DEF OthersKept, Mine, ReadyInv
  <2>6. \A v \in VMs : sync'[v].ready => assign'[v].master
    <3>1. assign'[i].master /\ \A v \in VMs \ {i} : assign'[v] = assign[v]
      BY <2>1, Zenon DEF Joins, TypeInv
    <3>2. QED
      BY <2>3, <3>1, Zenon DEF ReadyInv
  <2>7. ASSUME NEW d \in CPUs, vm'[d] \in VMs, master'[d],
               pc'[d] \in {"alloc", "vm_init", "master_init"}
        PROVE  ~sync'[vm'[d]].ready
    BY <1>1, <2>3, <2>7, Zenon DEF OthersKept, ReadyInv
  <2>8. QED
    BY <1>2, <2>5, <2>6, <2>7, Zenon DEF ReadyInv
<1>6. QED
  BY <1>3, <1>4, <1>5, StepKinds, Zenon DEF Quiet, Arrives

-----------------------------------------------------------------------------

\* The counter of a token never goes back: the step that makes the token
\* ready finds it at 0.
LEMMA CountGrows ==
    ASSUME TypeInv, ReadyInv, NEW c \in CPUs, Step(c), NEW v \in VMs
    PROVE  sync'[v].count >= sync[v].count /\ sync[v].count \in Nat /\ sync'[v].count \in Nat
<1>1. sync[v].count \in Nat /\ sync'[v].count \in Nat
  BY TypeStep, Zenon DEF TypeInv
<1>2. CASE Quiet(c) \/ \E i \in VMs : Joins(c, i)
  BY <1>1, <1>2, SMTT(30) DEF Quiet, Joins
<1>3. CASE Arrives(c)
  BY <1>1, <1>3, SMTT(30) DEF Arrives, TypeInv
<1>4. CASE vm_master_init(c)
  <2>1. /\ pc[c] = "master_init"
        /\ sync' = [sync EXCEPT ![vm[c]] = [ready |-> TRUE, count |-> 0]]
    BY <1>4, Zenon DEF vm_master_init
  <2>2. vm[c] \in VMs /\ master[c]
    BY <2>1, PointTyped, Zenon DEF ReadyInv, Unassigned
  <2>3. sync[vm[c]].count = 0
    BY <2>1, <2>2, Zenon DEF ReadyInv
  <2>4. QED
    BY <1>1, <2>1, <2>2, <2>3, SMTT(30) DEF TypeInv
<1>5. QED
  BY <1>2, <1>3, <1>4, StepKinds, Zenon

\* A barrier is left only when its round is complete.
LEMMA PassStep ==
    ASSUME TypeInv, AssignInv, ReadyInv, GenInv, PassInv, NEW c \in CPUs, Step(c)
    PROVE  PassInv'
<1> USE DEF Goto, cpuvars, listvars, irqvars
<1>1. OthersKept(c) /\ TypeInv'
  BY TypeStep, Zenon
<1>2. ASSUME NEW d \in CPUs, vm'[d] \in VMs,
             pc'[d] \in Waiting => exp_v'[d] >= Entered(pc'[d]) * NrVcpus[vm'[d]],
             vm'[d] = vm[d], Left(pc'[d]) = Left(pc[d])
      PROVE  sync'[vm'[d]].count >= Left(pc'[d]) * NrVcpus[vm'[d]]
  <2>1. sync[vm[d]].count >= Left(pc[d]) * NrVcpus[vm[d]]
    BY <1>2, Zenon DEF PassInv
  <2>2. Left(pc[d]) \in Nat /\ NrVcpus[vm[d]] \in Nat
    BY <1>2, PointTyped, PointFacts, SMTT(30)
  <2>3. Left(pc[d]) * NrVcpus[vm[d]] \in Nat
    BY <2>2, Times, Zenon
  <2>4. /\ sync'[vm[d]].count >= sync[vm[d]].count
        /\ sync[vm[d]].count \in Nat /\ sync'[vm[d]].count \in Nat
    BY <1>2, CountGrows, Zenon
  <2>5. QED
    BY <1>2, <2>1, <2>3, <2>4, SMTT(30)
<1>3. ASSUME NEW d \in CPUs \ {c}, vm'[d] \in VMs
      PROVE  /\ pc'[d] \in Waiting => exp_v'[d] >= Entered(pc'[d]) * NrVcpus[vm'[d]]
             /\ sync'[vm'[d]].count >= Left(pc'[d]) * NrVcpus[vm'[d]]
  <2>1. vm'[d] = vm[d] /\ pc'[d] = pc[d] /\ exp_v'[d] = exp_v[d]
    BY <1>1, Zenon DEF OthersKept
  <2>2. pc'[d] \in Waiting => exp_v'[d] >= Entered(pc'[d]) * NrVcpus[vm'[d]]
    BY <1>3, <2>1, Zenon DEF PassInv
  <2>3. QED
    BY <1>2, <1>3, <2>1, <2>2, Zenon
<1> DEFINE Passes == vm'[c] \in VMs =>
              /\ pc'[c] \in Waiting => exp_v'[c] >= Entered(pc'[c]) * NrVcpus[vm'[c]]
              /\ sync'[vm'[c]].count >= Left(pc'[c]) * NrVcpus[vm'[c]]
<1>4. SUFFICES Passes
  BY <1>3, Zenon DEF PassInv
<1>5. ASSUME vm'[c] = vm[c], pc'[c] \notin Waiting, Left(pc'[c]) = Left(pc[c])
      PROVE  Passes
  BY <1>2, <1>5, Zenon
<1>6. CASE barrier_leave(c) \/ clear_wait(c)
  <2>1. /\ pc[c] \in Waiting /\ Left(pc'[c]) = Entered(pc[c]) /\ pc'[c] \notin Waiting
        /\ sync[vm[c]].count >= exp_v[c] /\ vm' = vm /\ sync' = sync
    <3>1. CASE barrier_leave(c)
      BY <3>1, PointFacts, Zenon DEF barrier_leave, TypeInv
    <3>2. CASE clear_wait(c)
      BY <3>2, Zenon DEF clear_wait, TypeInv, Waiting, Left, Entered, Round1, Round2, Round3, Round4
    <3>3. QED
      BY <1>6, <3>1, <3>2, Zenon
  <2>2. SUFFICES ASSUME vm[c] \in VMs
                 PROVE  sync[vm[c]].count >= Entered(pc[c]) * NrVcpus[vm[c]]
    BY <2>1, Zenon
  <2>3. exp_v[c] >= Entered(pc[c]) * NrVcpus[vm[c]]
    BY <2>1, <2>2, Zenon DEF PassInv
  <2>4. Entered(pc[c]) \in Nat /\ NrVcpus[vm[c]] \in Nat
    BY <2>2, PointTyped, PointFacts, SMTT(30)
  <2>5. Entered(pc[c]) * NrVcpus[vm[c]] \in Nat
    BY <2>4, Times, Zenon
  <2>6. exp_v[c] \in Nat /\ sync[vm[c]].count \in Nat
    BY <2>2, Zenon DEF TypeInv
  <2>7. QED
    BY <2>1, <2>3, <2>5, <2>6, SMTT(30)
<1>7. CASE barrier_arrive(c)
  <2>1. PICK v \in VMs, a \in 0..7 : v = vm[c] /\ a = Entered(pc[c])
    <3>1. pc[c] \notin Unassigned
      BY <1>7, Zenon DEF barrier_arrive, Wait, Unassigned
    <3>2. QED
      BY <3>1, PointTyped, PointFacts, Zenon
  <2> DEFINE N == NrVcpus[v]
             n == sync[v].count + 1
             end == RoundEnd(n, N)
  <2>2. /\ pc[c] \in DOMAIN Wait /\ sync' = [sync EXCEPT ![v].count = n] /\ vm' = vm
        /\ exp_v'[c] = end
        /\ pc'[c] = IF n < end THEN Wait[pc[c]] ELSE After[Wait[pc[c]]]
    BY <1>7, <2>1, Zenon DEF barrier_arrive, TypeInv
  <2>3. sync'[v].count = n
    BY <2>2, ZenonT(30) DEF TypeInv
  <2>4. /\ Left(pc[c]) = a /\ Entered(Wait[pc[c]]) = a + 1 /\ Left(Wait[pc[c]]) = a
        /\ Entered(After[Wait[pc[c]]]) = a + 1 /\ Left(After[Wait[pc[c]]]) = a + 1
        /\ After[Wait[pc[c]]] \notin Waiting
    BY <2>1, <2>2, PointFacts, Zenon
  <2>5. Generation(v, a)
    BY <2>1, <2>4, Level, Zenon
  <2>6. N \in Nat \ {0} /\ a * N \in Nat /\ (a + 1) * N \in Nat
    <3>1. N \in Nat \ {0}
      BY <2>1, PointTyped, Zenon
    <3> HIDE DEF N
    <3>2. QED
      BY <3>1, Times, SMTT(30)
  <2>7. n \in Nat /\ n > a * N
    <3>1. Ahead(v, a) \in SUBSET CPUs
      BY Zenon DEF Ahead, Mine
    <3>2. Cardinality(Ahead(v, a)) \in Nat
      BY <3>1, CPUSets, Zenon
    <3>3. sync[v].count = a * N + Cardinality(Ahead(v, a))
      BY <2>5, Zenon DEF Generation
    <3> HIDE DEF N
    <3>4. QED
      BY <2>6, <3>2, <3>3, SMTT(30)
  <2>8. end \in Nat /\ end >= (a + 1) * N
    <3> HIDE DEF N, n
    <3>1. a \in Nat
      OBVIOUS
    <3>2. QED
      BY <2>6, <2>7, <3>1, RoundEndBound, Zenon
  <2> HIDE DEF N, n, end
  <2>9. CASE n < end
    <3>1. pc'[c] = Wait[pc[c]] /\ n >= a * N
      BY <2>2, <2>6, <2>7, <2>9, SMTT(30)
    <3>2. QED
      BY <2>1, <2>2, <2>3, <2>4, <2>8, <3>1, Zenon DEF N
  <2>10. CASE ~(n < end)
    <3>1. pc'[c] = After[Wait[pc[c]]] /\ n >= (a + 1) * N
      BY <2>2, <2>6, <2>7, <2>8, <2>10, SMTT(30)
    <3>2. QED
      BY <2>1, <2>2, <2>3, <2>4, <3>1, Zenon DEF N
  <2>11. QED
    BY <2>9, <2>10, Zenon
<1>8. CASE clear_read(c)
  <2>1. PICK v \in VMs : v = vm[c]
    BY <1>8, PointTyped, Zenon DEF clear_read, Unassigned
  <2> DEFINE N == NrVcpus[v]
             k == sync[v].count
  <2>2. /\ pc[c] = "clear_read" /\ pc'[c] = "clear_wait" /\ vm' = vm /\ sync' = sync
        /\ exp_v'[c] = RoundEnd(k, N)
    BY <1>8, <2>1, Zenon DEF clear_read, TypeInv
  <2>3. /\ Entered(pc[c]) = 4 /\ Entered(pc'[c]) = 4 /\ Left(pc'[c]) = Left(pc[c])
    BY <2>2, Zenon DEF Left, Waiting, Entered, Round1, Round2, Round3, Round4
  <2>4. PICK g \in 0..7 : Generation(v, g)
    BY Zenon DEF GenInv
  <2>5. c \in Mine(v) /\ Ahead(v, g) \in SUBSET CPUs
    BY <2>1, Zenon DEF Mine, Ahead
  <2>6. N \in Nat \ {0} /\ k \in Nat
    BY <2>1, PointTyped, Zenon DEF TypeInv
  <2>7. Cardinality(Ahead(v, g)) \in Nat
    BY <2>5, CPUSets, Zenon
  <2>8. k = g * N + Cardinality(Ahead(v, g)) /\ (g = 4 \/ g = 3)
    BY <2>3, <2>4, <2>5, SMTT(30) DEF Generation
  <2>9. g = 3 => Cardinality(Ahead(v, g)) # 0
    <3>1. g = 3 => c \in Ahead(v, g)
      BY <2>3, <2>5, SMTT(30) DEF Ahead
    <3>2. IsFiniteSet(Ahead(v, g))
      BY <2>5, CPUSets, Zenon
    <3>3. QED
      BY <3>1, <3>2, FS_EmptySet, Zenon
  <2> HIDE DEF N, k
  <2>10. k > 3 * N
    <3>1. 3 * N \in Nat /\ (3 + 1) * N = 3 * N + N
      BY <2>6, Times, Zenon
    <3>2. CASE g = 3
      BY <2>6, <2>7, <2>8, <2>9, <3>1, <3>2, SMTT(30)
    <3>3. CASE g = 4
      BY <2>6, <2>7, <2>8, <3>1, <3>3, SMTT(30)
    <3>4. QED
      BY <2>8, <3>2, <3>3, Zenon
  <2>11. RoundEnd(k, N) >= (3 + 1) * N
    BY <2>6, <2>10, RoundEndBound, Zenon
  <2>12. exp_v'[c] >= Entered(pc'[c]) * NrVcpus[vm'[c]]
    BY <2>1, <2>2, <2>3, <2>11, SMTT(30) DEF N
  <2>13. QED
    BY <1>2, <2>2, <2>3, <2>12, Zenon
<1>9. CASE \E i \in VMs : Joins(c, i)
  <2>1. PICK i \in VMs : Joins(c, i)
    BY <1>9, Zenon
  <2>2. pc'[c] = "alloc" /\ vm'[c] = i /\ sync' = sync
    BY <2>1, Zenon DEF Joins, TypeInv
  <2>3. Left(pc'[c]) = 0 /\ pc'[c] \notin Waiting
    BY <2>2, Zenon DEF Left, Waiting, Entered, Round1, Round2, Round3, Round4, Round5, Round6, Round7
  <2>4. sync[i].count \in Nat /\ 0 * NrVcpus[i] = 0
    BY BootAssumption, SMTT(30) DEF TypeInv
  <2>5. QED
    BY <2>2, <2>3, <2>4, SMTT(30)
<1>10. CASE vmm_assign_vcpu(c) /\ ~\E i \in VMs : Joins(c, i)
  <2>1. pc[c] = "assign"
    BY <1>10, Zenon DEF vmm_assign_vcpu
  <2>2. vm'[c] = vm[c] /\ vm[c] \notin VMs
    <3>1. Entered(pc[c]) = 0 /\ pc[c] # "master_init"
      BY <2>1, Zenon DEF Entered, Round1, Round2, Round3, Round4, Round5, Round6, Round7
    <3>2. vm[c] \notin VMs /\ ~vm_master_init(c)
      BY <2>1, PointTyped, Zenon DEF Unassigned, vm_master_init
    <3>3. Quiet(c)
      BY <1>10, <3>2, StepKinds, Zenon DEF Arrives
    <3>4. QED
      BY <3>2, <3>3, Zenon DEF Quiet
  <2>3. QED
    BY <2>2, Zenon
<1> USE DEF Left, Waiting, Entered, Round1, Round2, Round3, Round4, Round5, Round6, Round7,
            TypeInv
<1>11. CASE interrupts_check(c)
  <2>1. pc'[c] \in {"barrier5", "irq_set", "error"} /\ pc[c] = "dev" /\ vm' = vm
    BY <1>11, Zenon DEF interrupts_check
  <2>2. QED
    BY <1>5, <2>1, Zenon
<1>12. CASE vm_allocation_init(c)
  <2>1. pc'[c] \in {"fault", "master_init", "cpu_init"} /\ pc[c] = "vm_init" /\ vm' = vm
    BY <1>12, Zenon DEF vm_allocation_init
  <2>2. QED
    BY <1>5, <2>1, Zenon
<1>13. CASE vm_list_init(c) \/ vmm_alloc_install_vm(c) \/ vm_master_init(c)
            \/ vm_cpu_init(c) \/ vm_vcpu_init(c)
  <2>1. /\ <<pc[c], pc'[c]>> \in {<<"list_init", "assign">>, <<"alloc", "vm_init">>,
              <<"master_init", "cpu_init">>, <<"cpu_init", "barrier1">>,
              <<"vcpu_init", "barrier2">>}
        /\ vm' = vm
    BY <1>13, Zenon DEF vm_list_init, vmm_alloc_install_vm, vm_master_init, vm_cpu_init, vm_vcpu_init
  <2>2. QED
    BY <1>5, <2>1, Zenon
<1>14. CASE clear_add(c) \/ interrupts_set(c) \/ interrupts_store(c)
            \/ init_list_node(c) \/ list_add(c)
  <2>1. /\ <<pc[c], pc'[c]>> \in {<<"clear_add", "clear_read">>, <<"irq_set", "irq_store">>,
              <<"irq_store", "dev">>, <<"list_node", "list_add">>, <<"list_add", "barrier6">>}
        /\ vm' = vm
    BY <1>14, ZenonT(30) DEF clear_add, interrupts_set, interrupts_store, init_list_node, list_add
  <2>2. pc'[c] \notin Waiting /\ Left(pc'[c]) = Left(pc[c])
    BY <2>1, SMTT(30)
  <2> HIDE DEF Left, Waiting, Entered
  <2>3. QED
    BY <1>5, <2>1, <2>2, Zenon
<1>15. QED
  BY <1>6, <1>7, <1>8, <1>9, <1>10, <1>11, <1>12, <1>13, <1>14, ZenonT(30) DEF Step

-----------------------------------------------------------------------------

\* In every behaviour the CPUs of a machine are at most one barrier of vm->sync
\* apart, the counter of cpu_sync_barrier counts those that have entered, and
\* none leaves before all vcpus of the machine are assigned and have entered.
THEOREM SyncInvariant == Spec => []SyncInv
<1>1. SyncInv /\ [Next]_vars => SyncInv'
  <2>1. SUFFICES ASSUME SyncInv, [Next]_vars PROVE SyncInv'
    OBVIOUS
  <2>2. CASE UNCHANGED vars
    <3> USE <2>1, <2>2 DEF vars, cpuvars, listvars, irqvars, SyncInv
    <3>1. TypeInv'
      BY Zenon DEF TypeInv
    <3>2. \A v \in VMs : Mine(v)' = Mine(v)
      BY Zenon DEF Mine
    <3>3. AssignInv' /\ ReadyInv'
      BY <3>2 DEF AssignInv, ReadyInv
    <3>4. GenInv'
      BY <3>2, Zenon DEF GenInv, Generation, Ahead
    <3>5. PassInv'
      BY Zenon DEF PassInv
    <3>6. QED
      BY <3>1, <3>3, <3>4, <3>5, Zenon
  <2>3. CASE Next
    <3>1. PICK c \in CPUs : Step(c)
      BY <2>3, Zenon DEF Next
    <3>2. TypeInv /\ AssignInv /\ ReadyInv /\ GenInv /\ PassInv
      BY <2>1, Zenon DEF SyncInv
    <3>3. TypeInv'
      BY <3>1, <3>2, TypeStep, Zenon
    <3>4. AssignInv' /\ ReadyInv'
      BY <3>1, <3>2, AssignStep, ReadyStep, Zenon
    <3>5. GenInv' /\ PassInv'
      BY <3>1, <3>2, GenStep, PassStep, Zenon
    <3>6. QED
      BY <3>3, <3>4, <3>5, Zenon DEF SyncInv
  <2>4. QED
    BY <2>1, <2>2, <2>3, Zenon
<1>2. QED
  BY <1>1, InitSync, PTL DEF Spec
-----------------------------------------------------------------------------

\* vm->cpus holds the CPUs that have run vm_cpu_init; a vcpu is numbered by
\* the rank of its CPU in the whole machine.
CpusInv ==
    /\ \A v \in VMs : cpus[v] \subseteq Mine(v)
    /\ \A c \in CPUs : vm[c] \in VMs /\ (pc[c] = "barrier1" \/ Entered(pc[c]) > 0)
                       => c \in cpus[vm[c]]
    /\ \A c \in CPUs : vm[c] \in VMs /\ Left(pc[c]) > 0 /\ pc[c] # "vcpu_init"
                       => id[c] = Cardinality({d \in Mine(vm[c]) : d < c})

\* The interrupts a machine has when its master has taken k of them.
Taken(v, k) == {Irqs[v][j] : j \in 1..k}

\* Before the master of a machine takes interrupts, and after it has.
Before(p) == Entered(p) < 5 \/ p = "wait4"
Done(p) == p = "barrier5" \/ Entered(p) > 5

DevOf(c) ==
    vm[c] \in VMs /\ master[c] =>
        /\ Before(pc[c]) => idx[c] = 0 /\ irqs[vm[c]] = {}
        /\ pc[c] = "dev" => idx[c] <= Len(Irqs[vm[c]]) /\ irqs[vm[c]] = Taken(vm[c], idx[c])
        /\ pc[c] = "irq_set" => /\ idx[c] \in 1..Len(Irqs[vm[c]])
                                /\ irqs[vm[c]] = Taken(vm[c], idx[c] - 1)
        /\ pc[c] = "irq_store" => /\ idx[c] \in 1..Len(Irqs[vm[c]])
                                  /\ irqs[vm[c]] = Taken(vm[c], idx[c])
        /\ Done(pc[c]) => irqs[vm[c]] = Taken(vm[c], Len(Irqs[vm[c]]))

DevInv ==
    /\ \A v \in VMs : ~assign[v].master => irqs[v] = {}
    /\ \A c \in CPUs : DevOf(c)

\* A CPU of the machine has reset the node of the machine; has added it.
NodeReset == {"list_add", "barrier6", "wait6", "run"}
AfterAdd == {"barrier6", "wait6", "run"}
Added == {v \in VMs : \E c \in CPUs : vm[c] = v /\ pc[c] \in AfterAdd}

\* The list holds the machines of q, in this order.
ListIs(q, m) ==
    /\ \A i, j \in 1..m : q[i] = q[j] => i = j
    /\ {q[i] : i \in 1..m} = Added
    /\ IF m = 0 THEN nxt[ListHead] \notin VMs ELSE nxt[ListHead] = q[1]
    /\ \A i \in 1..m : nxt[q[i]] = IF i < m THEN q[i + 1] ELSE ListHead

\* As long as nothing in use was reset, the list holds the machines that were
\* added, each node was reset once, and the head is set up.
ListInv ==
    ~relinked =>
        /\ \E m \in 0..NrVMs : \E q \in [1..m -> VMs] : ListIs(q, m)
        /\ \A c, d \in CPUs :
              vm[c] = vm[d] /\ pc[c] \in NodeReset /\ pc[d] \in NodeReset => c = d
        /\ \A c \in CPUs : pc[c] \in NodeReset => nxt[vm[c]] # -1
        /\ \A v \in VMs : nxt[v] # -1 => \E c \in CPUs : vm[c] = v /\ pc[c] \in NodeReset
        /\ \A c \in CPUs : pc[c] # "list_init" => nxt[ListHead] # -1

BootInv == SyncInv /\ CpusInv /\ DevInv
-----------------------------------------------------------------------------

\* The ranks of the members of a set of n CPUs are the numbers below n: a
\* lower CPU has a lower rank, and there are as many ranks as CPUs.
LEMMA Ranks ==
    ASSUME NEW S \in SUBSET CPUs
    PROVE  {Cardinality({d \in S : d < c}) : c \in S} = 0..(Cardinality(S) - 1)
<1> DEFINE Below(c) == {d \in S : d < c}
           n == Cardinality(S)
           rank == [c \in S |-> Cardinality(Below(c))]
<1>1. \A c \in S : c \in Int
  BY BootAssumption, SMTT(30) DEF CPUs
<1>2. IsFiniteSet(S) /\ n \in Nat
  BY CPUSets, Zenon
<1>3. ASSUME NEW c \in S
      PROVE  Cardinality(Below(c)) \in 0..(n - 1)
  <2>1. Below(c) \in SUBSET S /\ c \notin Below(c)
    BY <1>1, SMTT(30)
  <2>2. Cardinality(Below(c)) <= n /\ Cardinality(Below(c)) # n
    BY <2>1, CPUSets, Zenon
  <2>3. Cardinality(Below(c)) \in Nat
    BY <2>1, CPUSets, Zenon
  <2>4. QED
    BY <1>2, <2>2, <2>3, SMTT(30)
<1>4. ASSUME NEW c \in S, NEW d \in S, c < d
      PROVE  Cardinality(Below(c)) # Cardinality(Below(d))
  <2>1. Below(c) \in SUBSET Below(d) /\ c \in Below(d) /\ c \notin Below(c)
    BY <1>1, <1>4, SMTT(30)
  <2>2. Below(d) \in SUBSET CPUs
    OBVIOUS
  <2> HIDE DEF Below
  <2>3. Below(c) # Below(d)
    BY <2>1, Zenon
  <2>4. QED
    BY <2>1, <2>2, <2>3, CPUSets, Zenon
<1>5. rank \in Injection(S, 0..(n - 1))
  <2>1. rank \in [S -> 0..(n - 1)]
    BY <1>3, Zenon
  <2>2. ASSUME NEW c \in S, NEW d \in S, rank[c] = rank[d]
        PROVE  c = d
    BY <2>2, <1>1, <1>4, SMTT(30)
  <2>3. IsInjective(rank)
    BY <2>1, <2>2, Zenon DEF IsInjective
  <2>4. QED
    BY <2>1, <2>3, Zenon DEF Injection
<1>6. IsFiniteSet(0..(n - 1)) /\ Cardinality(0..(n - 1)) = n
  BY <1>2, FS_Interval, SMTT(30)
<1> HIDE DEF n, rank
<1>7. rank \in Surjection(S, 0..(n - 1))
  BY <1>5, <1>6, FS_Injection, Zenon DEF n
<1>8. \A r \in 0..(n - 1) : \E c \in S : rank[c] = r
  BY <1>7, Zenon DEF Surjection
<1>9. QED
  BY <1>3, <1>8, Zenon DEF n, rank

-----------------------------------------------------------------------------

\* The CPUs of the barriers after the first, and of the waits inside of them, have
\* left a barrier; the one that waits in the first has not.
LEMMA FirstBarrier ==
    /\ ~(Left("wait1") > 0) /\ Entered("wait1") > 0
    /\ \A p \in {"barrier2", "barrier3", "barrier4", "barrier5", "barrier6",
                 "wait2", "wait3", "wait4", "wait5", "wait6"} :
          Entered(p) > 0 /\ Left(p) > 0 /\ p # "vcpu_init"
  BY SMTT(30) DEF Left, Waiting, Entered, Round1, Round2, Round3, Round4, Round5, Round6, Round7

\* A barrier, entered or left, changes neither vm->cpus nor the id of a vcpu, and the
\* first one leads to vm_vcpu_init.
LEMMA IdBarriers ==
    ASSUME NEW c \in CPUs, barrier_arrive(c) \/ barrier_leave(c), TypeInv
    PROVE  /\ cpus' = cpus /\ id' = id
           /\ pc'[c] = "barrier1" \/ Entered(pc'[c]) > 0 =>
                 pc[c] = "barrier1" \/ Entered(pc[c]) > 0
           /\ Left(pc'[c]) > 0 /\ pc'[c] # "vcpu_init" =>
                 Left(pc[c]) > 0 /\ pc[c] # "vcpu_init"
<1>1. cpus' = cpus /\ id' = id
  BY Zenon DEF barrier_arrive, barrier_leave, cpuvars
<1>2. CASE barrier_arrive(c)
  <2>1. pc[c] \in DOMAIN Wait /\ (pc'[c] = Wait[pc[c]] \/ pc'[c] = After[Wait[pc[c]]])
    BY <1>2, Zenon DEF barrier_arrive, Goto, TypeInv
  <2>2. \/ pc[c] = "barrier1" /\ pc'[c] \in {"wait1", "vcpu_init"}
        \/ pc[c] \in {"barrier2", "barrier3", "barrier4", "barrier5", "barrier6"}
    BY <2>1, WaitAfter, Zenon
  <2>3. QED
    BY <1>1, <2>2, FirstBarrier, ZenonT(30)
<1>3. CASE barrier_leave(c)
  <2>1. pc[c] \in DOMAIN After /\ pc'[c] = After[pc[c]]
    BY <1>3, Zenon DEF barrier_leave, Goto, TypeInv
  <2>2. \/ pc[c] = "wait1" /\ pc'[c] = "vcpu_init"
        \/ pc[c] \in {"wait2", "wait3", "wait4", "wait5", "wait6"}
    BY <2>1, AfterWait, Zenon
  <2>3. QED
    BY <1>1, <2>2, FirstBarrier, ZenonT(30)
<1>4. QED
  BY <1>2, <1>3, Zenon

\* vm->cpus is written by vm_cpu_init and the id of a vcpu by vm_vcpu_init,
\* and nobody gets past them in another way.
LEMMA IdPoints ==
    ASSUME TypeInv, NEW c \in CPUs, Step(c)
    PROVE  \/ vm_cpu_init(c) \/ vm_vcpu_init(c)
           \/ /\ cpus' = cpus /\ id' = id
              /\ pc'[c] = "barrier1" \/ Entered(pc'[c]) > 0 =>
                    pc[c] = "barrier1" \/ Entered(pc[c]) > 0
              /\ Left(pc'[c]) > 0 /\ pc'[c] # "vcpu_init" =>
                    Left(pc[c]) > 0 /\ pc[c] # "vcpu_init"
<1> USE DEF Goto, cpuvars, listvars, irqvars, TypeInv, Left, Waiting, Entered,
        Round1, Round2, Round3, Round4, Round5, Round6, Round7
<1>1. CASE vmm_assign_vcpu(c)
  <2>1. pc'[c] \in {"alloc", "assign", "idle"} /\ cpus' = cpus /\ id' = id
    BY <1>1, Zenon DEF vmm_assign_vcpu
  <2>2. QED
    BY <2>1, SMTT(30)
<1>2. CASE vm_allocation_init(c)
  <2>1. pc'[c] \in {"fault", "master_init", "cpu_init"} /\ cpus' = cpus /\ id' = id
    BY <1>2, ZenonT(30) DEF vm_allocation_init
  <2>2. QED
    BY <2>1, SMTT(30)
<1>3. CASE barrier_arrive(c)
  BY <1>3, IdBarriers, ZenonT(30)
<1>4. CASE barrier_leave(c)
  BY <1>4, IdBarriers, ZenonT(30)
<1>5. CASE interrupts_check(c)
  <2>1. /\ pc[c] = "dev" /\ pc'[c] \in {"barrier5", "error", "irq_set"}
        /\ cpus' = cpus /\ id' = id
    BY <1>5, ZenonT(30) DEF interrupts_check
  <2>2. QED
    BY <2>1, Zenon
<1>6. CASE vm_list_init(c) \/ vmm_alloc_install_vm(c) \/ vm_master_init(c)
  <2>1. pc'[c] \in {"assign", "vm_init", "cpu_init"} /\ cpus' = cpus /\ id' = id
    BY <1>6, ZenonT(30) DEF vm_list_init, vmm_alloc_install_vm, vm_master_init
  <2>2. QED
    BY <2>1, SMTT(30)
<1>7. CASE clear_add(c) \/ clear_read(c) \/ clear_wait(c)
  <2>1. pc[c] \in {"clear_add", "clear_read", "clear_wait"} /\ cpus' = cpus /\ id' = id
    BY <1>7, ZenonT(30) DEF clear_add, clear_read, clear_wait
  <2>2. QED
    BY <2>1, SMTT(30)
<1>8. CASE interrupts_set(c) \/ interrupts_store(c) \/ init_list_node(c) \/ list_add(c)
  <2>1. /\ pc[c] \in {"irq_set", "irq_store", "list_node", "list_add"}
        /\ cpus' = cpus /\ id' = id
    BY <1>8, Zenon DEF interrupts_set, interrupts_store, init_list_node, list_add
  <2>2. QED
    BY <2>1, SMTT(30)
<1>9. QED
  BY <1>1, <1>2, <1>3, <1>4, <1>5, <1>6, <1>7, <1>8, ZenonT(30) DEF Step

\* The CPUs of a machine and the numbers of its vcpus.
LEMMA CpusStep ==
    ASSUME BootInv, NEW c \in CPUs, Step(c)
    PROVE  CpusInv'
<1> USE DEF BootInv, SyncInv
<1>1. OthersKept(c) /\ TypeInv'
  BY TypeStep, Zenon
<1>2. \A v \in VMs : Mine(v) \subseteq Mine(v)'
  <2>1. \A d \in CPUs : vm[d] \in VMs => vm'[d] = vm[d]
    <3>1. vm' = vm \/ \E i \in VMs : Joins(c, i)
      BY StepKinds, Zenon DEF Quiet, Arrives, vm_master_init, cpuvars
    <3>2. (\E i \in VMs : Joins(c, i)) => vm[c] \notin VMs
      BY BootAssumption, SMTT(30) DEF Joins, VMs
    <3>3. QED
      BY <1>1, <3>1, <3>2, Zenon DEF OthersKept
  <2>2. QED
    BY <2>1, Zenon DEF Mine
<1>3. \A v \in VMs : (\E d \in Mine(v) : Left(pc[d]) > 0) => Mine(v)' = Mine(v)
  <2>1. CASE vm' = vm
    BY <1>1, <2>1, MineStep, Zenon
  <2>2. CASE \E i \in VMs : Joins(c, i)
    <3>1. PICK i \in VMs : Joins(c, i)
      BY <2>2, Zenon
    <3>2. \A v \in VMs \ {i} : Mine(v)' = Mine(v)
      BY <1>1, <3>1, MineStep, Zenon
    <3>3. ~\E d \in Mine(i) : Left(pc[d]) > 0
      <4>1. SUFFICES ASSUME NEW d \in Mine(i), Left(pc[d]) > 0 PROVE FALSE
        OBVIOUS
      <4>2. Cardinality(Mine(i)) = NrVcpus[i]
        BY <4>1, Complete, Zenon DEF Mine
      <4>3. assign[i].ncpus < NrVcpus[i] /\ assign[i].ncpus = Cardinality(Mine(i))
        BY <3>1, Zenon DEF Joins, AssignInv
      <4>4. QED
        BY <4>2, <4>3, BootAssumption, SMTT(30)
    <3>4. QED
      BY <3>2, <3>3, Zenon
  <2>3. QED
    BY <2>1, <2>2, StepKinds, Zenon DEF Quiet, Arrives, vm_master_init, cpuvars
<1>4. /\ \A d \in CPUs \ {c} : pc'[d] = pc[d] /\ vm'[d] = vm[d] /\ id'[d] = id[d]
      /\ \A v \in VMs : cpus[v] \subseteq Mine(v)
      /\ \A d \in CPUs : vm[d] \in VMs /\ (pc[d] = "barrier1" \/ Entered(pc[d]) > 0)
                         => d \in cpus[vm[d]]
  BY <1>1, Zenon DEF OthersKept, CpusInv
<1>5. ASSUME NEW d \in CPUs, vm[d] \in VMs, vm'[d] = vm[d], id'[d] = id[d],
             Left(pc[d]) > 0, pc[d] # "vcpu_init"
      PROVE  id'[d] = Cardinality({e \in Mine(vm[d])' : e < d})
  <2>1. d \in Mine(vm[d])
    BY Zenon DEF Mine
  <2>2. PICK v \in VMs : v = vm[d]
    BY <1>5, Zenon
  <2>3. Mine(v)' = Mine(v)
    BY <1>3, <1>5, <2>1, <2>2, Zenon
  <2>4. id[d] = Cardinality({e \in Mine(vm[d]) : e < d})
    BY <1>5, Zenon DEF CpusInv
  <2>5. Mine(vm[d])' = Mine(v)'
    BY <1>5, <2>2, Zenon DEF Mine
  <2>6. QED
    BY <1>5, <2>2, <2>3, <2>4, <2>5, Zenon
<1>6. ASSUME NEW d \in CPUs \ {c}, vm'[d] \in VMs, Left(pc'[d]) > 0, pc'[d] # "vcpu_init"
      PROVE  id'[d] = Cardinality({e \in Mine(vm[d])' : e < d})
  BY <1>4, <1>5, <1>6, ZenonT(30)
<1>7. CASE vm_cpu_init(c)
  <2>1. PICK v \in VMs : v = vm[c]
    BY <1>7, PointTyped, Zenon DEF vm_cpu_init, Unassigned
  <2>2. /\ cpus' = [cpus EXCEPT ![v] = @ \cup {c}] /\ pc'[c] = "barrier1" /\ vm' = vm
    BY <1>7, <2>1, Zenon DEF vm_cpu_init, Goto, TypeInv, cpuvars
  <2>3. cpus'[v] = cpus[v] \cup {c} /\ \A w \in VMs \ {v} : cpus'[w] = cpus[w]
    BY <2>2, Zenon DEF TypeInv
  <2>4. c \in Mine(v)
    BY <2>1, Zenon DEF Mine
  <2>5. ASSUME NEW w \in VMs PROVE cpus'[w] \subseteq Mine(w)'
    BY <1>2, <1>4, <2>3, <2>4, SMTT(30)
  <2>6. Left(pc'[c]) = 0
    BY <2>2, Zenon DEF Left, Waiting, Entered, Round1, Round2, Round3, Round4, Round5, Round6, Round7
  <2>7. ASSUME NEW d \in CPUs, vm'[d] \in VMs, pc'[d] = "barrier1" \/ Entered(pc'[d]) > 0
        PROVE  d \in cpus'[vm'[d]]
    BY <1>4, <2>1, <2>2, <2>3, <2>7, Zenon
  <2>8. QED
    BY <1>6, <2>5, <2>6, <2>7, SMTT(30) DEF CpusInv
<1>8. CASE vm_vcpu_init(c)
  <2>1. PICK v \in VMs : v = vm[c]
    BY <1>8, PointTyped, Zenon DEF vm_vcpu_init, Unassigned
  <2>2. /\ id' = [id EXCEPT ![c] = Cardinality({d \in cpus[v] : d < c})]
        /\ pc[c] = "vcpu_init" /\ pc'[c] = "barrier2" /\ vm' = vm /\ cpus' = cpus
    BY <1>8, <2>1, Zenon DEF vm_vcpu_init, Goto, TypeInv
  <2>3. Left(pc[c]) = 1 /\ Entered(pc[c]) = 1
    BY <2>2, Zenon DEF Left, Waiting, Entered, Round1
  <2>4. \A d \in Mine(v) : Entered(pc[d]) >= 1
    BY <2>1, <2>3, Complete, SMTT(30)
  <2>5. cpus[v] = Mine(v)
    <3>1. ASSUME NEW d \in Mine(v) PROVE d \in cpus[v]
      <4>1. d \in CPUs /\ vm[d] = v /\ Entered(pc[d]) > 0
        <5>1. d \in CPUs /\ vm[d] = v
          BY Zenon DEF Mine
        <5>2. Entered(pc[d]) \in Nat
          BY <5>1, PointTyped, PointFacts, SMTT(30)
        <5>3. QED
          BY <2>4, <5>1, <5>2, SMTT(30)
      <4>2. QED
        BY <1>4, <4>1, Zenon
    <3>2. QED
      BY <1>4, <3>1, Zenon
  <2>6. c \in Mine(v) /\ Mine(v)' = Mine(v)
    BY <1>3, <2>1, <2>3, SMTT(30) DEF Mine
  <2>7. id'[c] = Cardinality({e \in Mine(v)' : e < c})
    BY <2>2, <2>5, <2>6, Zenon DEF TypeInv
  <2>8. Mine(vm[c])' = Mine(v)'
    BY <2>1, <2>2, Zenon DEF Mine
  <2>9. ASSUME NEW d \in CPUs, vm'[d] \in VMs, Left(pc'[d]) > 0, pc'[d] # "vcpu_init"
        PROVE  id'[d] = Cardinality({e \in Mine(vm[d])' : e < d})
    BY <1>6, <2>7, <2>8, <2>9, ZenonT(30)
  <2>10. ASSUME NEW d \in CPUs, vm'[d] \in VMs, pc'[d] = "barrier1" \/ Entered(pc'[d]) > 0
         PROVE  d \in cpus'[vm'[d]]
    BY <1>4, <2>2, <2>3, <2>10, SMTT(30)
  <2>11. \A w \in VMs : cpus'[w] \subseteq Mine(w)'
    BY <1>2, <1>4, <2>2, Zenon
  <2>12. QED
    BY <2>9, <2>10, <2>11, Zenon DEF CpusInv
<1>9. CASE ~vm_cpu_init(c) /\ ~vm_vcpu_init(c)
  <2>1. /\ cpus' = cpus /\ id' = id
        /\ pc'[c] = "barrier1" \/ Entered(pc'[c]) > 0 =>
              pc[c] = "barrier1" \/ Entered(pc[c]) > 0
        /\ Left(pc'[c]) > 0 /\ pc'[c] # "vcpu_init" =>
              Left(pc[c]) > 0 /\ pc[c] # "vcpu_init"
    BY <1>9, IdPoints, Zenon
  <2>2. pc'[c] = "barrier1" \/ Entered(pc'[c]) > 0 \/ Left(pc'[c]) > 0 =>
          vm[c] \in VMs /\ vm'[c] = vm[c]
    <3>1. \A i \in VMs : Joins(c, i) => pc'[c] = "alloc"
      BY Zenon DEF Joins, TypeInv
    <3>2. (\E i \in VMs : Joins(c, i)) =>
             ~(pc'[c] = "barrier1" \/ Entered(pc'[c]) > 0 \/ Left(pc'[c]) > 0)
      BY <3>1, SMTT(30) DEF Left, Waiting, Entered, Round1, Round2, Round3, Round4, Round5, Round6, Round7
    <3>3. ASSUME vm' = vm, pc'[c] = "barrier1" \/ Entered(pc'[c]) > 0 \/ Left(pc'[c]) > 0
          PROVE  vm[c] \in VMs
      <4>1. pc'[c] \notin Unassigned
        BY <3>3, SMTT(30) DEF Unassigned, Left, Waiting, Entered, Round1, Round2, Round3, Round4, Round5,
                    Round6, Round7
      <4>2. QED
        BY <1>1, <3>3, <4>1, ZenonT(30) DEF TypeInv
    <3>4. QED
      BY <3>2, <3>3, StepKinds, Zenon DEF Quiet, Arrives, vm_master_init, cpuvars
  <2>3. ASSUME NEW d \in CPUs, vm'[d] \in VMs, Left(pc'[d]) > 0, pc'[d] # "vcpu_init"
        PROVE  id'[d] = Cardinality({e \in Mine(vm[d])' : e < d})
    BY <1>5, <1>6, <2>1, <2>2, <2>3, Zenon
  <2>4. ASSUME NEW d \in CPUs, vm'[d] \in VMs, pc'[d] = "barrier1" \/ Entered(pc'[d]) > 0
        PROVE  d \in cpus'[vm'[d]]
    BY <1>4, <2>1, <2>2, <2>4, Zenon
  <2>5. \A w \in VMs : cpus'[w] \subseteq Mine(w)'
    BY <1>2, <1>4, <2>1, Zenon
  <2>6. QED
    BY <2>3, <2>4, <2>5, Zenon DEF CpusInv
<1>10. QED
  BY <1>7, <1>8, <1>9, Zenon

-----------------------------------------------------------------------------

\* The interrupts of the machines change in vm_init_dev only.
LEMMA DevPoints ==
    ASSUME TypeInv, NEW c \in CPUs, Step(c)
    PROVE  \/ vmm_assign_vcpu(c)
           \/ interrupts_check(c) \/ interrupts_set(c) \/ interrupts_store(c)
           \/ /\ UNCHANGED <<irqvars, idx, vm, master, assign>>
              /\ {pc[c], pc'[c]} \cap {"irq_set", "irq_store"} = {}
              /\ Before(pc'[c]) \/ pc'[c] = "dev" => Before(pc[c])
              /\ Done(pc'[c]) => Done(pc[c])
<1> USE DEF Goto, cpuvars, listvars, irqvars, TypeInv, Before, Done, Entered,
        Round1, Round2, Round3, Round4, Round5, Round6, Round7
<1>1. CASE barrier_arrive(c)
  <2>1. /\ pc[c] \in DOMAIN Wait /\ UNCHANGED <<irqvars, idx, vm, master, assign>>
        /\ pc'[c] = Wait[pc[c]] \/ pc'[c] = After[Wait[pc[c]]]
    BY <1>1, Zenon DEF barrier_arrive
  <2>2. \/ pc[c] \in {"barrier1", "barrier2", "barrier3"}
             /\ pc'[c] \in {"wait1", "wait2", "wait3", "vcpu_init", "barrier3", "clear_add"}
        \/ pc[c] = "barrier4" /\ pc'[c] \in {"wait4", "dev"}
        \/ pc[c] \in {"barrier5", "barrier6"}
             /\ pc'[c] \in {"wait5", "wait6", "list_node", "run"}
    BY <2>1, WaitAfter, ZenonT(30)
  <2>3. QED
    BY <2>1, <2>2, SMTT(30)
<1>2. CASE barrier_leave(c)
  <2>1. /\ pc[c] \in DOMAIN After /\ UNCHANGED <<irqvars, idx, vm, master, assign>>
        /\ pc'[c] = After[pc[c]]
    BY <1>2, Zenon DEF barrier_leave
  <2>2. \/ /\ pc[c] \in {"wait1", "wait2", "wait3"}
           /\ pc'[c] \in {"vcpu_init", "barrier3", "clear_add"}
        \/ pc[c] = "wait4" /\ pc'[c] = "dev"
        \/ pc[c] \in {"wait5", "wait6"} /\ pc'[c] \in {"list_node", "run"}
    BY <2>1, AfterWait, ZenonT(30)
  <2>3. QED
    BY <2>1, <2>2, SMTT(30)
<1>3. CASE vm_list_init(c) \/ vmm_alloc_install_vm(c) \/ vm_allocation_init(c)
           \/ vm_master_init(c) \/ vm_cpu_init(c) \/ vm_vcpu_init(c)
  <2>1. /\ UNCHANGED <<irqvars, idx, vm, master, assign>>
        /\ pc[c] \in {"list_init", "alloc", "vm_init", "master_init", "cpu_init", "vcpu_init"}
        /\ pc'[c] \in {"assign", "vm_init", "fault", "master_init", "cpu_init", "barrier1",
                        "barrier2"}
    BY <1>3, ZenonT(30) DEF vm_list_init, vmm_alloc_install_vm, vm_allocation_init, vm_master_init,
                vm_cpu_init, vm_vcpu_init
  <2>2. QED
    BY <2>1, SMTT(30)
<1>4. CASE clear_add(c) \/ clear_read(c) \/ clear_wait(c)
  <2>1. /\ UNCHANGED <<irqvars, idx, vm, master, assign>>
        /\ pc[c] \in {"clear_add", "clear_read", "clear_wait"}
        /\ pc'[c] \in {"clear_read", "clear_wait", "barrier4"}
    BY <1>4, Zenon DEF clear_add, clear_read, clear_wait
  <2>2. QED
    BY <2>1, SMTT(30)
<1>5. CASE init_list_node(c) \/ list_add(c)
  <2>1. /\ UNCHANGED <<irqvars, idx, vm, master, assign>>
        /\ pc[c] \in {"list_node", "list_add"} /\ pc'[c] \in {"list_add", "barrier6"}
    BY <1>5, Zenon DEF init_list_node, list_add
  <2>2. QED
    BY <2>1, Zenon
<1>6. QED
  BY <1>1, <1>2, <1>3, <1>4, <1>5, Zenon DEF Step

\* Nothing taken, one more taken.
LEMMA TakenFacts ==
    ASSUME NEW v \in VMs
    PROVE  /\ Taken(v, 0) = {}
           /\ \A k \in Nat \ {0} : Taken(v, k) = Taken(v, k - 1) \cup {Irqs[v][k]}
           /\ Len(Irqs[v]) \in Nat
<1>1. Taken(v, 0) = {}
  BY DEF Taken
<1>2. ASSUME NEW k \in Nat \ {0}
      PROVE  Taken(v, k) = Taken(v, k - 1) \cup {Irqs[v][k]}
  <2>1. 1..k = (1..(k - 1)) \cup {k}
    OBVIOUS
  <2>2. QED
    BY <2>1, Zenon DEF Taken
<1>3. QED
  BY <1>1, <1>2, BootAssumption, SMTT(30)

\* The interrupts of each machine.
LEMMA DevStep ==
    ASSUME BootInv, NEW c \in CPUs, Step(c)
    PROVE  DevInv'
<1> USE DEF BootInv, SyncInv, irqvars
<1>1. OthersKept(c) /\ TypeInv'
  BY TypeStep, Zenon
<1>2. ASSUME NEW d \in CPUs \ {c}, irqs' = irqs PROVE DevOf(d)'
  BY <1>1, <1>2, SMTT(30) DEF OthersKept, DevInv, DevOf
<1>3. CASE interrupts_check(c)
  <2>1. /\ pc[c] = "dev" /\ UNCHANGED <<irqs, vm, master, assign>>
    BY <1>3, Zenon DEF interrupts_check
  <2>2. ASSUME vm[c] \in VMs, master[c] PROVE DevOf(c)'
    <3>1. /\ idx[c] <= Len(Irqs[vm[c]]) /\ irqs[vm[c]] = Taken(vm[c], idx[c])
          /\ idx[c] \in Nat /\ Len(Irqs[vm[c]]) \in Nat
      BY <2>1, <2>2, TakenFacts, Zenon DEF DevInv, DevOf, TypeInv
    <3>2. CASE ~(idx[c] + 1 <= Len(Irqs[vm[c]]))
      <4>1. pc'[c] = "barrier5" /\ idx' = idx
        BY <1>3, <2>2, <3>2, Zenon DEF interrupts_check, Goto, TypeInv
      <4>2. idx[c] = Len(Irqs[vm[c]])
        BY <3>1, <3>2, SMTT(30)
      <4>3. ~Before(pc'[c])
        BY <4>1, SMTT(30) DEF Before, Entered, Round1, Round2, Round3, Round4, Round5
      <4>4. QED
        BY <2>1, <3>1, <4>1, <4>2, <4>3, Zenon DEF DevOf
    <3>3. CASE idx[c] + 1 <= Len(Irqs[vm[c]])
      <4>1. /\ pc'[c] \in {"error", "irq_set"} /\ idx'[c] = idx[c] + 1
        BY <1>3, <2>2, <3>3, ZenonT(30) DEF interrupts_check, Goto, TypeInv
      <4>2. ~Before(pc'[c]) /\ ~Done(pc'[c]) /\ pc'[c] \notin {"dev", "irq_store"}
        BY <4>1, SMTT(30) DEF Before, Done, Entered, Round1, Round2, Round3, Round4, Round5
      <4>3. idx'[c] \in 1..Len(Irqs[vm[c]]) /\ idx'[c] - 1 = idx[c]
        BY <3>1, <3>3, <4>1, SMTT(30)
      <4>4. QED
        BY <2>1, <3>1, <4>2, <4>3, Zenon DEF DevOf
    <3>4. QED
      BY <3>2, <3>3, Zenon
  <2>3. DevOf(c)'
    BY <2>1, <2>2, Zenon DEF DevOf
  <2>4. QED
    BY <1>2, <2>1, <2>3, Zenon DEF DevInv
<1>4. CASE interrupts_set(c)
  <2>1. /\ pc[c] = "irq_set" /\ pc'[c] = "irq_store" /\ UNCHANGED <<vm, master, assign, idx>>
    BY <1>4, Zenon DEF interrupts_set, cpuvars, Goto, TypeInv
  <2>2. PICK v \in VMs : v = vm[c]
    BY <2>1, PointTyped, Zenon DEF Unassigned
  <2>3. master[c] /\ assign[v].master
    <3>1. master[c]
      BY <2>1, Zenon DEF ReadyInv
    <3>2. c \in Mine(v)
      BY <2>2, Zenon DEF Mine
    <3>3. QED
      BY <3>1, <3>2, Zenon DEF AssignInv
  <2> DEFINE i == Irqs[v][idx[c]]
  <2>4. /\ irqs'[v] = irqs[v] \cup {i} /\ \A w \in VMs \ {v} : irqs'[w] = irqs[w]
    BY <1>4, <2>2, Zenon DEF interrupts_set, Asked, TypeInv
  <2>5. idx[c] \in 1..Len(Irqs[v]) /\ irqs[v] = Taken(v, idx[c] - 1)
    BY <2>1, <2>2, <2>3, Zenon DEF DevInv, DevOf
  <2>6. idx[c] \in Nat \ {0} /\ idx[c] <= Len(Irqs[v])
    BY <2>5, TakenFacts, SMTT(30)
  <2>7. irqs'[v] = Taken(v, idx[c])
    BY <2>4, <2>5, <2>6, TakenFacts, ZenonT(30)
  <2>8. ~Before(pc'[c]) /\ ~Done(pc'[c])
    BY <2>1, SMTT(30) DEF Before, Done, Entered, Round1, Round2, Round3, Round4, Round5
  <2>9. DevOf(c)'
    BY <2>1, <2>2, <2>5, <2>7, <2>8, Zenon DEF DevOf
  <2>10. ASSUME NEW d \in CPUs \ {c} PROVE DevOf(d)'
    <3>1. vm[d] = v => ~master[d]
      <4>1. c \in Mine(v)
        BY <2>2, Zenon DEF Mine
      <4>2. vm[d] = v => d \in Mine(v)
        BY Zenon DEF Mine
      <4>3. QED
        BY <2>3, <4>1, <4>2, Zenon DEF AssignInv
    <3>2. vm[d] \in VMs /\ master[d] => irqs'[vm[d]] = irqs[vm[d]]
      BY <2>4, <3>1, Zenon
    <3>3. /\ vm'[d] = vm[d] /\ master'[d] = master[d] /\ pc'[d] = pc[d] /\ idx'[d] = idx[d]
          /\ DevOf(d)
      BY <1>1, Zenon DEF OthersKept, DevInv
    <3>4. CASE vm[d] \in VMs /\ master[d]
      BY <3>2, <3>3, <3>4, Zenon DEF DevOf
    <3>5. CASE ~(vm[d] \in VMs /\ master[d])
      BY <3>3, <3>5, Zenon DEF DevOf
    <3>6. QED
      BY <3>4, <3>5, Zenon
  <2>12. \A w \in VMs : ~assign'[w].master => irqs'[w] = {}
    BY <2>1, <2>3, <2>4, Zenon DEF DevInv
  <2>13. QED
    BY <2>9, <2>10, <2>12, Zenon DEF DevInv
<1>8. CASE interrupts_store(c)
  <2>1. /\ pc[c] = "irq_store" /\ pc'[c] = "dev" /\ UNCHANGED <<irqs, vm, master, assign, idx>>
    BY <1>8, Zenon DEF interrupts_store, cpuvars, Goto, TypeInv
  <2>2. ~Before(pc'[c]) /\ ~Done(pc'[c])
    BY <2>1, SMTT(30) DEF Before, Done, Entered, Round1, Round2, Round3, Round4, Round5
  <2>3. ASSUME vm[c] \in VMs, master[c]
        PROVE  idx[c] <= Len(Irqs[vm[c]]) /\ irqs[vm[c]] = Taken(vm[c], idx[c])
    <3>1. idx[c] \in 1..Len(Irqs[vm[c]]) /\ irqs[vm[c]] = Taken(vm[c], idx[c])
      BY <2>1, <2>3, Zenon DEF DevInv, DevOf
    <3>2. QED
      BY <2>3, <3>1, TakenFacts, SMTT(30)
  <2>4. DevOf(c)'
    BY <2>1, <2>2, <2>3, Zenon DEF DevOf
  <2>5. QED
    BY <1>2, <2>1, <2>4, Zenon DEF DevInv
<1>5. CASE vmm_assign_vcpu(c)
  <2>1. irqs' = irqs
    BY <1>5, Zenon DEF vmm_assign_vcpu
  <2>2. CASE \E i \in VMs : Joins(c, i)
    <3>1. PICK i \in VMs : Joins(c, i)
      BY <2>2, Zenon
    <3>2. /\ pc'[c] = "alloc" /\ vm'[c] = i /\ idx'[c] = 0 /\ assign'[i].master
          /\ \A v \in VMs \ {i} : assign'[v] = assign[v]
          /\ master'[c] => ~assign[i].master
      BY <3>1, Zenon DEF Joins, TypeInv
    <3>3. ~Done(pc'[c])
      BY <3>2, SMTT(30) DEF Done, Entered, Round1, Round2, Round3, Round4, Round5, Round6, Round7
    <3>4. DevOf(c)'
      BY <2>1, <3>2, <3>3, Zenon DEF DevOf, DevInv
    <3>5. QED
      BY <1>2, <2>1, <3>2, <3>4, Zenon DEF DevInv
  <2>3. CASE ~\E i \in VMs : Joins(c, i)
    <3>1. pc[c] = "assign"
      BY <1>5, Zenon DEF vmm_assign_vcpu
    <3>2. vm[c] \notin VMs /\ ~vm_master_init(c)
      BY <3>1, PointTyped, Zenon DEF Unassigned, vm_master_init
    <3>3. UNCHANGED <<vm, assign>>
      BY <2>3, <3>2, StepKinds, Zenon DEF Quiet, Arrives
    <3>4. DevOf(c)'
      BY <3>2, <3>3, Zenon DEF DevOf
    <3>5. QED
      BY <1>2, <2>1, <3>3, <3>4, Zenon DEF DevInv
  <2>4. QED
    BY <2>2, <2>3, Zenon
<1>6. CASE /\ UNCHANGED <<irqvars, idx, vm, master, assign>>
           /\ {pc[c], pc'[c]} \cap {"irq_set", "irq_store"} = {}
           /\ Before(pc'[c]) \/ pc'[c] = "dev" => Before(pc[c])
           /\ Done(pc'[c]) => Done(pc[c])
  <2>1. DevOf(c)'
    <3>1. SUFFICES ASSUME vm[c] \in VMs, master[c] PROVE DevOf(c)'
      BY <1>6, Zenon DEF DevOf
    <3>2. Taken(vm[c], 0) = {} /\ Len(Irqs[vm[c]]) \in Nat
      BY <3>1, TakenFacts, Zenon
    <3>3. /\ Before(pc[c]) => idx[c] = 0 /\ irqs[vm[c]] = {}
          /\ Done(pc[c]) => irqs[vm[c]] = Taken(vm[c], Len(Irqs[vm[c]]))
      BY <3>1, Zenon DEF DevInv, DevOf
    <3>4. pc'[c] = "dev" => idx[c] <= Len(Irqs[vm[c]]) /\ irqs[vm[c]] = Taken(vm[c], idx[c])
      <4>1. SUFFICES ASSUME pc'[c] = "dev"
                     PROVE  /\ idx[c] <= Len(Irqs[vm[c]])
                            /\ irqs[vm[c]] = Taken(vm[c], idx[c])
        OBVIOUS
      <4>2. idx[c] = 0 /\ irqs[vm[c]] = {}
        BY <1>6, <3>3, <4>1, Zenon
      <4>3. QED
        BY <3>2, <4>2, SMTT(30)
    <3>5. QED
      BY <1>6, <3>3, <3>4, Zenon DEF DevOf
  <2>2. QED
    BY <1>2, <1>6, <2>1, Zenon DEF DevInv
<1>7. QED
  BY <1>3, <1>4, <1>5, <1>6, <1>8, DevPoints, ZenonT(30)

-----------------------------------------------------------------------------

\* The initial state.
LEMMA InitBoot == Init => CpusInv /\ DevInv
<1> SUFFICES ASSUME Init PROVE CpusInv /\ DevInv
  BY SMTT(30)
<1>1. \A c \in CPUs : vm[c] \notin VMs /\ pc[c] = "list_init"
  BY BootAssumption DEF Init, VMs
<1>2. QED
  BY <1>1, Zenon DEF Init, CpusInv, DevInv, DevOf

\* In every behaviour vm_calc_vcpu_id counts a complete machine, and the master
\* has taken as many interrupts as vm_init_dev has gone through.
THEOREM BootInvariant == Spec => []BootInv
<1>1. BootInv /\ [Next]_vars => CpusInv' /\ DevInv'
  <2>1. SUFFICES ASSUME BootInv, [Next]_vars PROVE CpusInv' /\ DevInv'
    OBVIOUS
  <2>2. CASE UNCHANGED vars
    <3> USE <2>1, <2>2 DEF vars, cpuvars, listvars, irqvars, BootInv
    <3>1. \A v \in VMs : Mine(v)' = Mine(v)
      BY Zenon DEF Mine
    <3>2. CpusInv'
      BY <3>1, SMTT(30) DEF CpusInv, Mine
    <3>3. DevInv'
      BY Zenon DEF DevInv, DevOf
    <3>4. QED
      BY <3>2, <3>3, Zenon
  <2>3. CASE Next
    <3>1. PICK c \in CPUs : Step(c)
      BY <2>3, Zenon DEF Next
    <3>2. QED
      BY <2>1, <3>1, CpusStep, DevStep, Zenon
  <2>4. QED
    BY <2>1, <2>2, <2>3, Zenon
<1>2. QED
  BY <1>1, InitBoot, SyncInvariant, PTL DEF Spec, BootInv

\* A running CPU tells that every CPU of its machine is past the barriers.
LEMMA RunningFacts ==
    ASSUME BootInv, NEW v \in VMs, Running(v) # {}
    PROVE  /\ Cardinality(Mine(v)) = NrVcpus[v]
           /\ \A d \in Mine(v) : Entered(pc[d]) = 7
<1> USE DEF BootInv, SyncInv
<1>1. PICK c \in CPUs : vm[c] = v /\ pc[c] = "run"
  BY Zenon DEF Running
<1>2. Left(pc[c]) = 7
  BY <1>1, Zenon DEF Left, Waiting, Entered, Round1, Round2, Round3, Round4, Round5, Round6, Round7
<1>3. /\ Cardinality(Mine(v)) = NrVcpus[v]
      /\ \A d \in Mine(v) : Entered(pc[d]) >= 7
  BY <1>1, <1>2, Complete, SMTT(30)
<1>4. \A d \in Mine(v) : Entered(pc[d]) \in 0..7
  BY PointTyped, PointFacts, Zenon DEF Mine
<1>5. QED
  BY <1>3, <1>4, SMTT(30)

\* A machine runs once all its vcpus are there, numbered from 0 without gaps,
\* with one master: the barrier between vm_cpu_init and vm_vcpu_init makes
\* vm_calc_vcpu_id see every CPU of the machine.
THEOREM VcpusCompleteHolds == Spec => []VcpusComplete
<1>1. BootInv => VcpusComplete
  <2> SUFFICES ASSUME BootInv, NEW v \in VMs, Running(v) # {}
               PROVE  /\ Cardinality(Mine(v)) = NrVcpus[v]
                      /\ {id[c] : c \in Mine(v)} = 0..(NrVcpus[v] - 1)
                      /\ Cardinality({c \in Mine(v) : master[c]}) = 1
    BY Zenon DEF VcpusComplete, Mine
  <2> USE DEF BootInv, SyncInv
  <2>1. /\ Cardinality(Mine(v)) = NrVcpus[v] /\ Mine(v) \in SUBSET CPUs
        /\ \A d \in Mine(v) : Entered(pc[d]) = 7
    BY RunningFacts, Zenon DEF Mine
  <2>2. ASSUME NEW d \in Mine(v)
        PROVE  id[d] = Cardinality({e \in Mine(v) : e < d})
    <3>1. d \in CPUs /\ vm[d] = v /\ pc[d] \in Points /\ Entered(pc[d]) = 7
      BY <2>1, PointTyped, Zenon DEF Mine
    <3>2. pc[d] \in Round7
      BY <3>1, SMTT(30) DEF Entered
    <3>3. Left(pc[d]) > 0 /\ pc[d] # "vcpu_init"
      BY <3>1, <3>2, SMTT(30) DEF Left, Waiting, Round7
    <3>4. QED
      BY <3>1, <3>3, Zenon DEF CpusInv
  <2>3. {id[c] : c \in Mine(v)} = {Cardinality({e \in Mine(v) : e < c}) : c \in Mine(v)}
    BY <2>2, Zenon
  <2>4. {id[c] : c \in Mine(v)} = 0..(NrVcpus[v] - 1)
    BY <2>1, <2>3, Ranks, Zenon
  <2>5. PICK c \in Mine(v) : master[c]
    <3>1. Mine(v) # {}
      BY Zenon DEF Running, Mine
    <3>2. QED
      BY <3>1, Zenon DEF AssignInv
  <2>6. {d \in Mine(v) : master[d]} = {c}
    BY <2>5, Zenon DEF AssignInv
  <2>7. QED
    BY <2>1, <2>4, <2>6, FS_Singleton, Zenon
<1>2. QED
  BY <1>1, BootInvariant, PTL

\* The masters that are taking interrupts are in different granules.
Apart == \A c, d \in Taking : Granule(Asked(c)) = Granule(Asked(d)) => c = d

\* What a master has found free still is; what it has loaded is still what the
\* granule holds.
StillFree == \A c \in CPUs : pc[c] = "irq_set" => ~Conflict(Asked(c))
Loaded ==
    \A c \in CPUs : pc[c] = "irq_store" =>
        word[c] = {i \in global : Granule(i) = Granule(Asked(c))}

\* The interrupts of a machine are taken globally, but for one being stored.
Recorded ==
    \A v \in VMs : \A i \in irqs[v] :
        \/ i \in global
        \/ \E c \in CPUs : vm[c] = v /\ pc[c] = "irq_store" /\ Asked(c) = i

\* No two machines have an interrupt that the conflict test is about.
Exclusive == \A v, w \in VMs : \A i \in irqs[v] \cap irqs[w] : v = w \/ i <= GIC_CPU_PRIV

BitmapInv == ~overlapped => Apart /\ StillFree /\ Loaded /\ Recorded /\ Exclusive

\* Steps that leave the bitmaps alone, of a CPU that is not taking an interrupt.
LEMMA BitmapKept ==
    ASSUME BitmapInv, NEW c \in CPUs, OthersKept(c), UNCHANGED irqvars,
           {pc[c], pc'[c]} \cap {"irq_set", "irq_store"} = {}
    PROVE  BitmapInv'
<1> USE DEF Asked
<1>1. UNCHANGED <<irqs, global, word, overlapped>>
  BY Zenon DEF irqvars
<1>2. ASSUME NEW d \in CPUs, pc'[d] \in {"irq_set", "irq_store"} \/ pc[d] \in {"irq_set", "irq_store"}
      PROVE  /\ pc'[d] = pc[d] /\ vm'[d] = vm[d] /\ idx'[d] = idx[d]
  <2>1. d # c
    BY <1>2, Zenon
  <2>2. QED
    BY <2>1, Zenon DEF OthersKept
<1>3. SUFFICES ASSUME ~overlapped PROVE (Apart /\ StillFree /\ Loaded /\ Recorded /\ Exclusive)'
  BY <1>1, Zenon DEF BitmapInv
<1>4. Apart /\ StillFree /\ Loaded /\ Recorded /\ Exclusive
  BY <1>3, Zenon DEF BitmapInv
<1>5. Apart'
  BY <1>2, <1>4, ZenonT(30) DEF Apart, Taking, Granule
<1>6. StillFree'
  BY <1>1, <1>2, <1>4, Zenon DEF StillFree, Conflict
<1>7. Loaded'
  BY <1>1, <1>2, <1>4, ZenonT(30) DEF Loaded, Granule
<1>8. Recorded'
  <2> SUFFICES ASSUME NEW w \in VMs, NEW j \in irqs'[w], j \notin global'
               PROVE  \E d \in CPUs : vm'[d] = w /\ pc'[d] = "irq_store" /\ Irqs[vm'[d]][idx'[d]] = j
    BY SMTT(30) DEF Recorded
  <2>1. PICK d \in CPUs : vm[d] = w /\ pc[d] = "irq_store" /\ Irqs[vm[d]][idx[d]] = j
    BY <1>1, <1>4, SMTT(30) DEF Recorded
  <2>2. QED
    BY <1>2, <2>1, Zenon
<1>9. Exclusive'
  BY <1>1, <1>4, Zenon DEF Exclusive
<1>10. QED
  BY <1>5, <1>6, <1>7, <1>8, <1>9, Zenon

\* interrupts_check: nobody else is in the granule of the interrupt it finds free.
LEMMA BitmapCheck ==
    ASSUME TypeInv, BitmapInv, NEW c \in CPUs, OthersKept(c), interrupts_check(c)
    PROVE  BitmapInv'
<1> DEFINE more == master[c] /\ idx[c] + 1 <= Len(Irqs[vm[c]])
           i == Irqs[vm[c]][idx[c] + 1]
<1>0. /\ pc[c] = "dev" /\ UNCHANGED <<irqs, global, word, vm>>
      /\ pc \in [CPUs -> Points] /\ idx \in [CPUs -> Nat]
  BY Zenon DEF interrupts_check, TypeInv
<1>1. CASE ~more \/ Conflict(i)
  <2>1. UNCHANGED overlapped /\ pc'[c] \in {"barrier5", "error"}
    BY <1>0, <1>1, ZenonT(30) DEF interrupts_check, Goto
  <2>2. QED
    BY <1>0, <2>1, BitmapKept, Zenon DEF irqvars
<1>2. CASE more /\ ~Conflict(i)
  <2>1. /\ pc'[c] = "irq_set" /\ idx'[c] = idx[c] + 1
        /\ overlapped' = (overlapped \/ \E d \in Taking : Granule(Asked(d)) = Granule(i))
    BY <1>0, <1>2, ZenonT(30) DEF interrupts_check, Goto
  <2>2. SUFFICES ASSUME ~overlapped'
                 PROVE  (Apart /\ StillFree /\ Loaded /\ Recorded /\ Exclusive)'
    BY Zenon DEF BitmapInv
  <2>3. ~overlapped /\ \A d \in Taking : Granule(Asked(d)) # Granule(i)
    BY <2>1, <2>2, Zenon
  <2>4. Apart /\ StillFree /\ Loaded /\ Recorded /\ Exclusive
    BY <2>3, Zenon DEF BitmapInv
  <2> USE DEF Asked
  <2>5. Irqs[vm'[c]][idx'[c]] = i
    BY <1>0, <2>1, Zenon
  <2> HIDE DEF i, more
  <2>6. ASSUME NEW d \in CPUs \ {c}
        PROVE  pc'[d] = pc[d] /\ vm'[d] = vm[d] /\ idx'[d] = idx[d]
    BY Zenon DEF OthersKept
  <2>7. Apart'
    <3>1. \A d \in Taking' : d = c \/ (d \in CPUs \ {c} /\ d \in Taking)
      BY <2>6, Zenon DEF Taking
    <3>2. ASSUME NEW d \in Taking', NEW e \in Taking',
                 Granule(Irqs[vm'[d]][idx'[d]]) = Granule(Irqs[vm'[e]][idx'[e]])
          PROVE  d = e
      <4>1. CASE d = c /\ e # c
        BY <2>3, <2>5, <2>6, <3>1, <3>2, <4>1, Zenon
      <4>2. CASE d # c /\ e = c
        BY <2>3, <2>5, <2>6, <3>1, <3>2, <4>2, Zenon
      <4>3. CASE d # c /\ e # c
        BY <2>4, <2>6, <3>1, <3>2, <4>3, ZenonT(30) DEF Apart
      <4>4. QED
        BY <4>1, <4>2, <4>3, Zenon
    <3>3. QED
      BY <3>2, Zenon DEF Apart, Granule
  <2>8. StillFree'
    <3>1. ~(i \in global' /\ i > GIC_CPU_PRIV)
      BY <1>0, <1>2, Zenon DEF Conflict
    <3>2. QED
      BY <1>0, <2>4, <2>5, <2>6, <3>1, ZenonT(30) DEF StillFree, Conflict
  <2>9. \A d \in CPUs : pc[d] = "irq_store" \/ pc'[d] = "irq_store" => d \in CPUs \ {c}
    BY <1>0, <2>1, Zenon
  <2>10. Loaded'
    BY <1>0, <2>4, <2>6, <2>9, ZenonT(30) DEF Loaded, Granule
  <2>11. Recorded'
    <3> SUFFICES ASSUME NEW w \in VMs, NEW j \in irqs'[w], j \notin global'
                 PROVE  \E d \in CPUs : vm'[d] = w /\ pc'[d] = "irq_store" /\ Irqs[vm'[d]][idx'[d]] = j
      BY ZenonT(30) DEF Recorded
    <3>1. PICK d \in CPUs : vm[d] = w /\ pc[d] = "irq_store" /\ Irqs[vm[d]][idx[d]] = j
      BY <1>0, <2>4, SMTT(30) DEF Recorded
    <3>2. QED
      BY <2>6, <2>9, <3>1, Zenon
  <2>12. Exclusive'
    BY <1>0, <2>4, Zenon DEF Exclusive
  <2>13. QED
    BY <2>7, <2>8, <2>10, <2>11, <2>12, Zenon
<1>3. QED
  BY <1>1, <1>2, Zenon

\* The interrupt that a master takes is a number.
LEMMA AskedNat ==
    ASSUME BootInv, NEW c \in CPUs, pc[c] \in {"irq_set", "irq_store"}
    PROVE  vm[c] \in VMs /\ Asked(c) \in Nat
<1>1. vm[c] \in VMs /\ master[c]
  BY PointTyped, Zenon DEF BootInv, SyncInv, ReadyInv, Unassigned
<1>2. idx[c] \in 1..Len(Irqs[vm[c]])
  BY <1>1, Zenon DEF BootInv, DevInv, DevOf
<1>3. Irqs[vm[c]] \in Seq(Nat)
  BY <1>1, BootAssumption, Zenon
<1>4. QED
  BY <1>1, <1>2, <1>3, SMTT(30) DEF Asked

\* interrupts_set: no other machine has the interrupt, whose bit was clear and
\* which no other master is storing.
LEMMA BitmapSet ==
    ASSUME BootInv, BitmapInv, NEW c \in CPUs, OthersKept(c), interrupts_set(c)
    PROVE  BitmapInv'
<1> USE DEF Asked
<1> DEFINE i == Irqs[vm[c]][idx[c]]
           v == vm[c]
<1>0. /\ pc[c] = "irq_set" /\ pc'[c] = "irq_store" /\ UNCHANGED <<global, overlapped, vm, idx>>
      /\ word'[c] = {j \in global : Granule(j) = Granule(i)}
      /\ irqs' = [irqs EXCEPT ![v] = @ \cup {i}]
  BY Zenon DEF interrupts_set, BootInv, SyncInv, TypeInv, Goto, cpuvars
<1>1. v \in VMs /\ i \in Nat
  BY <1>0, AskedNat, Zenon
<1>2. irqs'[v] = irqs[v] \cup {i} /\ \A w \in VMs \ {v} : irqs'[w] = irqs[w]
  BY <1>0, <1>1, Zenon DEF BootInv, SyncInv, TypeInv
<1>3. SUFFICES ASSUME ~overlapped PROVE (Apart /\ StillFree /\ Loaded /\ Recorded /\ Exclusive)'
  BY <1>0, Zenon DEF BitmapInv
<1>4. Apart /\ StillFree /\ Loaded /\ Recorded /\ Exclusive
  BY <1>3, Zenon DEF BitmapInv
<1>5. Taking' = Taking /\ c \in Taking
  BY <1>0, Zenon DEF Taking, OthersKept
<1>6. ASSUME NEW d \in CPUs \ {c} PROVE pc'[d] = pc[d] /\ word'[d] = word[d]
  BY Zenon DEF OthersKept
<1>7. Apart'
  BY <1>0, <1>4, <1>5, ZenonT(30) DEF Apart, Granule
<1>8. StillFree'
  BY <1>0, <1>4, <1>6, ZenonT(30) DEF StillFree, Conflict
<1>9. Loaded'
  <2> SUFFICES ASSUME NEW d \in CPUs, pc'[d] = "irq_store"
               PROVE  word'[d] = {j \in global' : Granule(j) = Granule(Irqs[vm'[d]][idx'[d]])}
    BY Zenon DEF Loaded, Granule
  <2>1. CASE d = c
    BY <1>0, <2>1, Zenon
  <2>2. CASE d # c
    BY <1>0, <1>4, <1>6, <2>2, ZenonT(30) DEF Loaded
  <2>3. QED
    BY <2>1, <2>2, Zenon
<1>10. Recorded'
  <2> SUFFICES ASSUME NEW w \in VMs, NEW j \in irqs'[w], j \notin global'
               PROVE  \E d \in CPUs : vm'[d] = w /\ pc'[d] = "irq_store" /\ Irqs[vm'[d]][idx'[d]] = j
    BY ZenonT(30) DEF Recorded
  <2>1. CASE w = v /\ j = i
    BY <1>0, <2>1, Zenon
  <2>2. CASE ~(w = v /\ j = i)
    <3> HIDE DEF i, v
    <3>1. j \in irqs[w]
      BY <1>2, <2>2, Zenon
    <3>2. PICK d \in CPUs : vm[d] = w /\ pc[d] = "irq_store" /\ Irqs[vm[d]][idx[d]] = j
      BY <1>0, <1>4, <3>1, SMTT(30) DEF Recorded
    <3>3. d \in CPUs \ {c}
      BY <1>0, <3>2, Zenon
    <3>4. QED
      BY <1>0, <1>6, <3>2, <3>3, Zenon
  <2>3. QED
    BY <2>1, <2>2, Zenon
<1>11. i \notin global \/ i <= GIC_CPU_PRIV
  <2>1. ~Conflict(i)
    BY <1>0, <1>4, Zenon DEF StillFree
  <2> HIDE DEF i
  <2>2. QED
    BY <1>1, <2>1, SMTT(30) DEF Conflict, GIC_CPU_PRIV
<1>12. ASSUME NEW w \in VMs \ {v}, i \in irqs[w] PROVE i <= GIC_CPU_PRIV
  <2>1. i \in global \/ \E d \in CPUs : vm[d] = w /\ pc[d] = "irq_store" /\ Irqs[vm[d]][idx[d]] = i
    BY <1>4, <1>12, Zenon DEF Recorded
  <2>2. ASSUME NEW d \in CPUs, vm[d] = w, pc[d] = "irq_store", Irqs[vm[d]][idx[d]] = i PROVE FALSE
    <3>1. d \in Taking /\ d # c
      BY <1>0, <2>2, Zenon DEF Taking
    <3>2. QED
      BY <1>4, <1>5, <2>2, <3>1, Zenon DEF Apart
  <2>3. QED
    BY <1>11, <2>1, <2>2, Zenon
<1> HIDE DEF i, v
<1>13. Exclusive'
  <2> SUFFICES ASSUME NEW w \in VMs, NEW u \in VMs, w # u, NEW j \in irqs'[w] \cap irqs'[u]
               PROVE  j <= GIC_CPU_PRIV
    BY Zenon DEF Exclusive
  <2>1. CASE j \in irqs[w] /\ j \in irqs[u]
    BY <1>4, <2>1, Zenon DEF Exclusive
  <2>2. CASE ~(j \in irqs[w] /\ j \in irqs[u])
    <3>1. j = i /\ ((w = v /\ i \in irqs[u]) \/ (u = v /\ i \in irqs[w]))
      BY <1>2, <2>2, ZenonT(30)
    <3>2. QED
      BY <1>12, <3>1, Zenon
  <2>3. QED
    BY <2>1, <2>2, Zenon
<1>14. QED
  BY <1>7, <1>8, <1>9, <1>10, <1>13, Zenon

\* interrupts_store: what is stored is what the granule holds, and one more.
LEMMA BitmapStore ==
    ASSUME BootInv, BitmapInv, NEW c \in CPUs, OthersKept(c), interrupts_store(c)
    PROVE  BitmapInv'
<1> USE DEF Asked
<1> DEFINE i == Irqs[vm[c]][idx[c]]
<1>0. /\ pc[c] = "irq_store" /\ pc'[c] = "dev" /\ UNCHANGED <<irqs, overlapped, vm, idx>>
      /\ global' = {j \in global : Granule(j) # Granule(i)} \cup word[c] \cup {i}
  BY Zenon DEF interrupts_store, BootInv, SyncInv, TypeInv, Goto, cpuvars
<1>1. SUFFICES ASSUME ~overlapped PROVE (Apart /\ StillFree /\ Loaded /\ Recorded /\ Exclusive)'
  BY <1>0, Zenon DEF BitmapInv
<1>2. Apart /\ StillFree /\ Loaded /\ Recorded /\ Exclusive
  BY <1>1, Zenon DEF BitmapInv
<1>3. global' = global \cup {i}
  <2>1. word[c] = {j \in global : Granule(j) = Granule(i)}
    BY <1>0, <1>2, Zenon DEF Loaded
  <2> HIDE DEF i
  <2>2. QED
    BY <1>0, <2>1, ZenonT(30)
<1>4. ASSUME NEW d \in CPUs \ {c} PROVE pc'[d] = pc[d] /\ word'[d] = word[d]
  BY Zenon DEF OthersKept
<1>5. /\ \A d \in Taking' : d \in Taking /\ d \in CPUs \ {c}
      /\ c \in Taking
  BY <1>0, <1>4, Zenon DEF Taking
<1>6. \A d \in Taking' : Granule(Irqs[vm[d]][idx[d]]) # Granule(i)
  BY <1>2, <1>5, Zenon DEF Apart
<1> HIDE DEF i
<1>7. Apart'
  BY <1>0, <1>2, <1>5, ZenonT(30) DEF Apart, Granule
<1>8. \A d \in CPUs : pc'[d] \in {"irq_set", "irq_store"} => d \in Taking'
  BY Zenon DEF Taking
<1>9. StillFree'
  <2> SUFFICES ASSUME NEW d \in CPUs, pc'[d] = "irq_set"
               PROVE  ~(Irqs[vm[d]][idx[d]] \in global' /\ Irqs[vm[d]][idx[d]] > GIC_CPU_PRIV)
    BY <1>0, Zenon DEF StillFree, Conflict
  <2>1. Irqs[vm[d]][idx[d]] # i /\ pc[d] = "irq_set"
    BY <1>4, <1>5, <1>6, <1>8, Zenon
  <2>2. QED
    BY <1>2, <1>3, <2>1, Zenon DEF StillFree, Conflict
<1>10. Loaded'
  <2> SUFFICES ASSUME NEW d \in CPUs, pc'[d] = "irq_store"
               PROVE  word'[d] = {j \in global' : Granule(j) = Granule(Irqs[vm[d]][idx[d]])}
    BY <1>0, Zenon DEF Loaded, Granule
  <2>1. /\ Granule(Irqs[vm[d]][idx[d]]) # Granule(i) /\ pc[d] = "irq_store" /\ word'[d] = word[d]
    BY <1>4, <1>5, <1>6, <1>8, Zenon
  <2>2. word[d] = {j \in global : Granule(j) = Granule(Irqs[vm[d]][idx[d]])}
    BY <1>2, <2>1, Zenon DEF Loaded
  <2>3. QED
    BY <1>3, <2>1, <2>2, ZenonT(30)
<1>11. Recorded'
  <2> SUFFICES ASSUME NEW w \in VMs, NEW j \in irqs'[w], j \notin global'
               PROVE  \E d \in CPUs : vm'[d] = w /\ pc'[d] = "irq_store" /\ Irqs[vm'[d]][idx'[d]] = j
    BY Zenon DEF Recorded
  <2>1. PICK d \in CPUs : vm[d] = w /\ pc[d] = "irq_store" /\ Irqs[vm[d]][idx[d]] = j
    BY <1>0, <1>2, <1>3, SMTT(30) DEF Recorded
  <2>2. d \in CPUs \ {c}
    BY <1>3, <2>1, Zenon DEF i
  <2>3. QED
    BY <1>0, <1>4, <2>1, <2>2, ZenonT(30)
<1>12. Exclusive'
  BY <1>0, <1>2, Zenon DEF Exclusive
<1>13. QED
  BY <1>7, <1>9, <1>10, <1>11, <1>12, Zenon

\* In every behaviour global_interrupt_bitmap holds the interrupts of all machines
\* but those being stored, and the masters keep apart, until two overlap.
THEOREM BitmapInvariant == Spec => []BitmapInv
<1>1. Init => BitmapInv
  <2> SUFFICES ASSUME Init PROVE BitmapInv
    OBVIOUS
  <2>1. (\A c \in CPUs : pc[c] = "list_init") /\ \A v \in VMs : irqs[v] = {}
    BY Zenon DEF Init
  <2>2. QED
    BY <2>1, Zenon DEF BitmapInv, Taking, Apart, StillFree, Loaded, Recorded, Exclusive
<1>2. BootInv /\ BitmapInv /\ [Next]_vars => BitmapInv'
  <2> SUFFICES ASSUME BootInv, BitmapInv, [Next]_vars PROVE BitmapInv'
    BY SMTT(30)
  <2>1. CASE UNCHANGED vars
    <3>1. UNCHANGED <<pc, vm, idx, irqs, global, word, overlapped>>
      BY <2>1, Zenon DEF vars, cpuvars, irqvars
    <3>2. QED
      BY <3>1, SMTT(30) DEF BitmapInv, Apart, StillFree, Loaded, Recorded, Exclusive, Taking, Asked,
                            Conflict, Granule
  <2>2. CASE Next
    <3>1. PICK c \in CPUs : Step(c)
      BY <2>2, Zenon DEF Next
    <3>2. OthersKept(c) /\ TypeInv
      BY <3>1, TypeStep, Zenon DEF BootInv, SyncInv
    <3>3. CASE vmm_assign_vcpu(c)
      <4>1. /\ pc[c] = "assign" /\ pc'[c] \in {"assign", "idle", "alloc"} /\ UNCHANGED irqvars
        BY <3>2, <3>3, ZenonT(30) DEF vmm_assign_vcpu, Goto, TypeInv
      <4>2. QED
        BY <3>2, <4>1, BitmapKept, Zenon
    <3>4. QED
      BY <3>1, <3>2, <3>3, DevPoints, BitmapCheck, BitmapSet, BitmapStore, BitmapKept, ZenonT(30)
  <2>3. QED
    BY <2>1, <2>2, Zenon
<1>3. QED
  BY <1>1, <1>2, BootInvariant, PTL DEF Spec

\* A vcpu runs only after the master of its machine has taken all interrupts
\* of the machine; as long as no two masters were in one granule of
\* global_interrupt_bitmap at a time, these are taken globally, and no
\* interrupt above GIC_CPU_PRIV is that of two machines.
THEOREM InterruptsReadyHolds == Spec => []InterruptsReady
<1>1. BootInv /\ BitmapInv => InterruptsReady
  <2> SUFFICES ASSUME BootInv, BitmapInv PROVE InterruptsReady
    OBVIOUS
  <2> USE DEF BootInv, SyncInv
  <2>1. ASSUME NEW v \in VMs, Running(v) # {}
        PROVE  /\ irqs[v] = Taken(v, Len(Irqs[v]))
               /\ \A d \in CPUs : vm[d] = v => pc[d] # "irq_store"
    <3>1. PICK c \in Mine(v) : master[c]
      <4>1. Mine(v) # {}
        BY <2>1, Zenon DEF Running, Mine
      <4>2. QED
        BY <4>1, Zenon DEF AssignInv
    <3>2. \A d \in Mine(v) : Entered(pc[d]) = 7
      BY <2>1, RunningFacts, Zenon
    <3>3. Done(pc[c])
      BY <3>1, <3>2, SMTT(30) DEF Done
    <3>4. irqs[v] = Taken(v, Len(Irqs[v]))
      BY <3>1, <3>3, Zenon DEF DevInv, DevOf, Mine
    <3>5. Entered("irq_store") = 5
      BY SMTT(30) DEF Entered, Round1, Round2, Round3, Round4, Round5
    <3>6. 5 # 7
      OBVIOUS
    <3>7. QED
      BY <3>2, <3>4, <3>5, <3>6, Zenon DEF Mine
  <2>2. ASSUME NEW v \in VMs, Running(v) # {}, ~overlapped PROVE irqs[v] \subseteq global
    BY <2>1, <2>2, Zenon DEF BitmapInv, Recorded
  <2>3. ~overlapped =>
            \A v, w \in VMs : \A i \in irqs[v] \cap irqs[w] : v = w \/ i <= GIC_CPU_PRIV
    BY Zenon DEF BitmapInv, Exclusive
  <2>4. QED
    BY <2>1, <2>2, <2>3, Zenon DEF InterruptsReady, Taken
<1>2. QED
  BY <1>1, BootInvariant, BitmapInvariant, PTL

-----------------------------------------------------------------------------

\* A list without repetition is no longer than the number of machines.
LEMMA ListBound ==
    ASSUME NEW m \in Nat, NEW q \in [1..m -> VMs],
           \A i, j \in 1..m : q[i] = q[j] => i = j
    PROVE  m <= NrVMs
<1>1. q \in Injection(1..m, VMs)
  BY Zenon DEF Injection, IsInjective
<1>2. IsFiniteSet(VMs) /\ Cardinality(VMs) = NrVMs
  BY BootAssumption, FS_Interval, SMTT(30) DEF VMs
<1>3. Cardinality(1..m) = m
  BY FS_Interval, SMTT(30)
<1>4. QED
  BY <1>1, <1>2, <1>3, FS_Injection, SMTT(30)

\* Nobody but the two steps on the list comes to the points they lead to.
LEMMA ListPoints ==
    ASSUME TypeInv, NEW c \in CPUs, Step(c)
    PROVE  \/ vm_list_init(c) \/ init_list_node(c) \/ list_add(c)
           \/ /\ UNCHANGED <<nxt, relinked>>
              /\ pc[c] # "list_add" /\ pc'[c] # "list_add"
              /\ pc[c] # "list_init" /\ pc'[c] # "list_init"
              /\ pc'[c] \in AfterAdd <=> pc[c] \in AfterAdd
              /\ pc[c] \in AfterAdd => vm'[c] = vm[c]
<1> USE DEF Goto, cpuvars, listvars, irqvars, TypeInv, AfterAdd
<1>1. CASE barrier_arrive(c)
  <2>1. /\ pc[c] \in DOMAIN Wait /\ UNCHANGED <<nxt, relinked, vm>>
        /\ pc'[c] = Wait[pc[c]] \/ pc'[c] = After[Wait[pc[c]]]
    BY <1>1, ZenonT(30) DEF barrier_arrive
  <2>2. QED
    BY <2>1, WaitAfter, Zenon
<1>2. CASE barrier_leave(c)
  <2>1. /\ pc[c] \in DOMAIN After /\ UNCHANGED <<nxt, relinked, vm>>
        /\ pc'[c] = After[pc[c]]
    BY <1>2, Zenon DEF barrier_leave
  <2>2. QED
    BY <2>1, SMTT(30) DEF After
<1>3. CASE vmm_assign_vcpu(c)
  <2>1. /\ pc[c] = "assign" /\ pc'[c] \in {"alloc", "assign", "idle"}
        /\ UNCHANGED <<nxt, relinked>>
    BY <1>3, Zenon DEF vmm_assign_vcpu
  <2>2. QED
    BY <2>1, Zenon
<1>4. CASE vmm_alloc_install_vm(c) \/ vm_allocation_init(c)
           \/ vm_master_init(c) \/ vm_cpu_init(c) \/ vm_vcpu_init(c)
  <2>1. /\ UNCHANGED <<nxt, relinked>>
        /\ pc[c] \in {"alloc", "vm_init", "master_init", "cpu_init", "vcpu_init"}
        /\ pc'[c] \in {"vm_init", "fault", "master_init", "cpu_init", "barrier1", "barrier2"}
    BY <1>4, Zenon DEF vmm_alloc_install_vm, vm_allocation_init, vm_master_init,
                vm_cpu_init, vm_vcpu_init
  <2>2. QED
    BY <2>1, Zenon
<1>5. CASE clear_add(c) \/ clear_read(c) \/ clear_wait(c)
  <2>1. /\ UNCHANGED <<nxt, relinked>>
        /\ pc[c] \in {"clear_add", "clear_read", "clear_wait"}
        /\ pc'[c] \in {"clear_read", "clear_wait", "barrier4"}
    BY <1>5, Zenon DEF clear_add, clear_read, clear_wait
  <2>2. QED
    BY <2>1, Zenon
<1>6. CASE interrupts_check(c) \/ interrupts_set(c) \/ interrupts_store(c)
  <2>1. /\ UNCHANGED <<nxt, relinked>>
        /\ pc[c] \in {"dev", "irq_set", "irq_store"}
        /\ pc'[c] \in {"dev", "irq_set", "irq_store", "error", "barrier5"}
    BY <1>6, ZenonT(30) DEF interrupts_check, interrupts_set, interrupts_store
  <2>2. QED
    BY <2>1, Zenon
<1>7. QED
  BY <1>1, <1>2, <1>3, <1>4, <1>5, <1>6, ZenonT(30) DEF Step

\* The list of machines.
LEMMA ListStep ==
    ASSUME TypeInv, ListInv, NEW c \in CPUs, Step(c)
    PROVE  ListInv'
<1> SUFFICES ASSUME ~relinked' PROVE ListInv'
  BY Zenon DEF ListInv
<1>1. OthersKept(c) /\ TypeInv'
  BY TypeStep, Zenon
<1>2. ListHead \notin VMs /\ -1 \notin VMs /\ ListHead # -1
  BY BootAssumption, SMTT(30) DEF ListHead, VMs
<1>3. relinked => relinked'
  BY ListPoints, Zenon DEF vm_list_init, init_list_node, list_add
<1>a. PICK m \in 0..NrVMs : \E q \in [1..m -> VMs] : ListIs(q, m)
  BY <1>3, Zenon DEF ListInv
<1>4. PICK q \in [1..m -> VMs] : ListIs(q, m)
  BY <1>a, Zenon
<1>5. /\ \A d, e \in CPUs :
            vm[d] = vm[e] /\ pc[d] \in NodeReset /\ pc[e] \in NodeReset => d = e
      /\ \A d \in CPUs : pc[d] \in NodeReset => nxt[vm[d]] # -1
      /\ \A v \in VMs : nxt[v] # -1 => \E d \in CPUs : vm[d] = v /\ pc[d] \in NodeReset
      /\ \A d \in CPUs : pc[d] # "list_init" => nxt[ListHead] # -1
  BY <1>3, Zenon DEF ListInv
<1>6. \A d \in CPUs \ {c} : pc'[d] = pc[d] /\ vm'[d] = vm[d]
  BY <1>1, Zenon DEF OthersKept
<1>7. CASE /\ UNCHANGED <<nxt, relinked>>
           /\ pc[c] # "list_add" /\ pc'[c] # "list_add"
           /\ pc[c] # "list_init" /\ pc'[c] # "list_init"
           /\ pc'[c] \in AfterAdd <=> pc[c] \in AfterAdd
           /\ pc[c] \in AfterAdd => vm'[c] = vm[c]
  <2>1. \A d \in CPUs : /\ pc'[d] \in NodeReset <=> pc[d] \in NodeReset
                        /\ pc'[d] \in AfterAdd <=> pc[d] \in AfterAdd
                        /\ pc[d] \in NodeReset => vm'[d] = vm[d]
                        /\ pc'[d] = "list_init" <=> pc[d] = "list_init"
    BY <1>6, <1>7, Zenon DEF NodeReset, AfterAdd
  <2>2. Added' = Added
    <3>1. \A d \in CPUs : pc[d] \in AfterAdd => vm'[d] = vm[d]
      BY <2>1, Zenon DEF NodeReset, AfterAdd
    <3>2. QED
      BY <2>1, <3>1, Zenon DEF Added
  <2>3. ListIs(q, m)'
    BY <1>4, <1>7, <2>2, Zenon DEF ListIs
  <2>4. /\ \A d, e \in CPUs :
              vm'[d] = vm'[e] /\ pc'[d] \in NodeReset /\ pc'[e] \in NodeReset => d = e
        /\ \A d \in CPUs : pc'[d] \in NodeReset => nxt'[vm'[d]] # -1
    BY <1>5, <1>7, <2>1, Zenon
  <2>5. \A v \in VMs : nxt'[v] # -1 => \E d \in CPUs : vm'[d] = v /\ pc'[d] \in NodeReset
    <3> SUFFICES ASSUME NEW v \in VMs, nxt'[v] # -1
                 PROVE  \E d \in CPUs : vm'[d] = v /\ pc'[d] \in NodeReset
      OBVIOUS
    <3>1. PICK d \in CPUs : vm[d] = v /\ pc[d] \in NodeReset
      BY <1>5, <1>7, Zenon
    <3>2. QED
      BY <2>1, <3>1, ZenonT(30)
  <2>6. \A d \in CPUs : pc'[d] # "list_init" => nxt'[ListHead] # -1
    BY <1>5, <1>7, <2>1, ZenonT(30)
  <2>7. QED
    BY <2>3, <2>4, <2>5, <2>6, Zenon DEF ListInv
<1>8. CASE vm_list_init(c)
  <2>1. /\ pc[c] = "list_init" /\ pc'[c] = "assign" /\ vm' = vm
        /\ nxt' = [nxt EXCEPT ![ListHead] = ListHead] /\ nxt[ListHead] \notin VMs
    BY <1>8, Zenon DEF vm_list_init, Goto, cpuvars, TypeInv
  <2>2. m = 0
    <3>1. m # 0 => q[1] \in VMs
      BY SMTT(30)
    <3>2. QED
      BY <1>4, <2>1, <3>1, Zenon DEF ListIs
  <2>3. nxt'[ListHead] = ListHead /\ \A v \in VMs : nxt'[v] = nxt[v]
    BY <1>2, <2>1, Zenon DEF TypeInv, Addrs
  <2>4. \A d \in CPUs : /\ pc'[d] \in NodeReset <=> pc[d] \in NodeReset
                        /\ pc'[d] \in AfterAdd <=> pc[d] \in AfterAdd
    BY <1>6, <2>1, Zenon DEF NodeReset, AfterAdd
  <2>5. Added' = Added
    BY <2>1, <2>4, Zenon DEF Added
  <2>6. ListIs(q, m)'
    BY <1>2, <1>4, <2>2, <2>3, <2>5, Zenon DEF ListIs
  <2>7. \A d \in CPUs : pc[d] \in NodeReset => vm[d] \in VMs
    BY PointTyped, Zenon DEF NodeReset, Unassigned
  <2>8. QED
    BY <1>2, <1>5, <2>1, <2>3, <2>4, <2>6, <2>7, SMTT(30) DEF ListInv
<1>9. CASE init_list_node(c)
  <2>1. PICK v \in VMs : v = vm[c]
    BY <1>9, PointTyped, Zenon DEF init_list_node, Unassigned
  <2>2. /\ pc[c] = "list_node" /\ pc'[c] = "list_add" /\ vm' = vm
        /\ nxt' = [nxt EXCEPT ![v] = v] /\ nxt[v] = -1
    BY <1>9, <2>1, Zenon DEF init_list_node, Goto, cpuvars, TypeInv
  <2>3. nxt'[v] = v /\ nxt'[ListHead] = nxt[ListHead] /\ \A w \in VMs \ {v} : nxt'[w] = nxt[w]
    BY <1>2, <2>2, Zenon DEF TypeInv, Addrs
  <2>4. \A d \in CPUs : pc[d] \in NodeReset => vm[d] # v
    BY <1>5, <2>2, Zenon
  <2>5. \A d \in CPUs : /\ pc'[d] \in NodeReset <=> pc[d] \in NodeReset \/ d = c
                        /\ pc'[d] \in AfterAdd <=> pc[d] \in AfterAdd
    BY <1>6, <2>2, Zenon DEF NodeReset, AfterAdd
  <2>6. Added' = Added
    BY <2>2, <2>5, Zenon DEF Added
  <2>7. v \notin Added
    BY <2>4, Zenon DEF Added, NodeReset, AfterAdd
  <2>8. \A i \in 1..m : q[i] \in VMs \ {v}
    BY <1>4, <2>7, Zenon DEF ListIs
  <2>9. ListIs(q, m)'
    BY <1>4, <2>3, <2>6, <2>8, Zenon DEF ListIs
  <2>10. \A d \in CPUs : pc[d] \in NodeReset => vm[d] \in VMs
    BY PointTyped, Zenon DEF NodeReset, Unassigned
  <2>11. \A d, e \in CPUs :
           vm'[d] = vm'[e] /\ pc'[d] \in NodeReset /\ pc'[e] \in NodeReset => d = e
    BY <1>5, <2>1, <2>2, <2>4, <2>5, ZenonT(30)
  <2>12. \A d \in CPUs : pc'[d] \in NodeReset => nxt'[vm'[d]] # -1
    BY <1>2, <1>5, <2>1, <2>2, <2>3, <2>5, <2>10, SMTT(30)
  <2>13. \A w \in VMs : nxt'[w] # -1 => \E d \in CPUs : vm'[d] = w /\ pc'[d] \in NodeReset
    BY <1>5, <2>1, <2>2, <2>3, <2>5, ZenonT(30)
  <2>14. \A d \in CPUs : pc'[d] # "list_init" => nxt'[ListHead] # -1
    BY <1>5, <1>6, <2>2, <2>3, Zenon
  <2>15. QED
    BY <2>9, <2>11, <2>12, <2>13, <2>14, Zenon DEF ListInv
<1>10. CASE list_add(c)
  <2>1. PICK v \in VMs : v = vm[c]
    BY <1>10, PointTyped, Zenon DEF list_add, Unassigned
  <2>2. /\ pc[c] = "list_add" /\ pc'[c] = "barrier6" /\ vm' = vm
        /\ nxt' = [nxt EXCEPT ![v] = nxt[ListHead], ![ListHead] = v]
    BY <1>10, <2>1, Zenon DEF list_add, Goto, cpuvars, TypeInv
  <2>3. /\ nxt'[v] = nxt[ListHead] /\ nxt'[ListHead] = v
        /\ \A w \in VMs \ {v} : nxt'[w] = nxt[w]
    BY <1>2, <2>2, ZenonT(30) DEF TypeInv, Addrs
  <2>4. nxt[ListHead] # -1 /\ nxt[ListHead] \in VMs \cup {ListHead}
    BY <1>5, <2>2, SMTT(30) DEF TypeInv, Addrs
  <2>5. \A d \in CPUs : pc[d] \in AfterAdd => vm[d] # v
    BY <1>5, <2>1, <2>2, SMTT(30) DEF NodeReset, AfterAdd
  <2>6. v \notin Added
    BY <2>5, Zenon DEF Added
  <2>7. \A d \in CPUs : /\ pc'[d] \in NodeReset <=> pc[d] \in NodeReset
                        /\ pc'[d] \in AfterAdd <=> pc[d] \in AfterAdd \/ d = c
    BY <1>6, <2>2, Zenon DEF NodeReset, AfterAdd
  <2>8. Added' = Added \cup {v}
    BY <2>1, <2>2, <2>7, Zenon DEF Added
  <2> DEFINE r == [i \in 1..(m + 1) |-> IF i = 1 THEN v ELSE q[i - 1]]
  <2>9. \A i \in 1..m : q[i] \in VMs /\ q[i] # v
    BY <1>4, <2>6, Zenon DEF ListIs
  <2>10. /\ r \in [1..(m + 1) -> VMs] /\ r[1] = v
         /\ \A i \in 2..(m + 1) : r[i] = q[i - 1] /\ i - 1 \in 1..m
         /\ \A i \in 1..m : r[i + 1] = q[i]
    BY <2>9, SMTT(30)
  <2>11. ASSUME NEW i \in 1..(m + 1), NEW j \in 1..(m + 1), r[i] = r[j]
         PROVE  i = j
    <3>1. \A k \in 1..m, l \in 1..m : q[k] = q[l] => k = l
      BY <1>4, Zenon DEF ListIs
    <3>2. QED
      BY <2>9, <2>11, <3>1, SMTT(30)
  <2>12. {r[i] : i \in 1..(m + 1)} = Added'
    <3>1. Added = {q[i] : i \in 1..m}
      BY <1>4, Zenon DEF ListIs
    <3> HIDE DEF r
    <3>2. \A i \in 1..(m + 1) : r[i] \in Added \cup {v}
      BY <2>10, <3>1, SMTT(30)
    <3>3. \A w \in Added : \E i \in 1..(m + 1) : r[i] = w
      BY <2>10, <3>1, SMTT(30)
    <3>4. QED
      BY <2>8, <2>10, <3>2, <3>3, SMTT(30)
  <2> HIDE DEF r
  <2>13. ASSUME NEW i \in 1..(m + 1)
         PROVE  nxt'[r[i]] = IF i < m + 1 THEN r[i + 1] ELSE ListHead
    <3>1. CASE i = 1
      <4>1. CASE m = 0
        BY <1>4, <2>3, <2>4, <2>10, <3>1, <4>1, SMTT(30) DEF ListIs
      <4>2. CASE m # 0
        <5>1. nxt[ListHead] = q[1] /\ 1 \in 1..m /\ r[1 + 1] = q[1] /\ i < m + 1
          BY <1>4, <2>10, <3>1, <4>2, SMTT(30) DEF ListIs
        <5>2. QED
          BY <2>3, <2>10, <3>1, <5>1, ZenonT(30)
      <4>3. QED
        BY <4>1, <4>2, ZenonT(30)
    <3>2. CASE i # 1
      <4>1. r[i] = q[i - 1] /\ i - 1 \in 1..m
        BY <2>10, <3>2, SMTT(30)
      <4>2. nxt[q[i - 1]] = IF i - 1 < m THEN q[i - 1 + 1] ELSE ListHead
        BY <1>4, <4>1, Zenon DEF ListIs
      <4>3. nxt'[q[i - 1]] = nxt[q[i - 1]]
        BY <2>3, <2>9, <4>1, Zenon
      <4>4. CASE i < m + 1
        <5>1. i \in 1..m /\ i - 1 < m /\ i - 1 + 1 = i
          BY <4>4, SMTT(30)
        <5>2. r[i + 1] = q[i]
          BY <2>10, <5>1, ZenonT(30)
        <5>3. QED
          BY <4>1, <4>2, <4>3, <4>4, <5>1, <5>2, ZenonT(30)
      <4>5. CASE ~(i < m + 1)
        BY <4>1, <4>2, <4>3, <4>5, SMTT(30)
      <4>6. QED
        BY <4>4, <4>5, Zenon
    <3>3. QED
      BY <3>1, <3>2, Zenon
  <2>14. ListIs(r, m + 1)'
    BY <2>3, <2>10, <2>11, <2>12, <2>13, SMTT(30) DEF ListIs
  <2>15. m + 1 \in 0..NrVMs
    <3>1. m + 1 \in Nat /\ NrVMs \in Nat
      BY BootAssumption, SMTT(30)
    <3>2. m + 1 <= NrVMs
      <4> DEFINE k == m + 1
      <4>1. k \in Nat /\ r \in [1..k -> VMs] /\ \A i, j \in 1..k : r[i] = r[j] => i = j
        BY <2>10, <2>11, <3>1, Zenon
      <4> HIDE DEF k
      <4>2. k <= NrVMs
        BY <4>1, ListBound, Zenon
      <4>3. QED
        BY <4>2, Zenon DEF k
    <3>3. QED
      BY <3>1, <3>2, SMTT(30)
  <2>16. \E k \in 0..NrVMs : \E p \in [1..k -> VMs] : ListIs(p, k)'
    BY <2>10, <2>14, <2>15, Zenon
  <2>17. \A d \in CPUs : pc[d] \in NodeReset => vm[d] \in VMs
    BY PointTyped, Zenon DEF NodeReset, Unassigned
  <2>18. \A d \in CPUs : pc'[d] \in NodeReset => nxt'[vm'[d]] # -1
    <3> SUFFICES ASSUME NEW d \in CPUs, pc'[d] \in NodeReset PROVE nxt'[vm[d]] # -1
      BY <2>2, Zenon
    <3>1. vm[d] \in VMs /\ nxt[vm[d]] # -1
      BY <1>5, <2>7, <2>17, Zenon
    <3>2. QED
      BY <2>3, <2>4, <3>1, Zenon
  <2>19. \A w \in VMs : nxt'[w] # -1 => \E d \in CPUs : vm'[d] = w /\ pc'[d] \in NodeReset
    <3>1. vm[c] = v /\ pc[c] \in NodeReset
      BY <2>1, <2>2, Zenon DEF NodeReset
    <3>2. QED
      BY <1>5, <2>2, <2>3, <2>7, <3>1, ZenonT(30)
  <2>20. nxt'[ListHead] # -1
    BY <1>2, <2>3, Zenon
  <2>21. QED
    BY <1>5, <2>2, <2>7, <2>16, <2>18, <2>19, <2>20, ZenonT(30) DEF ListInv
<1>11. QED
  BY <1>7, <1>8, <1>9, <1>10, ListPoints, ZenonT(30)

\* The list of machines is whole until a CPU empties it or resets a node of
\* it: its nodes are the machines whose CPUs have executed list_add, each
\* once, and a node is reset only by the CPU about to add it.
THEOREM ListInvariant == Spec => []ListInv
<1>1. Init => ListInv
  <2> SUFFICES ASSUME Init PROVE ListInv
    OBVIOUS
  <2>1. /\ \A c \in CPUs : pc[c] = "list_init"
        /\ \A v \in VMs : nxt[v] = -1
        /\ nxt[ListHead] \notin VMs
    BY BootAssumption, SMTT(30) DEF Init, ListHead, VMs
  <2>2. Added = {}
    BY <2>1, Zenon DEF Added, AfterAdd
  <2>3. \E q \in [1..0 -> VMs] : ListIs(q, 0)
    <3> DEFINE q == [i \in 1..0 |-> 0]
    <3>1. q \in [1..0 -> VMs]
      BY SMTT(30)
    <3>2. ListIs(q, 0)
      BY <2>1, <2>2, SMTT(30) DEF ListIs
    <3>3. QED
      BY <3>1, <3>2, Zenon
  <2>4. 0 \in 0..NrVMs
    BY BootAssumption, SMTT(30)
  <2>5. QED
    BY <2>1, <2>3, <2>4, ZenonT(30) DEF ListInv, NodeReset
<1>2. BootInv /\ ListInv /\ [Next]_vars => ListInv'
  <2> SUFFICES ASSUME BootInv, ListInv, [Next]_vars PROVE ListInv'
    OBVIOUS
  <2>1. CASE \E c \in CPUs : Step(c)
    BY <2>1, ListStep, Zenon DEF BootInv, SyncInv
  <2>2. CASE UNCHANGED vars
    <3>1. UNCHANGED <<pc, vm, nxt, relinked>>
      BY <2>2, Zenon DEF vars, cpuvars, listvars
    <3>2. \A m \in 0..NrVMs : \A q \in [1..m -> VMs] : ListIs(q, m)' <=> ListIs(q, m)
      BY <3>1, ZenonT(30) DEF ListIs, Added
    <3>3. QED
      BY <3>1, <3>2, Zenon DEF ListInv
  <2>3. QED
    BY <2>1, <2>2, Zenon DEF Next
<1>3. QED
  BY <1>1, <1>2, BootInvariant, PTL DEF Spec

\* For any number of machines and CPUs, get_vm_by_id finds every machine that
\* has a running virtual CPU and comes to an end, as long as no CPU has
\* emptied the list or reset a node of it after a machine was added.
THEOREM ListedUnlessRelinkedHolds == Spec => []ListedUnlessRelinked
<1>1. ListInv => ListedUnlessRelinked
  <2> SUFFICES ASSUME ListInv, ~relinked PROVE ListedUnlessRelinked
    BY Zenon DEF ListedUnlessRelinked
  <2>1. ListHead \notin VMs /\ -1 \notin VMs /\ ListHead # -1
    BY BootAssumption, SMTT(30) DEF ListHead, VMs
  <2>2. PICK m \in 0..NrVMs : \E q \in [1..m -> VMs] : ListIs(q, m)
    BY Zenon DEF ListInv
  <2>3. PICK q \in [1..m -> VMs] : ListIs(q, m)
    BY <2>2, Zenon
  <2>4. ASSUME NEW v \in VMs, Running(v) # {}
        PROVE  \E n \in 1..NrVMs : Reaches(v, n)
    <3>1. v \in Added
      BY <2>4, Zenon DEF Running, Added, AfterAdd
    <3>2. PICK n \in 1..m : q[n] = v
      BY <2>3, <3>1, Zenon DEF ListIs
    <3> DEFINE p == [i \in 0..n |-> IF i = 0 THEN ListHead ELSE q[i]]
    <3>3. /\ p \in [0..n -> VMs \cup {ListHead}]
          /\ p[0] = ListHead /\ p[n] = v
          /\ \A i \in 1..n : p[i] = q[i] /\ q[i] \in VMs
          /\ \A i \in 2..n : p[i - 1] = q[i - 1]
      BY <3>2, SMTT(30)
    <3> HIDE DEF p
    <3>4. ASSUME NEW i \in 1..n
          PROVE  p[i] \in VMs /\ p[i] = nxt[p[i - 1]]
      <4>1. CASE i = 1
        <5>1. m # 0 /\ p[i - 1] = ListHead
          BY <3>3, <4>1, SMTT(30)
        <5>2. nxt[ListHead] = q[1]
          BY <2>3, <5>1, Zenon DEF ListIs
        <5>3. QED
          BY <3>3, <4>1, <5>1, <5>2, Zenon
      <4>2. CASE i # 1
        <5>1. i - 1 \in 1..m /\ i - 1 < m /\ i - 1 + 1 = i /\ p[i - 1] = q[i - 1]
          BY <3>3, <4>2, SMTT(30)
        <5>2. nxt[q[i - 1]] = q[i - 1 + 1]
          BY <2>3, <5>1, Zenon DEF ListIs
        <5>3. QED
          BY <3>3, <5>1, <5>2, Zenon
      <4>3. QED
        BY <4>1, <4>2, Zenon
    <3>5. Reaches(v, n)
      BY <3>3, <3>4, Zenon DEF Reaches
    <3>6. n \in 1..NrVMs
      BY BootAssumption, SMTT(30)
    <3>7. QED
      BY <3>5, <3>6, Zenon
  <2>5. ASSUME NEW v \in VMs, nxt[v] = v
        PROVE  \E c \in CPUs : vm[c] = v /\ pc[c] = "list_add"
    <3>1. PICK c \in CPUs : vm[c] = v /\ pc[c] \in NodeReset
      BY <2>1, <2>5, Zenon DEF ListInv
    <3>2. pc[c] \notin AfterAdd
      <4> SUFFICES ASSUME pc[c] \in AfterAdd PROVE FALSE
        BY SMTT(30)
      <4>1. PICK i \in 1..m : q[i] = v
        BY <2>3, <3>1, SMTT(30) DEF ListIs, Added
      <4>2. nxt[v] = IF i < m THEN q[i + 1] ELSE ListHead
        BY <2>3, <4>1, Zenon DEF ListIs
      <4>3. i < m => i + 1 \in 1..m /\ q[i + 1] # v
        <5> SUFFICES ASSUME i < m PROVE i + 1 \in 1..m /\ q[i + 1] # v
          BY SMTT(30)
        <5>1. i + 1 \in 1..m /\ i + 1 # i
          OBVIOUS
        <5>2. QED
          BY <2>3, <4>1, <5>1, Zenon DEF ListIs
      <4>4. QED
        BY <2>1, <2>5, <4>2, <4>3, Zenon
    <3>3. QED
      BY <3>1, <3>2, Zenon DEF NodeReset, AfterAdd
  <2>6. QED
    BY <2>4, <2>5, Zenon DEF ListedUnlessRelinked, RunningIsListed
<1>2. QED
  BY <1>1, ListInvariant, PTL
==============================================================================
