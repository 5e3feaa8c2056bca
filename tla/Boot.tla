--------------------------------- MODULE Boot ---------------------------------
(***************************************************************************)
(* vmm_init on every CPU (core/vmm.c, core/vm.c, core/interrupts.c): from  *)
(* the end of the barrier of all CPUs, through the assignment of CPUs to   *)
(* machines, vm_init and its barriers, to vcpu_run.                        *)
(*                                                                         *)
(* What a step does only to memory of its own machine (address space,      *)
(* images, virtual GIC, request queue, registers of the vcpu) is left out, *)
(* and with it the steps that do nothing else.  Barriers                   *)
(* are those of CpuSync: a counter and the value each CPU waits for.       *)
(***************************************************************************)
EXTENDS Integers, Sequences, FiniteSets

CONSTANTS
    NrCPUs,     \* config.hyp.nr_cpus
    NrVMs,      \* config.nr_vms
    NrVcpus,    \* config.vm[v].nr_cpus
    Irqs        \* config.vm[v].devs[].interrupts, in order

CPUs == 0..(NrCPUs - 1)
VMs == 0..(NrVMs - 1)
ListHead == NrVMs           \* vm_list.list
GIC_CPU_PRIV == 32
BITMAP_GRANULE_LEN == 32

ASSUME BootAssumption ==
    /\ NrCPUs \in Nat \ {0} /\ NrVMs \in Nat \ {0}
    /\ NrVcpus \in [VMs -> Nat \ {0}]
    /\ \A v \in VMs : Irqs[v] \in Seq(Nat)

VARIABLES
    pc, vm, master, id, idx,    \* of each CPU; idx counts in a loop
    exp_v,                      \* what each CPU waits for in a barrier
    sync,                       \* vm -> [ready, count] of vm->sync
    assign,                     \* vm -> [master, ncpus] of vm_assign
    allocated,                  \* the machines whose vm_alloc is filled in
    cpus,                       \* vm -> vm->cpus
    nxt,                        \* the next pointers of vm_list
    global,                     \* global_interrupt_bitmap, without the private interrupts
                                \* of interrupts_reserve: nothing looks at their bits
    irqs,                       \* vm -> vm->interrupt_bitmap
    word,                       \* of each CPU: the granule that bitmap_set has loaded
    relinked,                   \* history: a list head or node in use was reset
    overlapped                  \* history: two masters were in one granule at a time

cpuvars == <<vm, master, id, idx>>
irqvars == <<global, irqs, word, overlapped>>
listvars == <<nxt, relinked>>
vars == <<pc, cpuvars, exp_v, sync, assign, allocated, cpus, listvars, irqvars>>

Init ==
    /\ pc = [c \in CPUs |-> "list_init"]
    /\ vm = [c \in CPUs |-> -1] /\ master = [c \in CPUs |-> FALSE]
    /\ id = [c \in CPUs |-> -1] /\ idx = [c \in CPUs |-> 0]
    /\ exp_v = [c \in CPUs |-> 0]
    /\ sync = [v \in VMs |-> [ready |-> FALSE, count |-> 0]]
    /\ assign = [v \in VMs |-> [master |-> FALSE, ncpus |-> 0]]
    /\ allocated = {}
    /\ cpus = [v \in VMs |-> {}]
    /\ nxt = [a \in VMs \cup {ListHead} |-> -1]
    /\ global = {} /\ irqs = [v \in VMs |-> {}] /\ word = [c \in CPUs |-> {}]
    /\ relinked = FALSE /\ overlapped = FALSE

Goto(c, p) == pc' = [pc EXCEPT ![c] = p]

\* The end of the round that arrival number k belongs to (cpu_sync_barrier).
RoundEnd(k, n) == ((k + n - 1) \div n) * n

\* The six barriers of vm->sync: two in vm_init, the two of
\* cpu_sync_and_clear_msgs, one more in vm_init, one in vmm_init; and what
\* comes after each.
Wait == [barrier1 |-> "wait1", barrier2 |-> "wait2", barrier3 |-> "wait3",
         barrier4 |-> "wait4", barrier5 |-> "wait5", barrier6 |-> "wait6"]
After == [wait1 |-> "vcpu_init", wait2 |-> "barrier3", wait3 |-> "clear_add",
          wait4 |-> "dev", wait5 |-> "list_node", wait6 |-> "run"]

Granule(i) == i \div BITMAP_GRANULE_LEN

\* The interrupt that a master is about to take, and the masters which have
\* found theirs free and have not yet stored its bit.
Asked(c) == Irqs[vm[c]][idx[c]]
Taking == {c \in CPUs : pc[c] \in {"irq_set", "irq_store"}}
-----------------------------------------------------------------------------
\* Mutated forms of the steps below.

\* The barrier between vm_cpu_init and vm_vcpu_init is left out.
vm_cpu_init_no_barrier(c) ==
    /\ pc[c] = "cpu_init"
    /\ cpus' = [cpus EXCEPT ![vm[c]] = @ \cup {c}]
    /\ Goto(c, "vcpu_init")
    /\ UNCHANGED <<cpuvars, exp_v, sync, assign, allocated, listvars, irqvars>>

\* cpu_sync_init forgets to say that the barrier is ready.
vm_master_init_not_ready(c) ==
    /\ pc[c] = "master_init"
    /\ sync' = [sync EXCEPT ![vm[c]] = [ready |-> FALSE, count |-> 0]]
    /\ Goto(c, "cpu_init")
    /\ UNCHANGED <<cpuvars, exp_v, assign, allocated, cpus, listvars, irqvars>>

\* The list is taken for empty when the machine is added.
list_add_only(c) ==
    /\ pc[c] = "list_add"
    /\ nxt' = [nxt EXCEPT ![vm[c]] = ListHead, ![ListHead] = vm[c]]
    /\ Goto(c, "barrier6")
    /\ UNCHANGED <<relinked, cpuvars, exp_v, sync, assign, allocated, cpus, irqvars>>

\* bitmap_set stores the new bit alone.
interrupts_store_alone(c) ==
    /\ pc[c] = "irq_store"
    /\ global' = {i \in global : Granule(i) # Granule(Asked(c))} \cup {Asked(c)}
    /\ word' = [word EXCEPT ![c] = {}]
    /\ Goto(c, "dev")
    /\ UNCHANGED <<cpuvars, exp_v, sync, assign, allocated, cpus, listvars, irqs, overlapped>>

-----------------------------------------------------------------------------

\* vm_list_init, by every CPU.
vm_list_init(c) ==
    /\ pc[c] = "list_init"
    /\ nxt' = [nxt EXCEPT ![ListHead] = ListHead]
    /\ relinked' = (relinked \/ nxt[ListHead] \in VMs)
    /\ Goto(c, "assign")
    /\ UNCHANGED <<cpuvars, exp_v, sync, assign, allocated, cpus, irqvars>>

HasRoom(v) == assign[v].ncpus < NrVcpus[v]

\* One turn of the loop of vmm_assign_vcpu, under the lock of machine i; a
\* CPU that no machine needs idles.
vmm_assign_vcpu(c) ==
    /\ pc[c] = "assign"
    /\ LET i == idx[c]
       IN  \/ /\ i = NrVMs
              /\ Goto(c, "idle")
              /\ UNCHANGED <<assign, cpuvars>>
           \/ /\ i < NrVMs /\ ~HasRoom(i)
              /\ idx' = [idx EXCEPT ![c] = i + 1]
              /\ UNCHANGED <<pc, assign, vm, master, id>>
           \/ /\ i < NrVMs /\ HasRoom(i)
              /\ assign' = [assign EXCEPT ![i] = [master |-> TRUE, ncpus |-> @.ncpus + 1]]
              /\ vm' = [vm EXCEPT ![c] = i]
              /\ master' = [master EXCEPT ![c] = ~assign[i].master]
              /\ idx' = [idx EXCEPT ![c] = 0]
              /\ Goto(c, "alloc")
              /\ UNCHANGED id
    /\ UNCHANGED <<exp_v, sync, allocated, cpus, listvars, irqvars>>

\* The master allocates, the others go straight on.
vmm_alloc_install_vm(c) ==
    /\ pc[c] = "alloc"
    /\ allocated' = allocated \cup (IF master[c] THEN {vm[c]} ELSE {})
    /\ Goto(c, "vm_init")
    /\ UNCHANGED <<cpuvars, exp_v, sync, assign, cpus, listvars, irqvars>>

\* A store through vm_alloc->vm, which is null until the master has stored it.
vm_allocation_init(c) ==
    /\ pc[c] = "vm_init"
    /\ Goto(c, IF vm[c] \notin allocated THEN "fault"
               ELSE IF master[c] THEN "master_init" ELSE "cpu_init")
    /\ UNCHANGED <<cpuvars, exp_v, sync, assign, allocated, cpus, listvars, irqvars>>

vm_master_init(c) ==
    /\ pc[c] = "master_init"
    /\ sync' = [sync EXCEPT ![vm[c]] = [ready |-> TRUE, count |-> 0]]
    /\ Goto(c, "cpu_init")
    /\ UNCHANGED <<cpuvars, exp_v, assign, allocated, cpus, listvars, irqvars>>

vm_cpu_init(c) ==
    /\ pc[c] = "cpu_init"
    /\ cpus' = [cpus EXCEPT ![vm[c]] = @ \cup {c}]
    /\ Goto(c, "barrier1")
    /\ UNCHANGED <<cpuvars, exp_v, sync, assign, allocated, listvars, irqvars>>

\* cpu_sync_barrier(&vm->sync).  The last to arrive finds the round complete
\* whenever it looks, as the counter only grows: it goes on at once.
barrier_arrive(c) ==
    /\ pc[c] \in DOMAIN Wait
    /\ sync[vm[c]].ready
    /\ LET n == sync[vm[c]].count + 1
           end == RoundEnd(n, NrVcpus[vm[c]])
       IN  /\ sync' = [sync EXCEPT ![vm[c]].count = n]
           /\ exp_v' = [exp_v EXCEPT ![c] = end]
           /\ Goto(c, IF n < end THEN Wait[pc[c]] ELSE After[Wait[pc[c]]])
    /\ UNCHANGED <<cpuvars, assign, allocated, cpus, listvars, irqvars>>

barrier_leave(c) ==
    /\ pc[c] \in DOMAIN After
    /\ sync[vm[c]].count >= exp_v[c]
    /\ Goto(c, After[pc[c]])
    /\ UNCHANGED <<cpuvars, exp_v, sync, assign, allocated, cpus, listvars, irqvars>>

\* vm_calc_vcpu_id: the CPUs of the machine with a lower number.
vm_vcpu_init(c) ==
    /\ pc[c] = "vcpu_init"
    /\ id' = [id EXCEPT ![c] = Cardinality({d \in cpus[vm[c]] : d < c})]
    /\ Goto(c, "barrier2")
    /\ UNCHANGED <<vm, master, idx, exp_v, sync, assign, allocated, cpus, listvars, irqvars>>

\* The three steps of cpu_sync_and_clear_msgs between its two barriers; no
\* message is sent before a vcpu runs.
clear_add(c) ==
    /\ pc[c] = "clear_add"
    /\ sync' = [sync EXCEPT ![vm[c]].count = @ + 1]
    /\ Goto(c, "clear_read")
    /\ UNCHANGED <<cpuvars, exp_v, assign, allocated, cpus, listvars, irqvars>>

clear_read(c) ==
    /\ pc[c] = "clear_read"
    /\ exp_v' = [exp_v EXCEPT ![c] = RoundEnd(sync[vm[c]].count, NrVcpus[vm[c]])]
    /\ Goto(c, "clear_wait")
    /\ UNCHANGED <<cpuvars, sync, assign, allocated, cpus, listvars, irqvars>>

clear_wait(c) ==
    /\ pc[c] = "clear_wait"
    /\ sync[vm[c]].count >= exp_v[c]
    /\ Goto(c, "barrier4")
    /\ UNCHANGED <<cpuvars, exp_v, sync, assign, allocated, cpus, listvars, irqvars>>

\* interrupts_arch_conflict
Conflict(i) == i \in global /\ i > GIC_CPU_PRIV

\* The loops of vm_init_dev, which is the master's, and the check of
\* interrupts_vm_assign, under no lock.
interrupts_check(c) ==
    /\ pc[c] = "dev"
    /\ LET k == idx[c] + 1
           i == Irqs[vm[c]][k]
           more == master[c] /\ k <= Len(Irqs[vm[c]])
       IN  \/ /\ ~more
              /\ Goto(c, "barrier5")
              /\ UNCHANGED <<idx, overlapped>>
           \/ /\ more /\ Conflict(i)
              /\ idx' = [idx EXCEPT ![c] = k]
              /\ Goto(c, "error")
              /\ UNCHANGED overlapped
           \/ /\ more /\ ~Conflict(i)
              /\ idx' = [idx EXCEPT ![c] = k]
              /\ Goto(c, "irq_set")
              /\ overlapped' = (overlapped \/ \E d \in Taking : Granule(Asked(d)) = Granule(i))
    /\ UNCHANGED <<vm, master, id, exp_v, sync, assign, allocated, cpus, listvars,
                   global, irqs, word>>

\* The two bitmap_set that follow: a load, an or and a store each.  The
\* bitmap of the machine is its master's, the global one is everybody's.
interrupts_set(c) ==
    /\ pc[c] = "irq_set"
    /\ irqs' = [irqs EXCEPT ![vm[c]] = @ \cup {Asked(c)}]
    /\ word' = [word EXCEPT ![c] = {i \in global : Granule(i) = Granule(Asked(c))}]
    /\ Goto(c, "irq_store")
    /\ UNCHANGED <<cpuvars, exp_v, sync, assign, allocated, cpus, listvars, global, overlapped>>

interrupts_store(c) ==
    /\ pc[c] = "irq_store"
    /\ global' = {i \in global : Granule(i) # Granule(Asked(c))} \cup word[c] \cup {Asked(c)}
    /\ word' = [word EXCEPT ![c] = {}]
    /\ Goto(c, "dev")
    /\ UNCHANGED <<cpuvars, exp_v, sync, assign, allocated, cpus, listvars, irqs, overlapped>>

\* INIT_LIST_HEAD(&vm->list), by every CPU of the machine
init_list_node(c) ==
    /\ pc[c] = "list_node"
    /\ nxt' = [nxt EXCEPT ![vm[c]] = vm[c]]
    /\ relinked' = (relinked \/ nxt[vm[c]] # -1)
    /\ Goto(c, "list_add")
    /\ UNCHANGED <<cpuvars, exp_v, sync, assign, allocated, cpus, irqvars>>

\* list_add under vm_list.lock, then the barrier of vmm_init and vcpu_run
list_add(c) ==
    /\ pc[c] = "list_add"
    /\ nxt' = [nxt EXCEPT ![vm[c]] = nxt[ListHead], ![ListHead] = vm[c]]
    /\ Goto(c, "barrier6")
    /\ UNCHANGED <<relinked, cpuvars, exp_v, sync, assign, allocated, cpus, irqvars>>

Step(c) ==
    \/ vm_list_init(c) \/ vmm_assign_vcpu(c)
    \/ vmm_alloc_install_vm(c) \/ vm_allocation_init(c) \/ vm_master_init(c)
    \/ vm_cpu_init(c) \/ barrier_arrive(c) \/ barrier_leave(c)
    \/ vm_vcpu_init(c) \/ clear_add(c) \/ clear_read(c)
    \/ clear_wait(c) \/ interrupts_check(c)
    \/ interrupts_set(c) \/ interrupts_store(c)
    \/ init_list_node(c) \/ list_add(c)

Next == \E c \in CPUs : Step(c)

Spec == Init /\ [][Next]_vars

\* The CPUs keep running: the system does not stop while one of them can go on.
\* No CPU takes steps for ever, so each gets as far as it can.
FairSpec == Spec /\ WF_vars(Next)
-----------------------------------------------------------------------------

\* The CPUs of machine v that run their vcpu.
Running(v) == {c \in CPUs : vm[c] = v /\ pc[c] = "run"}

\* A machine runs once all its vcpus are there, numbered from 0 without
\* gaps, each on a CPU of its own, and has one master: vm_calc_vcpu_id sees
\* every CPU of the machine, whatever the order of arrival.
VcpusComplete ==
    \A v \in VMs : Running(v) # {} =>
        LET mine == {c \in CPUs : vm[c] = v}
        IN  /\ Cardinality(mine) = NrVcpus[v]
            /\ {id[c] : c \in mine} = 0..(NrVcpus[v] - 1)
            /\ Cardinality({c \in mine : master[c]}) = 1

\* A vcpu runs only after the master of its machine has assigned all the
\* interrupts of the machine.  As long as no two masters were between the
\* check and the store of one granule at a time, these are taken globally,
\* and no interrupt that the conflict test is about has gone to two
\* machines; after that a bit may have been lost, or found free twice.
InterruptsReady ==
    /\ \A v \in VMs : Running(v) # {} => irqs[v] = {Irqs[v][k] : k \in 1..Len(Irqs[v])}
    /\ \/ overlapped
       \/ /\ \A v \in VMs : Running(v) # {} => irqs[v] \subseteq global
          /\ \A v, w \in VMs : \A i \in irqs[v] \cap irqs[w] : v = w \/ i <= GIC_CPU_PRIV

\* What keeps machine v from starting: a CPU came before the master had
\* allocated, an interrupt is taken, or a CPU has read the counter in
\* cpu_sync_and_clear_msgs when another was past it already, and waits for
\* the round after that of the others.
Halted(v) ==
    \E c \in CPUs :
        /\ vm[c] = v
        /\ \/ pc[c] \in {"fault", "error"}
           \/ pc[c] = "clear_wait" /\ exp_v[c] > 4 * NrVcpus[v]

\* Every CPU comes to run a vcpu, or idles for want of one, unless its machine
\* is halted: nothing else holds up a CPU, in the barriers or before them, and
\* no machine holds up another (there is a CPU for every vcpu).
AllStart ==
    <>[](\A c \in CPUs :
            \/ pc[c] \in {"run", "idle"}
            \/ vm[c] \in VMs /\ Halted(vm[c]))

\* get_vm_by_id comes to v: n steps along the list, from its head, over nodes
\* of machines.
Reaches(v, n) ==
    \E p \in [0..n -> VMs \cup {ListHead}] :
        /\ p[0] = ListHead /\ p[n] = v
        /\ \A i \in 1..n : p[i] \in VMs /\ p[i] = nxt[p[i - 1]]

\* get_vm_by_id finds a machine that runs.
RunningIsListed ==
    \A v \in VMs : Running(v) # {} => \E n \in 1..NrVMs : Reaches(v, n)

\* It does so, and its loop comes back to the list head, as long as no CPU
\* has emptied the list or reset a node of it after a machine was added:
\* the lock of vm_list keeps concurrent insertions apart.
ListedUnlessRelinked ==
    relinked \/ (RunningIsListed /\ \A v \in VMs : nxt[v] = v =>
                    \E c \in CPUs : vm[c] = v /\ pc[c] = "list_add")
==============================================================================
