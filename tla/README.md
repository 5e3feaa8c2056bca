# Avisor: specification and verification

Avisor (`src/avisor/src`) is a type-1 hypervisor for aarch64. It starts one or more
guests (Unikraft images), each on CPUs of its own, and offers them snapshots of
themselves. Inside a guest, Unikraft's libraries (`src/unikraft-work/unikraft/lib`)
schedule its threads. This directory holds TLA+ models of the parts of it that are hard to
get right, TLC configurations that check them on small instances, and proofs that
TLAPS checks. `PROJECT.json` lists components, runs, mutants, the lines of source
that each definition stands for, findings, hazards and theorems.

The reference for every definition is the source of the default build: GICv2, no
IOMMU, no `SCHEDULE`, two CPUs (`plat/qemu-aarch64-virt`), the two machines of
`config.c`. The hypervisor runs with interrupts masked, so a handler is disturbed
only by handlers on other CPUs; `ERROR(...)` prints and then spins for ever, and
is a final state of the CPU in the models. Of Unikraft, the cooperative scheduler is
the default; `uklock` and `ukmpi` are libraries that an application selects.

## The system

    boot     start.S, main.c -> cpu_init -> mem_init -> console -> interrupts/GIC -> vmm_init
    CPUs     core/cpu.c, core/inc/cpu.h   barriers (cpu_sync_*), messages between CPUs
    locks    lib/inc/spinlock.h           ticket lock with ldaxr/stxr and wfe/sev
    memory   core/mem.c, lib/bitmap.c     pool of pages, searched through a bitmap
             core/mmu.c, arch_page_table  address spaces, page tables
    machines core/vmm.c, core/vm.c        assignment of CPUs to machines, vm_init
    interrupts core/interrupts.c, gic*.c, vgic*.c   physical and virtual GIC
    guests   core/lcm.c, hypercall.c      checkpoint, restore, halt, restart
    threads  ukschedcoop, uksched, uklock, ukmpi (in the guest)   scheduler, waiting, mailbox
    other    sched.c, rq.c, io.c, iommu.c, smmuv*.c, timer.c, console, printk

The CPUs meet in the barriers of `cpu_glb_sync` and of each machine's `vm->sync`.
They share the page pool, `vm_list`, the interrupt bitmaps and the pools of
snapshots. They send each other messages through lists, announced by a
software-generated interrupt. A guest reaches the hypervisor by a hypercall (to
`lcm.c`), by an access to an emulated device (the distributor of `vgic.c`) or
because an interrupt arrives. The vcpus of a machine pass interrupts on to each other
with the same messages. Threads of a guest give way to each other in calls of the
scheduler, and interrupts of the guest come between any two of their steps.

## Modules

| Module | Source | What is modelled |
|---|---|---|
| `CpuSync` | `core/inc/cpu.h` | `cpu_sync_init`, `cpu_sync_barrier`; one step per access to the token |
| `AbstractBarrier` | | what a reusable barrier promises |
| `TicketLock` | `lib/inc/spinlock.h` | `spin_lock`, `spin_unlock`; one step per memory access, exclusive monitor and event register included |
| `FifoLock` | | a lock that serves in order |
| `PagePool` | `core/mem.c` | `mem_init`, `pp_alloc`, `mem_free_page` on several CPUs |
| `Bitmap` | `lib/bitmap.c` | the searches and updates as operators over words |
| `Snapshot` | `core/lcm.c`, `hypercall.c` | checkpoint, eviction, restore, reset, restart |
| `SnapshotStore` | | what snapshots promise to a guest |
| `AddrSpace` | `core/mmu.c`, `arch_page_table.c`, `page_table.h` | `mem_alloc_vpage`, `mem_map`, `mem_unmap` over page tables of several levels |
| `AddrMap` | | a flat map from pages to frames |
| `CpuMsg` | `core/cpu.c`, `core/objpool.c`, `lib/inc/list.h`, `gicv2.c` | sending and handling messages; one step per load or store of the list |
| `Boot` | `core/vmm.c`, `core/vm.c`, `core/interrupts.c`, `arch_vm.c` | `vmm_init` on every CPU until `vcpu_run` |
| `VGic` | `vgic.c`, `vgicv2.c`, `gic.c`, `gicv2.c` | list registers, spilled interrupts, emulated distributor, maintenance interrupt |
| `VGicVcpus` | `vgic.c`, `vgicv2.c` | several vcpus: ownership of shared interrupts, locks, messages between vcpus |
| `GuestThreads` | `lib/ukschedcoop`, `lib/uksched`, `lib/uklock`, `lib/ukmpi` of Unikraft | threads of a guest, wait queues, semaphores, mutexes, mailbox, interrupt handlers |
| `BoundedQueue` | | a queue of at most `Size` messages |
| `*Proofs` | | theorems about `CpuSync`, `TicketLock`, `PagePool`, `Snapshot`, `CpuMsg`, `Boot` and `GuestThreads` |
| `MC*` | | values for constants that a configuration cannot write |

The modules fit together by assumption and guarantee. `PagePool` takes its lock as
an atomic variable, which `TicketLock` justifies, and its searches over a set of
pages, which `Bitmap` justifies for the word-wise code. `Snapshot`
restates the unaligned search of `pp_alloc` as one step (`Fit`). `AddrSpace` takes
its lock as atomic too, and each operation under it as one step. `Boot` uses the barrier of `CpuSync`, written out, since
`cpu_sync_and_clear_msgs` counts in the same token outside the barriers.

### How state and actions correspond to the code

* **CpuSync.** `ready`, `n`, `count` are the fields of `struct cpu_synctoken`.
  `cpu_sync_init` has two steps, because another CPU can look between them;
  `cpu_sync_barrier_arrive` is the increment, `..._leave` the read that ends the loop.
  `passed` counts barriers left and bounds the run (`MaxRounds`).
* **TicketLock.** The actions are named after the instructions. `mon[c]` is the
  exclusive monitor of CPU c: any successful `stxr` clears all of them, so the others
  fail and load again. `wfe` waits for and clears the event register. `drawn`,
  `served` and `turn` are history.
* **PagePool.** `used` is the bitmap, `free` and `last` are fields of the pool.
  `pp_alloc_enter`, `pp_alloc_search` (one hit or miss of `bitmap_find_consec`, with
  the second pass from the start), `pp_alloc_mark`, `pp_alloc_leave`. A failing
  `mem_alloc_ppages` ends in ERROR, which is `pc = "hung"`.
* **Bitmap.** A state is a bitmap; words have `Granule` bits instead of 32.
  The loops of the C functions are recursive operators, compared with definitions
  that look at single bits.
* **Snapshot.** A slot is a page and a number; `hdr` is what memory holds where a slot
  starts, and stays there when a pool is freed: that is how an evicted snapshot can
  be found again. `used`/`last` are those of the page pool. The content of a guest is
  named by the checkpoint that saved it. A handler is cut where two CPUs could interleave.
  System registers of EL1, which a snapshot does not save, are left out.
* **AddrSpace.** `pt` is the content of all tables, by level and index; an entry has a
  type, the mark `PTE_RSW_RSRV` and a frame. The loops of `core/mmu.c` are recursive
  operators that change it. `pt_get_pte` follows entries without a look at their type:
  `astray` records that it followed one that is no table. The refinement mapping walks
  from the root, as the hardware does.
* **CpuMsg.** `nxt`/`prv` are the links, and `Bad` a null or poisoned one.
  `gic_cpu_map` is computed as `gicc_init` does. `raced` is history: two CPUs have been
  inside one list at the same time.
* **Boot.** Each step between two points where CPUs can meet is an action. The six
  barriers of `vm->sync` share `barrier_arrive`/`barrier_leave`. The last CPU
  to arrive at one does not wait. A CPU that reaches
  `vm_init` before the master has stored the pointer to the allocation goes to `"fault"`.
  `interrupts_vm_assign` is three steps: the conflict test (`interrupts_check`), the load
  of the granule in `bitmap_set` (`interrupts_set`, `word`) and its store
  (`interrupts_store`). `overlapped` is history: two masters have been between test and
  store of one granule at the same time.
* **VGic.** `gic` is one record with what `struct vgic_int` holds for each interrupt
  (`state`, `prio`, `enabled`, `target`, `in_lr`, `lr`, owner), the list registers,
  `curr_lrs`, the spilled interrupts, the bits of `GICH_HCR` the code uses, and the
  physical active and pending bits. Each C function is an operator on that record and
  each entry to the hypervisor an action. The guest acknowledges and ends interrupts
  in the list registers by itself.
* **VGicVcpus.** The same functions, cut at every `spin_lock`, as several vcpus run them:
  a step goes from one lock to the next, `op[c]` is the place CPU c has reached and
  `Wants(c)` the lock it waits for. `msgs[c]` is the list of messages, emptied from its
  end as `cpu_get_msg` does. Only shared interrupts raised by software are in it;
  what a vcpu does alone is in `VGic`. `cpu_num` is `platform.cpu_num`, chosen in `Init`;
  `untold` is history: the interrupts of which `vgic_route` could not tell a target beyond
  `cpu_num`, until they get a register or a place on the list. `astray` marks
  states in which the records have stopped describing the registers, and behaviours end there.
* **GuestThreads.** A step is a piece of code with interrupts masked, or one access to
  shared state outside of such a piece; `Interrupt` and `InterruptRecv` are handlers
  between them. `sched` holds the queues and, as sets of threads, the flags
  `UK_THREADF_RUNNABLE` and `UK_THREADF_QUEUEABLE`; `armed` are the threads whose
  `wakeup_time` is set. `next` is the thread the CPU switches to between
  `schedcoop_schedule`, which ends with interrupts enabled, and the switch itself. `Test`,
  `Block`, `Woken` and `Leave` are the parts of `__wq_wait_event_deadline`, `Take` what
  the caller does after it. A thread that has called `uk_sched_thread_exit` is at `exit`
  until the scheduler takes the CPU from it, and `gone` after that. Times are what is left of them, and `Tick` lets one unit pass.

## Runs

| Run | Instance | Shows |
|---|---|---|
| `cpu_sync` | 4 CPUs, 4 barriers | Nobody passes a barrier that another CPU has not reached; the token implements `AbstractBarrier`; everybody gets through |
| `ticket_lock` | 3 CPUs, tickets modulo 4, 6 draws | Mutual exclusion and service in order after tickets wrap; implements `FifoLock`; no wake-up is lost |
| `page_pool` | 2 CPUs, 8 pages, aligned and unaligned requests | Blocks are disjoint and are what the bitmap marks; an allocation fails only for want of a run; the search ends |
| `bitmap` | all bitmaps of three 3-bit words, all calls | The searches find the first run and the n-th bit; setting sets those bits alone |
| `snapshot` | 1 machine, 39 checkpoints, any id | Live snapshots are the newest and intact over many evictions; there is always room in a memory of the proportions of the platform with one machine; a guest gets the snapshot it asks for (`SnapshotStore`) |
| `cpu_msg` | 2 CPUs, 3 nodes, 5 messages | While no two CPUs work on a list at once, each message is handled once, by its addressee, and none is lost; a CPU that is interrupted handles all it finds |
| `addr_space` | 2 CPUs, 16 pages in 4 levels, 8 ranges | No walk leaves the tables; the tables implement `AddrMap`: a range is refused only if a page of it is taken, and no call changes a page outside its range |
| `boot` | 4 CPUs, machines of 2 and 1 vcpus that ask for one interrupt in common | A running machine has all its vcpus, numbered without gaps, one master and its interrupts; unless two masters were in one granule of the bitmap at a time these are claimed, each for one machine; `vm_list` holds it unless the list was reset; every CPU starts or idles unless its machine is halted for one of three reasons (`Halted`) |
| `vgic` | 4 interrupts, 2 list registers, 3 events | Registers and records agree; the physical state follows; nothing raised is lost or misplaced; ends are credited to the right interrupt; everything is served |
| `vgic_vcpus` | 2 vcpus, 3 shared interrupts, 2 list registers each, 3 writes, `cpu_num` 0 and 2 | No interrupt is in the registers of two vcpus; once the messages are through none is left behind but those that `vgic_route` could tell nobody of; locks close circles in two known places only; the refill loop goes round only for an active interrupt; apart from these every handler returns |
| `guest_sched` | 2 threads and the idle thread, a mailbox of 2 | A runnable thread is queued once; sleepers are those with a deadline; no wake-up is lost; what has exited is in no queue; the mailbox is a bounded queue; runnable threads run and timed waits end |
| `snapshot_evicted` | violation | An evicted id is found in memory left from the old pool |

For every property of a passing run `PROJECT.json` names a mutant: a version of a
definition with a plausible bug, with which TLC finds the property violated.

### Bounds

* `cpu_sync`: the counter is unbounded in the model; it is an int in the code, which
  passes a handful of barriers at boot. Four barriers let fast CPUs enter
  the next barrier while others still leave, twice over. Proved for all values.
* `ticket_lock`: 6 draws modulo 4 wrap the tickets; the modulus must exceed the number
  of CPUs, as it does in the code (2^32). Proved for all values.
* `page_pool`: 8 pages with requests of 1, 2 and 3 pages fragment the pool, make both
  searches and realignment happen, and let requests fail.
* `bitmap`: three words are the fewest with an inner word; a granule of 3 has inner bits.
* `snapshot`: pool and page sizes have about the proportions of the qemu platform with one
  machine. After 39 checkpoints positions of pools repeat. `SnapshotsIntact` is proved for
  all values, `AlwaysRoom` and the refinement for sizes with the proportions of the
  instance (`PlatformSizes`, which the run evaluates).
* `addr_space`: the default tables have 4 levels of 512 entries, and no block on the
  first; the run has 4 levels of 2, and no block on the first. The ranges begin and end
  inside of entries, fill entries of two levels and cross tables; three reservations
  are enough for one to lie beside, between or over two others.
* `cpu_msg`: three nodes for five messages make nodes be reused and run out. Both
  invariants are proved for all values.
* `boot`: two vcpus are the fewest for which barriers matter; a fourth CPU finds no machine.
  Both machines ask for interrupt 39, one of them for 40 in the same granule, so that a
  conflict is found, a claim is lost and one is made twice.
* `vgic`: with two registers and four interrupts two can be spilled, pending and active
  at once. An event is a raised line or a write by the guest (which can set several
  bits). Two list registers are the fewest for which underflow differs from full. One
  CPU interface (`Interfaces = {}`) is chosen so that shared interrupts of the hardware
  arrive; with several, `gic_cpu_map` sends them to another interface (see Findings).
* `vgic_vcpus`: both vcpus raise interrupts that both serve, with two registers each, so
  that interrupts are spilled, taken over by the other vcpu, refused and passed on; one
  moves an interrupt and switches the distributor off. Three writes are the fewest after
  which both kinds of circle can close and the refill loop can go round. `platform.cpu_num` has
  two values. No file of the repository sets it, so it is 0, and `vgic_route` tells nobody:
  an interrupt for another vcpu then stays pending for good (see Findings). With 2, the
  number of CPUs, `untold` stays empty and `NoneStranded` has no exception.
* `guest_sched`: two threads and the idle thread meet in every queue; a mailbox of 2 has
  three slots, so positions wrap and differ when it is half full; a timeout of one unit
  can expire before, while or after a thread is woken; the mutex is not locked twice by
  its owner. With 3 threads and a mailbox of 1 the four invariants about
  queues and wake-ups were checked once too, outside of the runs (8.2 million states).
  What is proved about the mailbox holds for all values.

`CHECK_DEADLOCK FALSE` is set where a bound stops a behaviour, and CPUs legitimately
end in `run`, `idle` or ERROR.

### Fairness

Weak fairness of each CPU's steps, where the code is a loop or straight line that runs
with interrupts masked on a CPU of its own (`CpuSync`, the inside of `pp_alloc`,
`spin_lock` and `spin_unlock`, a message once begun). It is not assumed that a CPU ever
sends, allocates or takes the lock. In `TicketLock`, critical sections are assumed to end. That
holds for the locks of the page pool, of the object pools and of `vm_list` as long as no
ERROR stops their holder; it does not where locks nest or are taken twice (`vgic.c:1014`,
`vgic.c:172`, `vgic.c:1027`, `mmu.c:66`). For `Boot` and `VGic`
less is enough, that the system does not stop while a CPU can go on: in `Boot` no CPU
takes steps for ever, and in `VGic` there is one CPU, on which a signalled interrupt is
taken (physical interrupts are routed to EL2) or the guest goes on serving its own. In
`VGic` this is written with the explicit condition under which such a step changes the
state, which is what WF abbreviates. `VGicVcpus` assumes that each CPU whose hypervisor
can do a step does one, again with the condition written out (`Ready`, `Moves`): a lock that is
free is given to the CPU that waits for it, as `TicketLock` serves in order. Nothing is
assumed of the guests, and a CPU that goes round in `vgic_refill_lrs` or waits in a circle
is not ready. `GuestThreads` assumes that time passes and that
the CPU comes to `schedcoop_schedule` again and again. The idle thread does so by itself;
of the other threads it is what a cooperative scheduler demands, and the application must
keep it. It is not assumed that anybody posts, receives or unlocks.

## Proofs

Checked by TLAPS for all values of the constants that satisfy the named assumptions. The
runs do not repeat the inductive invariants, nor `BarrierSafety`, `MutualExclusion`,
`FreeIsExact` and `RingCounted`, which are proved from them.

* **CpuSyncProofs** (assumes a finite set of CPUs with the master in it). The invariant
  `IInv` says that there is a generation g such that every CPU has entered g or g + 1
  barriers, the counter is g·N plus the number of those ahead, and a waiting CPU waits
  for the end of its own round. Barrier safety alone is not inductive: it says nothing
  about the counter that lets a CPU leave. The key lemma is that rounding up in
  `Expected` gives (g + 1)·N. `BarrierIsSafe` and `BarrierRefinement` follow.
* **TicketLockProofs** (fewer CPUs than tickets). `IInv` relates the wrapped fields to
  unbounded histories: tickets drawn and not served are a window of consecutive numbers,
  each held by one CPU in the queue. As the window is smaller than the modulus, equality
  modulo 2^32 is equality. `LockExcludes` and `LockServesInOrder` (refinement of
  `FifoLock`, the queue read off the tickets) follow.
* **PagePoolProofs** (a pool larger than its bitmap). `IInv` says who may be inside, that
  what a CPU is about to mark is still free, and that `free` counts the clear bits.
  `BlocksStayDisjoint`, `FreeCountIsExact` and, for requests without alignment,
  `UnalignedSearchIsComplete` follow. The last needs that the second search starts at 0.
* **CpuMsgProofs** (any positive number of CPUs, of nodes and of messages). `MsgInv` says
  that, as long as no CPU has entered a list with another inside (`raced`), there is for
  each CPU a sequence of nodes, `q`, such that its list goes round them. Between the steps of
  `list_add_tail` and `list_del` that is not quite so, and the invariant says what is missing:
  `Chained` are the links that only the step that takes a node in or out (`list_add4`,
  `list_del2`) changes, `Tailed` is `prev` of the head, which both functions set first, and
  `Placed` is what a CPU holds in its registers at each place. A node in use is on one list
  once or with one CPU (`Kept`), and messages are told apart by their numbers. `q` is
  the abstract queue: `list_add4` appends to it, `list_del2` drops its last (the handler
  takes messages from the end where they are put), every other step leaves it.
  `MessagesSound` and `QueuesIntact` follow.
* **SnapshotProofs** (one CPU with its machine, any sizes of the memory, of a pool and of what is
  taken at boot that leave room for one pool, a pool not being a multiple of three pages so that
  slots do not start on pages; any number of checkpoints). `SnapInv` says that
  pools lie in used pages, none over another, that all but the last are full, and that
  the header in slot i of pool k has the number that follows from counting back from the
  newest; a checkpoint under way has the next slot, and a restore under way has the slot that
  the list holds for its id. `SnapshotsStayIntact` follows. For the walk of `get_ss_by_id`
  past the last slot of a pool it needs that the memory there is never taken for a *live* id:
  the numbers of the live ones are found first, as they come first in the order of the walk.
  `HandlersImplementStore` shows each step to be a step of `SnapshotStore`, provided there is
  always room: without it `get_new_ss` stops in ERROR, which is no step of the store.
  `RoomForPools` proves that there is with `PlatformSizes`, inequalities between the sizes that hold
  of the platform when it runs one machine (491,520 pages, pools of just over 98,304, the last
  block of boot ending near page 41,500) and of the instance of the run. The last two are worked
  out from `config.c`, the sizes of the images and the order of the allocations, not measured; the
  sizes of the structs, which the compiler fixes, may vary by many pages without effect. That there are enough free pages is no
  argument, as they may lie in gaps, so the invariant `RoomInv` says where the pools are: `Layout`
  has the eight lists of pools that come about, with pools at five places (`Bottom`, `Low`,
  `Middle`, `Upper`, `Top`), and each is shown to lead to the next. `Starts` computes where the
  first search of `pp_alloc` begins, `NextSpot` what it or the second one finds.
  `PlatformStore` puts the two together.
* **GuestThreadsProofs, mailbox** (any finite set of threads with the main thread in it, a mailbox
  of any positive size). `RingCounted` relates the two semaphores to the positions of the
  ring, corrected for the one thread that has taken a token and not used it, or used it and
  not raised the other semaphore. It is not inductive: it needs that there is
  at most one such thread. `IInv` adds that such a thread has the CPU and that no
  switch is under way, since neither `_do_mbox_post` nor `_do_mbox_recv` gives way, and
  what the places of a thread say about the object it waits for. Interrupt handlers run as one step
  and leave the correction as it is. `MailboxCounted` follows, and
  with it the assertions of `mbox_defs.h`. `MailboxRefinement` shows that each step
  appends to the queue read off the ring, takes its head, or leaves it; a slot that is
  written is not one of those in use, because the count says that one is free. The
  arithmetic of positions modulo `Size + 1` is in lemmas of its own.
* **GuestThreadsProofs, waiting** (same assumptions, and `IInv`). `NoLostWakeup` alone is
  not inductive: a thread left on a wait queue by mistake could block on another object.
  `WaitInv` adds that who is on a queue is there once and between `Block`
  and `Leave` of a wait for that very object, and that what has exited, was terminated or
  is free is not. A thread blocks only after a test with interrupts disabled, so
  its condition is false when it does; whatever makes a condition true (raising a
  semaphore, the last unlock, a handler that posts or receives) wakes the whole queue in
  the same step, and every other step leaves the conditions or makes them false.
  `WaitInvariant` and `NoWakeupLost` follow.
* **GuestSchedProofs** (same assumptions, and the two invariants above). `SchedInv` puts
  together what `RunnableOnce`, `SleepersTimed` and `GoneUnlinked` say one by one, since a
  thread moves between the queues: a thread is on the run queue, once, exactly when it
  is runnable and does not have the CPU; on the sleep queue, once, exactly when
  its deadline is armed, and then it is not runnable. What makes it inductive is the flag
  `UK_THREADF_QUEUEABLE`: clear for the thread that has the CPU, set for every other that is
  blocked. So a handler that wakes a thread which has blocked and not yet left the CPU does
  not queue it, and `schedcoop_schedule` does it instead. The scheduler is a value on which
  a step applies several changes in turn (wake, block, exit, start, switch); each has a lemma
  that it keeps `Sound`. That the threads woken are on the run queue no more than
  once needs that they are on a wait queue once (`WaitInv`). The lemmas `Ranked` and
  `OnlyThose` are about `Only`, which picks entries from a queue without recursion.
* **BootProofs, barriers** (any positive number of CPUs and of machines, any positive number of
  vcpus for each). `SyncInv` follows the argument of `CpuSyncProofs` for the token of
  each machine: a generation g with every CPU in round g or g + 1, and the counter to match. Here
  CPUs join a machine while others are already at the first barrier, so a generation above 0
  needs a complete machine; and the three steps of `cpu_sync_and_clear_msgs` count like a
  barrier but read the counter late, so a CPU waits for the end of its round *or a later one*,
  and what matters is only that it has not left too early (`PassInv`).
* **BootProofs, machines** (same assumptions). `BootInv` adds that `vm->cpus` holds everyone
  who has passed `vm_cpu_init`, that a vcpu's number is the rank of its CPU among *all* CPUs of the
  machine (the barrier before `vm_vcpu_init` is what makes it so), and that the bits
  of a machine's interrupts are those of the entries its master has gone through. `BitmapInv` is
  about the bits they share, until two masters overlap in a granule: what a master has loaded is
  what the granule holds but for its own bit (`Loaded`), what it found free still is
  (`StillFree`), and what was assigned before is recorded (`Recorded`).
  `VcpusCompleteHolds` uses that the ranks of n CPUs are the numbers below n, and
  `InterruptsReadyHolds` that the master, too, is past the fifth barrier, and `BitmapInv`. `ListInv` says
  that the list is a sequence of distinct machines until something in use is reset; a node is
  reset only by the CPU that is about to add it, so an insertion at the head is safe whatever
  the others do in between. It holds only in the absence of the reset (`relinked`), which
  the code does not prevent (see Findings).

Steps carry the name of a prover (`Zenon`) where it decides them without arithmetic: the
modules are large, and the encoding for the SMT solver costs more the more of it was done
before. `SMTT(30)` and `ZenonT(30)` name a prover with a limit of 30 seconds instead of the
default, so that the proofs do not depend on the speed or the load of the machine.

Only model-checked:

* all liveness properties and what depends on fairness (out of reach of the prover): of `Boot`
  `AllStart`, of `GuestThreads` `RoundRobin` and `TimedReturn`, of `CpuMsg` `Drained`, of
  `VGicVcpus` `Returns`, and the others of the table of runs;
* `Bitmap`, `AddrSpace` and `VGic`, whose loops over data are recursive operators;
* `VGicVcpus`, whose invariants are not inductive: that needs an account of which lock each
  vcpu holds at each of its places, and of every interrupt on its way between them;
* `AlwaysRoom` with other proportions than `PlatformSizes`. It is not true of all (see Findings).

## Findings

`get_ss_by_id` walks a pool beyond its last snapshot, into memory of an evicted pool: an
id that was evicted can be found again (`snapshot_evicted`).

Seen while modelling: `gicc_init` adds 1 to a position counted from 0,
so interrupts for messages, and shared interrupts of the hardware, go to the next CPU
interface (`CpuMsg` and `VGic` compute it so); concurrent checkpoints share a slot; the lists
of messages are changed without a lock; `vm_list` is emptied by every CPU and nodes are
inserted more than once; `cpu_sync_and_clear_msgs` can hang a machine with two vcpus; a
CPU can use its machine's allocation before the master has made it; a guest's write to a
spilled interrupt links it twice (`astray` in `VGic`); a spilled pending interrupt with
all list registers active leaves the maintenance interrupt signalled (`Storm`);
`mem_free_ppages` ends with `spin_lock` instead of `spin_unlock` (`mem_unmap_free` in
`AddrSpace` stops there); on a processor with a small physical address range every CPU
would take a level off the shared descriptor of the stage-2 tables; `guest_halt_handler`
passes the reason of a halt on as the id of a snapshot, so a reset ends in ERROR (the action
of `Snapshot` does so); `latest_ss` and the pools are shared by all machines, so a restore on
one can bring in the state of another; masters set bits of `global_interrupt_bitmap` without a
lock, so two machines that claim interrupts of one granule at the same time can get the same
interrupt, or one claim overwrites the other (`overlapped` in `Boot`), and the conflict test
leaves out interrupt 32, the first shared one.

"Twice the size of a pool", the rule with which `get_new_ss` decides to evict (`lcm.c:17`), is
enough with the proportions of one machine, and not with two (`TEST_SCENE` 5): the blocks of
boot then end at about 0.85 of a pool, the first two pools start at about 1.7 and 3.4 pools, and at
the seventh checkpoint some 2.3 pools are free but no whole one in a run, so that `get_new_ss` stops
in ERROR. These figures are worked out from the sizes in the source; the program was not run.
TLC finds the same in an instance of 40 pages, of which boot has taken 7 and the bitmap 1, with
pools of 8, which is no run of the project.

In the virtual GIC of several vcpus: `platform.cpu_num` is never set, so `vgic_route` tells no
other vcpu of an interrupt, which then stays pending without a register (`untold`);
`vgic_refill_lrs` takes the lock of the lists before that of
an interrupt and `vgic_add_spilled` after it, and `vgic_write_lr` takes a second
interrupt while it holds one, so that two vcpus can wait for each other for ever;
the refill loop never ends while another vcpu has the interrupt active that it found;
`vgic_eoir_highest_spilled_active` reads the lists without their lock, where the comment at
`vgic.c:974` asks for it.

In the guest: an interrupt between the idle thread's decision to halt and `wfi` leaves
the thread it woke waiting until the timer; with no deadline at all the idle thread does
not halt, as `wake_up_time` is then 0; a thread that is
terminated while it sleeps or waits stays linked; exited threads are released only when the
idle thread runs; `schedcoop_schedule` sets `UK_THREADF_QUEUEABLE` on a thread it has just
queued, which the comment at `thread.h:145` excludes, without harm, since a runnable thread
is not woken (`RunnableOnce`).

## What the models assume or leave out

* `CpuMsg` and `Snapshot` do not exclude races, they name them: properties with "unless
  raced" or about one machine say what holds without. `PagePool` assumes that a caller
  frees what it got; `FailsOnlyWhenFull` is checked for single pages, unaligned runs and
  aligned pairs, and proved for unaligned requests. Aligned requests of more pages are not covered.
* `Snapshot`: what boot has taken is one block at the start of the pool. The pages that boot leaves
  free between its blocks are fewer than a pool's, and are counted as taken. With one machine
  `get_new_ss` evicts at the same number of pools either way (free: 4.62 pools, or 4.58 without those pages).
* `Boot`: of the bitmap, the interrupts above the private ones; the private ones that every CPU
  reserves for the hypervisor (`interrupts_reserve`, which sets bits of one granule without a
  lock too) are left out.
* `AddrSpace`: callers name the address, map what they have reserved and unmap what they
  were given, as all reachable callers do. No superpage is ever mapped by this code. That
  the page pool is exhausted is left to `PagePool`.
* `VGic`: one vcpu, so neither locks nor messages between vcpus (see `VGicVcpus`); the
  maintenance interrupt is taken before the guest's next step; the guest does not disable,
  move, reprioritise or deactivate what it is running; no software-generated interrupts
  (`platform.cpu_num` is never set, so none is sent); no trigger configuration.
* `VGicVcpus`: all shared interrupts are enabled and of software; the lists of messages are
  intact, as `CpuMsg` shows for operations that do not overlap, and the interrupt that
  announces a message reaches its addressee; the guest does not move what a vcpu is
  running. `CirclesKnown`, `SpinsForActive` and `Returns` say where the handlers can stop, not that
  they cannot.
* `GuestThreads`: one CPU, and one mailbox and one mutex; handlers of interrupts use the calls for
  interrupt handlers (`mbox_isr.c`) alone; a thread that goes holds no mutex, and is terminated by
  another only while it waits for nothing. Objects are not destroyed while in use, and
  allocation does not fail.
* Memory is sequentially consistent. The code has fences or acquire and release accesses
  where `CpuSync` and `TicketLock` need them; the races of `CpuMsg` appear already under
  sequential consistency.
* Not modelled: the scheduler (not in the default build),
  request queues, I/O and SMMU, timer, console and library, start code, GICv3, and of the guest all
  but its threads: the copy of Unikraft is developed elsewhere, and most of it (drivers, file
  systems, other platforms) is in no build of the application.
  `PROJECT.json` gives the reason for each.

## Plan

1. Emulated regions and translation of CPU numbers (`core/vm.c`); dispatch of interrupts
   and of data aborts.
2. The builds that are not the default: the scheduler (`SCHEDULE`), stream matching of
   SMMUv2, command and event queues of SMMUv3, GICv3.
3. More of the guest: reference counts, ring buffers and allocators of Unikraft.
4. Proofs: `LrsTracked` of `VGic`, with its loops as recursive functions; `LrsOwned` of
   `VGicVcpus`.
