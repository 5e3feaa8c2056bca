------------------------------- MODULE Snapshot -------------------------------
(***************************************************************************)
(* Checkpoint, restore, restart and halt of core/lcm.c, reached through    *)
(* the table of hypercall.c, together with the pages they take from the    *)
(* page pool (PagePool.tla).                                               *)
(*                                                                         *)
(* A snapshot pool is PoolPages pages that hold NUM_MAX_SNAPSHOT_PER_POOL  *)
(* slots; a slot is named by the page of its pool and its number, and      *)
(* starts at a multiple of a third of a page, as the slots of the code do  *)
(* not start on page boundaries.  hdr is what memory holds where a slot    *)
(* starts.  The state of a guest when it asks for a checkpoint is named    *)
(* <<vm, id>> after the snapshot made of it: mem[v] names what the memory  *)
(* of machine v holds, vcpu[c].regs what the struct vcpu of CPU c holds.   *)
(* The system registers of EL1, which a snapshot does not contain, are     *)
(* left out.                                                               *)
(*                                                                         *)
(* One step is a part of a handler between two accesses to data that the   *)
(* handlers of several CPUs share without a lock.  Each CPU runs one       *)
(* machine with one virtual CPU.                                           *)
(***************************************************************************)
EXTENDS Integers, FiniteSets, Sequences, Functions

CONSTANTS
    CPUs,
    VMs,
    VmOf(_),        \* the machine that CPU c was given at boot
    NrPages,        \* pages of the root pool
    BootPages,      \* pages taken at boot, from the start of the pool
    BitmapPages,    \* pages of the bitmap, at the end of the pool
    PoolPages,      \* NUM_PAGES(pool_size)
    MaxIds,         \* bound on the number of checkpoints
    Asked           \* the snapshot ids the guests ask for

Slots == 3          \* NUM_MAX_SNAPSHOT_PER_POOL

ASSUME SnapshotAssumption ==
    /\ NrPages \in Nat /\ BootPages \in Nat /\ BitmapPages \in Nat /\ MaxIds \in Nat
    /\ PoolPages \in Nat \ {0} /\ PoolPages % Slots # 0
    /\ BootPages + PoolPages + BitmapPages <= NrPages
    /\ Asked \subseteq Nat
    /\ \A c \in CPUs : VmOf(c) \in VMs
    /\ "boot" \notin VMs

Null == <<-1, 0>>            \* a pointer that is not set
Boot == <<"boot", 0>>        \* the state of a machine just loaded
Corrupt == <<"corrupt", 0>>  \* a mixture of two states
LATEST_SSID == -1
NoId == -2                   \* no restore is under way

VARIABLES
    used, last,                  \* the page pool
    pools,                       \* ss_pool_list: the page and the next free slot
    init, latest_ss, latest_ss_id, current_restore_cnt,
    hdr, mem, vcpu,
    pc, ss, ssid                 \* per CPU: position, and the locals ss and ssid

pool_vars == <<used, last, pools, init>>
guest_vars == <<mem, vcpu>>
vars == <<used, last, pools, init, latest_ss, latest_ss_id, current_restore_cnt,
          hdr, mem, vcpu, pc, ss, ssid>>

Pages == 0..(NrPages - 1)
SlotNames == Pages \X (0..(Slots - 1))

Zero == [kind |-> "zero"]        \* memory nobody has written: size reads 0
Garbage == [kind |-> "garbage"]  \* the inside of some snapshot's memory

Init ==
    /\ used = {p \in Pages : p < BootPages \/ p >= NrPages - BitmapPages}
    /\ last = BootPages
    /\ pools = <<>>
    /\ init = FALSE
    /\ latest_ss = Null
    /\ latest_ss_id = 0
    /\ current_restore_cnt = 0
    /\ hdr = [s \in SlotNames |-> Zero]
    /\ mem = [v \in VMs |-> Boot]
    /\ vcpu = [c \in CPUs |-> [vm |-> VmOf(c), regs |-> Boot]]
    /\ pc = [c \in CPUs |-> "guest"]
    /\ ss = [c \in CPUs |-> Null]
    /\ ssid = [c \in CPUs |-> NoId]

Goto(c, p) == pc' = [pc EXCEPT ![c] = p]
-----------------------------------------------------------------------------
\* The page pool, as far as the snapshots use it.

Block(p) == p..(p + PoolPages - 1)

\* mem_get_free_pages
FreePages(u) == NrPages - Cardinality(u)

Runs(u, from) == {p \in from..(NrPages - PoolPages) : Block(p) \cap u = {}}

\* Where pp_alloc finds PoolPages pages: after last, else from page 0.
Fit(u) ==
    LET after == Runs(u, last + (last % PoolPages))
    IN  IF after # {} THEN after ELSE Runs(u, 0)

Lowest(S) == CHOOSE p \in S : \A q \in S : p <= q

\* alloc_ss_pool with the pages u in use and the pools list in ss_pool_list:
\* the new pool is the last of the list, or the CPU stops in ERROR.
alloc_ss_pool(c, u, list, next) ==
    IF Fit(u) = {}
      THEN /\ Goto(c, "no_memory")
           /\ used' = u /\ pools' = list
           /\ UNCHANGED <<last, ss>>
      ELSE LET p == Lowest(Fit(u))
           IN  /\ Goto(c, next)
               /\ used' = u \cup Block(p)
               /\ last' = p + PoolPages
               /\ pools' = Append(list, [page |-> p, last |-> 0])
               /\ ss' = [ss EXCEPT ![c] = <<p, 0>>]
-----------------------------------------------------------------------------
\* Mutated forms of the operations below.

\* The pool that is given up is the newest.
Evicted_newest(list) == SubSeq(list, 1, Len(list) - 1)

\* A new pool needs no more than its own size to be free.
Scarce_tight(u) == FreePages(u) < PoolPages

\* The machine's memory is not copied back.
restore_without_memory(c) ==
    /\ pc[c] = "copy"
    /\ vcpu' = [vcpu EXCEPT ![c] = [vm |-> hdr[ss[c]].vm, regs |-> hdr[ss[c]].regs]]
    /\ Goto(c, "guest")
    /\ ss' = [ss EXCEPT ![c] = Null]
    /\ ssid' = [ssid EXCEPT ![c] = NoId]
    /\ UNCHANGED <<pool_vars, latest_ss, latest_ss_id, current_restore_cnt, hdr, mem>>
-----------------------------------------------------------------------------
\* Checkpoint.

\* checkpoint_snapshot_handler up to the test of its static flag init.
checkpoint_snapshot_handler(c) ==
    /\ pc[c] = "guest"
    /\ latest_ss_id < MaxIds
    /\ Goto(c, IF init THEN "get" ELSE "pool_init")
    /\ UNCHANGED <<pool_vars, latest_ss, latest_ss_id, current_restore_cnt, hdr, guest_vars, ss, ssid>>

\* ss_pool_init: a new list with one new pool, then init = true.
ss_pool_init(c) ==
    /\ pc[c] = "pool_init"
    /\ alloc_ss_pool(c, used, <<>>, "get")
    /\ init' = TRUE
    /\ UNCHANGED <<latest_ss, latest_ss_id, current_restore_cnt, hdr, guest_vars, ssid>>

\* The last pool has no room for another snapshot.
Full(p) == p.last >= Slots

\* There is less than twice the size of a pool left.
Scarce(u) == FreePages(u) < 2 * PoolPages

\* The list without the pool that is given up: the earliest.
Evicted(list) == Tail(list)

\* get_new_ss: the next slot of the last pool, or the first of a new pool,
\* for which the earliest pool is freed when memory is scarce.
get_new_ss(c) ==
    /\ pc[c] = "get"
    /\ IF ~Full(pools[Len(pools)])
         THEN /\ ss' = [ss EXCEPT ![c] = <<pools[Len(pools)].page, pools[Len(pools)].last>>]
              /\ Goto(c, "fill")
              /\ UNCHANGED <<used, last, pools>>
         ELSE IF Scarce(used)
         THEN LET gone == CHOOSE p \in Range(pools) : p \notin Range(Evicted(pools))
              IN  alloc_ss_pool(c, used \ Block(gone.page), Evicted(pools), "fill")
         ELSE alloc_ss_pool(c, used, pools, "fill")
    /\ UNCHANGED <<init, latest_ss, latest_ss_id, current_restore_cnt, hdr, guest_vars, ssid>>

\* The part of memory that slot s covers, in thirds of a page.
Start(s) == Slots * s[1] + PoolPages * s[2]
Covers(s) == Start(s)..(Start(s) + PoolPages - 1)

\* Memory after snapshot x has been written to slot s: where another slot
\* would start it holds the inside of x, and a snapshot that x overlaps is
\* no longer what it was.
Write(s, x) ==
    [t \in SlotNames |->
        IF t = s THEN x
        ELSE IF Start(t) \in Covers(s) THEN Garbage
        ELSE IF hdr[t].kind = "snapshot" /\ Covers(t) \cap Covers(s) # {}
             THEN [hdr[t] EXCEPT !.mem = Corrupt]
        ELSE hdr[t]]

\* The header, the struct vcpu and the memory are saved.
fill_snapshot(c) ==
    /\ pc[c] = "fill"
    /\ LET v   == vcpu[c].vm
           now == <<v, latest_ss_id>>
       IN  /\ hdr' = Write(ss[c], [kind |-> "snapshot", id |-> latest_ss_id,
                                   vm |-> v, regs |-> now, mem |-> now])
           /\ mem' = [mem EXCEPT ![v] = now]
           /\ vcpu' = [vcpu EXCEPT ![c].regs = now]
    /\ latest_ss_id' = latest_ss_id + 1
    /\ Goto(c, "update")
    /\ UNCHANGED <<pool_vars, latest_ss, current_restore_cnt, ss, ssid>>

\* The snapshot that latest_ss points to after the update of pool p.
Newest(p) == <<p.page, p.last>>

\* update_ss_pool_last: the snapshot is there, the next one goes behind it.
update_ss_pool_last(c) ==
    /\ pc[c] = "update"
    /\ latest_ss' = Newest(pools[Len(pools)])
    /\ pools' = [pools EXCEPT ![Len(pools)].last = @ + 1]
    /\ Goto(c, "guest")
    /\ ss' = [ss EXCEPT ![c] = Null]
    /\ UNCHANGED <<used, last, init, latest_ss_id, current_restore_cnt, hdr, guest_vars, ssid>>
-----------------------------------------------------------------------------
\* Restore.

\* The walk of get_ss_by_id through a pool goes from header to header by
\* their size fields; it ends at a size of zero and at the end of the pool,
\* not at the pool's last pointer.  Reaches(p, i): it gets to slot i.
Reaches(p, i) == \A j \in 0..(i - 1) : hdr[<<p.page, j>>].kind = "snapshot"

\* The places, in the order of the walk, where it can end: at a snapshot
\* with the id asked for, or in memory that is no header.
Stops(id) ==
    {x \in (1..Len(pools)) \X (0..(Slots - 1)) :
        LET p == pools[x[1]]
            h == hdr[<<p.page, x[2]>>]
        IN  /\ Reaches(p, x[2])
            /\ \/ h.kind = "snapshot" /\ h.id = id
               \/ h.kind = "garbage"}

Before(x, y) == x[1] < y[1] \/ (x[1] = y[1] /\ x[2] <= y[2])

\* get_ss_by_id: the CPU stops in ERROR when the walks find nothing, and
\* anything may happen when they run into memory that is no header.
get_ss_by_id(c, id) ==
    IF ~init \/ Stops(id) = {}
      THEN Goto(c, "invalid_id") /\ UNCHANGED ss
      ELSE LET x == CHOOSE x \in Stops(id) : \A y \in Stops(id) : Before(x, y)
               s == <<pools[x[1]].page, x[2]>>
           IN  IF hdr[s].kind = "garbage"
                 THEN Goto(c, "astray") /\ UNCHANGED ss
                 ELSE Goto(c, "copy") /\ ss' = [ss EXCEPT ![c] = s]

\* restore_snapshot_handler with LATEST_SSID.
restore_latest(c) ==
    /\ pc[c] = "guest"
    /\ ssid' = [ssid EXCEPT ![c] = LATEST_SSID]
    /\ IF latest_ss = Null
         THEN Goto(c, "invalid_id") /\ UNCHANGED ss
         ELSE Goto(c, "copy") /\ ss' = [ss EXCEPT ![c] = latest_ss]
    /\ UNCHANGED <<pool_vars, latest_ss, latest_ss_id, current_restore_cnt, hdr, mem, vcpu>>

\* restore_snapshot_handler with the id of a snapshot.
restore_by_id(c, id) ==
    /\ pc[c] = "guest"
    /\ ssid' = [ssid EXCEPT ![c] = id]
    /\ get_ss_by_id(c, id)
    /\ UNCHANGED <<pool_vars, latest_ss, latest_ss_id, current_restore_cnt, hdr, mem, vcpu>>

\* restore_snapshot_handler_by_ss: the memory of CURRENT_VM first, then the
\* whole struct vcpu, its pointer to the machine included.
restore_snapshot_handler_by_ss(c) ==
    /\ pc[c] = "copy"
    /\ mem' = [mem EXCEPT ![vcpu[c].vm] = hdr[ss[c]].mem]
    /\ vcpu' = [vcpu EXCEPT ![c] = [vm |-> hdr[ss[c]].vm, regs |-> hdr[ss[c]].regs]]
    /\ Goto(c, "guest")
    /\ ss' = [ss EXCEPT ![c] = Null]
    /\ ssid' = [ssid EXCEPT ![c] = NoId]
    /\ UNCHANGED <<pool_vars, latest_ss, latest_ss_id, current_restore_cnt, hdr>>
-----------------------------------------------------------------------------
\* Halt and restart.

NUM_MAX_SNAPSHOT_RESOTRE == 1

\* PSCI_FNID_SYSTEM_RESET, which is no snapshot's id.
SystemReset == MaxIds

\* guest_halt_handler for a reset: the arguments of the halt are handed on
\* to restore_snapshot_handler, the reason in the place of the id.
guest_halt_reset(c) ==
    /\ pc[c] = "guest"
    /\ ssid' = [ssid EXCEPT ![c] = SystemReset]
    /\ IF current_restore_cnt < NUM_MAX_SNAPSHOT_RESOTRE
         THEN /\ current_restore_cnt' = current_restore_cnt + 1
              /\ get_ss_by_id(c, SystemReset)
         ELSE /\ Goto(c, "too_many_resets")
              /\ UNCHANGED <<current_restore_cnt, ss>>
    /\ UNCHANGED <<pool_vars, latest_ss, latest_ss_id, hdr, mem, vcpu>>

\* restart_vm: the image is copied over the memory of CURRENT_VM, and the
\* first struct vcpu of that machine is reset.
restart_vm(c) ==
    /\ pc[c] = "guest"
    /\ LET v == vcpu[c].vm
       IN  /\ mem' = [mem EXCEPT ![v] = Boot]
           /\ vcpu' = [d \in CPUs |->
                          IF VmOf(d) = v THEN [vcpu[d] EXCEPT !.regs = Boot] ELSE vcpu[d]]
    /\ UNCHANGED <<pool_vars, latest_ss, latest_ss_id, current_restore_cnt, hdr, pc, ss, ssid>>

Checkpoint(c) ==
    \/ checkpoint_snapshot_handler(c)
    \/ ss_pool_init(c)
    \/ get_new_ss(c)
    \/ fill_snapshot(c)
    \/ update_ss_pool_last(c)

Restore(c) ==
    \/ restore_latest(c)
    \/ \E id \in Asked : restore_by_id(c, id)
    \/ restore_snapshot_handler_by_ss(c)

Next == \E c \in CPUs : Checkpoint(c) \/ Restore(c) \/ guest_halt_reset(c) \/ restart_vm(c)

Spec == Init /\ [][Next]_vars
-----------------------------------------------------------------------------

\* The snapshots that exist, by pool and slot; a pool keeps what is before its
\* pointer last.
Live == {x \in (1..Len(pools)) \X (0..(Slots - 1)) : x[2] < pools[x[1]].last}
At(x) == <<pools[x[1]].page, x[2]>>
Id(x) == hdr[At(x)].id

\* Number of checkpoints that are complete.
Completed == latest_ss_id - Cardinality({c \in CPUs : pc[c] = "update"})

\* The snapshots in the pools are the latest ones, one for each id without a
\* gap and in the order of the list, each holds what was saved under its id, and
\* latest_ss is the newest: eviction frees only the oldest, and no pool is laid
\* over a live one.
SnapshotsIntact ==
    \A x \in Live :
        LET h == hdr[At(x)]
        IN  /\ h.kind = "snapshot" /\ h.mem = <<h.vm, h.id>> /\ h.regs = h.mem
            /\ h.id < Completed
            /\ \A id \in h.id..(Completed - 1) : \E y \in Live : Id(y) = id
            /\ \A y \in Live : Before(x, y) <=> h.id <= Id(y)
            /\ h.id = Completed - 1 => latest_ss = At(x)

\* The proportions of the qemu platform when it runs one machine of 128 MB (the
\* scenes 0 to 4 of config.c): the blocks allocated at boot end at 0.42 of a pool, and
\* the bitmap starts after 5.00 pools.
PlatformSizes ==
    LET end == NrPages - BitmapPages
    IN  /\ 2 * BootPages < PoolPages /\ PoolPages <= 4 * BootPages
        /\ 4 * PoolPages + BootPages <= end /\ end < 5 * PoolPages + BootPages
        /\ 4 * BootPages + 3 * PoolPages <= end /\ end < 8 * BootPages + 2 * PoolPages

\* get_new_ss finds room for every snapshot: with PlatformSizes the rule "twice
\* the size of a pool" is enough, whatever gaps earlier pools have left.  It is not
\* in general: with two machines (scene 5) the blocks of boot end at 0.85 of a
\* pool, and the third pool finds no run of pages although more than two are free.
AlwaysRoom == \A c \in CPUs : pc[c] # "no_memory"

\* A restore that goes ahead copies a snapshot that exists: the snapshots of
\* a pool that get_new_ss has freed are gone, and their ids invalid.
OnlyLiveRestored ==
    \A c \in CPUs : pc[c] = "copy" => ss[c] \in {At(x) : x \in Live}

\* For one machine on one CPU the handlers implement SnapshotStore: a guest
\* that asks for a snapshot that exists, by its id or as the latest, is in
\* the state of that checkpoint, and only the oldest snapshots disappear.
theCPU == CHOOSE c \in CPUs : TRUE
Running == {"guest", "pool_init", "get", "fill", "update", "copy"}
State ==
    LET r == vcpu[theCPU].regs
    IN  IF mem[VmOf(theCPU)] = r THEN r[2] - (IF r = Boot THEN 1 ELSE 0) ELSE -2

\* What the snapshots that exist hold, by their ids.
Saved ==
    [id \in {Id(x) : x \in Live} |-> hdr[At(CHOOSE x \in Live : Id(x) = id)].mem[2]]

Store ==
    INSTANCE SnapshotStore WITH
        Boot  <- -1,
        None  <- NoId,
        Latest <- LATEST_SSID,
        cur   <- State,
        next  <- Completed,
        up    <- pc[theCPU] \in Running,
        asked <- ssid[theCPU],
        store <- Saved

RefinesStore == Store!Spec
==============================================================================
