---------------------------- MODULE SnapshotProofs ----------------------------
(***************************************************************************)
(* Proofs about Snapshot with one CPU, for every size of the page pool and *)
(* of a snapshot pool and any number of checkpoints: the snapshots that    *)
(* exist are whole and the newest, and as long as there is room for a pool *)
(* the handlers implement SnapshotStore.  There is, with the proportions   *)
(* of the platform that runs one machine.                                  *)
(***************************************************************************)
EXTENDS Snapshot, FiniteSetTheorems, WellFoundedInduction, TLAPS

OneCPU == CPUs = {theCPU}
theVM == VmOf(theCPU)
at == pc[theCPU]
n == Len(pools)

\* The snapshot of the machine with number id.
Saves(id) == [kind |-> "snapshot", id |-> id, vm |-> theVM,
              regs |-> <<theVM, id>>, mem |-> <<theVM, id>>]
States == {Boot, Corrupt} \cup ({theVM} \X Nat)
Headers == {Zero, Garbage} \cup
           [kind : {"snapshot"}, id : 0..(MaxIds - 1), vm : {theVM}, regs : States, mem : States]
Places == Running \cup {"no_memory", "invalid_id", "astray", "too_many_resets"}

Pools == [page : 0..(NrPages - PoolPages), last : 0..Slots]
SnapType ==
    /\ last \in Nat
    /\ pools \in Seq(Pools)
    /\ init \in BOOLEAN
    /\ latest_ss_id \in 0..MaxIds
    /\ hdr \in [SlotNames -> Headers]
    /\ mem \in [VMs -> States]
    /\ vcpu \in [CPUs -> [vm : {theVM}, regs : States]]
    /\ pc \in [CPUs -> Places]
    /\ ss \in [CPUs -> SlotNames \cup {Null}]
    /\ ssid \in [CPUs -> Int]

\* The pools of a list lie in pages that are in use, none over another.
Laid(list, u) ==
    /\ \A k \in 1..Len(list) : Block(list[k].page) \subseteq u
    /\ \A j, k \in 1..Len(list) : j # k =>
          \/ list[j].page + PoolPages <= list[k].page
          \/ list[k].page + PoolPages <= list[j].page

\* All pools but the last are full; a checkpoint under way has the next slot.
Filled ==
    /\ \A k \in 1..(n - 1) : pools[k].last = Slots
    /\ at \in {"guest", "copy"} /\ n > 0 => pools[n].last > 0
    /\ at \in {"get", "fill", "update"} => n > 0
    /\ at \in {"fill", "update"} =>
          pools[n].last < Slots /\ ss[theCPU] = <<pools[n].page, pools[n].last>>
    /\ at # "no_memory" => (init <=> n > 0)
    /\ at = "pool_init" => ~init
    /\ at \in {"pool_init", "get", "fill"} => latest_ss_id < MaxIds

\* The id of slot i of pool k, counted from the newest.
Num(k, i) == Completed - Slots * (n - k) - pools[n].last + i

Numbered ==
    /\ \A k \in 1..n : \A i \in 0..(Slots - 1) : i < pools[k].last =>
          /\ hdr[<<pools[k].page, i>>] = Saves(Num(k, i))
          /\ Num(k, i) = Completed - 1 => latest_ss = <<pools[k].page, i>>
    /\ at # "no_memory" /\ n = 0 => latest_ss = Null
    /\ at = "update" =>
          /\ latest_ss_id > 0
          /\ hdr[ss[theCPU]] = Saves(latest_ss_id - 1)
          /\ mem[theVM] = <<theVM, latest_ss_id - 1>>
          /\ vcpu[theCPU].regs = <<theVM, latest_ss_id - 1>>

\* What a restore is about to copy.
Found ==
    /\ at \in Running \ {"copy"} => ssid[theCPU] = NoId
    /\ at = "copy" =>
          /\ ssid[theCPU] # NoId
          /\ ss[theCPU] \in SlotNames /\ hdr[ss[theCPU]].kind = "snapshot"
          /\ \A x \in Live :
                \/ Id(x) = ssid[theCPU]
                \/ ssid[theCPU] = LATEST_SSID /\ Id(x) = Completed - 1
                => ss[theCPU] = At(x)

SnapInv == OneCPU /\ SnapType /\ Laid(pools, used) /\ Filled /\ Numbered /\ Found
-----------------------------------------------------------------------------

\* The sizes are numbers, and a pool fits into the memory.
LEMMA Sizes ==
    /\ NrPages \in Nat /\ PoolPages \in Nat /\ PoolPages > 0 /\ BootPages \in Nat /\ MaxIds \in Nat
    /\ NrPages - PoolPages \in Nat
    BY SnapshotAssumption

\* A set of naturals that is not empty has a least member.
LEMMA LeastOf ==
    ASSUME NEW S \in SUBSET Nat, S # {}
    PROVE  \E x \in S : \A y \in S : x <= y
<1>1. PICK x \in S : \A y \in S : ~(<<y, x>> \in OpToRel(<, Nat))
    BY WFMin, NatLessThanWellFounded, Zenon
<1>2. \A y \in S : <<y, x>> \in OpToRel(<, Nat) <=> y < x
    BY Zenon DEF OpToRel
<1>3. \A y \in S : ~(y < x)
    BY <1>1, <1>2, Zenon
<1> QED
    BY <1>3

\* Where pp_alloc finds a run of pages, none of them is in use.
LEMMA FitFree ==
    ASSUME NEW u, last \in Nat, Fit(u) # {}
    PROVE  /\ Lowest(Fit(u)) \in 0..(NrPages - PoolPages)
           /\ Block(Lowest(Fit(u))) \cap u = {}
<1>1. last % PoolPages \in Nat
    BY Sizes, SMTT(30)
<1>2. \A p \in Fit(u) : p \in 0..(NrPages - PoolPages) /\ Block(p) \cap u = {}
    BY <1>1, Sizes, SMTT(30) DEF Fit, Runs
<1>3. Fit(u) \in SUBSET Nat
    BY <1>2, Sizes
<1>4. \E x \in Fit(u) : \A y \in Fit(u) : x <= y
    BY <1>3, LeastOf, Zenon
<1>5. Lowest(Fit(u)) \in Fit(u)
    BY <1>4, Zenon DEF Lowest
<1> QED
    BY <1>2, <1>5, Zenon

\* Two runs of pages that share none follow each other.
LEMMA BlocksApart ==
    ASSUME NEW p \in Int, NEW o \in Int, Block(p) \cap Block(o) = {}
    PROVE  p + PoolPages <= o \/ o + PoolPages <= p
<1>1. p \notin Block(o) /\ o \notin Block(p)
    BY Sizes, SMTT(30) DEF Block
<1> QED
    BY <1>1, Sizes DEF Block

\* Number of complete checkpoints, before and after a step.
LEMMA Complete ==
    ASSUME OneCPU
    PROVE  /\ Completed = latest_ss_id - (IF at = "update" THEN 1 ELSE 0)
           /\ Completed' = latest_ss_id' - (IF at' = "update" THEN 1 ELSE 0)
<1>1. Cardinality({}) = 0 /\ Cardinality({theCPU}) = 1
    BY FS_EmptySet, FS_Singleton, Zenon
<1>2. /\ {c \in CPUs : pc[c] = "update"} = IF at = "update" THEN {theCPU} ELSE {}
      /\ {c \in CPUs : pc'[c] = "update"} = IF at' = "update" THEN {theCPU} ELSE {}
    BY Zenon DEF OneCPU, at
<1>3. /\ Cardinality({c \in CPUs : pc[c] = "update"}) = IF at = "update" THEN 1 ELSE 0
      /\ Cardinality({c \in CPUs : pc'[c] = "update"}) = IF at' = "update" THEN 1 ELSE 0
    BY <1>1, <1>2, Zenon
<1> QED
    BY <1>3, Zenon DEF Completed

\* A pool laid in pages that are free.
LEMMA LaidMore ==
    ASSUME NEW list \in Seq(Pools), NEW u, Laid(list, u),
           NEW p \in 0..(NrPages - PoolPages), Block(p) \cap u = {}
    PROVE  /\ Append(list, [page |-> p, last |-> 0]) \in Seq(Pools)
           /\ Laid(Append(list, [page |-> p, last |-> 0]), u \cup Block(p))
<1> DEFINE x == [page |-> p, last |-> 0]
           m == Append(list, x)
<1>1. x \in Pools /\ x.page = p
    BY DEF Pools, Slots
<1> HIDE DEF x
<1>2. /\ m \in Seq(Pools) /\ Len(list) \in Nat /\ Len(m) = Len(list) + 1 /\ m[Len(list) + 1] = x
      /\ \A k \in 1..Len(list) : m[k] = list[k] /\ list[k] \in Pools
    BY <1>1, SMTT(30)
<1> HIDE DEF m
<1>3. \A k \in 1..Len(m) : k = Len(m) \/ k \in 1..Len(list)
    BY <1>2, SMTT(30)
<1>4. \A k \in 1..Len(list) : list[k].page \in Int /\ Block(list[k].page) \subseteq u
  <2>1. \A y \in Pools : y.page \in Int
    BY Sizes DEF Pools
  <2> QED
    BY <1>2, <2>1, Zenon DEF Laid
<1>5. \A k \in 1..Len(m) : Block(m[k].page) \subseteq u \cup Block(p)
    BY <1>1, <1>2, <1>3, <1>4, Zenon
<1>6. \A k \in 1..Len(list) : list[k].page + PoolPages <= p \/ p + PoolPages <= list[k].page
    BY <1>4, BlocksApart, SMTT(30)
<1>7. ASSUME NEW j \in 1..Len(m), NEW k \in 1..Len(m), j # k
      PROVE  m[j].page + PoolPages <= m[k].page \/ m[k].page + PoolPages <= m[j].page
  <2>1. CASE j \in 1..Len(list) /\ k \in 1..Len(list)
    BY <1>2, <1>7, <2>1, Zenon DEF Laid
  <2>2. CASE j = Len(m) \/ k = Len(m)
    BY <1>1, <1>2, <1>3, <1>6, <1>7, <2>2, Zenon
  <2> QED
    BY <1>3, <2>1, <2>2, Zenon
<1> QED
    BY <1>2, <1>5, <1>7, Zenon DEF Laid, m, x

\* What the invariant says of the list and its fields.
LEMMA PoolFacts ==
    ASSUME OneCPU, SnapType
    PROVE  /\ n \in Nat /\ Completed \in Int
           /\ \A k \in 1..n : /\ pools[k] \in Pools /\ pools[k].page \in Int /\ pools[k].page >= 0
                              /\ pools[k].page <= NrPages - PoolPages /\ pools[k].page \in Pages
                              /\ pools[k].last \in 0..Slots
<1>1. n \in Nat /\ \A k \in 1..n : pools[k] \in Pools
    BY DEF SnapType, n
<1>2. \A y \in Pools : /\ y.page \in Int /\ y.page >= 0 /\ y.page <= NrPages - PoolPages
                       /\ y.page \in Pages /\ y.last \in 0..Slots
    BY Sizes DEF Pools, Pages
<1>3. Completed \in Int
    BY Complete, Sizes DEF SnapType
<1> QED
    BY <1>1, <1>2, <1>3, Zenon

\* The snapshots of the pools of a list, when the last of them is full: the newest
\* ones that are complete.
Newest3(list) ==
    \A k \in 1..Len(list) :
        /\ list[k].last = Slots
        /\ \A i \in 0..(Slots - 1) :
              LET id == Completed - Slots * (Len(list) + 1 - k) + i
              IN  /\ hdr[<<list[k].page, i>>] = Saves(id)
                  /\ id = Completed - 1 => latest_ss = <<list[k].page, i>>

\* alloc_ss_pool, from ss_pool_init and from get_new_ss
LEMMA GrowStep ==
    ASSUME SnapInv, NEW u, NEW list \in Seq(Pools), Laid(list, u), Newest3(list),
           NEW next, next \in {"get", "fill"}, alloc_ss_pool(theCPU, u, list, next),
           at \in {"pool_init", "get"}, init' = TRUE,
           UNCHANGED <<latest_ss, latest_ss_id, hdr, mem, vcpu, ssid>>
    PROVE  SnapInv'
<1>1. OneCPU /\ SnapType /\ Filled /\ Found /\ ssid[theCPU] = NoId /\ latest_ss_id < MaxIds
    BY Zenon DEF SnapInv, Found, Running, Filled
<1>2. theCPU \in CPUs
    BY <1>1, Zenon DEF OneCPU
<1>3. /\ Completed = latest_ss_id
      /\ at' # "update" => Completed' = latest_ss_id
    BY <1>1, Complete, SMTT(30) DEF SnapType
<1>4. \A k \in 1..Len(list) :
          /\ list[k].last = Slots
          /\ \A i \in 0..(Slots - 1) :
                /\ hdr[<<list[k].page, i>>] = Saves(latest_ss_id - Slots * (Len(list) + 1 - k) + i)
                /\ latest_ss_id - Slots * (Len(list) + 1 - k) + i = latest_ss_id - 1
                      => latest_ss = <<list[k].page, i>>
    BY <1>3, Zenon DEF Newest3
<1>5. Len(list) \in Nat /\ latest_ss_id \in Nat
    BY <1>1, Sizes, SMTT(30) DEF SnapType
<1>6. CASE Fit(u) = {}
  <2>1. /\ pc' = [pc EXCEPT ![theCPU] = "no_memory"] /\ used' = u /\ pools' = list
        /\ UNCHANGED <<last, ss>>
    BY <1>6, Zenon DEF alloc_ss_pool, Goto
  <2>2. at' = "no_memory" /\ n' = Len(list)
    BY <1>1, <1>2, <2>1, Zenon DEF SnapType, at, n
  <2>3. SnapType'
    BY <1>1, <1>2, <2>1, Zenon DEF SnapType, Places
  <2>4. Laid(pools, used)'
    BY <2>1, Zenon DEF Laid
  <2>5. Filled'
    BY <1>4, <1>5, <2>1, <2>2, SMTT(30) DEF Filled
  <2>6. Numbered'
    <3> SUFFICES ASSUME NEW k \in 1..Len(list), NEW i \in 0..(Slots - 1)
                 PROVE  /\ hdr[<<list[k].page, i>>] = Saves(Num(k, i)')
                        /\ Num(k, i)' = Completed' - 1 => latest_ss = <<list[k].page, i>>
      BY <2>1, <2>2, Zenon DEF Numbered
    <3>0. pools'[n'].last = 3
      <4>1. Len(list) \in 1..Len(list)
        BY <1>5, SMTT(30)
      <4> QED
        BY <1>4, <2>1, <2>2, <4>1, Zenon DEF Slots
    <3>1. Num(k, i)' = latest_ss_id - Slots * (Len(list) + 1 - k) + i /\ Completed' = latest_ss_id
      BY <1>3, <1>5, <2>2, <3>0, SMTT(30) DEF Num, Slots
    <3> QED
      BY <1>4, <3>1, Zenon
  <2>7. Found'
    BY <2>2, Zenon DEF Found, Running
  <2> QED
    BY <1>1, <2>3, <2>4, <2>5, <2>6, <2>7, Zenon DEF SnapInv, OneCPU
<1>7. CASE Fit(u) # {}
  <2>1. PICK p \in 0..(NrPages - PoolPages) : p = Lowest(Fit(u)) /\ Block(p) \cap u = {}
    BY <1>1, <1>7, FitFree, Zenon DEF SnapType
  <2> DEFINE x == [page |-> p, last |-> 0]
  <2>2. /\ pc' = [pc EXCEPT ![theCPU] = next] /\ used' = u \cup Block(p)
        /\ last' = p + PoolPages /\ pools' = Append(list, x)
        /\ ss' = [ss EXCEPT ![theCPU] = <<p, 0>>]
    BY <1>7, <2>1, Zenon DEF alloc_ss_pool, Goto
  <2>3. pools' \in Seq(Pools) /\ Laid(pools, used)'
    <3>1. Append(list, x) \in Seq(Pools) /\ Laid(Append(list, x), u \cup Block(p))
      BY <2>1, LaidMore, Zenon
    <3>2. Laid(pools', used')
      BY <2>2, <3>1, Zenon
    <3> QED
      BY <2>2, <3>1, <3>2, Zenon DEF Laid
  <2>4. /\ at' = next /\ n' = Len(list) + 1 /\ n' \in Nat /\ pools'[n'] = x
        /\ \A k \in 1..Len(list) : pools'[k] = list[k]
    BY <1>1, <1>2, <1>5, <2>2, SMTT(30) DEF SnapType, at, n
  <2>5. x.page = p /\ x.last = 0 /\ <<p, 0>> \in SlotNames
    BY Sizes, SMTT(30) DEF SlotNames, Pages, Slots
  <2> HIDE DEF x
  <2>6. SnapType'
    BY <1>1, <1>2, <2>1, <2>2, <2>3, <2>5, Sizes, SMTT(30) DEF SnapType, Places, Running
  <2>7. Filled'
    <3>1. \A k \in 1..(n' - 1) : pools'[k].last = Slots
      BY <1>4, <1>5, <2>4, SMTT(30)
    <3>2. pools'[n'].last = 0 /\ ss'[theCPU] = <<pools'[n'].page, pools'[n'].last>>
      BY <1>1, <1>2, <2>2, <2>4, <2>5, Zenon DEF SnapType
    <3>3. n' > 0
      BY <1>5, <2>4, SMTT(30)
    <3> QED
      BY <1>1, <2>4, <3>1, <3>2, <3>3, SMTT(30) DEF Filled, Slots
  <2>8. Numbered'
    <3> SUFFICES ASSUME NEW k \in 1..n', NEW i \in 0..(Slots - 1), i < pools'[k].last
                 PROVE  /\ hdr[<<pools'[k].page, i>>] = Saves(Num(k, i)')
                        /\ Num(k, i)' = Completed' - 1 => latest_ss = <<pools'[k].page, i>>
      BY <1>5, <2>4, SMTT(30) DEF Numbered
    <3>1. k \in 1..Len(list)
      BY <1>5, <2>4, <2>5, SMTT(30) DEF Slots
    <3>2. Num(k, i)' = latest_ss_id - Slots * (Len(list) + 1 - k) + i /\ Completed' = latest_ss_id
      BY <1>3, <1>5, <2>4, <2>5, <3>1, SMTT(30) DEF Num, Slots
    <3> QED
      BY <1>4, <2>4, <3>1, <3>2, Zenon
  <2>9. Found'
    BY <1>1, <2>4, Zenon DEF Found, Running
  <2> QED
    BY <1>1, <2>3, <2>6, <2>7, <2>8, <2>9, Zenon DEF SnapInv, OneCPU
<1> QED
    BY <1>6, <1>7, Zenon

\* ss_pool_init
LEMMA PoolInitStep ==
    ASSUME SnapInv, ss_pool_init(theCPU)
    PROVE  SnapInv'
<1>1. <<>> \in Seq(Pools) /\ Laid(<<>>, used) /\ Newest3(<<>>)
    BY DEF Laid, Newest3
<1>2. /\ at = "pool_init" /\ init' = TRUE /\ alloc_ss_pool(theCPU, used, <<>>, "get")
      /\ UNCHANGED <<latest_ss, latest_ss_id, hdr, mem, vcpu, ssid>>
    BY Zenon DEF ss_pool_init, at, guest_vars
<1> QED
    BY <1>1, <1>2, GrowStep, Zenon

\* The earliest pool is the one that the list without it lacks.
LEMMA EarliestGone ==
    ASSUME SnapInv, n > 0
    PROVE  (CHOOSE p \in Range(pools) : p \notin Range(Evicted(pools))) = pools[1]
<1>1. /\ pools \in Seq(Pools) /\ n \in Nat /\ pools # <<>> /\ Len(pools) = n
      /\ \A k \in 1..n : pools[k].page \in Int
    BY PoolFacts DEF SnapInv, SnapType, n
<1>2. Range(pools) = {pools[k] : k \in 1..n}
    BY <1>1, SMTT(30) DEF Range
<1>3. /\ Len(Tail(pools)) = n - 1 /\ \A k \in 1..(n - 1) : Tail(pools)[k] = pools[k + 1]
      /\ DOMAIN Tail(pools) = 1..(n - 1)
    BY <1>1
<1>4. Range(Evicted(pools)) = {pools[k + 1] : k \in 1..(n - 1)}
    BY <1>3, Zenon DEF Range, Evicted
<1>5. ASSUME NEW k \in 1..(n - 1) PROVE pools[k + 1] # pools[1]
  <2>1. k + 1 \in 1..n /\ 1 \in 1..n /\ k + 1 # 1
    BY <1>1, SMTT(30)
  <2>2. \/ pools[k + 1].page + PoolPages <= pools[1].page
        \/ pools[1].page + PoolPages <= pools[k + 1].page
    BY <1>1, <2>1, Zenon DEF SnapInv, Laid, n
  <2>3. pools[k + 1].page \in Int /\ pools[1].page \in Int
    BY <1>1, <2>1, Zenon
  <2>4. pools[k + 1].page # pools[1].page
    BY <2>2, <2>3, Sizes, SMTT(30)
  <2> QED
    BY <2>4, Zenon
<1>6. pools[1] \in Range(pools) /\ pools[1] \notin Range(Evicted(pools))
    BY <1>1, <1>2, <1>4, <1>5, SMTT(30)
<1>7. \A p \in Range(pools) : p \notin Range(Evicted(pools)) => p = pools[1]
  <2> SUFFICES ASSUME NEW k \in 1..n, pools[k] # pools[1] PROVE pools[k] \in Range(Evicted(pools))
    BY <1>2, Zenon
  <2>1. k - 1 \in 1..(n - 1) /\ (k - 1) + 1 = k
    BY <1>1, SMTT(30)
  <2> QED
    BY <1>4, <2>1, Zenon
<1> QED
    BY <1>6, <1>7, Zenon

\* Runs of pages that follow each other share none.
LEMMA BlocksDisjoint ==
    ASSUME NEW p \in Int, NEW o \in Int, p + PoolPages <= o \/ o + PoolPages <= p
    PROVE  Block(p) \cap Block(o) = {}
    BY Sizes, SMTT(30) DEF Block

\* get_new_ss: the next slot, or a new pool, which follows pools that are full.
LEMMA GetStep ==
    ASSUME SnapInv, get_new_ss(theCPU)
    PROVE  SnapInv'
<1>1. /\ OneCPU /\ SnapType /\ Laid(pools, used) /\ Filled /\ Numbered /\ Found
      /\ at = "get" /\ n > 0 /\ init = TRUE /\ latest_ss_id < MaxIds /\ pools \in Seq(Pools)
      /\ UNCHANGED <<init, latest_ss, latest_ss_id, hdr, mem, vcpu, ssid>>
    BY Zenon DEF SnapInv, get_new_ss, at, guest_vars, Filled, SnapType
<1>2. /\ n \in Nat /\ Completed = latest_ss_id /\ latest_ss_id \in Nat
      /\ \A k \in 1..n : /\ pools[k] \in Pools /\ pools[k].page \in Int /\ pools[k].page \in Pages
                         /\ pools[k].last \in 0..Slots
    BY <1>1, PoolFacts, Complete, Sizes, SMTT(30) DEF SnapType
<1>3. pools[Len(pools)] = pools[n] /\ theCPU \in CPUs /\ n \in 1..n
    BY <1>1, <1>2, SMTT(30) DEF n, OneCPU
<1>4. CASE ~Full(pools[n])
  <2>1. /\ pc' = [pc EXCEPT ![theCPU] = "fill"]
        /\ ss' = [ss EXCEPT ![theCPU] = <<pools[n].page, pools[n].last>>]
        /\ UNCHANGED <<used, last, pools>>
    BY <1>3, <1>4, Zenon DEF get_new_ss, Goto
  <2>2. at' = "fill" /\ n' = n /\ ss'[theCPU] = <<pools[n].page, pools[n].last>>
    BY <1>1, <1>3, <2>1, Zenon DEF SnapType, at, n
  <2>3. pools[n].last < Slots /\ <<pools[n].page, pools[n].last>> \in SlotNames
    BY <1>2, <1>3, <1>4, SMTT(30) DEF Full, SlotNames, Slots
  <2>4. SnapType'
    BY <1>1, <1>3, <2>1, <2>3, Zenon DEF SnapType, Places, Running
  <2>5. Filled' /\ Found'
    BY <1>1, <2>1, <2>2, <2>3, Zenon DEF Filled, Found, Running
  <2>6. Completed' = Completed /\ \A k \in 1..n : \A i \in 0..(Slots - 1) : Num(k, i)' = Num(k, i)
    BY <1>1, <1>2, <2>1, <2>2, Complete, Zenon DEF Num
  <2>7. Numbered'
    BY <1>1, <2>1, <2>2, <2>6, SMTT(30) DEF Numbered
  <2> QED
    BY <1>1, <2>1, <2>4, <2>5, <2>7, Zenon DEF SnapInv, OneCPU, Laid
<1>5. CASE Full(pools[n])
  <2>1. pools[n].last = 3 /\ \A k \in 1..n : pools[k].last = 3
    BY <1>1, <1>2, <1>3, <1>5, SMTT(30) DEF Full, Filled, Slots
  <2>2. ASSUME NEW k \in 1..n, NEW i \in 0..(Slots - 1)
        PROVE  LET id == Completed - Slots * (n + 1 - k) + i
               IN  /\ hdr[<<pools[k].page, i>>] = Saves(id)
                   /\ id = Completed - 1 => latest_ss = <<pools[k].page, i>>
    <3>1. i < pools[k].last
      BY <2>1, SMTT(30) DEF Slots
    <3>2. Num(k, i) = Completed - Slots * (n + 1 - k) + i
      BY <1>2, <2>1, SMTT(30) DEF Num, Slots
    <3> QED
      BY <1>1, <3>1, <3>2, Zenon DEF Numbered
  <2>3. CASE Scarce(used)
    <3> DEFINE list == Tail(pools)
               u == used \ Block(pools[1].page)
    <3>1. alloc_ss_pool(theCPU, u, list, "fill")
      <4>1. (CHOOSE p \in Range(pools) : p \notin Range(Evicted(pools))) = pools[1]
        BY <1>1, EarliestGone, Zenon
      <4> QED
        BY <1>3, <1>5, <2>3, <4>1, Zenon DEF get_new_ss, Evicted
    <3>2. /\ list \in Seq(Pools) /\ Len(list) = n - 1
          /\ \A k \in 1..Len(list) : list[k] = pools[k + 1] /\ k + 1 \in 1..n
      BY <1>1, <1>2, SMTT(30) DEF n
    <3> HIDE DEF list
    <3>3. Laid(list, u)
      <4>1. ASSUME NEW k \in 1..Len(list) PROVE Block(list[k].page) \subseteq u
        <5>1. Block(pools[k + 1].page) \subseteq used
          BY <1>1, <3>2, Zenon DEF Laid, n
        <5>2. /\ \/ pools[k + 1].page + PoolPages <= pools[1].page
                 \/ pools[1].page + PoolPages <= pools[k + 1].page
              /\ pools[1].page \in Int /\ pools[k + 1].page \in Int
          <6>1. 1 \in 1..n /\ k + 1 \in 1..n /\ k + 1 # 1
            BY <1>2, <1>3, <3>2, SMTT(30)
          <6> QED
            BY <1>1, <1>2, <6>1, Zenon DEF Laid, n
        <5>3. Block(pools[k + 1].page) \cap Block(pools[1].page) = {}
          BY <5>2, BlocksDisjoint, Zenon
        <5> QED
          BY <3>2, <5>1, <5>3, Zenon
      <4>2. ASSUME NEW j \in 1..Len(list), NEW k \in 1..Len(list), j # k
            PROVE  list[j].page + PoolPages <= list[k].page \/ list[k].page + PoolPages <= list[j].page
        <5>1. j + 1 # k + 1
          BY <1>2, <3>2, <4>2, SMTT(30)
        <5> QED
          BY <1>1, <3>2, <5>1, Zenon DEF Laid, n
      <4> QED
        BY <4>1, <4>2, Zenon DEF Laid
    <3>4. Newest3(list)
      <4> SUFFICES ASSUME NEW k \in 1..Len(list)
                   PROVE  /\ list[k].last = Slots
                          /\ \A i \in 0..(Slots - 1) :
                                LET id == Completed - Slots * (Len(list) + 1 - k) + i
                                IN  /\ hdr[<<list[k].page, i>>] = Saves(id)
                                    /\ id = Completed - 1 => latest_ss = <<list[k].page, i>>
        BY Zenon DEF Newest3
      <4>1. list[k] = pools[k + 1] /\ k + 1 \in 1..n /\ Len(list) + 1 - k = n + 1 - (k + 1)
        BY <1>2, <3>2
      <4> QED
        BY <2>1, <2>2, <4>1, ZenonT(30) DEF Slots
    <3> QED
      BY <1>1, <3>1, <3>2, <3>3, <3>4, GrowStep, Zenon
  <2>4. CASE ~Scarce(used)
    <3>1. alloc_ss_pool(theCPU, used, pools, "fill")
      BY <1>3, <1>5, <2>4, Zenon DEF get_new_ss
    <3>2. Newest3(pools)
      BY <2>1, <2>2, Zenon DEF Newest3, n, Slots
    <3> QED
      BY <1>1, <3>1, <3>2, GrowStep, Zenon
  <2> QED
    BY <2>3, <2>4, Zenon
<1> QED
    BY <1>4, <1>5, Zenon

\* The slots of a pool, and of two pools, do not overlap.
LEMMA SlotsApart ==
    ASSUME NEW p \in Int, NEW o \in Int, NEW i \in 0..(Slots - 1), NEW j \in 0..(Slots - 1),
           \/ p = o /\ i # j
           \/ p + PoolPages <= o
           \/ o + PoolPages <= p
    PROVE  /\ Start(<<p, i>>) \notin Covers(<<o, j>>)
           /\ Covers(<<p, i>>) \cap Covers(<<o, j>>) = {}
           /\ <<p, i>> # <<o, j>>
<1> DEFINE a == Slots * p + PoolPages * i
           b == Slots * o + PoolPages * j
<1>1. /\ Start(<<p, i>>) = a /\ Start(<<o, j>>) = b
      /\ Covers(<<p, i>>) = a..(a + PoolPages - 1) /\ Covers(<<o, j>>) = b..(b + PoolPages - 1)
    BY Zenon DEF Start, Covers
<1>2. a \in Int /\ b \in Int
    BY Sizes, SMTT(30) DEF Slots
<1>3. a + PoolPages <= b \/ b + PoolPages <= a
  <2>1. i \in {0, 1, 2} /\ j \in {0, 1, 2}
    BY DEF Slots
  <2>2. \A x \in {0, 1, 2} : PoolPages * x = IF x = 0 THEN 0 ELSE IF x = 1 THEN PoolPages ELSE PoolPages + PoolPages
    BY Sizes
  <2>3. /\ PoolPages * i = IF i = 0 THEN 0 ELSE IF i = 1 THEN PoolPages ELSE PoolPages + PoolPages
        /\ PoolPages * j = IF j = 0 THEN 0 ELSE IF j = 1 THEN PoolPages ELSE PoolPages + PoolPages
    BY <2>1, <2>2, Zenon
  <2> QED
    BY <2>1, <2>3, Sizes, SMTT(30) DEF Slots
<1> HIDE DEF a, b
<1>4. a \notin b..(b + PoolPages - 1) /\ (a..(a + PoolPages - 1)) \cap (b..(b + PoolPages - 1)) = {}
    BY <1>2, <1>3, Sizes, SMTT(30)
<1>5. <<p, i>> # <<o, j>>
    BY Sizes
<1> QED
    BY <1>1, <1>4, <1>5, Zenon

\* Memory stays a memory of headers.
LEMMA WriteType ==
    ASSUME SnapType, NEW s \in SlotNames, NEW id \in 0..(MaxIds - 1)
    PROVE  Write(s, Saves(id)) \in [SlotNames -> Headers] /\ Write(s, Saves(id))[s] = Saves(id)
<1>1. Saves(id) \in Headers
    BY Sizes, SMTT(30) DEF Saves, Headers, States
<1>2. Garbage \in Headers
    BY Zenon DEF Headers
<1>3. ASSUME NEW t \in SlotNames, hdr[t].kind = "snapshot"
      PROVE  [hdr[t] EXCEPT !.mem = Corrupt] \in Headers
  <2>1. hdr[t] \in [kind : {"snapshot"}, id : 0..(MaxIds - 1), vm : {theVM}, regs : States, mem : States]
    BY <1>3 DEF SnapType, Headers, Zero, Garbage
  <2>2. Corrupt \in States
    BY Zenon DEF States
  <2>3. [hdr[t] EXCEPT !.mem = Corrupt]
          \in [kind : {"snapshot"}, id : 0..(MaxIds - 1), vm : {theVM}, regs : States, mem : States]
    BY <2>1, <2>2, Zenon
  <2> QED
    BY <2>3, Zenon DEF Headers
<1>4. \A t \in SlotNames : hdr[t] \in Headers
    BY Zenon DEF SnapType
<1> QED
    BY <1>1, <1>2, <1>3, <1>4, Zenon DEF Write

\* fill_snapshot
LEMMA FillStep ==
    ASSUME SnapInv, fill_snapshot(theCPU)
    PROVE  SnapInv'
<1>1. /\ OneCPU /\ SnapType /\ Laid(pools, used) /\ Filled /\ Numbered /\ Found
      /\ at = "fill" /\ n > 0 /\ latest_ss_id < MaxIds /\ theCPU \in CPUs /\ theVM \in VMs
      /\ pools[n].last < Slots /\ ss[theCPU] = <<pools[n].page, pools[n].last>>
      /\ ssid[theCPU] = NoId
    BY SnapshotAssumption, Zenon DEF SnapInv, fill_snapshot, at, Filled, Found, Running, OneCPU, theVM
<1>2. /\ n \in Nat /\ n \in 1..n /\ Completed = latest_ss_id /\ latest_ss_id \in Nat
      /\ \A k \in 1..n : /\ pools[k].page \in Int /\ pools[k].page \in Pages
                         /\ pools[k].last \in 0..Slots
    BY <1>1, PoolFacts, Complete, Sizes, SMTT(30) DEF SnapType
<1> DEFINE id == latest_ss_id
           s == <<pools[n].page, pools[n].last>>
<1>3. s \in SlotNames /\ id \in 0..(MaxIds - 1) /\ pools[n].last \in 0..(Slots - 1)
    BY <1>1, <1>2, Sizes DEF SlotNames, Slots
<1>4. vcpu[theCPU].vm = theVM
    BY <1>1, Zenon DEF SnapType
<1>5. /\ hdr' = Write(s, Saves(id)) /\ mem' = [mem EXCEPT ![theVM] = <<theVM, id>>]
      /\ vcpu' = [vcpu EXCEPT ![theCPU].regs = <<theVM, id>>]
      /\ latest_ss_id' = id + 1 /\ pc' = [pc EXCEPT ![theCPU] = "update"]
      /\ UNCHANGED <<used, last, pools, init, latest_ss, ss, ssid>>
    BY <1>1, <1>4, Zenon DEF fill_snapshot, Saves, Goto, pool_vars
<1>6. at' = "update" /\ n' = n /\ Completed' = Completed
    BY <1>1, <1>2, <1>5, Complete, SMTT(30) DEF SnapType, at, n
<1>7. hdr' \in [SlotNames -> Headers] /\ hdr'[s] = Saves(id)
    BY <1>1, <1>3, <1>5, WriteType, Zenon
<1>8. <<theVM, id>> \in States
    BY <1>2, Zenon DEF States
<1>16. vcpu' \in [CPUs -> [vm : {theVM}, regs : States]] /\ vcpu'[theCPU].regs = <<theVM, id>>
  <2>1. vcpu[theCPU] \in [vm : {theVM}, regs : States]
      BY <1>1, Zenon DEF SnapType
  <2>2. /\ [vcpu[theCPU] EXCEPT !.regs = <<theVM, id>>] \in [vm : {theVM}, regs : States]
        /\ [vcpu[theCPU] EXCEPT !.regs = <<theVM, id>>].regs = <<theVM, id>>
      BY <1>8, <2>1, Zenon
  <2> QED
      BY <1>1, <1>5, <2>2, Zenon DEF SnapType
<1>9. SnapType'
  <2>2. mem' \in [VMs -> States]
    BY <1>1, <1>5, <1>8, Zenon DEF SnapType
  <2>3. latest_ss_id' \in 0..MaxIds
    BY <1>1, <1>2, <1>5, Sizes, SMTT(30)
  <2>4. pc' \in [CPUs -> Places]
    BY <1>1, <1>5, Zenon DEF SnapType, Places, Running
  <2> QED
    BY <1>1, <1>5, <1>7, <1>16, <2>2, <2>3, <2>4, Zenon DEF SnapType
<1>10. Laid(pools, used)'
    BY <1>1, <1>5, Zenon DEF Laid
<1>11. Filled'
    BY <1>1, <1>5, <1>6, Zenon DEF Filled
<1>12. Found'
    BY <1>1, <1>5, <1>6, Zenon DEF Found, Running
<1>13. \A k \in 1..n : \A i \in 0..(Slots - 1) : Num(k, i)' = Num(k, i)
    BY <1>5, <1>6, Zenon DEF Num
<1>14. ASSUME NEW k \in 1..n, NEW i \in 0..(Slots - 1), i < pools[k].last
       PROVE  hdr'[<<pools[k].page, i>>] = hdr[<<pools[k].page, i>>]
  <2> DEFINE t == <<pools[k].page, i>>
  <2>1. \/ pools[k].page = pools[n].page /\ i # pools[n].last
        \/ pools[k].page + PoolPages <= pools[n].page
        \/ pools[n].page + PoolPages <= pools[k].page
    BY <1>1, <1>2, <1>14, SMTT(30) DEF Laid, n
  <2>2. /\ pools[k].page \in Int /\ pools[n].page \in Int /\ t \in SlotNames
    BY <1>2, Zenon DEF SlotNames
  <2>3. Start(t) \notin Covers(s) /\ Covers(t) \cap Covers(s) = {} /\ t # s
    BY <1>3, <2>1, <2>2, SlotsApart, Zenon
  <2> HIDE DEF t, s
  <2>4. Write(s, Saves(id))[t] = hdr[t]
    BY <2>2, <2>3, Zenon DEF Write
  <2> QED
    BY <1>5, <2>4, Zenon DEF t
<1>15. Numbered'
  <2>1. ASSUME NEW k \in 1..n, NEW i \in 0..(Slots - 1), i < pools[k].last
        PROVE  /\ hdr'[<<pools[k].page, i>>] = Saves(Num(k, i))
               /\ Num(k, i) = Completed - 1 => latest_ss = <<pools[k].page, i>>
    BY <1>1, <1>14, <2>1, ZenonT(30) DEF Numbered
  <2>2. /\ latest_ss_id' > 0 /\ latest_ss_id' - 1 = id
        /\ mem'[theVM] = <<theVM, id>> /\ vcpu'[theCPU].regs = <<theVM, id>>
        /\ hdr'[ss'[theCPU]] = Saves(id)
    <3>1. latest_ss_id' > 0 /\ latest_ss_id' - 1 = id
      BY <1>2, <1>5
    <3>2. mem'[theVM] = <<theVM, id>>
      BY <1>1, <1>5, Zenon DEF SnapType
    <3>3. hdr'[ss'[theCPU]] = Saves(id)
      BY <1>1, <1>5, <1>7, Zenon
    <3> QED
      BY <1>16, <3>1, <3>2, <3>3, Zenon
  <2> QED
    BY <1>1, <1>5, <1>6, <1>13, <2>1, <2>2, SMTT(30) DEF Numbered
<1> QED
    BY <1>1, <1>9, <1>10, <1>11, <1>12, <1>15, Zenon DEF SnapInv, OneCPU

\* update_ss_pool_last
LEMMA UpdateStep ==
    ASSUME SnapInv, update_ss_pool_last(theCPU)
    PROVE  SnapInv'
<1>1. /\ OneCPU /\ SnapType /\ Laid(pools, used) /\ Filled /\ Numbered /\ Found
      /\ at = "update" /\ n > 0 /\ init = TRUE /\ theCPU \in CPUs
      /\ pools[n].last < Slots /\ ss[theCPU] = <<pools[n].page, pools[n].last>>
      /\ ssid[theCPU] = NoId
      /\ hdr[ss[theCPU]] = Saves(latest_ss_id - 1)
    BY ZenonT(30) DEF SnapInv, update_ss_pool_last, at, Filled, Numbered, Found, Running, OneCPU, SnapType
<1>2. /\ n \in Nat /\ n \in 1..n /\ Completed = latest_ss_id - 1 /\ latest_ss_id \in Nat
      /\ \A k \in 1..n : pools[k].last \in 0..Slots /\ pools[k] \in Pools
    BY <1>1, PoolFacts, Complete, Sizes, SMTT(30) DEF SnapType
<1>3. /\ latest_ss' = <<pools[n].page, pools[n].last>>
      /\ pools' = [pools EXCEPT ![n].last = @ + 1]
      /\ pc' = [pc EXCEPT ![theCPU] = "guest"] /\ ss' = [ss EXCEPT ![theCPU] = Null]
      /\ UNCHANGED <<used, last, init, latest_ss_id, hdr, mem, vcpu, ssid>>
    BY <1>1, <1>2, Zenon DEF update_ss_pool_last, Newest, n, Goto, guest_vars
<1>4. at' = "guest" /\ Completed' = Completed + 1 /\ Completed' = latest_ss_id
    BY <1>1, <1>2, <1>3, Complete, SMTT(30) DEF SnapType, at
<1>5. /\ pools \in Seq(Pools) /\ n = Len(pools)
    BY <1>1, Zenon DEF SnapType, n
<1> DEFINE y == [pools[n] EXCEPT !.last = @ + 1]
<1>6. y \in Pools /\ y.page = pools[n].page /\ y.last = pools[n].last + 1
  <2>1. pools[n] \in [page : 0..(NrPages - PoolPages), last : 0..Slots] /\ pools[n].last + 1 \in 0..Slots
    BY <1>1, <1>2, SMTT(30) DEF Pools, Slots
  <2> QED
    BY <2>1, Zenon DEF Pools
<1>7. pools' = [pools EXCEPT ![n] = y]
    BY <1>3, Zenon
<1> HIDE DEF y
<1>8. /\ pools' \in Seq(Pools) /\ n' = n /\ pools'[n] = y
      /\ \A k \in 1..n : k # n => pools'[k] = pools[k]
    BY <1>2, <1>5, <1>6, <1>7, SMTT(30) DEF n
<1>9. \A k \in 1..n : pools'[k].page = pools[k].page
    BY <1>2, <1>6, <1>8, Zenon
<1>10. SnapType'
  <2>1. pc' \in [CPUs -> Places] /\ ss' \in [CPUs -> SlotNames \cup {Null}]
    BY <1>1, <1>3, Zenon DEF SnapType, Places, Running
  <2> QED
    BY <1>1, <1>3, <1>8, <2>1, Zenon DEF SnapType
<1>11. Laid(pools, used)'
    BY <1>1, <1>3, <1>8, <1>9, Zenon DEF Laid, n
<1>12. Filled'
  <2>1. \A k \in 1..(n - 1) : k \in 1..n /\ k # n
    BY <1>2, SMTT(30)
  <2>2. y.last > 0
    BY <1>2, <1>6, SMTT(30)
  <2> QED
    BY <1>1, <1>3, <1>4, <1>6, <1>8, <2>1, <2>2, Zenon DEF Filled
<1>13. Found'
    BY <1>1, <1>3, <1>4, Zenon DEF Found
<1>14. Numbered'
  <2> SUFFICES ASSUME NEW k \in 1..n, NEW i \in 0..(Slots - 1), i < pools'[k].last
               PROVE  /\ hdr[<<pools[k].page, i>>] = Saves(Num(k, i)')
                      /\ Num(k, i)' = Completed' - 1 => latest_ss' = <<pools[k].page, i>>
    BY <1>1, <1>3, <1>4, <1>8, <1>9, SMTT(30) DEF Numbered
  <2>1. Num(k, i)' = Completed + 1 - 3 * (n - k) - (pools[n].last + 1) + i
    <3>1. Num(k, i)' = Completed' - 3 * (n' - k) - pools'[n'].last + i
      BY Zenon DEF Num, Slots
    <3>2. pools'[n'].last = pools[n].last + 1 /\ n' = n
      BY <1>6, <1>8, Zenon
    <3> QED
      BY <1>2, <1>4, <3>1, <3>2, SMTT(30)
  <2>2. CASE k = n /\ i = pools[n].last
    <3>1. Num(k, i)' = Completed
      BY <1>2, <2>1, <2>2, SMTT(30)
    <3> QED
      BY <1>1, <1>2, <1>3, <2>2, <3>1, Zenon
  <2>3. CASE ~(k = n /\ i = pools[n].last)
    <3>1. i < pools[k].last
      BY <1>2, <1>6, <1>8, <2>3, SMTT(30) DEF Slots
    <3>2. Num(k, i)' = Num(k, i)
      BY <1>2, <2>1, SMTT(30) DEF Num, Slots
    <3>3. Num(k, i)' # Completed
      BY <1>2, <2>1, <2>3, <3>1, SMTT(30) DEF Slots
    <3>4. Completed' - 1 = Completed
      BY <1>2, <1>4, Zenon
    <3> QED
      BY <1>1, <3>1, <3>2, <3>3, <3>4, Zenon DEF Numbered
  <2> QED
    BY <2>2, <2>3, Zenon
<1> QED
    BY <1>1, <1>10, <1>11, <1>12, <1>13, <1>14, Zenon DEF SnapInv, OneCPU

\* What a step leaves as it is when it touches neither the pools nor their contents
\* and starts and ends outside a checkpoint's last step.
LEMMA KeptStep ==
    ASSUME SnapInv, UNCHANGED <<used, last, pools, init, latest_ss, latest_ss_id, hdr>>,
           at = "guest" \/ at = "copy", at' \in Places \ {"update", "fill"},
           at' = "pool_init" => ~init, at' = "get" => init,
           at' \in {"pool_init", "get"} => latest_ss_id < MaxIds,
           SnapType', Found'
    PROVE  SnapInv'
<1>1. OneCPU /\ SnapType /\ Laid(pools, used) /\ Filled /\ Numbered
    BY Zenon DEF SnapInv
<1>2. Completed' = Completed /\ n' = n /\ n \in Nat
    BY <1>1, Complete, PoolFacts, Zenon DEF n
<1>3. Laid(pools, used)'
    BY <1>1, Zenon DEF Laid
<1>4. Filled'
    BY <1>1, <1>2, Zenon DEF Filled
<1>5. \A k \in 1..n : \A i \in 0..(Slots - 1) : Num(k, i)' = Num(k, i)
    BY <1>2, Zenon DEF Num
<1>6. Numbered'
    BY <1>1, <1>2, <1>5, SMTT(30) DEF Numbered
<1> QED
    BY <1>1, <1>3, <1>4, <1>6, Zenon DEF SnapInv, OneCPU

\* checkpoint_snapshot_handler
LEMMA CheckpointStep ==
    ASSUME SnapInv, checkpoint_snapshot_handler(theCPU)
    PROVE  SnapInv'
<1>1. /\ OneCPU /\ SnapType /\ Found /\ at = "guest" /\ latest_ss_id < MaxIds /\ theCPU \in CPUs
      /\ pc' = [pc EXCEPT ![theCPU] = IF init THEN "get" ELSE "pool_init"]
      /\ UNCHANGED <<used, last, pools, init, latest_ss, latest_ss_id, hdr, mem, vcpu, ss, ssid>>
    BY Zenon DEF SnapInv, checkpoint_snapshot_handler, at, Goto, pool_vars, guest_vars, OneCPU
<1>2. at' = IF init THEN "get" ELSE "pool_init"
    BY <1>1, Zenon DEF SnapType, at
<1>3. SnapType'
    BY <1>1, Zenon DEF SnapType, Places, Running
<1>4. Found'
    BY <1>1, <1>2, Zenon DEF Found, Running
<1> QED
    BY <1>1, <1>2, <1>3, <1>4, KeptStep, Zenon DEF Places, Running

\* restore_snapshot_handler_by_ss
LEMMA CopyStep ==
    ASSUME SnapInv, restore_snapshot_handler_by_ss(theCPU)
    PROVE  SnapInv'
<1>1. /\ OneCPU /\ SnapType /\ Found /\ at = "copy" /\ theCPU \in CPUs /\ theVM \in VMs
      /\ ss[theCPU] \in SlotNames /\ hdr[ss[theCPU]].kind = "snapshot"
      /\ mem' = [mem EXCEPT ![vcpu[theCPU].vm] = hdr[ss[theCPU]].mem]
      /\ vcpu' = [vcpu EXCEPT ![theCPU] = [vm |-> hdr[ss[theCPU]].vm, regs |-> hdr[ss[theCPU]].regs]]
      /\ pc' = [pc EXCEPT ![theCPU] = "guest"]
      /\ ss' = [ss EXCEPT ![theCPU] = Null] /\ ssid' = [ssid EXCEPT ![theCPU] = NoId]
      /\ UNCHANGED <<used, last, pools, init, latest_ss, latest_ss_id, hdr>>
    BY SnapshotAssumption, Zenon
       DEF SnapInv, restore_snapshot_handler_by_ss, at, Goto, pool_vars, Found, OneCPU, theVM
<1>2. at' = "guest" /\ ssid'[theCPU] = NoId
    BY <1>1, Zenon DEF SnapType, at
<1>3. hdr[ss[theCPU]] \in [kind : {"snapshot"}, id : 0..(MaxIds - 1), vm : {theVM}, regs : States, mem : States]
    BY <1>1, SMTT(30) DEF SnapType, Headers, Zero, Garbage
<1>4. SnapType'
  <2>1. vcpu' \in [CPUs -> [vm : {theVM}, regs : States]]
    BY <1>1, <1>3, Zenon DEF SnapType
  <2>2. mem' \in [VMs -> States]
    BY <1>1, <1>3, Zenon DEF SnapType
  <2>3. /\ pc' \in [CPUs -> Places] /\ ss' \in [CPUs -> SlotNames \cup {Null}]
        /\ ssid' \in [CPUs -> Int]
    BY <1>1 DEF SnapType, Places, Running, NoId
  <2> QED
    BY <1>1, <2>1, <2>2, <2>3, Zenon DEF SnapType
<1>5. Found'
    BY <1>2, Zenon DEF Found
<1> QED
    BY <1>1, <1>2, <1>4, <1>5, KeptStep, Zenon DEF Places, Running

\* restart_vm
LEMMA RestartStep ==
    ASSUME SnapInv, restart_vm(theCPU)
    PROVE  SnapInv'
<1>1. /\ OneCPU /\ SnapType /\ Found /\ at = "guest" /\ theCPU \in CPUs
      /\ vcpu[theCPU] \in [vm : {theVM}, regs : States]
      /\ UNCHANGED <<used, last, pools, init, latest_ss, latest_ss_id, hdr, pc, ss, ssid>>
    BY Zenon DEF SnapInv, restart_vm, at, pool_vars, OneCPU, SnapType
<1>2. Boot \in States
    BY Zenon DEF States
<1>3. [vcpu[theCPU] EXCEPT !.regs = Boot] \in [vm : {theVM}, regs : States]
    BY <1>1, <1>2, Zenon
<1>4. /\ mem' = [mem EXCEPT ![vcpu[theCPU].vm] = Boot]
      /\ vcpu' = [d \in CPUs |-> IF VmOf(d) = vcpu[theCPU].vm THEN [vcpu[d] EXCEPT !.regs = Boot] ELSE vcpu[d]]
    BY Zenon DEF restart_vm
<1>5. mem' \in [VMs -> States]
    BY <1>1, <1>2, <1>4, Zenon DEF SnapType
<1>6. vcpu' \in [CPUs -> [vm : {theVM}, regs : States]]
    BY <1>1, <1>3, <1>4, Zenon DEF OneCPU
<1>7. SnapType'
    BY <1>1, <1>5, <1>6, Zenon DEF SnapType
<1>8. Found' /\ at' = at
    BY <1>1, Zenon DEF Found, at
<1> QED
    BY <1>1, <1>7, <1>8, KeptStep, Zenon DEF Places, Running

\* The snapshots that exist and their numbers.
LEMMA LiveFacts ==
    ASSUME SnapInv, NEW x \in Live
    PROVE  /\ x[1] \in 1..n /\ x[2] \in 0..2 /\ x = <<x[1], x[2]>> /\ x[2] < pools[x[1]].last
           /\ At(x) = <<pools[x[1]].page, x[2]>> /\ At(x) \in SlotNames
           /\ hdr[At(x)] = Saves(Id(x))
           /\ Id(x) = Completed - 3 * (n - x[1]) - pools[n].last + x[2]
           /\ Id(x) \in 0..(MaxIds - 1)
           /\ Id(x) = Completed - 1 => latest_ss = At(x)
<1>1. OneCPU /\ SnapType /\ Numbered
    BY Zenon DEF SnapInv
<1>2. /\ x \in (1..n) \X (0..2) /\ x[2] < pools[x[1]].last
    BY SMTT(30) DEF Live, n, Slots
<1>3. x[1] \in 1..n /\ x[2] \in 0..2 /\ x = <<x[1], x[2]>>
    BY <1>2, SMTT(30)
<1>4. At(x) = <<pools[x[1]].page, x[2]>> /\ At(x) \in SlotNames
    BY <1>1, <1>3, PoolFacts, SMTT(30) DEF At, SlotNames, Slots
<1>5. /\ hdr[At(x)] = Saves(Num(x[1], x[2]))
      /\ Num(x[1], x[2]) = Completed - 1 => latest_ss = At(x)
  <2>1. x[2] \in 0..(Slots - 1)
    BY <1>3, SMTT(30) DEF Slots
  <2> QED
    BY <1>1, <1>2, <1>3, <1>4, <2>1, Zenon DEF Numbered
<1>6. Id(x) = Num(x[1], x[2])
    BY <1>5, SMTT(30) DEF Id, Saves
<1>7. Saves(Id(x)) \in Headers
    BY <1>1, <1>4, <1>5, <1>6, SMTT(30) DEF SnapType
<1>8. Id(x) \in 0..(MaxIds - 1)
    BY <1>7, Zenon DEF Headers, Saves, Zero, Garbage
<1> QED
    BY <1>2, <1>3, <1>4, <1>5, <1>6, <1>8, Zenon DEF Num, Slots

\* The order of their numbers is the order of the list, and the last is Completed - 1.
LEMMA LiveOrder ==
    ASSUME SnapInv, NEW x \in Live
    PROVE  /\ Id(x) < Completed
           /\ \A y \in Live : /\ Before(x, y) <=> Id(x) <= Id(y)
                              /\ Id(x) = Id(y) => x = y
<1>1. /\ n \in Nat /\ Completed \in Int /\ \A k \in 1..n : pools[k].last \in 0..3
      /\ OneCPU /\ SnapType /\ Filled
    BY PoolFacts, Zenon DEF SnapInv, Slots
<1>2. /\ x[1] \in 1..n /\ x[2] \in 0..2 /\ x = <<x[1], x[2]>> /\ x[2] < pools[x[1]].last
      /\ Id(x) = Completed - 3 * (n - x[1]) - pools[n].last + x[2]
    BY LiveFacts, Zenon
<1>3. n \in 1..n /\ pools[n].last \in 0..3
    BY <1>1, <1>2, SMTT(30)
<1>4. Id(x) < Completed
  <2>1. CASE x[1] = n
    BY <1>1, <1>2, <1>3, <2>1, SMTT(30)
  <2>2. CASE x[1] < n
    BY <1>1, <1>2, <1>3, <2>2, SMTT(30)
  <2> QED
    BY <1>1, <1>2, <2>1, <2>2, SMTT(30)
<1>5. ASSUME NEW y \in Live
      PROVE  /\ Before(x, y) <=> Id(x) <= Id(y)
             /\ Id(x) = Id(y) => x = y
  <2>1. /\ y[1] \in 1..n /\ y[2] \in 0..2 /\ y = <<y[1], y[2]>>
        /\ Id(y) = Completed - 3 * (n - y[1]) - pools[n].last + y[2]
    BY LiveFacts, Zenon
  <2>2. Before(x, y) <=> Id(x) <= Id(y)
    BY <1>1, <1>2, <1>3, <2>1, SMTT(30) DEF Before
  <2>3. Id(x) = Id(y) => x[1] = y[1] /\ x[2] = y[2]
    BY <1>1, <1>2, <1>3, <2>1, SMTT(30)
  <2> QED
    BY <1>2, <2>1, <2>2, <2>3, Zenon
<1> QED
    BY <1>4, <1>5, Zenon

\* Every number from that of a snapshot on is the number of a snapshot.
LEMMA NoGap ==
    ASSUME SnapInv, NEW x \in Live, NEW id \in Int, Id(x) <= id, id < Completed
    PROVE  \E y \in Live : Id(y) = id
<1>1. /\ n \in Nat /\ Completed \in Int /\ \A k \in 1..n : pools[k].last \in 0..3
      /\ \A k \in 1..(n - 1) : pools[k].last = 3
    BY PoolFacts, Zenon DEF SnapInv, Slots, Filled
<1>2. /\ x[1] \in 1..n /\ x[2] \in 0..2
      /\ Id(x) = Completed - 3 * (n - x[1]) - pools[n].last + x[2]
    BY LiveFacts, Zenon
<1>3. n \in 1..n /\ pools[n].last \in 0..3
    BY <1>1, <1>2, SMTT(30)
<1> DEFINE m == id - Completed + 3 * n + pools[n].last
           k == m \div 3
           i == m % 3
<1>4. m \in Nat /\ m >= 3 /\ m < 3 * n + pools[n].last
    BY <1>1, <1>2, <1>3, SMTT(30)
<1> HIDE DEF m
<1>5. k \in Nat /\ i \in 0..2 /\ m = 3 * k + i
    BY <1>4
<1> HIDE DEF k, i
<1>6. k \in 1..n
    BY <1>1, <1>3, <1>4, <1>5, SMTT(30)
<1>7. i < pools[k].last
  <2>1. CASE k = n
    BY <1>3, <1>4, <1>5, <2>1, SMTT(30)
  <2>2. CASE k # n
    <3>1. k \in 1..(n - 1)
      BY <1>1, <1>6, <2>2, SMTT(30)
    <3> QED
      BY <1>1, <1>5, <3>1, SMTT(30)
  <2> QED
    BY <2>1, <2>2, Zenon
<1>8. <<k, i>> \in Live
    BY <1>5, <1>6, <1>7, SMTT(30) DEF Live, n, Slots
<1>9. Id(<<k, i>>) = Completed - 3 * (n - k) - pools[n].last + i
    BY <1>8, LiveFacts, Zenon
<1>10. Id(<<k, i>>) = id
  <2>1. k \in Int /\ i \in Int /\ n \in Int /\ pools[n].last \in Int /\ Completed \in Int
    BY <1>1, <1>3, <1>5, SMTT(30)
  <2>2. id - Completed + 3 * n + pools[n].last = 3 * k + i
    BY <1>5, Zenon DEF m
  <2> QED
    BY <1>9, <2>1, <2>2, SMTT(30)
<1> QED
    BY <1>8, <1>10, Zenon

\* The invariant says that the snapshots are intact.
LEMMA IntactFollows ==
    ASSUME SnapInv
    PROVE  SnapshotsIntact
<1> SUFFICES ASSUME NEW x \in Live
             PROVE  LET h == hdr[At(x)]
                    IN  /\ h.kind = "snapshot" /\ h.mem = <<h.vm, h.id>> /\ h.regs = h.mem
                        /\ h.id < Completed
                        /\ \A id \in h.id..(Completed - 1) : \E y \in Live : Id(y) = id
                        /\ \A y \in Live : Before(x, y) <=> h.id <= Id(y)
                        /\ h.id = Completed - 1 => latest_ss = At(x)
    BY Zenon DEF SnapshotsIntact
<1>1. /\ hdr[At(x)].kind = "snapshot" /\ hdr[At(x)].id = Id(x) /\ hdr[At(x)].vm = theVM
      /\ hdr[At(x)].mem = <<theVM, Id(x)>> /\ hdr[At(x)].regs = <<theVM, Id(x)>>
  <2>1. hdr[At(x)] = Saves(Id(x))
    BY LiveFacts, Zenon
  <2> QED
    BY <2>1, SMTT(30) DEF Saves
<1>2. Id(x) < Completed /\ \A y \in Live : Before(x, y) <=> Id(x) <= Id(y)
    BY LiveOrder, Zenon
<1>3. ASSUME NEW id \in Id(x)..(Completed - 1) PROVE \E y \in Live : Id(y) = id
  <2>1. Id(x) \in Int /\ Completed \in Int
    BY LiveFacts, PoolFacts, SMTT(30) DEF SnapInv
  <2>2. id \in Int /\ Id(x) <= id /\ id < Completed
    BY <2>1, SMTT(30)
  <2> QED
    BY <2>2, NoGap, Zenon
<1>4. Id(x) = Completed - 1 => latest_ss = At(x)
    BY LiveFacts, Zenon
<1> QED
    BY <1>1, <1>2, <1>3, <1>4, Zenon

\* The first place in the order of the walk.
First(id) == CHOOSE x \in Stops(id) : \A y \in Stops(id) : Before(x, y)

\* If the walk of get_ss_by_id stops at all, it has a first place to stop at.
LEMMA FirstStop ==
    ASSUME SnapInv, NEW id, Stops(id) # {}
    PROVE  First(id) \in Stops(id) /\ \A y \in Stops(id) : Before(First(id), y)
<1>1. n \in Nat /\ Stops(id) \subseteq (1..n) \X (0..2)
    BY PoolFacts, SMTT(30) DEF SnapInv, Stops, n, Slots
<1> DEFINE W == {3 * x[1] + x[2] : x \in Stops(id)}
<1>2. W \in SUBSET Nat /\ W # {}
    BY <1>1
<1>3. PICK w \in W : \A v \in W : w <= v
    BY <1>2, LeastOf, Zenon
<1>4. PICK x \in Stops(id) : w = 3 * x[1] + x[2]
    BY <1>3, Zenon
<1>5. ASSUME NEW y \in Stops(id) PROVE Before(x, y)
  <2>1. 3 * x[1] + x[2] <= 3 * y[1] + y[2]
    BY <1>3, <1>4, Zenon
  <2>2. x[1] \in Int /\ x[2] \in 0..2 /\ y[1] \in Int /\ y[2] \in 0..2
    BY <1>1
  <2> QED
    BY <2>1, <2>2, SMTT(30) DEF Before
<1>6. \E z \in Stops(id) : \A y \in Stops(id) : Before(z, y)
    BY <1>5, Zenon
<1> QED
    BY <1>6, ZenonT(30) DEF First

\* The walk that looks for a snapshot that exists ends there.
LEMMA WalkFinds ==
    ASSUME SnapInv, NEW y \in Live
    PROVE  y \in Stops(Id(y)) /\ First(Id(y)) = y
<1>1. /\ n \in Nat /\ \A k \in 1..n : pools[k].last \in 0..3
      /\ \A k \in 1..(n - 1) : pools[k].last = 3
    BY PoolFacts, Zenon DEF SnapInv, Slots, Filled
<1>2. /\ y[1] \in 1..n /\ y[2] \in 0..2 /\ y = <<y[1], y[2]>> /\ y[2] < pools[y[1]].last
      /\ At(y) = <<pools[y[1]].page, y[2]>> /\ hdr[At(y)] = Saves(Id(y))
    BY LiveFacts, Zenon
<1>3. ASSUME NEW j \in 0..(y[2] - 1) PROVE hdr[<<pools[y[1]].page, j>>].kind = "snapshot"
  <2> DEFINE x == <<y[1], j>>
  <2>1. j \in 0..2 /\ j < pools[y[1]].last
    BY <1>1, <1>2, SMTT(30)
  <2>2. x \in Live
    BY <1>2, <2>1, SMTT(30) DEF Live, n, Slots
  <2>3. At(x) = <<pools[y[1]].page, j>>
    BY Zenon DEF At
  <2> HIDE DEF x
  <2>4. hdr[At(x)] = Saves(Id(x))
    BY <2>2, LiveFacts, Zenon
  <2> QED
    BY <2>3, <2>4, SMTT(30) DEF Saves
<1>4. Reaches(pools[y[1]], y[2])
    BY <1>3, Zenon DEF Reaches
<1>5. y \in Stops(Id(y))
  <2>1. y \in (1..Len(pools)) \X (0..(Slots - 1))
    BY Zenon DEF Live
  <2>2. hdr[<<pools[y[1]].page, y[2]>>].kind = "snapshot" /\ hdr[<<pools[y[1]].page, y[2]>>].id = Id(y)
    BY <1>2, SMTT(30) DEF Saves
  <2> QED
    BY <1>4, <2>1, <2>2, Zenon DEF Stops
<1> DEFINE x == First(Id(y))
<1>6. x \in Stops(Id(y)) /\ Before(x, y)
    BY <1>5, FirstStop, Zenon
<1> HIDE DEF x
<1>7. /\ x \in (1..n) \X (0..2)
      /\ \/ hdr[<<pools[x[1]].page, x[2]>>].id = Id(y)
         \/ hdr[<<pools[x[1]].page, x[2]>>].kind = "garbage"
    BY <1>6, SMTT(30) DEF Stops, n, Slots
<1>8. x[2] < pools[x[1]].last
  <2>1. CASE x[1] = y[1]
    BY <1>1, <1>2, <1>6, <1>7, <2>1, SMTT(30) DEF Before
  <2>2. CASE x[1] # y[1]
    <3>1. x[1] \in 1..(n - 1)
      BY <1>1, <1>2, <1>6, <1>7, <2>2, SMTT(30) DEF Before
    <3> QED
      BY <1>1, <1>7, <3>1, SMTT(30)
  <2> QED
    BY <2>1, <2>2, Zenon
<1>9. x \in Live
    BY <1>7, <1>8, SMTT(30) DEF Live, n, Slots
<1>10. /\ At(x) = <<pools[x[1]].page, x[2]>> /\ hdr[At(x)] = Saves(Id(x))
    BY <1>9, LiveFacts, Zenon
<1>11. Id(x) = Id(y)
    BY <1>7, <1>10, SMTT(30) DEF Saves
<1>12. x = y
    BY <1>9, <1>11, LiveOrder, Zenon
<1> QED
    BY <1>5, <1>12, Zenon DEF x

\* A step that sets out to copy a snapshot, and finds the live one if the id is that
\* of a live one, establishes Found.
LEMMA FoundCopy ==
    ASSUME UNCHANGED <<pools, hdr>>, Completed' = Completed, at' = "copy", ssid'[theCPU] # NoId,
           ss'[theCPU] \in SlotNames, hdr[ss'[theCPU]].kind = "snapshot",
           \A x \in Live : \/ Id(x) = ssid'[theCPU]
                           \/ ssid'[theCPU] = LATEST_SSID /\ Id(x) = Completed - 1
                           => ss'[theCPU] = At(x)
    PROVE  Found'
<1>1. Live' = Live /\ \A x : At(x)' = At(x) /\ Id(x)' = Id(x)
    BY Zenon DEF Live, At, Id
<1> QED
    BY <1>1, Zenon DEF Found

\* get_ss_by_id, from restore_snapshot_handler and from guest_halt_handler
LEMMA ByIdStep ==
    ASSUME SnapInv, at = "guest", NEW id \in Nat, get_ss_by_id(theCPU, id),
           ssid' = [ssid EXCEPT ![theCPU] = id],
           UNCHANGED <<used, last, pools, init, latest_ss, latest_ss_id, hdr, mem, vcpu>>
    PROVE  /\ SnapInv'
           /\ at' \in {"copy", "invalid_id", "astray"}
           /\ at' # "copy" => \A x \in Live : Id(x) # id
<1>1. OneCPU /\ SnapType /\ Filled /\ theCPU \in CPUs
    BY Zenon DEF SnapInv, OneCPU
<1>2. ssid'[theCPU] = id /\ ssid' \in [CPUs -> Int] /\ id # NoId /\ id # LATEST_SSID
    BY <1>1, SMTT(30) DEF SnapType, NoId, LATEST_SSID
<1>3. \A x \in Live : init = TRUE /\ x \in Stops(Id(x)) /\ First(Id(x)) = x /\ hdr[At(x)].kind = "snapshot"
  <2> TAKE x \in Live
  <2>1. x[1] \in 1..n /\ hdr[At(x)] = Saves(Id(x)) /\ n \in Nat
    BY <1>1, LiveFacts, PoolFacts, Zenon
  <2>2. init = TRUE
    BY <1>1, <2>1, SMTT(30) DEF Filled, SnapType
  <2>3. hdr[At(x)].kind = "snapshot"
    BY <2>1, SMTT(30) DEF Saves
  <2> QED
    BY <2>2, <2>3, WalkFinds, Zenon
<1>4. CASE ~init \/ Stops(id) = {}
  <2>1. pc' = [pc EXCEPT ![theCPU] = "invalid_id"] /\ UNCHANGED ss
    BY <1>4, Zenon DEF get_ss_by_id, Goto
  <2>2. at' = "invalid_id" /\ SnapType'
    BY <1>1, <1>2, <2>1, Zenon DEF SnapType, at, Places
  <2>3. Found'
    BY <2>2, Zenon DEF Found, Running
  <2>4. \A x \in Live : Id(x) # id
    BY <1>3, <1>4, Zenon
  <2> QED
    BY <2>2, <2>3, <2>4, KeptStep, Zenon DEF Places
<1>5. CASE init /\ Stops(id) # {}
  <2> DEFINE x == First(id)
             s == <<pools[x[1]].page, x[2]>>
  <2>1. IF hdr[s].kind = "garbage"
          THEN pc' = [pc EXCEPT ![theCPU] = "astray"] /\ UNCHANGED ss
          ELSE pc' = [pc EXCEPT ![theCPU] = "copy"] /\ ss' = [ss EXCEPT ![theCPU] = s]
    BY <1>5, Zenon DEF get_ss_by_id, Goto, First
  <2>2. x \in Stops(id)
    BY <1>5, FirstStop, Zenon
  <2>3. \A y \in Live : Id(y) = id => x = y /\ s = At(y) /\ hdr[s].kind = "snapshot"
    BY <1>3, Zenon DEF At
  <2> HIDE DEF x
  <2>4. /\ x \in (1..n) \X (0..(Slots - 1))
        /\ hdr[s].kind = "snapshot" \/ hdr[s].kind = "garbage"
    BY <2>2, Zenon DEF Stops, n
  <2>5. s \in SlotNames
    BY <1>1, <2>4, PoolFacts, Zenon DEF SlotNames
  <2> HIDE DEF s
  <2>6. CASE hdr[s].kind = "garbage"
    <3>1. at' = "astray" /\ SnapType'
      BY <1>1, <1>2, <2>1, <2>6, Zenon DEF SnapType, at, Places
    <3>2. Found'
      BY <3>1, Zenon DEF Found, Running
    <3>3. \A y \in Live : Id(y) # id
      BY <2>3, <2>6, Zenon
    <3> QED
      BY <3>1, <3>2, <3>3, KeptStep, Zenon DEF Places
  <2>7. CASE hdr[s].kind # "garbage"
    <3>1. at' = "copy" /\ SnapType' /\ ss'[theCPU] = s
      BY <1>1, <1>2, <2>1, <2>5, <2>7, Zenon DEF SnapType, at, Places, Running
    <3>2. Completed' = Completed
      BY <1>1, <3>1, Complete, Zenon
    <3>3. Found'
      BY <1>2, <2>3, <2>4, <2>5, <2>7, <3>1, <3>2, FoundCopy, ZenonT(30)
    <3> QED
      BY <3>1, <3>3, KeptStep, Zenon DEF Places, Running
  <2> QED
    BY <2>6, <2>7, Zenon
<1> QED
    BY <1>4, <1>5, Zenon

\* There is a newest snapshot as soon as there is a pool, and latest_ss points to it.
LEMMA LatestLive ==
    ASSUME SnapInv, at = "guest"
    PROVE  /\ latest_ss = Null => Live = {}
           /\ latest_ss # Null => \E x \in Live : Id(x) = Completed - 1 /\ latest_ss = At(x)
<1>1. OneCPU /\ SnapType /\ Filled /\ Numbered
    BY Zenon DEF SnapInv
<1>2. /\ n \in Nat /\ Completed \in Int
      /\ \A k \in 1..n : pools[k].page \in Int /\ pools[k].page >= 0 /\ pools[k].last \in 0..3
    BY <1>1, PoolFacts, Zenon DEF Slots
<1>3. CASE n = 0
  <2>1. Live = {}
    BY <1>3, SMTT(30) DEF Live, n
  <2> QED
    BY <1>1, <1>3, <2>1, Zenon DEF Numbered
<1>4. CASE n > 0
  <2> DEFINE x == <<n, pools[n].last - 1>>
  <2>1. n \in 1..n /\ pools[n].last \in 1..3
    BY <1>1, <1>2, <1>4, SMTT(30) DEF Filled
  <2>2. x \in Live /\ x[1] = n /\ x[2] = pools[n].last - 1
    BY <2>1, SMTT(30) DEF Live, n, Slots
  <2> HIDE DEF x
  <2>3. /\ Id(x) = Completed - 3 * (n - x[1]) - pools[n].last + x[2]
        /\ Id(x) = Completed - 1 => latest_ss = At(x)
        /\ At(x) = <<pools[x[1]].page, x[2]>>
    BY <2>2, LiveFacts, ZenonT(30)
  <2>4. Id(x) = Completed - 1
    BY <1>2, <2>1, <2>2, <2>3, SMTT(30)
  <2>5. At(x) # Null
    BY <1>2, <2>1, <2>2, <2>3, SMTT(30) DEF Null
  <2> QED
    BY <2>2, <2>3, <2>4, <2>5, Zenon
<1> QED
    BY <1>2, <1>3, <1>4, SMTT(30)

\* restore_snapshot_handler with LATEST_SSID
LEMMA LatestStep ==
    ASSUME SnapInv, restore_latest(theCPU)
    PROVE  /\ SnapInv'
           /\ at' \in {"copy", "invalid_id"} /\ ssid'[theCPU] = LATEST_SSID
           /\ at' # "copy" => Live = {}
<1>1. /\ OneCPU /\ SnapType /\ theCPU \in CPUs /\ at = "guest"
      /\ ssid' = [ssid EXCEPT ![theCPU] = LATEST_SSID]
      /\ UNCHANGED <<used, last, pools, init, latest_ss, latest_ss_id, hdr, mem, vcpu>>
    BY Zenon DEF SnapInv, OneCPU, restore_latest, at, pool_vars
<1>2. ssid'[theCPU] = LATEST_SSID /\ ssid' \in [CPUs -> Int] /\ LATEST_SSID # NoId
    BY <1>1, SMTT(30) DEF SnapType, NoId, LATEST_SSID
<1>3. CASE latest_ss = Null
  <2>1. pc' = [pc EXCEPT ![theCPU] = "invalid_id"] /\ UNCHANGED ss
    BY <1>3, Zenon DEF restore_latest, Goto
  <2>2. at' = "invalid_id" /\ SnapType'
    BY <1>1, <1>2, <2>1, Zenon DEF SnapType, at, Places
  <2>3. Found'
    BY <2>2, Zenon DEF Found, Running
  <2> QED
    BY <1>1, <1>2, <1>3, <2>2, <2>3, LatestLive, KeptStep, Zenon DEF Places
<1>4. CASE latest_ss # Null
  <2>1. pc' = [pc EXCEPT ![theCPU] = "copy"] /\ ss' = [ss EXCEPT ![theCPU] = latest_ss]
    BY <1>4, Zenon DEF restore_latest, Goto
  <2>2. PICK x \in Live : Id(x) = Completed - 1 /\ latest_ss = At(x)
    BY <1>1, <1>4, LatestLive, ZenonT(30)
  <2>3. At(x) \in SlotNames /\ hdr[At(x)].kind = "snapshot"
    <3>1. At(x) \in SlotNames /\ hdr[At(x)] = Saves(Id(x))
      BY LiveFacts, Zenon
    <3> QED
      BY <3>1, SMTT(30) DEF Saves
  <2>4. at' = "copy" /\ SnapType' /\ ss'[theCPU] = At(x)
    BY <1>1, <1>2, <2>1, <2>2, <2>3, Zenon DEF SnapType, at, Places, Running
  <2>5. Completed' = Completed
    BY <1>1, <2>4, Complete, Zenon
  <2>6. \A y \in Live : Id(y) # LATEST_SSID /\ (Id(y) = Completed - 1 => At(y) = At(x))
    <3> TAKE y \in Live
    <3>1. Id(y) \in 0..(MaxIds - 1) /\ (Id(y) = Completed - 1 => latest_ss = At(y))
      BY LiveFacts, Zenon
    <3> QED
      BY <2>2, <3>1, Sizes, SMTT(30) DEF LATEST_SSID
  <2>7. Found'
    BY <1>1, <1>2, <2>3, <2>4, <2>5, <2>6, FoundCopy, Zenon
  <2> QED
    BY <1>1, <1>2, <2>4, <2>7, KeptStep, Zenon DEF Places, Running
<1> QED
    BY <1>3, <1>4, Zenon

\* restore_snapshot_handler with the id of a snapshot
LEMMA IdStep ==
    ASSUME SnapInv, NEW id \in Asked, restore_by_id(theCPU, id)
    PROVE  SnapInv'
<1>1. /\ at = "guest" /\ id \in Nat /\ get_ss_by_id(theCPU, id)
      /\ ssid' = [ssid EXCEPT ![theCPU] = id]
      /\ UNCHANGED <<used, last, pools, init, latest_ss, latest_ss_id, hdr, mem, vcpu>>
    BY SnapshotAssumption, Zenon DEF restore_by_id, at, pool_vars
<1> QED
    BY <1>1, ByIdStep, Zenon

\* guest_halt_handler
LEMMA ResetStep ==
    ASSUME SnapInv, guest_halt_reset(theCPU)
    PROVE  /\ SnapInv'
           /\ at' \in {"copy", "invalid_id", "astray", "too_many_resets"}
           /\ ssid'[theCPU] = SystemReset
           /\ at' # "copy" => \A x \in Live : Id(x) # SystemReset
<1>1. /\ OneCPU /\ SnapType /\ theCPU \in CPUs /\ at = "guest" /\ SystemReset \in Nat
      /\ ssid' = [ssid EXCEPT ![theCPU] = SystemReset]
      /\ UNCHANGED <<used, last, pools, init, latest_ss, latest_ss_id, hdr, mem, vcpu>>
    BY Sizes, Zenon DEF SnapInv, OneCPU, guest_halt_reset, at, pool_vars, SystemReset
<1>2. ssid'[theCPU] = SystemReset /\ ssid' \in [CPUs -> Int]
    BY <1>1, SMTT(30) DEF SnapType
<1>3. CASE current_restore_cnt < NUM_MAX_SNAPSHOT_RESOTRE
  <2>1. get_ss_by_id(theCPU, SystemReset)
    BY <1>3, Zenon DEF guest_halt_reset
  <2> QED
    BY <1>1, <1>2, <2>1, ByIdStep, Zenon
<1>4. CASE ~(current_restore_cnt < NUM_MAX_SNAPSHOT_RESOTRE)
  <2>1. pc' = [pc EXCEPT ![theCPU] = "too_many_resets"] /\ UNCHANGED ss
    BY <1>4, Zenon DEF guest_halt_reset, Goto
  <2>2. at' = "too_many_resets" /\ SnapType'
    BY <1>1, <1>2, <2>1, Zenon DEF SnapType, at, Places
  <2>3. Found'
    BY <2>2, Zenon DEF Found, Running
  <2>4. \A x \in Live : Id(x) # SystemReset
    <3> TAKE x \in Live
    <3>1. Id(x) \in 0..(MaxIds - 1)
      BY LiveFacts, Zenon
    <3> QED
      BY <3>1, Sizes, SMTT(30) DEF SystemReset
  <2> QED
    BY <1>1, <1>2, <2>2, <2>3, <2>4, KeptStep, Zenon DEF Places
<1> QED
    BY <1>3, <1>4, Zenon

\* At boot there is no pool and no snapshot.
LEMMA InitSnap ==
    ASSUME OneCPU, Init
    PROVE  SnapInv
<1>1. /\ theCPU \in CPUs /\ theVM \in VMs /\ at = "guest" /\ n = 0 /\ ssid[theCPU] = NoId
      /\ pools = <<>> /\ latest_ss_id = 0 /\ latest_ss = Null /\ init = FALSE
    BY SnapshotAssumption, Zenon DEF OneCPU, theVM, Init, at, n
<1>2. SnapType
  <2>1. Boot \in States /\ Zero \in Headers
    BY Zenon DEF States, Headers
  <2>2. vcpu \in [CPUs -> [vm : {theVM}, regs : States]]
    BY <2>1, Zenon DEF Init, OneCPU, theVM
  <2>3. pc \in [CPUs -> Places] /\ ss \in [CPUs -> SlotNames \cup {Null}] /\ ssid \in [CPUs -> Int]
    BY DEF Init, Places, Running, NoId
  <2>4. hdr \in [SlotNames -> Headers] /\ mem \in [VMs -> States]
    BY <2>1, Zenon DEF Init
  <2>5. last \in Nat /\ latest_ss_id \in 0..MaxIds /\ pools \in Seq(Pools)
    BY <1>1, Sizes, SMTT(30) DEF Init
  <2> QED
    BY <1>1, <2>2, <2>3, <2>4, <2>5, Zenon DEF SnapType
<1>3. Laid(pools, used)
    BY <1>1, SMTT(30) DEF Laid, n
<1>4. Filled /\ Numbered /\ Found
    BY <1>1, SMTT(30) DEF Filled, Numbered, Found
<1> QED
    BY <1>2, <1>3, <1>4, Zenon DEF SnapInv

\* Every step of a handler keeps the invariant.
LEMMA SnapStep ==
    ASSUME SnapInv, [Next]_vars
    PROVE  SnapInv'
<1>1. CASE Next
  <2>1. PICK c \in CPUs : Checkpoint(c) \/ Restore(c) \/ guest_halt_reset(c) \/ restart_vm(c)
    BY <1>1, Zenon DEF Next
  <2>2. c = theCPU
    BY Zenon DEF SnapInv, OneCPU
  <2>3. CASE Checkpoint(theCPU)
    BY <2>3, CheckpointStep, PoolInitStep, GetStep, FillStep, UpdateStep, Zenon DEF Checkpoint
  <2>4. CASE Restore(theCPU)
    BY <2>4, LatestStep, IdStep, CopyStep, Zenon DEF Restore
  <2>5. CASE guest_halt_reset(theCPU)
    BY <2>5, ResetStep, Zenon
  <2>6. CASE restart_vm(theCPU)
    BY <2>6, RestartStep, Zenon
  <2> QED
    BY <2>1, <2>2, <2>3, <2>4, <2>5, <2>6, Zenon
<1>2. CASE UNCHANGED vars
  <2>1. /\ UNCHANGED <<used, last, pools, init, latest_ss, latest_ss_id, hdr, mem, vcpu, pc, ss, ssid>>
        /\ at' = at /\ n' = n
    BY <1>2, Zenon DEF vars, at, n
  <2>2. Completed' = Completed
    BY <2>1, Complete, Zenon DEF SnapInv
  <2>3. SnapType' /\ Laid(pools, used)' /\ Filled'
    BY <2>1, Zenon DEF SnapInv, SnapType, Laid, Filled
  <2>4. \A k, i : Num(k, i)' = Num(k, i)
    BY <2>1, <2>2, Zenon DEF Num
  <2>5. Numbered'
    BY <2>1, <2>2, <2>4, Zenon DEF SnapInv, Numbered
  <2>6. Live' = Live /\ \A x : At(x)' = At(x) /\ Id(x)' = Id(x)
    BY <2>1, Zenon DEF Live, At, Id
  <2>7. Found'
    BY <2>1, <2>2, <2>6, Zenon DEF SnapInv, Found
  <2> QED
    BY <2>3, <2>5, <2>7, Zenon DEF SnapInv, OneCPU
<1> QED
    BY <1>1, <1>2, Zenon

\* The handlers for checkpoint, restore, reset and restart keep what SnapInv says:
\* get_new_ss lays no pool over another, fills one before it begins the next and
\* evicts the oldest, so that the number of a snapshot follows from its place.
THEOREM SnapInvariant ==
    ASSUME OneCPU
    PROVE  Spec => []SnapInv
<1>1. Init => SnapInv
    BY InitSnap, Zenon
<1>2. SnapInv /\ [Next]_vars => SnapInv'
    BY SnapStep, Zenon
<1> QED
    BY <1>1, <1>2, PTL DEF Spec

\* However many checkpoints are taken and pools evicted, the snapshots that exist
\* are those with the highest ids, in the order of the list, each with the registers
\* and the memory that were saved together, and latest_ss points to the newest.
THEOREM SnapshotsStayIntact ==
    ASSUME OneCPU
    PROVE  Spec => []SnapshotsIntact
<1>1. SnapInv => SnapshotsIntact
    BY IntactFollows, Zenon
<1> QED
    BY <1>1, SnapInvariant, PTL

\* The numbers of the snapshots that exist: up to the last without a gap.
Ids == {Id(x) : x \in Live}
Tidy ==
    /\ Saved = [id \in Ids |-> id]
    /\ \A i \in Ids : i \in 0..(MaxIds - 1) /\ i < Completed
    /\ \A i \in Ids : \A j \in Nat : i <= j /\ j < Completed => j \in Ids
    /\ \A x \in Live : /\ Id(x) = Completed - 3 * (n - x[1]) - pools[n].last + x[2]
                       /\ x[1] \in 1..n /\ x[2] \in 0..2 /\ x[2] < pools[x[1]].last
                       /\ x = <<x[1], x[2]>>
    /\ n \in Nat /\ Completed \in Nat /\ \A k \in 1..n : pools[k].last \in 0..3

\* What the refinement needs to know of the snapshots that exist.
LEMMA TidyFollows == SnapInv => Tidy
<1> SUFFICES ASSUME SnapInv PROVE Tidy
    OBVIOUS
<1>1. n \in Nat /\ \A k \in 1..n : pools[k].last \in 0..3
    BY PoolFacts, ZenonT(30) DEF SnapInv, Slots
<1>2. Completed \in Nat
    BY Complete, Sizes, SMTT(30) DEF SnapInv, SnapType, Numbered
<1>3. \A x \in Live : /\ Id(x) = Completed - 3 * (n - x[1]) - pools[n].last + x[2]
                      /\ x[1] \in 1..n /\ x[2] \in 0..2 /\ x[2] < pools[x[1]].last
                      /\ x = <<x[1], x[2]>>
    BY LiveFacts, Zenon
<1>4. \A i \in Ids : i \in 0..(MaxIds - 1) /\ i < Completed
    BY LiveFacts, LiveOrder, Zenon DEF Ids
<1>5. ASSUME NEW i \in Ids, NEW j \in Nat, i <= j, j < Completed PROVE j \in Ids
  <2>1. PICK x \in Live : Id(x) = i
    BY Zenon DEF Ids
  <2> QED
    BY <1>5, <2>1, NoGap DEF Ids
<1>6. Saved = [id \in Ids |-> id]
  <2>1. ASSUME NEW id \in Ids PROVE hdr[At(CHOOSE x \in Live : Id(x) = id)].mem[2] = id
    <3> DEFINE x == CHOOSE x \in Live : Id(x) = id
    <3>1. x \in Live /\ Id(x) = id
      BY Zenon DEF Ids
    <3> HIDE DEF x
    <3>2. hdr[At(x)] = Saves(id)
      BY <3>1, LiveFacts, Zenon
    <3>3. hdr[At(x)].mem[2] = id
      BY <3>2, SMTT(30) DEF Saves
    <3> QED
      BY <3>3, Zenon DEF x
  <2> QED
    BY <2>1, Zenon DEF Saved, Ids
<1> QED
    BY <1>1, <1>2, <1>3, <1>4, <1>5, <1>6, Zenon DEF Tidy

\* The same of the next state.
LEMMA TidyNext == SnapInv' => Tidy'
    BY TidyFollows, PTL

\* The state that the registers r and the memory m stand for.
Shown(r, m) == IF m = r THEN r[2] - (IF r = Boot THEN 1 ELSE 0) ELSE -2

\* The mapped state is what the machine's registers and memory stand for.
LEMMA StateShown ==
    /\ State = Shown(vcpu[theCPU].regs, mem[theVM])
    /\ State' = Shown(vcpu'[theCPU].regs, mem'[theVM])
    BY Zenon DEF State, Shown, theVM

\* Registers and memory saved as number k stand for k.
LEMMA ShownIs ==
    ASSUME theVM \in VMs, NEW k \in Int
    PROVE  Shown(<<theVM, k>>, <<theVM, k>>) = k
<1>1. <<theVM, k>> # Boot
    BY SnapshotAssumption, Zenon DEF Boot
<1> QED
    BY <1>1, SMTT(30) DEF Shown

\* A CPU that takes a step of a checkpoint is free for SnapshotStore.
LEMMA FreeNow ==
    ASSUME SnapInv, at \in Running \ {"copy"}
    PROVE  Store!Free
<1>1. ssid[theCPU] = NoId
    BY Zenon DEF SnapInv, Found
<1> QED
    BY <1>1, Zenon DEF Store!Free, at

\* Steps that give up the oldest snapshots, or none.
LEMMA EvictStep ==
    ASSUME SnapInv, SnapInv', at \in Running \ {"copy"}, at' \in Running,
           UNCHANGED <<mem, vcpu, ssid>>, Completed' = Completed,
           Ids' \subseteq Ids
    PROVE  Store!Evict
<1>1. Tidy /\ Tidy'
    BY TidyFollows, TidyNext, Zenon
<1>2. State' = State
    BY StateShown, Zenon
<1>3. DOMAIN Saved = Ids
    BY <1>1, Zenon DEF Tidy
<1>4. PICK first \in Ids \cup {Completed} : Ids' = {j \in Ids : j >= first}
  <2>1. CASE Ids' = {}
    <3>1. Ids' = {j \in Ids : j >= Completed}
      BY <1>1, <2>1, Sizes, SMTT(30) DEF Tidy
    <3> QED
      BY <3>1, Zenon
  <2>2. CASE Ids' # {}
    <3>1. Ids' \in SUBSET Nat
      BY <1>1, Sizes, SMTT(30) DEF Tidy
    <3>2. PICK f \in Ids' : \A j \in Ids' : f <= j
      BY <2>2, <3>1, LeastOf, Zenon
    <3>3. \A j \in Ids : j >= f => j \in Ids'
      <4> SUFFICES ASSUME NEW j \in Ids, j >= f PROVE j \in Ids'
        BY SMTT(30)
      <4>1. j \in Nat /\ j < Completed' /\ f <= j
        BY <1>1, <3>1, Sizes, SMTT(30) DEF Tidy
      <4>2. \A i \in Ids' : \A m \in Nat : i <= m /\ m < Completed' => m \in Ids'
        BY <1>1, Zenon DEF Tidy
      <4> QED
        BY <3>2, <4>1, <4>2, Zenon
    <3>4. Ids' = {j \in Ids : j >= f}
      BY <3>1, <3>2, <3>3, Zenon
    <3> QED
      BY <3>2, <3>4, Zenon
  <2> QED
    BY <2>1, <2>2, Zenon
<1>5. Saved' = [k \in {j \in Ids : j >= first} |-> Saved[k]]
  <2>1. Saved' = [k \in Ids' |-> k]
    BY <1>1, Zenon DEF Tidy
  <2>2. \A k \in Ids : Saved[k] = k
    BY <1>1, Zenon DEF Tidy
  <2> QED
    BY <1>4, <2>1, <2>2, Zenon
<1>6. /\ \E f \in DOMAIN Saved \cup {Completed} :
              Saved' = [k \in {j \in DOMAIN Saved : j >= f} |-> Saved[k]]
    BY <1>3, <1>4, <1>5, Zenon
<1>7. (pc'[theCPU] \in Running) = (pc[theCPU] \in Running) /\ ssid'[theCPU] = ssid[theCPU]
    BY Zenon DEF at
<1> QED
    BY <1>2, <1>6, <1>7, FreeNow, Zenon DEF Store!Evict

\* checkpoint_snapshot_handler, ss_pool_init and get_new_ss
LEMMA GetEvicts ==
    ASSUME SnapInv, SnapInv', at' # "no_memory",
           checkpoint_snapshot_handler(theCPU) \/ ss_pool_init(theCPU) \/ get_new_ss(theCPU)
    PROVE  Store!Evict
<1>1. /\ at \in {"guest", "pool_init", "get"} /\ theCPU \in CPUs
      /\ UNCHANGED <<hdr, mem, vcpu, ssid, latest_ss_id>>
    BY Zenon DEF checkpoint_snapshot_handler, ss_pool_init, get_new_ss, at, guest_vars, SnapInv, OneCPU
<1>2. at' \in {"pool_init", "get", "fill"}
    BY <1>1, Zenon DEF checkpoint_snapshot_handler, ss_pool_init, get_new_ss, at, Goto, alloc_ss_pool, SnapInv, SnapType
<1>3. Completed' = Completed
    BY <1>1, <1>2, Complete, Zenon DEF SnapInv
<1>4. pools \in Seq(Pools) /\ n \in Nat /\ n = Len(pools)
    BY PoolFacts, Zenon DEF SnapInv, SnapType, n
<1>5. \/ pools' = pools
      \/ \E list \in {<<>>, pools, Tail(pools)} : \E p : pools' = Append(list, [page |-> p, last |-> 0])
  <2>1. CASE checkpoint_snapshot_handler(theCPU)
    BY <2>1, Zenon DEF checkpoint_snapshot_handler, pool_vars
  <2>2. CASE ss_pool_init(theCPU)
    BY <1>1, <1>2, <2>2, Zenon DEF ss_pool_init, alloc_ss_pool, Goto, at, SnapInv, SnapType
  <2>3. CASE get_new_ss(theCPU)
    BY <1>1, <1>2, <2>3, ZenonT(30) DEF get_new_ss, alloc_ss_pool, Goto, at, SnapInv, SnapType, Evicted
  <2> QED
    BY <2>1, <2>2, <2>3, Zenon
<1>6. (at = "pool_init") => n = 0
    BY <1>4, SMTT(30) DEF SnapInv, Filled
<1>7. ASSUME NEW x \in Live' PROVE Id(x)' \in Ids
  <2>0. /\ x[1] \in 1..Len(pools') /\ x[2] \in 0..2 /\ x[2] < pools'[x[1]].last /\ x = <<x[1], x[2]>>
    BY DEF Live, Slots
  <2>1. PICK k \in 1..n : pools'[x[1]] = pools[k]
    <3>1. CASE pools' = pools
      BY <1>4, <2>0, <3>1, Zenon
    <3>2. ASSUME NEW list \in {<<>>, pools, Tail(pools)}, NEW p,
                 pools' = Append(list, [page |-> p, last |-> 0])
          PROVE  \E k \in 1..n : pools'[x[1]] = pools[k]
      <4>1. Len(list) \in Nat /\ Len(pools') = Len(list) + 1
        BY <1>4, <3>2, SMTT(30)
      <4>2. x[1] \in 1..Len(list) /\ pools'[x[1]] = list[x[1]]
        BY <1>4, <2>0, <3>2, <4>1, SMTT(30)
      <4>3. CASE list = <<>>
        BY <4>2, <4>3, SMTT(30)
      <4>4. CASE list = pools
        BY <1>4, <4>2, <4>4, Zenon
      <4>5. CASE list = Tail(pools) /\ pools # <<>>
        <5>1. x[1] + 1 \in 1..n /\ list[x[1]] = pools[x[1] + 1]
          BY <1>4, <4>2, <4>5, SMTT(30)
        <5> QED
          BY <4>2, <5>1, Zenon
      <4>6. CASE list = Tail(pools) /\ pools = <<>>
        BY <4>2, <4>6, SMTT(30)
      <4> QED
        BY <4>3, <4>4, <4>5, <4>6, Zenon
    <3> QED
      BY <1>5, <3>1, <3>2, Zenon
  <2> DEFINE y == <<k, x[2]>>
  <2>2. y \in Live
    BY <2>0, <2>1, Zenon DEF Live, n, Slots
  <2>3. At(x)' = At(y)
    BY <2>1, Zenon DEF At
  <2>4. Id(x)' = Id(y)
    BY <1>1, <2>3, Zenon DEF Id
  <2> QED
    BY <2>2, <2>4, Zenon DEF Ids
<1>8. Ids' \subseteq Ids
    BY <1>7, Zenon DEF Ids
<1> QED
    BY <1>1, <1>2, <1>3, <1>8, EvictStep, Zenon DEF Running

\* fill_snapshot
LEMMA FillRuns ==
    ASSUME SnapInv, SnapInv', fill_snapshot(theCPU)
    PROVE  Store!Run
<1>1. /\ OneCPU /\ SnapType /\ SnapType' /\ at = "fill" /\ theCPU \in CPUs /\ theVM \in VMs
      /\ latest_ss_id \in Nat /\ vcpu[theCPU] \in [vm : {theVM}, regs : States]
  <2>1. OneCPU /\ SnapType /\ SnapType' /\ at = "fill"
    BY Zenon DEF SnapInv, fill_snapshot, at
  <2>2. theCPU \in CPUs /\ theVM \in VMs
    BY <2>1, SnapshotAssumption, Zenon DEF OneCPU, theVM
  <2> QED
    BY <2>1, <2>2, Sizes, SMTT(30) DEF SnapType
<1>2. /\ mem' = [mem EXCEPT ![theVM] = <<theVM, latest_ss_id>>]
      /\ vcpu' = [vcpu EXCEPT ![theCPU].regs = <<theVM, latest_ss_id>>]
      /\ latest_ss_id' = latest_ss_id + 1 /\ pc' = [pc EXCEPT ![theCPU] = "update"]
      /\ UNCHANGED <<pools, ssid>>
    BY <1>1, Zenon DEF fill_snapshot, Goto, pool_vars
<1>3. at' = "update" /\ n' = n
    BY <1>1, <1>2, Zenon DEF SnapType, at, n
<1>4. Completed = latest_ss_id /\ Completed' = Completed
    BY <1>1, <1>2, <1>3, Complete, SMTT(30)
<1>5. State' = Completed
  <2>1. mem'[theVM] = <<theVM, latest_ss_id>>
    BY <1>1, <1>2, Zenon DEF SnapType
  <2>2. vcpu'[theCPU].regs = <<theVM, latest_ss_id>>
    <3>1. [vcpu[theCPU] EXCEPT !.regs = <<theVM, latest_ss_id>>].regs = <<theVM, latest_ss_id>>
      BY <1>1, Zenon
    <3> QED
      BY <1>1, <1>2, <3>1, Zenon DEF SnapType
  <2> QED
    BY <1>1, <1>4, <2>1, <2>2, StateShown, ShownIs, SMTT(30)
<1>6. Saved' = Saved
  <2>1. Tidy /\ Tidy'
    BY TidyFollows, TidyNext, Zenon
  <2>2. Live' = Live
    BY <1>2, Zenon DEF Live
  <2>3. \A x \in Live : Id(x)' = Id(x)
    BY <1>2, <1>3, <1>4, <2>1, <2>2, Zenon DEF Tidy
  <2>4. Ids' = Ids
    BY <2>2, <2>3, Zenon DEF Ids
  <2> QED
    BY <2>1, <2>4, Zenon DEF Tidy
<1>7. (pc'[theCPU] \in Running) = (pc[theCPU] \in Running) /\ ssid'[theCPU] = ssid[theCPU]
    BY <1>1, <1>2, <1>3, SMTT(30) DEF at, Running
<1>8. Store!Free
    BY <1>1, FreeNow, Zenon DEF Running
<1> QED
    BY <1>4, <1>5, <1>6, <1>7, <1>8, ZenonT(30) DEF Store!Run

\* update_ss_pool_last
LEMMA UpdateCheckpoints ==
    ASSUME SnapInv, SnapInv', update_ss_pool_last(theCPU)
    PROVE  Store!Checkpoint
<1>1. /\ OneCPU /\ SnapType /\ Filled /\ Numbered /\ at = "update" /\ theCPU \in CPUs /\ theVM \in VMs
      /\ latest_ss_id \in Nat /\ n > 0 /\ pools[n].last < 3 /\ pools \in Seq(Pools)
      /\ mem[theVM] = <<theVM, latest_ss_id - 1>>
      /\ vcpu[theCPU].regs = <<theVM, latest_ss_id - 1>>
  <2>1. OneCPU /\ SnapType /\ Filled /\ Numbered /\ at = "update"
    BY Zenon DEF SnapInv, update_ss_pool_last, at
  <2>2. theCPU \in CPUs /\ theVM \in VMs
    BY <2>1, SnapshotAssumption, Zenon DEF OneCPU, theVM
  <2>3. latest_ss_id \in Nat /\ pools \in Seq(Pools)
    BY <2>1, Sizes, SMTT(30) DEF SnapType
  <2>4. n > 0 /\ pools[n].last < 3
    BY <2>1, Zenon DEF Filled, Slots
  <2>5. /\ mem[theVM] = <<theVM, latest_ss_id - 1>>
        /\ vcpu[theCPU].regs = <<theVM, latest_ss_id - 1>>
    BY <2>1, Zenon DEF Numbered
  <2> QED
    BY <2>1, <2>2, <2>3, <2>4, <2>5, Zenon
<1>2. /\ pools' = [pools EXCEPT ![n].last = @ + 1]
      /\ pc' = [pc EXCEPT ![theCPU] = "guest"]
      /\ UNCHANGED <<latest_ss_id, mem, vcpu, ssid>>
    BY Zenon DEF update_ss_pool_last, n, Goto, guest_vars
<1>3. at' = "guest"
    BY <1>1, <1>2, Zenon DEF SnapType, at
<1>4. Completed = latest_ss_id - 1 /\ Completed' = Completed + 1
    BY <1>1, <1>2, <1>3, Complete, SMTT(30)
<1>5. State = Completed /\ State' = State
    BY <1>1, <1>2, <1>4, StateShown, ShownIs, SMTT(30)
<1>6. Tidy /\ Tidy'
    BY TidyFollows, TidyNext, Zenon
<1>7. /\ n' = n /\ n \in Nat /\ n \in 1..n /\ n = Len(pools)
      /\ pools[n].last \in 0..2 /\ pools'[n].last = pools[n].last + 1
      /\ \A k \in 1..n : k # n => pools'[k] = pools[k]
  <2> DEFINE y == [pools[n] EXCEPT !.last = @ + 1]
  <2>1. n \in Nat /\ n \in 1..n /\ n = Len(pools) /\ pools[n].last \in 0..2
    BY <1>1, <1>6, SMTT(30) DEF Tidy, n
  <2>2. pools[n] \in [page : 0..(NrPages - PoolPages), last : 0..Slots]
    <3>1. pools[n] \in Pools
      BY <1>1, <2>1, SMTT(30)
    <3> QED
      BY <3>1, Zenon DEF Pools
  <2>3. y.last = pools[n].last + 1
    BY <2>2, Zenon
  <2>4. pools' = [pools EXCEPT ![n] = y]
    BY <1>2, Zenon
  <2> HIDE DEF y
  <2> QED
    BY <1>1, <2>1, <2>3, <2>4, SMTT(30) DEF n
<1>0. PICK z : z = <<n, pools[n].last>>
    BY Zenon
<1>8. Live' = Live \cup {z}
  <2>1. ASSUME NEW x \in (1..n) \X (0..2)
        PROVE  x[2] < pools'[x[1]].last <=> x[2] < pools[x[1]].last \/ x = z
    <3>1. x[1] \in 1..n /\ x[2] \in 0..2 /\ x = <<x[1], x[2]>>
      BY SMTT(30)
    <3>2. CASE x[1] = n
      BY <1>0, <1>7, <3>1, <3>2, SMTT(30)
    <3>3. CASE x[1] # n
      BY <1>0, <1>7, <3>1, <3>3, SMTT(30)
    <3> QED
      BY <3>2, <3>3, Zenon
  <2>2. z \in (1..n) \X (0..2)
    BY <1>0, <1>7, Zenon
  <2>3. /\ Live = {x \in (1..n) \X (0..2) : x[2] < pools[x[1]].last}
        /\ Live' = {x \in (1..n) \X (0..2) : x[2] < pools'[x[1]].last}
    <3>1. Slots - 1 = 2 /\ Len(pools') = n
      BY <1>7, SMTT(30) DEF Slots, n
    <3> QED
      BY <1>7, <3>1, Zenon DEF Live
  <2> QED
    BY <2>1, <2>2, <2>3, Zenon
<1>9. \A x \in Live : Id(x)' = Id(x)
  <2> TAKE x \in Live
  <2>1. /\ Id(x)' = Completed' - 3 * (n' - x[1]) - pools'[n'].last + x[2]
        /\ Id(x) = Completed - 3 * (n - x[1]) - pools[n].last + x[2]
        /\ x[1] \in 1..n /\ x[2] \in 0..2 /\ Completed \in Int
    BY <1>6, <1>8, SMTT(30) DEF Tidy
  <2>2. n' = n /\ n \in Nat /\ pools'[n'].last = pools[n].last + 1 /\ pools[n].last \in 0..2
    BY <1>7, Zenon
  <2>3. x[1] \in Int /\ x[2] \in Int /\ Completed' = Completed + 1
    BY <1>4, <2>1, SMTT(30)
  <2> QED
    BY <2>1, <2>2, <2>3, SMTT(30)
<1>10. Id(z)' = Completed
  <2>1. /\ Id(z)' = Completed' - 3 * (n' - z[1]) - pools'[n'].last + z[2] /\ Completed \in Nat
    <3>1. z \in Live'
      BY <1>8, Zenon
    <3> QED
      BY <1>6, <3>1, Zenon DEF Tidy
  <2>2. n' = n /\ n \in Nat /\ pools'[n'].last = pools[n].last + 1 /\ pools[n].last \in 0..2
    BY <1>7, Zenon
  <2>3. z[1] = n /\ z[2] = pools[n].last
    BY <1>0, Zenon
  <2>4. n' - z[1] = 0 /\ 3 * (n' - z[1]) = 0
    BY <2>2, <2>3, SMTT(30)
  <2>5. Id(z)' = (Completed + 1) - 0 - (pools[n].last + 1) + pools[n].last
    BY <1>4, <2>1, <2>2, <2>3, <2>4, Zenon
  <2> QED
    BY <2>1, <2>2, <2>5, SMTT(30)
<1>11. Ids' = Ids \cup {Completed}
  <2>1. Ids' = {Id(x)' : x \in Live'} /\ Ids = {Id(x) : x \in Live}
    BY Zenon DEF Ids
  <2> QED
    BY <1>8, <1>9, <1>10, <2>1, Zenon
<1>12. /\ DOMAIN Saved = Ids /\ \A k \in Ids : Saved[k] = k
       /\ Saved' = [k \in Ids' |-> k] /\ Completed \notin Ids
    BY <1>6, SMTT(30) DEF Tidy
<1>13. Saved' = [k \in (DOMAIN Saved) \cup {Completed} |-> IF k = Completed THEN State ELSE Saved[k]]
    BY <1>5, <1>11, <1>12, Zenon
<1>14. (pc'[theCPU] \in Running) = (pc[theCPU] \in Running) /\ ssid'[theCPU] = ssid[theCPU]
    BY <1>1, <1>2, <1>3, SMTT(30) DEF at, Running
<1>15. Store!Free
    BY <1>1, FreeNow, Zenon DEF Running
<1> QED
    BY <1>4, <1>5, <1>13, <1>14, <1>15, Zenon DEF Store!Checkpoint

\* What a step keeps that leaves the guest, the pools and the snapshots alone.
LEMMA SameSaved ==
    ASSUME SnapInv, SnapInv', UNCHANGED <<pools, hdr>>, latest_ss_id' = latest_ss_id,
           at # "update", at' # "update"
    PROVE  Saved' = Saved /\ Completed' = Completed
<1>1. Completed' = Completed
    BY Complete, Zenon DEF SnapInv
<1>2. Saved' = Saved
  <2>1. Live' = Live /\ \A x : Id(x)' = Id(x)
    BY Zenon DEF Live, Id, At
  <2>2. Ids' = Ids
    BY <2>1, Zenon DEF Ids
  <2>3. Tidy /\ Tidy'
    BY TidyFollows, TidyNext, Zenon
  <2> QED
    BY <2>2, <2>3, Zenon DEF Tidy
<1> QED
    BY <1>1, <1>2, Zenon

\* A request for a snapshot: the guest waits for it, or stops if there is none.
LEMMA AskOrStop ==
    ASSUME SnapInv, SnapInv', at = "guest", UNCHANGED <<pools, hdr, mem, vcpu>>, latest_ss_id' = latest_ss_id,
           ssid'[theCPU] # NoId, at' \in Places \ {"update"},
           \/ at' = "copy"
           \/ at' \notin Running /\ ssid'[theCPU] = LATEST_SSID /\ Live = {}
           \/ at' \notin Running /\ ssid'[theCPU] # LATEST_SSID /\ \A x \in Live : Id(x) # ssid'[theCPU]
    PROVE  Store!Ask \/ Store!Stop
<1>1. Saved' = Saved /\ Completed' = Completed /\ State' = State
    BY SameSaved, StateShown, Zenon
<1>2. Store!Free
    BY FreeNow, Zenon DEF Running
<1>3. CASE at' = "copy"
  <2>1. pc'[theCPU] \in Running /\ pc[theCPU] \in Running
    BY <1>3, Zenon DEF at, Running
  <2> QED
    BY <1>1, <1>2, <2>1, Zenon DEF Store!Ask
<1>4. CASE at' \notin Running
  <2>1. Store!Meant(ssid'[theCPU]) = {}
    <3>1. DOMAIN Saved = Ids
      BY TidyFollows, Zenon DEF Tidy
    <3>2. CASE ssid'[theCPU] = LATEST_SSID /\ Live = {}
      BY <3>1, <3>2, Zenon DEF Store!Meant, Ids
    <3>3. CASE ssid'[theCPU] # LATEST_SSID /\ \A x \in Live : Id(x) # ssid'[theCPU]
      BY <3>1, <3>3, Zenon DEF Store!Meant, Ids
    <3> QED
      BY <1>4, <3>2, <3>3, Zenon DEF Running
  <2>2. (pc'[theCPU] \in Running) = FALSE
    BY <1>4, SMTT(30) DEF at
  <2> QED
    BY <1>1, <1>2, <2>1, <2>2, Zenon DEF Store!Stop
<1> QED
    BY <1>3, <1>4, Zenon

\* A machine just loaded stands for no snapshot.
LEMMA ShownBoot == Shown(Boot, Boot) = -1
<1>1. Boot[2] = 0
    BY Zenon DEF Boot
<1> QED
    BY <1>1, SMTT(30) DEF Shown

\* restore_snapshot_handler_by_ss
LEMMA CopyRestores ==
    ASSUME SnapInv, SnapInv', restore_snapshot_handler_by_ss(theCPU)
    PROVE  Store!Restore
<1>1. /\ OneCPU /\ SnapType /\ Found /\ at = "copy" /\ theCPU \in CPUs /\ theVM \in VMs
      /\ vcpu[theCPU].vm = theVM /\ ssid[theCPU] # NoId
  <2>1. OneCPU /\ SnapType /\ Found /\ at = "copy"
    BY Zenon DEF SnapInv, restore_snapshot_handler_by_ss, at
  <2>2. theCPU \in CPUs /\ theVM \in VMs
    BY <2>1, SnapshotAssumption, Zenon DEF OneCPU, theVM
  <2> QED
    BY <2>1, <2>2, Zenon DEF SnapType, Found
<1>2. /\ mem' = [mem EXCEPT ![theVM] = hdr[ss[theCPU]].mem]
      /\ vcpu' = [vcpu EXCEPT ![theCPU] = [vm |-> hdr[ss[theCPU]].vm, regs |-> hdr[ss[theCPU]].regs]]
      /\ pc' = [pc EXCEPT ![theCPU] = "guest"] /\ ssid' = [ssid EXCEPT ![theCPU] = NoId]
      /\ UNCHANGED <<pools, hdr, latest_ss_id>>
    BY <1>1, Zenon DEF restore_snapshot_handler_by_ss, Goto, pool_vars
<1>3. at' = "guest" /\ ssid'[theCPU] = NoId
    BY <1>1, <1>2, Zenon DEF SnapType, at
<1>4. Saved' = Saved /\ Completed' = Completed
    BY <1>1, <1>2, <1>3, SameSaved, Zenon
<1>5. ASSUME NEW k \in Store!Meant(ssid[theCPU]) PROVE State' = Saved[k]
  <2>1. Tidy
    BY TidyFollows, Zenon
  <2>2. DOMAIN Saved = Ids /\ \A i \in Ids : Saved[i] = i
    BY <2>1, Zenon DEF Tidy
  <2>3. k \in Ids /\ (k = ssid[theCPU] \/ (ssid[theCPU] = LATEST_SSID /\ k = Completed - 1))
    BY <2>2, Zenon DEF Store!Meant
  <2>4. PICK x \in Live : Id(x) = k
    BY <2>3, Zenon DEF Ids
  <2>5. ss[theCPU] = At(x)
    BY <1>1, <2>3, <2>4, Zenon DEF Found
  <2>6. hdr[ss[theCPU]] = Saves(k) /\ k \in Int
    BY <2>4, <2>5, LiveFacts, SMTT(30)
  <2>7. hdr[ss[theCPU]].mem = <<theVM, k>> /\ hdr[ss[theCPU]].regs = <<theVM, k>>
    BY <2>6, SMTT(30) DEF Saves
  <2>8. mem'[theVM] = <<theVM, k>> /\ vcpu'[theCPU].regs = <<theVM, k>>
    BY <1>1, <1>2, <2>7, Zenon DEF SnapType
  <2>9. State' = k
    BY <1>1, <2>6, <2>8, StateShown, ShownIs, Zenon
  <2> QED
    BY <2>2, <2>3, <2>9, Zenon
<1>6. pc'[theCPU] \in Running /\ pc[theCPU] \in Running
    BY <1>1, <1>3, Zenon DEF at, Running
<1> QED
    BY <1>1, <1>3, <1>4, <1>5, <1>6, Zenon DEF Store!Restore

\* restart_vm
LEMMA RestartRestarts ==
    ASSUME SnapInv, SnapInv', restart_vm(theCPU)
    PROVE  Store!Restart
<1>1. /\ OneCPU /\ SnapType /\ at = "guest" /\ theCPU \in CPUs /\ theVM \in VMs
      /\ vcpu[theCPU] \in [vm : {theVM}, regs : States] /\ vcpu[theCPU].vm = theVM
  <2>1. OneCPU /\ SnapType /\ at = "guest"
    BY Zenon DEF SnapInv, restart_vm, at
  <2>2. theCPU \in CPUs /\ theVM \in VMs
    BY <2>1, SnapshotAssumption, Zenon DEF OneCPU, theVM
  <2> QED
    BY <2>1, <2>2, Zenon DEF SnapType
<1>2. /\ mem' = [mem EXCEPT ![theVM] = Boot]
      /\ vcpu' = [d \in CPUs |-> IF VmOf(d) = theVM THEN [vcpu[d] EXCEPT !.regs = Boot] ELSE vcpu[d]]
      /\ UNCHANGED <<pools, hdr, latest_ss_id, pc, ssid>>
    BY <1>1, Zenon DEF restart_vm, pool_vars
<1>3. at' = "guest"
    BY <1>1, <1>2, Zenon DEF at
<1>4. Saved' = Saved /\ Completed' = Completed
    BY <1>1, <1>2, <1>3, SameSaved, Zenon
<1>5. mem'[theVM] = Boot
    BY <1>1, <1>2, Zenon DEF SnapType
<1>6. vcpu'[theCPU].regs = Boot
  <2>1. [vcpu[theCPU] EXCEPT !.regs = Boot].regs = Boot
    BY <1>1, Zenon
  <2> QED
    BY <1>1, <1>2, <2>1, Zenon DEF theVM
<1>7. State' = -1
    BY <1>1, <1>5, <1>6, StateShown, ShownBoot, Zenon
<1>8. Store!Free
    BY <1>1, FreeNow, Zenon DEF Running
<1> QED
    BY <1>2, <1>4, <1>7, <1>8, Zenon DEF Store!Restart

\* One step of a handler is a step of SnapshotStore or leaves it alone.
LEMMA StoreNext ==
    ASSUME SnapInv, SnapInv', AlwaysRoom', [Next]_vars
    PROVE  [Store!Next]_(Store!vars)
<1>0. OneCPU /\ theCPU \in CPUs /\ at' # "no_memory" /\ at' \in Places /\ SnapType
    BY Zenon DEF SnapInv, OneCPU, AlwaysRoom, at, SnapType
<1>1. CASE Next
  <2>1. PICK c \in CPUs : Checkpoint(c) \/ Restore(c) \/ guest_halt_reset(c) \/ restart_vm(c)
    BY <1>1, Zenon DEF Next
  <2>2. c = theCPU
    BY <1>0, Zenon DEF OneCPU
  <2>3. CASE checkpoint_snapshot_handler(theCPU) \/ ss_pool_init(theCPU) \/ get_new_ss(theCPU)
    BY <1>0, <2>3, GetEvicts, Zenon DEF Store!Next
  <2>4. CASE fill_snapshot(theCPU)
    BY <2>4, FillRuns, Zenon DEF Store!Next
  <2>5. CASE update_ss_pool_last(theCPU)
    BY <2>5, UpdateCheckpoints, Zenon DEF Store!Next
  <2>6. CASE restore_latest(theCPU)
    <3>1. at = "guest" /\ UNCHANGED <<pools, hdr, mem, vcpu, latest_ss_id>>
      BY <2>6, Zenon DEF restore_latest, at, pool_vars
    <3>2. /\ at' \in {"copy", "invalid_id"} /\ ssid'[theCPU] = LATEST_SSID
          /\ at' # "copy" => Live = {}
      BY <2>6, LatestStep, Zenon
    <3>3. ssid'[theCPU] # NoId
      BY <3>2, SMTT(30) DEF NoId, LATEST_SSID
    <3>4. Store!Ask \/ Store!Stop
      BY <1>0, <3>1, <3>2, <3>3, AskOrStop, Zenon DEF Running
    <3> QED
      BY <3>4, Zenon DEF Store!Next
  <2>7. ASSUME NEW id \in Asked, restore_by_id(theCPU, id) PROVE Store!Next
    <3>1. /\ at = "guest" /\ id \in Nat /\ get_ss_by_id(theCPU, id)
          /\ ssid' = [ssid EXCEPT ![theCPU] = id]
          /\ UNCHANGED <<used, last, pools, init, latest_ss, latest_ss_id, hdr, mem, vcpu>>
      BY <2>7, SnapshotAssumption, Zenon DEF restore_by_id, at, pool_vars
    <3>2. /\ at' \in {"copy", "invalid_id", "astray"}
          /\ at' # "copy" => \A x \in Live : Id(x) # id
      BY <3>1, ByIdStep, Zenon
    <3>3. ssid'[theCPU] = id /\ id # NoId /\ id # LATEST_SSID
      BY <1>0, <3>1, SMTT(30) DEF NoId, LATEST_SSID, SnapType
    <3>4. Store!Ask \/ Store!Stop
      BY <1>0, <3>1, <3>2, <3>3, AskOrStop, Zenon DEF Running
    <3> QED
      BY <3>4, Zenon DEF Store!Next
  <2>8. CASE restore_snapshot_handler_by_ss(theCPU)
    BY <2>8, CopyRestores, Zenon DEF Store!Next
  <2>9. CASE guest_halt_reset(theCPU)
    <3>1. at = "guest" /\ UNCHANGED <<pools, hdr, mem, vcpu, latest_ss_id>>
      BY <2>9, Zenon DEF guest_halt_reset, at, pool_vars
    <3>2. /\ at' \in {"copy", "invalid_id", "astray", "too_many_resets"}
          /\ ssid'[theCPU] = SystemReset
          /\ at' # "copy" => \A x \in Live : Id(x) # SystemReset
      BY <2>9, ResetStep, Zenon
    <3>3. SystemReset # NoId /\ SystemReset # LATEST_SSID
      BY Sizes, SMTT(30) DEF NoId, LATEST_SSID, SystemReset
    <3>4. Store!Ask \/ Store!Stop
      BY <1>0, <3>1, <3>2, <3>3, AskOrStop, Zenon DEF Running
    <3> QED
      BY <3>4, Zenon DEF Store!Next
  <2>10. CASE restart_vm(theCPU)
    BY <2>10, RestartRestarts, Zenon DEF Store!Next
  <2> QED
    BY <2>1, <2>2, <2>3, <2>4, <2>5, <2>6, <2>7, <2>8, <2>9, <2>10, ZenonT(30) DEF Checkpoint, Restore
<1>2. CASE UNCHANGED vars
  <2>1. UNCHANGED <<pools, hdr, latest_ss_id, mem, vcpu, pc, ssid>>
    BY <1>2, Zenon DEF vars
  <2>2. Live' = Live /\ \A x : Id(x)' = Id(x)
    BY <2>1, Zenon DEF Live, Id, At
  <2>3. Tidy /\ Tidy' /\ Ids' = Ids
    BY <2>2, TidyFollows, TidyNext, Zenon DEF Ids
  <2>4. Saved' = Saved
    BY <2>3, Zenon DEF Tidy
  <2>5. Completed' = Completed
    BY <2>1, Zenon DEF Completed
  <2>6. State' = State
    BY <2>1, Zenon DEF State
  <2> QED
    BY <2>1, <2>4, <2>5, <2>6, Zenon DEF Store!vars
<1> QED
    BY <1>1, <1>2, Zenon

\* At boot SnapshotStore is empty.
LEMMA StoreInit ==
    ASSUME OneCPU, Init
    PROVE  Store!Init
<1>1. SnapInv
    BY InitSnap, Zenon
<1>2. /\ theCPU \in CPUs /\ theVM \in VMs /\ at = "guest" /\ n = 0 /\ ssid[theCPU] = NoId
      /\ latest_ss_id = 0 /\ mem[theVM] = Boot /\ vcpu[theCPU].regs = Boot
    BY SnapshotAssumption, Zenon DEF OneCPU, theVM, Init, at, n
<1>3. Completed = 0
    BY <1>2, Complete, SMTT(30)
<1>4. State = -1
    BY <1>2, StateShown, ShownBoot, Zenon
<1>5. Live = {}
    BY <1>2, SMTT(30) DEF Live, n
<1>6. Saved = <<>>
  <2>1. Ids = {}
    BY <1>5, Zenon DEF Ids
  <2>2. Saved = [id \in {} |-> id]
    BY <1>1, <2>1, TidyFollows, Zenon DEF Tidy
  <2> QED
    BY <2>2, SMTT(30)
<1>7. (pc[theCPU] \in Running) = TRUE
    BY <1>2, Zenon DEF at, Running
<1> QED
    BY <1>2, <1>3, <1>4, <1>6, <1>7, Zenon DEF Store!Init

\* As long as get_new_ss finds room, the handlers implement SnapshotStore: what
\* restore_snapshot_handler brings back under a number is what
\* checkpoint_snapshot_handler saved under it, eviction gives up the oldest only,
\* and no step in between changes a saved state.
THEOREM HandlersImplementStore ==
    ASSUME OneCPU
    PROVE  Spec /\ []AlwaysRoom => RefinesStore
<1>1. Init => Store!Init
    BY StoreInit, Zenon
<1>2. SnapInv /\ SnapInv' /\ AlwaysRoom' /\ [Next]_vars => [Store!Next]_(Store!vars)
    BY StoreNext, Zenon
<1> QED
    BY <1>1, <1>2, SnapInvariant, PTL DEF Spec, RefinesStore, Store!Spec

\* The pages taken at boot, the number of the others, and the pages of the pools of a list.
Base == {p \in Pages : p < BootPages \/ p >= NrPages - BitmapPages}
Room == NrPages - BootPages - BitmapPages
Under(list) == UNION {Block(list[k].page) : k \in 1..Len(list)}

\* A pool lies between what boot has taken at both ends.
Inside(p) == p \in Int /\ BootPages <= p /\ p + PoolPages <= NrPages - BitmapPages

\* The places where pools are laid with PlatformSizes, upwards.
Bottom == BootPages
Low == 2 * BootPages
Middle == 2 * BootPages + PoolPages
Upper == 4 * BootPages + PoolPages
Top == 4 * BootPages + 2 * PoolPages

One(list, x) == Len(list) = 1 /\ list[1].page = x
Two(list, x, y) == Len(list) = 2 /\ list[1].page = x /\ list[2].page = y
Three(list, x, y, z) ==
    Len(list) = 3 /\ list[1].page = x /\ list[2].page = y /\ list[3].page = z

\* The lists of pools that come about: up to three pools, then, as the earliest
\* gives way each time, three of them in turn.
Layout(list, l) ==
    \/ Len(list) = 0 /\ l = Bottom
    \/ One(list, Low) /\ l = Low + PoolPages
    \/ Two(list, Low, Upper) /\ l = Upper + PoolPages
    \/ Three(list, Low, Upper, Top) /\ l = Top + PoolPages
    \/ Three(list, Upper, Top, Bottom) /\ l = Bottom + PoolPages
    \/ Three(list, Top, Bottom, Middle) /\ l = Middle + PoolPages
    \/ Three(list, Bottom, Middle, Top) /\ l = Top + PoolPages
    \/ Three(list, Middle, Top, Bottom) /\ l = Bottom + PoolPages

RoomInv ==
    at # "no_memory" /\ pools \in Seq(Pools) /\ used = Base \cup Under(pools) /\ Layout(pools, last)

\* The sizes again, with the room that boot leaves.
LEMMA RoomSizes ==
    /\ NrPages \in Nat /\ PoolPages \in Nat /\ PoolPages > 0 /\ BootPages \in Nat /\ BitmapPages \in Nat
    /\ Room \in Nat /\ Room >= PoolPages /\ BootPages + PoolPages + BitmapPages <= NrPages
    BY SnapshotAssumption, SMTT(30) DEF Room

\* What lies between is not taken at boot.
LEMMA InsideFree ==
    ASSUME NEW p, Inside(p)
    PROVE  /\ Block(p) \cap Base = {} /\ p \in 0..(NrPages - PoolPages) /\ Block(p) \subseteq Pages
    BY RoomSizes, SMTT(30) DEF Inside, Block, Base, Pages

\* The places of PlatformSizes lie inside, each pool of a layout beside the others.
LEMMA Spots ==
    ASSUME PlatformSizes
    PROVE  /\ Inside(Bottom) /\ Inside(Low) /\ Inside(Middle) /\ Inside(Upper) /\ Inside(Top)
           /\ Bottom + PoolPages <= Middle /\ Middle + PoolPages <= Top
           /\ Low + PoolPages <= Upper /\ Upper + PoolPages <= Top
           /\ Bottom + PoolPages <= Upper
    BY RoomSizes, SMTT(30) DEF PlatformSizes, Inside, Bottom, Low, Middle, Upper, Top

\* Pools that lie in order have no page in common.
LEMMA Beside ==
    ASSUME NEW p, Inside(p), NEW o, Inside(o), p + PoolPages <= o
    PROVE  Block(p) \cap Block(o) = {} /\ Block(o) \cap Block(p) = {}
<1>1. p \in Int /\ o \in Int
    BY Zenon DEF Inside
<1> QED
    BY <1>1, BlocksDisjoint, Zenon

\* Remainders of the places.
LEMMA Remainder ==
    ASSUME NEW m \in Nat \ {0}, NEW q \in Nat, NEW r \in 0..(m - 1)
    PROVE  (m * q + r) % m = r
    BY SMTT(30)

\* Where the first search of pp_alloc starts after each of the pools.
LEMMA Starts ==
    ASSUME PlatformSizes
    PROVE  /\ Bottom + (Bottom % PoolPages) = Low
           /\ (Bottom + PoolPages) + ((Bottom + PoolPages) % PoolPages) = Middle
           /\ (Low + PoolPages) + ((Low + PoolPages) % PoolPages) = Upper
           /\ (Middle + PoolPages) + ((Middle + PoolPages) % PoolPages) = Top
           /\ (Upper + PoolPages) + ((Upper + PoolPages) % PoolPages) = 8 * BootPages + PoolPages
           /\ (Top + PoolPages) + ((Top + PoolPages) % PoolPages) = 8 * BootPages + 2 * PoolPages
<1>1. /\ PoolPages \in Nat \ {0} /\ BootPages \in Nat /\ 2 * BootPages < PoolPages
      /\ PoolPages <= 4 * BootPages
    BY RoomSizes, SMTT(30) DEF PlatformSizes
<1>2. /\ BootPages \in 0..(PoolPages - 1) /\ 2 * BootPages \in 0..(PoolPages - 1)
      /\ 4 * BootPages - PoolPages \in 0..(PoolPages - 1)
    BY <1>1, SMTT(30)
<1>3. /\ (PoolPages * 0 + BootPages) % PoolPages = BootPages
      /\ (PoolPages * 1 + BootPages) % PoolPages = BootPages
      /\ (PoolPages * 1 + 2 * BootPages) % PoolPages = 2 * BootPages
      /\ (PoolPages * 2 + 2 * BootPages) % PoolPages = 2 * BootPages
      /\ (PoolPages * 3 + (4 * BootPages - PoolPages)) % PoolPages = 4 * BootPages - PoolPages
      /\ (PoolPages * 4 + (4 * BootPages - PoolPages)) % PoolPages = 4 * BootPages - PoolPages
  <2>1. 0 \in Nat /\ 1 \in Nat /\ 2 \in Nat /\ 3 \in Nat /\ 4 \in Nat
    BY SMTT(30)
  <2> QED
    BY <1>1, <1>2, <2>1, Remainder, Zenon
<1>4. /\ PoolPages * 0 + BootPages = Bottom
      /\ PoolPages * 1 + BootPages = Bottom + PoolPages
      /\ PoolPages * 1 + 2 * BootPages = Low + PoolPages
      /\ PoolPages * 2 + 2 * BootPages = Middle + PoolPages
      /\ PoolPages * 3 + (4 * BootPages - PoolPages) = Upper + PoolPages
      /\ PoolPages * 4 + (4 * BootPages - PoolPages) = Top + PoolPages
    BY <1>1, SMTT(30) DEF Bottom, Low, Middle, Upper, Top
<1>5. /\ Bottom % PoolPages = BootPages /\ (Bottom + PoolPages) % PoolPages = BootPages
      /\ (Low + PoolPages) % PoolPages = 2 * BootPages /\ (Middle + PoolPages) % PoolPages = 2 * BootPages
      /\ (Upper + PoolPages) % PoolPages = 4 * BootPages - PoolPages
      /\ (Top + PoolPages) % PoolPages = 4 * BootPages - PoolPages
    BY <1>3, <1>4, Zenon
<1>6. /\ Bottom + BootPages = Low /\ (Bottom + PoolPages) + BootPages = Middle
      /\ (Low + PoolPages) + 2 * BootPages = Upper /\ (Middle + PoolPages) + 2 * BootPages = Top
      /\ (Upper + PoolPages) + (4 * BootPages - PoolPages) = 8 * BootPages + PoolPages
      /\ (Top + PoolPages) + (4 * BootPages - PoolPages) = 8 * BootPages + 2 * PoolPages
    BY <1>1, SMTT(30) DEF Bottom, Low, Middle, Upper, Top
<1> QED
    BY <1>5, <1>6, Zenon

\* pp_alloc finds its run of pages at t.
FitsAt(u, t) == Fit(u) # {} /\ Lowest(Fit(u)) = t

\* The least member of a set is where it starts.
LEMMA LowestIs ==
    ASSUME NEW S \in SUBSET Int, NEW t \in S, \A p \in S : t <= p
    PROVE  Lowest(S) = t
<1>1. \A p \in S : (\A o \in S : p <= o) => p = t
    BY SMTT(30)
<1> QED
    BY <1>1, ZenonT(30) DEF Lowest

\* The first search ends where it starts if the pages there are free.
LEMMA FitAfter ==
    ASSUME NEW u, NEW t, Inside(t), last + (last % PoolPages) = t, Block(t) \cap u = {}
    PROVE  FitsAt(u, t)
<1>1. t \in 0..(NrPages - PoolPages) /\ t \in Int
    BY InsideFree, Zenon DEF Inside
<1>2. t \in t..(NrPages - PoolPages)
    BY <1>1, RoomSizes, SMTT(30)
<1>3. t \in Runs(u, t) /\ Runs(u, t) \in SUBSET Int /\ \A p \in Runs(u, t) : t <= p
    BY <1>1, <1>2, RoomSizes, SMTT(30) DEF Runs
<1>4. Fit(u) = Runs(u, t)
    BY <1>3, Zenon DEF Fit
<1>5. Lowest(Runs(u, t)) = t
    BY <1>3, LowestIs, Zenon
<1> QED
    BY <1>3, <1>4, <1>5, Zenon DEF FitsAt

\* The second search, when the first starts too close to the bitmap, ends at the
\* first run of free pages.
LEMMA FitRound ==
    ASSUME NEW u, Base \subseteq u, NEW t, Inside(t), Block(t) \cap u = {},
           NEW s \in Nat, last + (last % PoolPages) = s, NrPages - BitmapPages < s + PoolPages,
           \A p \in BootPages..(t - 1) : Block(p) \cap u # {}
    PROVE  FitsAt(u, t)
<1>1. t \in 0..(NrPages - PoolPages) /\ t \in Int
    BY InsideFree, Zenon DEF Inside
<1>2. ASSUME NEW p \in 0..(NrPages - PoolPages), p >= s \/ p < BootPages
      PROVE  Block(p) \cap u # {}
  <2>1. /\ p \in Block(p) /\ p + PoolPages - 1 \in Block(p)
        /\ p < BootPages => p \in Base
        /\ p >= s => p + PoolPages - 1 \in Base
    BY RoomSizes, SMTT(30) DEF Block, Base, Pages
  <2> QED
    BY <1>2, <2>1, Zenon
<1>3. Runs(u, s) = {}
  <2>1. \A p \in s..(NrPages - PoolPages) : p \in 0..(NrPages - PoolPages) /\ p >= s
    BY RoomSizes, SMTT(30)
  <2> QED
    BY <1>2, <2>1, Zenon DEF Runs
<1>4. Fit(u) = Runs(u, 0)
    BY <1>3, Zenon DEF Fit
<1>5. t \in Runs(u, 0) /\ Runs(u, 0) \in SUBSET Int
    BY <1>1, RoomSizes, SMTT(30) DEF Runs
<1>6. ASSUME NEW p \in Runs(u, 0) PROVE t <= p
  <2>1. p \in 0..(NrPages - PoolPages) /\ Block(p) \cap u = {}
    BY Zenon DEF Runs
  <2>2. p \notin BootPages..(t - 1) /\ ~(p < BootPages)
    BY <1>2, <2>1, Zenon
  <2> QED
    BY <1>1, <2>1, <2>2, RoomSizes, SMTT(30)
<1>7. Lowest(Runs(u, 0)) = t
    BY <1>5, <1>6, LowestIs, Zenon
<1> QED
    BY <1>4, <1>5, <1>7, Zenon DEF FitsAt

\* Where pp_alloc lays the next pool of every layout, the earliest pool gone where
\* there were three.
LEMMA NextSpot ==
    ASSUME PlatformSizes
    PROVE  /\ last = Bottom => FitsAt(Base, Low)
           /\ last = Low + PoolPages => FitsAt(Base \cup Block(Low), Upper)
           /\ last = Upper + PoolPages => FitsAt(Base \cup (Block(Low) \cup Block(Upper)), Top)
           /\ last = Top + PoolPages => FitsAt(Base \cup (Block(Upper) \cup Block(Top)), Bottom)
           /\ last = Top + PoolPages => FitsAt(Base \cup (Block(Middle) \cup Block(Top)), Bottom)
           /\ last = Bottom + PoolPages => FitsAt(Base \cup (Block(Top) \cup Block(Bottom)), Middle)
           /\ last = Middle + PoolPages => FitsAt(Base \cup (Block(Bottom) \cup Block(Middle)), Top)
<1>1. /\ Inside(Bottom) /\ Inside(Low) /\ Inside(Middle) /\ Inside(Upper) /\ Inside(Top)
      /\ Bottom + PoolPages <= Middle /\ Middle + PoolPages <= Top
      /\ Low + PoolPages <= Upper /\ Upper + PoolPages <= Top
      /\ Bottom + PoolPages <= Upper
    BY Spots, Zenon
<1>2. /\ Block(Low) \cap Base = {} /\ Block(Upper) \cap Base = {} /\ Block(Top) \cap Base = {}
      /\ Block(Bottom) \cap Base = {} /\ Block(Middle) \cap Base = {}
    BY <1>1, InsideFree, Zenon
<1>3. /\ Block(Upper) \cap Block(Low) = {} /\ Block(Top) \cap Block(Upper) = {}
      /\ Block(Bottom) \cap Block(Upper) = {} /\ Block(Middle) \cap Block(Bottom) = {}
      /\ Block(Middle) \cap Block(Top) = {} /\ Block(Top) \cap Block(Middle) = {}
    BY <1>1, Beside, Zenon
<1>4. Block(Top) \cap Block(Low) = {} /\ Block(Bottom) \cap Block(Top) = {} /\ Block(Top) \cap Block(Bottom) = {}
  <2>1. Low + PoolPages <= Top /\ Bottom + PoolPages <= Top
    BY <1>1, RoomSizes, SMTT(30) DEF Inside
  <2> QED
    BY <1>1, <2>1, Beside, Zenon
<1>5. ASSUME last = Bottom PROVE FitsAt(Base, Low)
    BY <1>1, <1>2, <1>5, Starts, FitAfter, Zenon
<1>6. ASSUME last = Low + PoolPages PROVE FitsAt(Base \cup Block(Low), Upper)
  <2>1. Block(Upper) \cap (Base \cup Block(Low)) = {}
    BY <1>2, <1>3, Zenon
  <2> QED
    BY <1>1, <1>6, <2>1, Starts, FitAfter, Zenon
<1>7. ASSUME last = Upper + PoolPages PROVE FitsAt(Base \cup (Block(Low) \cup Block(Upper)), Top)
  <2> DEFINE u == Base \cup (Block(Low) \cup Block(Upper))
             s == 8 * BootPages + PoolPages
  <2>1. Block(Top) \cap u = {} /\ Base \subseteq u
    BY <1>2, <1>3, <1>4, Zenon
  <2>2. s \in Nat /\ NrPages - BitmapPages < s + PoolPages
    BY RoomSizes, SMTT(30) DEF PlatformSizes
  <2>3. ASSUME NEW p \in BootPages..(Top - 1) PROVE Block(p) \cap u # {}
    <3>1. \/ p \in Block(p) /\ p \in Block(Low) \cup Block(Upper)
          \/ Low \in Block(p) \/ Upper \in Block(p)
      BY RoomSizes, SMTT(30) DEF Block, PlatformSizes, Low, Upper, Top
    <3>2. Low \in Block(Low) /\ Upper \in Block(Upper)
      BY RoomSizes, SMTT(30) DEF Block, Low, Upper
    <3> QED
      BY <3>1, <3>2, Zenon
  <2>4. last + (last % PoolPages) = s
    BY <1>7, Starts, Zenon
  <2> HIDE DEF u, s
  <2>5. FitsAt(u, Top)
    BY <1>1, <2>1, <2>2, <2>3, <2>4, FitRound, Zenon
  <2> QED
    BY <2>5, Zenon DEF u
<1>8. ASSUME last = Top + PoolPages, NEW x, x \cap Block(Bottom) = {}
      PROVE  FitsAt(Base \cup (x \cup Block(Top)), Bottom)
  <2> DEFINE u == Base \cup (x \cup Block(Top))
             s == 8 * BootPages + 2 * PoolPages
  <2>1. Block(Bottom) \cap u = {} /\ Base \subseteq u
    BY <1>2, <1>4, <1>8, Zenon
  <2>2. s \in Nat /\ NrPages - BitmapPages < s + PoolPages
    BY RoomSizes, SMTT(30) DEF PlatformSizes
  <2>3. BootPages..(Bottom - 1) = {}
    BY RoomSizes, SMTT(30) DEF Bottom
  <2>4. last + (last % PoolPages) = s
    BY <1>8, Starts, Zenon
  <2> HIDE DEF u, s
  <2>5. FitsAt(u, Bottom)
    BY <1>1, <2>1, <2>2, <2>3, <2>4, FitRound, Zenon
  <2> QED
    BY <2>5, Zenon DEF u
<1>9. ASSUME last = Bottom + PoolPages PROVE FitsAt(Base \cup (Block(Top) \cup Block(Bottom)), Middle)
  <2>1. Block(Middle) \cap (Base \cup (Block(Top) \cup Block(Bottom))) = {}
    BY <1>2, <1>3, Zenon
  <2> QED
    BY <1>1, <1>9, <2>1, Starts, FitAfter, Zenon
<1>10. ASSUME last = Middle + PoolPages PROVE FitsAt(Base \cup (Block(Bottom) \cup Block(Middle)), Top)
  <2>1. Block(Top) \cap (Base \cup (Block(Bottom) \cup Block(Middle))) = {}
    BY <1>2, <1>3, <1>4, Zenon
  <2> QED
    BY <1>1, <1>10, <2>1, Starts, FitAfter, Zenon
<1>11. Block(Upper) \cap Block(Bottom) = {}
    BY <1>3, Zenon
<1> QED
    BY <1>3, <1>5, <1>6, <1>7, <1>8, <1>9, <1>10, <1>11, ZenonT(30)

\* How many pages boot has taken, and how many are free with one pool in place or with two.
LEMMA BaseCount == IsFiniteSet(Base) /\ Cardinality(Base) = BootPages + BitmapPages
<1> DEFINE A == 0..(BootPages - 1)
           B == (NrPages - BitmapPages)..(NrPages - 1)
<1>1. IsFiniteSet(A) /\ Cardinality(A) = BootPages
    BY RoomSizes, FS_Interval, SMTT(30)
<1>2. IsFiniteSet(B) /\ Cardinality(B) = BitmapPages
    BY RoomSizes, FS_Interval, SMTT(30)
<1>4. Base = A \cup B /\ A \cap B = {}
    BY RoomSizes, SMTT(30) DEF Base, Pages
<1> HIDE DEF A, B
<1>5. Cardinality({}) = 0
    BY FS_EmptySet, Zenon
<1>6. IsFiniteSet(Base) /\ Cardinality(Base) = BootPages + BitmapPages
  <2>1. IsFiniteSet(A \cup B) /\ Cardinality(A \cup B) = Cardinality(A) + Cardinality(B) - Cardinality(A \cap B)
    BY <1>1, <1>2, FS_Union, Zenon
  <2>2. Cardinality(A \cap B) = 0
    BY <1>4, <1>5, Zenon
  <2>3. Cardinality(A \cup B) = BootPages + BitmapPages
    BY <1>1, <1>2, <2>1, <2>2, RoomSizes, SMTT(30)
  <2> QED
    BY <1>4, <2>1, <2>3, Zenon
<1> QED
    BY <1>6, Zenon

\* A pool beside what is in use takes PoolPages more.
LEMMA CountMore ==
    ASSUME NEW S, IsFiniteSet(S), NEW p, Inside(p), S \cap Block(p) = {}
    PROVE  IsFiniteSet(S \cup Block(p)) /\ Cardinality(S \cup Block(p)) = Cardinality(S) + PoolPages
<1>1. IsFiniteSet(Block(p)) /\ Cardinality(Block(p)) = PoolPages
    BY RoomSizes, FS_Interval, SMTT(30) DEF Inside, Block
<1>2. Cardinality(S \cap Block(p)) = 0 /\ Cardinality(S) \in Nat
    BY FS_EmptySet, FS_CardinalityType, Zenon
<1>3. /\ IsFiniteSet(S \cup Block(p))
      /\ Cardinality(S \cup Block(p)) = Cardinality(S) + Cardinality(Block(p)) - Cardinality(S \cap Block(p))
    BY <1>1, FS_Union, Zenon
<1> QED
    BY <1>1, <1>2, <1>3, RoomSizes, SMTT(30)

\* The pages that are free beside one pool.
LEMMA FreeOne ==
    ASSUME NEW p, Inside(p)
    PROVE  FreePages(Base \cup Block(p)) = Room - PoolPages
<1>1. Base \cap Block(p) = {}
    BY InsideFree, Zenon
<1>2. Cardinality(Base \cup Block(p)) = BootPages + BitmapPages + PoolPages
    BY <1>1, BaseCount, CountMore, ZenonT(30)
<1> QED
    BY <1>2, RoomSizes, SMTT(30) DEF FreePages, Room

\* The pages that are free beside two pools.
LEMMA FreeTwo ==
    ASSUME NEW p, Inside(p), NEW o, Inside(o), Block(p) \cap Block(o) = {}
    PROVE  FreePages(Base \cup (Block(p) \cup Block(o))) = Room - 2 * PoolPages
<1> DEFINE C == Base \cup Block(p)
<1>1. Base \cap Block(p) = {} /\ Base \cap Block(o) = {}
    BY InsideFree, Zenon
<1>2. IsFiniteSet(C) /\ Cardinality(C) = BootPages + BitmapPages + PoolPages
    BY <1>1, BaseCount, CountMore, Zenon
<1>3. Base \cup (Block(p) \cup Block(o)) = C \cup Block(o) /\ C \cap Block(o) = {}
    BY <1>1, Zenon
<1> HIDE DEF C
<1>4. Cardinality(C \cup Block(o)) = BootPages + BitmapPages + PoolPages + PoolPages
    BY <1>2, <1>3, CountMore, Zenon
<1>5. FreePages(Base \cup (Block(p) \cup Block(o))) = NrPages - Cardinality(C \cup Block(o))
    BY <1>3, Zenon DEF FreePages
<1> QED
    BY <1>4, <1>5, RoomSizes, SMTT(30) DEF Room

\* The pages that are free beside three pools.
LEMMA FreeThree ==
    ASSUME NEW p, Inside(p), NEW o, Inside(o), NEW q, Inside(q),
           Block(p) \cap Block(o) = {}, Block(p) \cap Block(q) = {}, Block(o) \cap Block(q) = {}
    PROVE  FreePages(Base \cup (Block(p) \cup (Block(o) \cup Block(q)))) = Room - 3 * PoolPages
<1> DEFINE C == Base \cup Block(p)
           D == C \cup Block(o)
<1>1. Base \cap Block(p) = {} /\ Base \cap Block(o) = {} /\ Base \cap Block(q) = {}
    BY InsideFree, Zenon
<1>2. IsFiniteSet(C) /\ Cardinality(C) = BootPages + BitmapPages + PoolPages
    BY <1>1, BaseCount, CountMore, Zenon
<1>3. C \cap Block(o) = {}
    BY <1>1, Zenon
<1> HIDE DEF C
<1>4. IsFiniteSet(D) /\ Cardinality(D) = BootPages + BitmapPages + PoolPages + PoolPages
    BY <1>2, <1>3, CountMore, Zenon
<1>5. /\ Base \cup (Block(p) \cup (Block(o) \cup Block(q))) = D \cup Block(q)
      /\ D \cap Block(q) = {}
    BY <1>1, Zenon DEF C
<1> HIDE DEF D
<1>6. Cardinality(D \cup Block(q)) = BootPages + BitmapPages + PoolPages + PoolPages + PoolPages
    BY <1>4, <1>5, CountMore, Zenon
<1>7. FreePages(D \cup Block(q)) = NrPages - Cardinality(D \cup Block(q))
    BY Zenon DEF FreePages
<1>8. FreePages(D \cup Block(q)) = Room - 3 * PoolPages
    BY <1>6, <1>7, RoomSizes, SMTT(30) DEF Room
<1> QED
    BY <1>5, <1>8, Zenon

\* The pages of a list of one, two or three pools.
LEMMA UnderAll ==
    ASSUME NEW list, NEW x, NEW y, NEW z
    PROVE  /\ Len(list) = 0 => Under(list) = {}
           /\ One(list, x) => Under(list) = Block(x)
           /\ Two(list, x, y) => Under(list) = Block(x) \cup Block(y)
           /\ Three(list, x, y, z) => Under(list) = Block(x) \cup (Block(y) \cup Block(z))
<1>1. 1..0 = {} /\ 1..1 = {1} /\ 1..2 = {1, 2} /\ 1..3 = {1, 2, 3}
    BY SMTT(30)
<1>2. ASSUME Len(list) = 0 PROVE Under(list) = {}
    BY <1>1, <1>2, Zenon DEF Under
<1>3. ASSUME One(list, x) PROVE Under(list) = Block(x)
    BY <1>1, <1>3, SMTT(30) DEF Under, One
<1>4. ASSUME Two(list, x, y) PROVE Under(list) = Block(x) \cup Block(y)
    BY <1>1, <1>4, SMTT(30) DEF Under, Two
<1>5. ASSUME Three(list, x, y, z) PROVE Under(list) = Block(x) \cup (Block(y) \cup Block(z))
    BY <1>1, <1>5, SMTT(30) DEF Under, Three
<1> QED
    BY <1>2, <1>3, <1>4, <1>5, Zenon

\* alloc_ss_pool lays the new pool at t.
LEMMA AllocAt ==
    ASSUME SnapInv, NEW list \in Seq(Pools), NEW u, u = Base \cup Under(list), NEW t, FitsAt(u, t),
           NEW next, next # "no_memory", alloc_ss_pool(theCPU, u, list, next)
    PROVE  /\ at' # "no_memory" /\ pools' \in Seq(Pools) /\ used' = Base \cup Under(pools')
           /\ last' = t + PoolPages
           /\ Len(pools') = Len(list) + 1 /\ pools'[Len(list) + 1].page = t
           /\ \A k \in 1..Len(list) : pools'[k] = list[k]
<1>1. last \in Nat /\ pc \in [CPUs -> Places] /\ theCPU \in CPUs
    BY Zenon DEF SnapInv, SnapType, OneCPU
<1>2. Fit(u) # {} /\ Lowest(Fit(u)) = t
    BY Zenon DEF FitsAt
<1>3. t \in 0..(NrPages - PoolPages)
    BY <1>1, <1>2, FitFree, Zenon
<1> DEFINE x == [page |-> t, last |-> 0]
<1>4. /\ pc' = [pc EXCEPT ![theCPU] = next] /\ used' = u \cup Block(t) /\ pools' = Append(list, x)
      /\ last' = t + PoolPages
    BY <1>2, Zenon DEF alloc_ss_pool, Goto
<1>5. at' # "no_memory"
    BY <1>1, <1>4, Zenon DEF at
<1>6. x \in Pools /\ x.page = t
    BY <1>3, SMTT(30) DEF Pools, Slots
<1> HIDE DEF x
<1>8. /\ pools' \in Seq(Pools) /\ Len(list) \in Nat /\ Len(pools') = Len(list) + 1
      /\ pools'[Len(list) + 1] = x /\ \A k \in 1..Len(list) : pools'[k] = list[k]
    BY <1>4, <1>6, SMTT(30)
<1>9. used' = Base \cup Under(pools')
  <2>1. Under(pools') = Under(list) \cup Block(t)
    <3>1. 1..Len(pools') = (1..Len(list)) \cup {Len(list) + 1}
      BY <1>8, SMTT(30)
    <3> QED
      BY <1>6, <1>8, <3>1, SMTT(30) DEF Under
  <2> QED
    BY <1>4, <2>1, Zenon
<1> QED
    BY <1>4, <1>5, <1>6, <1>8, <1>9, Zenon

\* get_new_ss with one pool in place: a second one.
LEMMA SecondPool ==
    ASSUME SnapInv, RoomInv, PlatformSizes, One(pools, Low), last = Low + PoolPages,
           get_new_ss(theCPU), Full(pools[Len(pools)])
    PROVE  RoomInv'
<1>1. Under(pools) = Block(Low) /\ pools \in Seq(Pools) /\ used = Base \cup Under(pools)
    BY UnderAll, Zenon DEF RoomInv
<1>2. ~Scarce(used)
  <2>1. FreePages(used) = Room - PoolPages
    BY <1>1, Spots, FreeOne, Zenon
  <2> QED
    BY <2>1, RoomSizes, SMTT(30) DEF Scarce, PlatformSizes, Room
<1>3. alloc_ss_pool(theCPU, used, pools, "fill") /\ "fill" # "no_memory"
    BY <1>2, Zenon DEF get_new_ss
<1>4. FitsAt(used, Upper)
    BY <1>1, NextSpot, Zenon
<1>5. /\ at' # "no_memory" /\ pools' \in Seq(Pools) /\ used' = Base \cup Under(pools')
      /\ last' = Upper + PoolPages
      /\ Len(pools') = Len(pools) + 1 /\ pools'[Len(pools) + 1].page = Upper
      /\ \A k \in 1..Len(pools) : pools'[k] = pools[k]
    BY <1>1, <1>3, <1>4, AllocAt, Zenon
<1>6. Two(pools', Low, Upper)
    BY <1>5, SMTT(30) DEF One, Two
<1> QED
    BY <1>5, <1>6, Zenon DEF RoomInv, Layout, Base, Under, Low, Upper

\* get_new_ss with two pools in place: a third one.
LEMMA ThirdPool ==
    ASSUME SnapInv, RoomInv, PlatformSizes, Two(pools, Low, Upper), last = Upper + PoolPages,
           get_new_ss(theCPU), Full(pools[Len(pools)])
    PROVE  RoomInv'
<1>1. /\ Under(pools) = Block(Low) \cup Block(Upper) /\ pools \in Seq(Pools)
      /\ used = Base \cup Under(pools)
    BY UnderAll, Zenon DEF RoomInv
<1>2. ~Scarce(used)
  <2>1. Inside(Low) /\ Inside(Upper) /\ Block(Low) \cap Block(Upper) = {}
    BY Spots, Beside, Zenon
  <2>2. FreePages(Base \cup (Block(Low) \cup Block(Upper))) = Room - 2 * PoolPages
    BY <2>1, FreeTwo, Zenon
  <2>3. FreePages(used) = Room - 2 * PoolPages
    BY <1>1, <2>2, Zenon
  <2> QED
    BY <2>3, RoomSizes, SMTT(30) DEF Scarce, PlatformSizes, Room
<1>3. alloc_ss_pool(theCPU, used, pools, "fill") /\ "fill" # "no_memory"
    BY <1>2, Zenon DEF get_new_ss
<1>4. FitsAt(used, Top)
    BY <1>1, NextSpot, Zenon
<1>5. /\ at' # "no_memory" /\ pools' \in Seq(Pools) /\ used' = Base \cup Under(pools')
      /\ last' = Top + PoolPages
      /\ Len(pools') = Len(pools) + 1 /\ pools'[Len(pools) + 1].page = Top
      /\ \A k \in 1..Len(pools) : pools'[k] = pools[k]
    BY <1>1, <1>3, <1>4, AllocAt, Zenon
<1>6. Three(pools', Low, Upper, Top)
    BY <1>5, SMTT(30) DEF Two, Three
<1> QED
    BY <1>5, <1>6, Zenon DEF RoomInv, Layout, Base, Under, Low, Upper, Top

\* get_new_ss with three pools in place: the earliest gives way to the new one.
LEMMA PoolInstead ==
    ASSUME SnapInv, RoomInv, PlatformSizes, get_new_ss(theCPU), Full(pools[Len(pools)]),
           NEW x, NEW y, NEW z, Inside(x), Inside(y), Inside(z), Three(pools, x, y, z),
           NEW t, FitsAt(Base \cup (Block(y) \cup Block(z)), t)
    PROVE  /\ at' # "no_memory" /\ pools' \in Seq(Pools) /\ used' = Base \cup Under(pools')
           /\ last' = t + PoolPages /\ Three(pools', y, z, t)
<1>1. /\ Under(pools) = Block(x) \cup (Block(y) \cup Block(z)) /\ pools \in Seq(Pools)
      /\ used = Base \cup Under(pools) /\ n = 3 /\ Len(pools) = 3
      /\ pools[1].page = x /\ pools[2].page = y /\ pools[3].page = z
  <2>1. Under(pools) = Block(x) \cup (Block(y) \cup Block(z))
    BY UnderAll, SMTT(30)
  <2> QED
    BY <2>1, Zenon DEF RoomInv, Three, n
<1>2. Block(x) \cap Block(y) = {} /\ Block(x) \cap Block(z) = {} /\ Block(y) \cap Block(z) = {}
  <2>1. 1 \in 1..Len(pools) /\ 2 \in 1..Len(pools) /\ 3 \in 1..Len(pools) /\ 1 # 2 /\ 1 # 3 /\ 2 # 3
    BY <1>1, SMTT(30)
  <2>2. /\ x + PoolPages <= y \/ y + PoolPages <= x
        /\ x + PoolPages <= z \/ z + PoolPages <= x
        /\ y + PoolPages <= z \/ z + PoolPages <= y
    BY <1>1, <2>1, Zenon DEF SnapInv, Laid
  <2> QED
    BY <2>2, Beside, Zenon
<1>3. Scarce(used)
  <2>1. FreePages(Base \cup (Block(x) \cup (Block(y) \cup Block(z)))) = Room - 3 * PoolPages
    BY <1>2, FreeThree, Zenon
  <2>2. FreePages(used) = Room - 3 * PoolPages
    BY <1>1, <2>1, Zenon
  <2> QED
    BY <2>2, RoomSizes, SMTT(30) DEF Scarce, PlatformSizes, Room
<1> DEFINE list == Tail(pools)
           u == used \ Block(x)
<1>4. alloc_ss_pool(theCPU, u, list, "fill") /\ "fill" # "no_memory"
  <2>1. n > 0
    BY <1>1, SMTT(30)
  <2>2. (CHOOSE p \in Range(pools) : p \notin Range(Evicted(pools))) = pools[1]
    BY <2>1, EarliestGone, ZenonT(30)
  <2> QED
    BY <1>1, <1>3, <2>2, Zenon DEF get_new_ss, Evicted
<1>5. list \in Seq(Pools) /\ Two(list, y, z)
    BY <1>1, SMTT(30) DEF Two
<1>6. Block(x) \cap Base = {}
    BY InsideFree, Zenon
<1>7. u = Base \cup (Block(y) \cup Block(z))
    BY <1>1, <1>2, <1>6, Zenon
<1> HIDE DEF list, u
<1>8. u = Base \cup Under(list) /\ FitsAt(u, t)
    BY <1>5, <1>7, UnderAll, Zenon
<1>9. /\ at' # "no_memory" /\ pools' \in Seq(Pools) /\ used' = Base \cup Under(pools')
      /\ last' = t + PoolPages
      /\ Len(pools') = Len(list) + 1 /\ pools'[Len(list) + 1].page = t
      /\ \A k \in 1..Len(list) : pools'[k] = list[k]
    BY <1>4, <1>5, <1>8, AllocAt, ZenonT(30)
<1>10. Three(pools', y, z, t)
    BY <1>5, <1>9, SMTT(30) DEF Two, Three
<1> QED
    BY <1>9, <1>10, Zenon

\* Steps that take and free no pages.
LEMMA RoomKept ==
    ASSUME RoomInv, UNCHANGED <<pools, used, last>>, at' # "no_memory"
    PROVE  RoomInv'
    BY Zenon DEF RoomInv, Layout, One, Two, Three, Base, Under, Bottom, Low, Middle, Upper, Top

\* update_ss_pool_last
LEMMA UpdateRoom ==
    ASSUME SnapInv, SnapInv', RoomInv, update_ss_pool_last(theCPU)
    PROVE  RoomInv'
<1>1. /\ pools \in Seq(Pools) /\ n = Len(pools) /\ n \in Nat /\ n > 0 /\ pools' \in Seq(Pools)
      /\ pc \in [CPUs -> Places] /\ theCPU \in CPUs
    BY PoolFacts, Zenon DEF SnapInv, SnapType, Filled, update_ss_pool_last, at, n, OneCPU
<1>2. /\ pools' = [pools EXCEPT ![n].last = @ + 1] /\ pc' = [pc EXCEPT ![theCPU] = "guest"]
      /\ used' = used /\ last' = last
    BY Zenon DEF update_ss_pool_last, Goto, n
<1>3. at' # "no_memory"
    BY <1>1, <1>2, Zenon DEF at
<1>4. Len(pools') = Len(pools) /\ \A k \in 1..Len(pools) : pools'[k].page = pools[k].page
  <2> DEFINE y == [pools[n] EXCEPT !.last = @ + 1]
  <2>1. pools[n] \in Pools
    BY <1>1, SMTT(30)
  <2>2. y.page = pools[n].page
    BY <2>1, Zenon DEF Pools
  <2>3. pools' = [pools EXCEPT ![n] = y]
    BY <1>2, Zenon
  <2> HIDE DEF y
  <2> QED
    BY <1>1, <2>2, <2>3, SMTT(30)
<1>5. Under(pools') = Under(pools)
    BY <1>4, Zenon DEF Under
<1>6. ASSUME NEW x, NEW y, NEW z
      PROVE  /\ One(pools, x) => One(pools', x)
             /\ Two(pools, x, y) => Two(pools', x, y)
             /\ Three(pools, x, y, z) => Three(pools', x, y, z)
    BY <1>4, SMTT(30) DEF One, Two, Three
<1>7. Layout(pools', last')
    BY <1>2, <1>4, <1>6, ZenonT(30) DEF RoomInv, Layout
<1>8. used' = Base \cup Under(pools')
    BY <1>2, <1>5, Zenon DEF RoomInv
<1> QED
    BY <1>1, <1>3, <1>7, <1>8, Zenon DEF RoomInv, Layout, One, Two, Three, Base, Under, Bottom, Low, Middle, Upper, Top

\* get_new_ss
LEMMA GetKeepsRoom ==
    ASSUME SnapInv, RoomInv, get_new_ss(theCPU), PlatformSizes
    PROVE  RoomInv'
<1>1. n > 0 /\ n = Len(pools) /\ pc \in [CPUs -> Places] /\ theCPU \in CPUs
    BY Zenon DEF SnapInv, get_new_ss, at, Filled, SnapType, OneCPU, n
<1>2. CASE ~Full(pools[Len(pools)])
  <2>1. pc' = [pc EXCEPT ![theCPU] = "fill"] /\ UNCHANGED <<used, pools, last>>
    BY <1>2, Zenon DEF get_new_ss, Goto
  <2>2. at' # "no_memory"
    BY <1>1, <2>1, Zenon DEF at
  <2> QED
    BY <2>1, <2>2, RoomKept, Zenon
<1>3. CASE Full(pools[Len(pools)])
  <2>0. Len(pools) # 0 /\ Layout(pools, last)
    BY <1>1, SMTT(30) DEF RoomInv
  <2>1. CASE One(pools, Low) /\ last = Low + PoolPages
    BY <1>3, <2>1, SecondPool, Zenon
  <2>2. CASE Two(pools, Low, Upper) /\ last = Upper + PoolPages
    BY <1>3, <2>2, ThirdPool, Zenon
  <2>3. Inside(Bottom) /\ Inside(Low) /\ Inside(Middle) /\ Inside(Upper) /\ Inside(Top)
    BY Spots, Zenon
  <2>4. CASE Three(pools, Low, Upper, Top) /\ last = Top + PoolPages
    <3>1. FitsAt(Base \cup (Block(Upper) \cup Block(Top)), Bottom)
      BY <2>4, NextSpot, Zenon
    <3>2. /\ at' # "no_memory" /\ pools' \in Seq(Pools) /\ used' = Base \cup Under(pools')
          /\ last' = Bottom + PoolPages /\ Three(pools', Upper, Top, Bottom)
      BY <1>3, <2>3, <2>4, <3>1, PoolInstead, Zenon
    <3> QED
      BY <3>2, Zenon DEF RoomInv, Layout, Base, Under, Bottom, Upper, Top
  <2>5. CASE Three(pools, Upper, Top, Bottom) /\ last = Bottom + PoolPages
    <3>1. FitsAt(Base \cup (Block(Top) \cup Block(Bottom)), Middle)
      BY <2>5, NextSpot, Zenon
    <3>2. /\ at' # "no_memory" /\ pools' \in Seq(Pools) /\ used' = Base \cup Under(pools')
          /\ last' = Middle + PoolPages /\ Three(pools', Top, Bottom, Middle)
      BY <1>3, <2>3, <2>5, <3>1, PoolInstead, Zenon
    <3> QED
      BY <3>2, Zenon DEF RoomInv, Layout, Base, Under, Bottom, Middle, Top
  <2>6. CASE Three(pools, Top, Bottom, Middle) /\ last = Middle + PoolPages
    <3>1. FitsAt(Base \cup (Block(Bottom) \cup Block(Middle)), Top)
      BY <2>6, NextSpot, Zenon
    <3>2. /\ at' # "no_memory" /\ pools' \in Seq(Pools) /\ used' = Base \cup Under(pools')
          /\ last' = Top + PoolPages /\ Three(pools', Bottom, Middle, Top)
      BY <1>3, <2>3, <2>6, <3>1, PoolInstead, Zenon
    <3> QED
      BY <3>2, Zenon DEF RoomInv, Layout, Base, Under, Bottom, Middle, Top
  <2>7. CASE Three(pools, Bottom, Middle, Top) /\ last = Top + PoolPages
    <3>1. FitsAt(Base \cup (Block(Middle) \cup Block(Top)), Bottom)
      BY <2>7, NextSpot, Zenon
    <3>2. /\ at' # "no_memory" /\ pools' \in Seq(Pools) /\ used' = Base \cup Under(pools')
          /\ last' = Bottom + PoolPages /\ Three(pools', Middle, Top, Bottom)
      BY <1>3, <2>3, <2>7, <3>1, PoolInstead, ZenonT(30)
    <3> QED
      BY <3>2, Zenon DEF RoomInv, Layout, Base, Under, Bottom, Middle, Top
  <2>8. CASE Three(pools, Middle, Top, Bottom) /\ last = Bottom + PoolPages
    <3>1. FitsAt(Base \cup (Block(Top) \cup Block(Bottom)), Middle)
      BY <2>8, NextSpot, Zenon
    <3>2. /\ at' # "no_memory" /\ pools' \in Seq(Pools) /\ used' = Base \cup Under(pools')
          /\ last' = Middle + PoolPages /\ Three(pools', Top, Bottom, Middle)
      BY <1>3, <2>3, <2>8, <3>1, PoolInstead, Zenon
    <3> QED
      BY <3>2, Zenon DEF RoomInv, Layout, Base, Under, Bottom, Middle, Top
  <2> QED
    BY <2>0, <2>1, <2>2, <2>4, <2>5, <2>6, <2>7, <2>8, ZenonT(30) DEF Layout
<1> QED
    BY <1>2, <1>3, Zenon

\* ss_pool_init
LEMMA PoolInitRoom ==
    ASSUME SnapInv, RoomInv, ss_pool_init(theCPU), PlatformSizes
    PROVE  RoomInv'
<1>1. /\ n = 0 /\ n = Len(pools) /\ pools \in Seq(Pools)
  <2>1. at = "pool_init"
    BY Zenon DEF ss_pool_init, at
  <2>2. ~(n > 0)
    BY <2>1, Zenon DEF SnapInv, Filled
  <2>3. n \in Nat /\ pools \in Seq(Pools)
    BY PoolFacts, Zenon DEF SnapInv, SnapType
  <2> QED
    BY <2>2, <2>3, SMTT(30) DEF n
<1>2. pools = <<>> /\ <<>> \in Seq(Pools) /\ Len(<<>>) = 0 /\ Len(pools) \notin {1, 2, 3}
    BY <1>1, SMTT(30)
<1>3. last = Bottom /\ used = Base \cup Under(pools)
    BY <1>2, Zenon DEF RoomInv, Layout, One, Two, Three
<1> DEFINE list == <<>>
<1>4. list \in Seq(Pools) /\ Len(list) = 0 /\ pools = list
    BY <1>2, Zenon
<1>5. alloc_ss_pool(theCPU, used, list, "get") /\ "get" # "no_memory"
    BY Zenon DEF ss_pool_init
<1> HIDE DEF list
<1>6. used = Base \cup Under(list) /\ FitsAt(used, Low)
  <2>1. Under(list) = {}
    BY <1>4, UnderAll, Zenon
  <2>2. used = Base
    BY <1>3, <1>4, <2>1, Zenon
  <2> QED
    BY <1>3, <1>4, <2>2, NextSpot, Zenon
<1>7. /\ at' # "no_memory" /\ pools' \in Seq(Pools) /\ used' = Base \cup Under(pools')
      /\ last' = Low + PoolPages
      /\ Len(pools') = Len(list) + 1 /\ pools'[Len(list) + 1].page = Low
      /\ \A k \in 1..Len(list) : pools'[k] = list[k]
  <2>1. list \in Seq(Pools)
    BY <1>4, Zenon
  <2> QED
    BY <1>5, <1>6, <2>1, AllocAt, Zenon
<1>8. One(pools', Low)
    BY <1>4, <1>7, SMTT(30) DEF One
<1> QED
    BY <1>7, <1>8, Zenon DEF RoomInv, Layout, Base, Under, Low

\* Every step leads from one layout to the next or keeps it, and never stops for want of memory.
LEMMA RoomStep ==
    ASSUME SnapInv, SnapInv', RoomInv, [Next]_vars, PlatformSizes
    PROVE  RoomInv'
<1>0. OneCPU /\ theCPU \in CPUs /\ pc \in [CPUs -> Places]
    BY Zenon DEF SnapInv, OneCPU, SnapType
<1>1. CASE Next
  <2>1. PICK c \in CPUs : Checkpoint(c) \/ Restore(c) \/ guest_halt_reset(c) \/ restart_vm(c)
    BY <1>1, Zenon DEF Next
  <2>2. c = theCPU
    BY <1>0, Zenon DEF OneCPU
  <2>3. CASE checkpoint_snapshot_handler(theCPU) \/ fill_snapshot(theCPU)
    <3>1. UNCHANGED <<pools, used, last>> /\ at' # "no_memory"
      BY <1>0, <2>3, Zenon DEF checkpoint_snapshot_handler, fill_snapshot, pool_vars, Goto, at
    <3> QED
      BY <3>1, RoomKept, Zenon
  <2>4. CASE Restore(theCPU)
    <3>1. CASE restore_latest(theCPU)
      <4>1. UNCHANGED <<pools, used, last>> /\ at' # "no_memory"
        BY <1>0, <3>1, Zenon DEF restore_latest, pool_vars, Goto, at
      <4> QED
        BY <4>1, RoomKept, Zenon
    <3>2. ASSUME NEW id \in Asked, restore_by_id(theCPU, id) PROVE RoomInv'
      <4>1. UNCHANGED <<pools, used, last>> /\ at' # "no_memory"
        BY <1>0, <3>2, Zenon DEF restore_by_id, get_ss_by_id, pool_vars, Goto, at
      <4> QED
        BY <4>1, RoomKept, Zenon
    <3>3. CASE restore_snapshot_handler_by_ss(theCPU)
      <4>1. UNCHANGED <<pools, used, last>> /\ at' # "no_memory"
        BY <1>0, <3>3, Zenon DEF restore_snapshot_handler_by_ss, pool_vars, Goto, at
      <4> QED
        BY <4>1, RoomKept, Zenon
    <3> QED
      BY <2>4, <3>1, <3>2, <3>3, ZenonT(30) DEF Restore
  <2>5. CASE guest_halt_reset(theCPU)
    <3>1. UNCHANGED <<pools, used, last>> /\ at' # "no_memory"
      BY <1>0, <2>5, ZenonT(30) DEF guest_halt_reset, get_ss_by_id, pool_vars, Goto, at
    <3> QED
      BY <3>1, RoomKept, Zenon
  <2>6. CASE restart_vm(theCPU)
    <3>1. UNCHANGED <<pools, used, last>> /\ at' # "no_memory"
      BY <1>0, <2>6, Zenon DEF restart_vm, pool_vars, at, RoomInv
    <3> QED
      BY <3>1, RoomKept, Zenon
  <2> QED
    BY <2>1, <2>2, <2>3, <2>4, <2>5, <2>6, PoolInitRoom, GetKeepsRoom, UpdateRoom, ZenonT(30) DEF Checkpoint
<1>2. CASE UNCHANGED vars
  <2>1. UNCHANGED <<pools, used, last>> /\ at' # "no_memory"
    BY <1>2, Zenon DEF vars, at, RoomInv
  <2> QED
    BY <2>1, RoomKept, Zenon
<1> QED
    BY <1>1, <1>2, Zenon

\* At boot all of the room is free.
LEMMA InitRoom ==
    ASSUME OneCPU, Init
    PROVE  RoomInv
<1>1. pools = <<>> /\ used = Base /\ at # "no_memory" /\ last = Bottom
    BY Zenon DEF Init, Base, at, OneCPU, Bottom
<1>2. <<>> \in Seq(Pools) /\ Len(<<>>) = 0
    BY SMTT(30)
<1>3. Under(<<>>) = {}
    BY <1>2, UnderAll, Zenon
<1> QED
    BY <1>1, <1>2, <1>3, Zenon DEF RoomInv, Layout

\* With the proportions of the platform that runs one machine, get_new_ss never
\* stops for want of a run of pages, however many checkpoints there are: its rule,
\* to evict when less than two pools are free, keeps three pools, and pp_alloc
\* lays them at five places in turn such that the gap the earliest leaves is wide
\* enough or the place behind the latest is free.
THEOREM RoomForPools ==
    ASSUME OneCPU, PlatformSizes
    PROVE  Spec => []AlwaysRoom
<1>1. Init => RoomInv
    BY InitRoom, Zenon
<1>2. SnapInv /\ SnapInv' /\ RoomInv /\ [Next]_vars => RoomInv'
    BY RoomStep, Zenon
<1>3. RoomInv => AlwaysRoom
    BY Zenon DEF RoomInv, AlwaysRoom, at, OneCPU
<1> QED
    BY <1>1, <1>2, <1>3, SnapInvariant, PTL DEF Spec

\* There the handlers of lcm.c implement SnapshotStore with no further proviso.
THEOREM PlatformStore ==
    ASSUME OneCPU, PlatformSizes
    PROVE  Spec => RefinesStore
    BY RoomForPools, HandlersImplementStore, PTL
==============================================================================
