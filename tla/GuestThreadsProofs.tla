-------------------------- MODULE GuestThreadsProofs --------------------------
(***************************************************************************)
(* Proofs about the mailbox of GuestThreads and about the threads that     *)
(* wait, for any number of threads and any size of the mailbox, with       *)
(* interrupts between any two steps: the mailbox is a bounded queue, and   *)
(* no wake-up is lost.                                                     *)
(***************************************************************************)
EXTENDS GuestThreads, SequenceTheorems, TLAPS

\* Positions in the ring: what the remainder is for the sums the code forms.
LEMMA Wraps ==
    ASSUME NEW x \in Nat, x < 2 * len
    PROVE  x % len = IF x < len THEN x ELSE x - len
<1>1. len \in Nat \ {0}
  BY GuestThreadsConstants DEF len
<1> HIDE DEF len
<1>2. ASSUME NEW q \in Nat, NEW r \in 0..(len - 1)
      PROVE  (len * q + r) % len = r
  BY <1>1, SMT
<1>3. CASE x < len
  BY <1>1, <1>3, SMT
<1>4. CASE x >= len
  <2>1. x - len \in 0..(len - 1) /\ x = len * 1 + (x - len)
    BY <1>1, <1>4
  <2>2. (len * 1 + (x - len)) % len = x - len
    BY <1>2, <2>1, Zenon
  <2>3. QED
    BY <1>1, <1>4, <2>1, <2>2
<1>5. QED
  BY <1>1, <1>3, <1>4

\* The slot k places ahead of slot r.
LEMMA Ahead ==
    ASSUME NEW r \in 0..Size, NEW k \in 0..Size
    PROVE  (r + k) % len = IF r + k < len THEN r + k ELSE r + k - len
<1>1. len \in Nat /\ len = Size + 1 /\ Size \in Nat
  BY GuestThreadsConstants DEF len
<1> HIDE DEF len
<1> DEFINE x == r + k
<1>2. x \in Nat /\ x < 2 * len
  BY <1>1
<1>3. x % len = IF x < len THEN x ELSE x - len
  <2> HIDE DEF x
  <2> QED
    BY <1>2, Wraps, Zenon
<1>4. QED
  BY <1>1, <1>3

\* How far slot w is ahead of slot r.
LEMMA Distance ==
    ASSUME NEW r \in 0..Size, NEW w \in 0..Size
    PROVE  (w + len - r) % len = IF w < r THEN w + len - r ELSE w - r
<1>1. len \in Nat /\ len = Size + 1 /\ Size \in Nat
  BY GuestThreadsConstants DEF len
<1> HIDE DEF len
<1> DEFINE x == w + len - r
<1>2. x \in Nat /\ x < 2 * len
  BY <1>1, SMTT(30)
<1>3. x % len = IF x < len THEN x ELSE x - len
  <2> HIDE DEF x
  <2> QED
    BY <1>2, Wraps, Zenon
<1>4. QED
  BY <1>1, <1>3

\* Posting adds one to what is in a ring that is not full, receiving takes one
\* from a ring that is not empty.
LEMMA RingSteps ==
    ASSUME NEW r \in 0..Size, NEW w \in 0..Size
    PROVE  /\ (w + 1) % len \in 0..Size
           /\ (w + len - r) % len \in 0..Size
           /\ (w + len - r) % len < Size =>
                 (((w + 1) % len) + len - r) % len = ((w + len - r) % len) + 1
           /\ (w + len - r) % len > 0 =>
                 (w + len - ((r + 1) % len)) % len = ((w + len - r) % len) - 1
<1>1. len \in Nat /\ len = Size + 1 /\ Size \in Nat
  BY GuestThreadsConstants DEF len
<1> HIDE DEF len
<1>2. 1 \in 0..Size
  BY GuestThreadsConstants
<1>3. (w + 1) % len = IF w + 1 < len THEN w + 1 ELSE w + 1 - len
  BY <1>2, Ahead, Zenon
<1>4. (r + 1) % len = IF r + 1 < len THEN r + 1 ELSE r + 1 - len
  BY <1>2, Ahead, Zenon
<1>5. (w + len - r) % len = IF w < r THEN w + len - r ELSE w - r
  BY Distance, Zenon
<1>6. (w + 1) % len \in 0..Size /\ (r + 1) % len \in 0..Size
  BY <1>1, <1>3, <1>4
<1>7. /\ (((w + 1) % len) + len - r) % len =
             IF (w + 1) % len < r THEN ((w + 1) % len) + len - r ELSE ((w + 1) % len) - r
      /\ (w + len - ((r + 1) % len)) % len =
             IF w < (r + 1) % len THEN w + len - ((r + 1) % len) ELSE w - ((r + 1) % len)
  <2> DEFINE v == (w + 1) % len   q == (r + 1) % len
  <2>1. v \in 0..Size /\ q \in 0..Size
    BY <1>6, Zenon
  <2> HIDE DEF v, q
  <2>2. /\ (v + len - r) % len = IF v < r THEN v + len - r ELSE v - r
        /\ (w + len - q) % len = IF w < q THEN w + len - q ELSE w - q
    BY <2>1, Distance, Zenon
  <2>3. QED
    BY <2>2, Zenon DEF v, q
<1>8. QED
  BY <1>1, <1>3, <1>4, <1>5, <1>6, <1>7, SMTT(30)

-----------------------------------------------------------------------------
\* The mailbox as uk_mbox_create leaves it.
LEMMA InitIInv == Init => IInv
<1> SUFFICES ASSUME Init PROVE IInv
  OBVIOUS
<1>1. Size \in Nat \ {0} /\ Timeout \in Nat /\ len = Size + 1
  BY GuestThreadsConstants, Zenon DEF len
<1>2. {"current", "next"} \subseteq DOMAIN sched
  BY Zenon DEF Init
<1>3. th \in [All -> Thread]
  BY DEF Init, Running, Gone, Thread, Places, Never
<1>4. count \in [Objs -> Nat] /\ owner = NoThread
  BY <1>1, Zenon DEF Init
<1>5. box \in [msgs : [0..Size -> Msgs \cup {NoMsg}], readpos : 0..Size, writepos : 0..Size]
  BY <1>1 DEF Init
<1>6. \A t \in All : th[t].pc \in {"run", "gc", "gone"}
  BY Zenon DEF Init, Running, Gone
<1>7. Filled = 0
  <2>1. (0 + len - 0) % len = 0
    BY <1>1, Wraps
  <2>2. QED
    BY <2>1, Zenon DEF Init, Filled
<1>8. RingCounted
  BY <1>1, <1>6, <1>7, SMTT(30) DEF Init, RingCounted, Holds, Has, Objs, Sems
<1>9. QED
  BY <1>2, <1>3, <1>4, <1>5, <1>6, <1>8, Zenon DEF IInv, InAccess, Waiting

\* When the CPU is with a thread that is not inside of a call on the mailbox, or
\* on its way to another thread, nobody is.
LEMMA NobodyInAccess ==
    ASSUME IInv, NEW t \in All, NEW pc, pc \notin InAccess, On(t, pc) \/ sched.next # NoThread
    PROVE  \A u \in All : th[u].pc \notin InAccess
BY Zenon DEF IInv, On

\* A step with nobody inside of such a call before and after it leaves the counts
\* right if it touches neither the ring nor the semaphores.
LEMMA QuietStep ==
    ASSUME IInv,
           \A u \in All : th[u].pc \notin InAccess,
           th' \in [All -> Thread],
           \A u \in All : /\ th'[u].pc \notin InAccess
                          /\ th'[u].pc \in Waiting => th'[u].obj \in Objs,
           {"current", "next"} \subseteq DOMAIN sched',
           count' \in [Objs -> Nat], owner' # NoThread => count'["mutex"] > 0,
           \A o \in Sems : count'[o] = count[o],
           box' = box
    PROVE  IInv'
<1>1. /\ ~Holds("readsem") /\ ~Holds("writesem")
      /\ ~Holds("readsem")' /\ ~Holds("writesem")'
  BY Zenon DEF Holds, Has, InAccess
<1>2. Filled' = Filled
  BY Zenon DEF Filled
<1>3. RingCounted'
  BY <1>1, <1>2, Zenon DEF IInv, RingCounted, Sems
<1>4. QED
  BY <1>3, Zenon DEF IInv, InAccess

\* The same for a step of thread t that changes the state of one thread, u.
LEMMA QuietChange ==
    ASSUME IInv, NEW t \in All, NEW p, p \notin InAccess, On(t, p),
           NEW u \in All, NEW x \in Thread,
           x.pc \notin InAccess, x.pc \in Waiting => x.obj \in Objs,
           th' = [th EXCEPT ![u] = x],
           {"current", "next"} \subseteq DOMAIN sched',
           count' \in [Objs -> Nat], owner' # NoThread => count'["mutex"] > 0,
           \A o \in Sems : count'[o] = count[o],
           box' = box
    PROVE  IInv'
<1>1. \A v \in All : th[v].pc \notin InAccess
  BY NobodyInAccess, Zenon
<1>2. th \in [All -> Thread] /\ \A v \in All : th[v].pc \in Waiting => th[v].obj \in Objs
  BY Zenon DEF IInv
<1>3. th' \in [All -> Thread]
  BY <1>2, Zenon
<1>4. \A v \in All : /\ th'[v].pc \notin InAccess
                     /\ th'[v].pc \in Waiting => th'[v].obj \in Objs
  BY <1>1, <1>2, Zenon
<1>5. QED
  BY <1>1, <1>3, <1>4, QuietStep, Zenon

\* Waking and blocking threads keeps the current thread and the next one.
LEMMA Kept ==
    ASSUME NEW s, {"current", "next"} \subseteq DOMAIN s
    PROVE  /\ \A q : LET w == uk_thread_wake(s, q)
                     IN  /\ {"current", "next"} \subseteq DOMAIN w
                         /\ w.current = s.current /\ w.next = s.next
           /\ \A t, timed : {"current", "next"} \subseteq DOMAIN uk_thread_block_until(s, t, timed)
<1>1. ASSUME NEW q
      PROVE  LET w == uk_thread_wake(s, q)
             IN  /\ {"current", "next"} \subseteq DOMAIN w
                 /\ w.current = s.current /\ w.next = s.next
  BY Zenon DEF uk_thread_wake
<1>2. ASSUME NEW t, NEW timed
      PROVE  {"current", "next"} \subseteq DOMAIN uk_thread_block_until(s, t, timed)
  BY Zenon DEF uk_thread_block_until
<1>3. QED
  BY <1>1, <1>2, Zenon

-----------------------------------------------------------------------------
\* The calls of a thread that do not touch the mailbox.
LEMMA CallStep ==
    ASSUME IInv, NEW t \in Threads,
           \/ \E o \in Objs, d \in {Never, Timeout} : WaitFor(t, o, d)
           \/ uk_mutex_trylock(t) \/ uk_mutex_unlock(t)
           \/ uk_sched_yield(t) \/ uk_sched_thread_sleep(t) \/ uk_sched_thread_exit(t)
           \/ \E u \in Threads : uk_sched_thread_terminate(t, u)
           \/ \E u \in Threads : uk_sched_thread_add(t, u)
    PROVE  IInv'
<1>1. /\ t \in All /\ Threads \subseteq All /\ "run" \notin InAccess /\ Timeout \in Int /\ Never \in Int
      /\ th \in [All -> Thread] /\ count \in [Objs -> Nat] /\ (owner # NoThread => count["mutex"] > 0)
      /\ {"current", "next"} \subseteq DOMAIN sched
  BY GuestThreadsConstants DEF All, InAccess, IInv, Never
<1>2. ASSUME NEW x \in {Running, Gone}
      PROVE  x \in Thread /\ x.pc \notin InAccess /\ x.pc \notin Waiting
  BY DEF Running, Gone, Thread, Places, Never, InAccess, Waiting
<1>3. ASSUME NEW o \in Objs, NEW d \in {Never, Timeout}, WaitFor(t, o, d)
      PROVE  IInv'
  <2> DEFINE x == [pc |-> "test", obj |-> o, deadline |-> d]
  <2>1. x \in Thread /\ x.pc \notin InAccess /\ x.obj \in Objs
    BY <1>1, Zenon DEF Thread, Places, InAccess
  <2>2. /\ On(t, "run") /\ th' = [th EXCEPT ![t] = x]
        /\ UNCHANGED <<sched, count, owner, box>>
    BY <1>3, Zenon DEF WaitFor
  <2> HIDE DEF x
  <2>3. QED
    BY <1>1, <2>1, <2>2, QuietChange, Zenon
<1>4. CASE uk_mutex_trylock(t)
  <2>1. /\ On(t, "run") /\ th' = [th EXCEPT ![t] = th[t]] /\ sched' = sched /\ box' = box
        /\ count' \in [Objs -> Nat] /\ \A o \in Sems : count'[o] = count[o]
        /\ th[t] \in Thread /\ th[t].pc = "run"
    BY <1>1, <1>4, SMTT(30) DEF uk_mutex_trylock, On, Objs, Sems
  <2>2. count'["mutex"] > 0
    BY <1>1, <1>4 DEF uk_mutex_trylock, Objs
  <2>3. QED
    BY <1>1, <2>1, <2>2, QuietChange, Zenon DEF InAccess, Waiting
<1>5. CASE uk_mutex_unlock(t)
  <2>1. /\ On(t, "run") /\ th' = [th EXCEPT ![t] = th[t]] /\ box' = box
        /\ th[t] \in Thread /\ th[t].pc = "run"
    BY <1>1, <1>5, Zenon DEF uk_mutex_unlock, On
  <2>2. count["mutex"] > 0
    BY <1>1, <1>5, GuestThreadsConstants, SMTT(30) DEF uk_mutex_unlock, NoThread
  <2>3. /\ count' \in [Objs -> Nat] /\ \A o \in Sems : count'[o] = count[o]
        /\ owner' # NoThread => count'["mutex"] > 0
    BY <1>1, <1>5, <2>2, SMTT(30) DEF uk_mutex_unlock, Objs, Sems
  <2>4. {"current", "next"} \subseteq DOMAIN sched'
    BY <1>1, <1>5, Kept DEF uk_mutex_unlock, uk_waitq_wake_up
  <2>5. QED
    BY <1>1, <2>1, <2>3, <2>4, QuietChange, Zenon DEF InAccess, Waiting
<1>6. CASE uk_sched_yield(t) \/ uk_sched_thread_sleep(t) \/ uk_sched_thread_exit(t)
  <2>1. PICK d \in Int, pc \in {"yield", "exit"} :
            th' = [th EXCEPT ![t] = [th[t] EXCEPT !.pc = pc, !.deadline = d]]
    <3>1. CASE uk_sched_thread_sleep(t)
      BY <1>1, <3>1, Zenon DEF uk_sched_thread_sleep
    <3>2. CASE uk_sched_yield(t) \/ uk_sched_thread_exit(t)
      <4>1. th[t].deadline \in Int
        BY <1>1, Zenon DEF Thread
      <4>2. ASSUME NEW pc \in {"yield", "exit"}
            PROVE  [th[t] EXCEPT !.pc = pc] = [th[t] EXCEPT !.pc = pc, !.deadline = th[t].deadline]
        BY <1>1, Zenon DEF Thread
      <4>3. \E pc \in {"yield", "exit"} : th' = [th EXCEPT ![t] = [th[t] EXCEPT !.pc = pc]]
        BY <3>2, Zenon DEF uk_sched_yield, uk_sched_thread_exit, Goto
      <4>4. QED
        BY <4>1, <4>2, <4>3, ZenonT(30)
    <3>3. QED
      BY <1>6, <3>1, <3>2, Zenon
  <2> DEFINE x == [th[t] EXCEPT !.pc = pc, !.deadline = d]
  <2>2. x \in Thread /\ x.pc \notin InAccess /\ x.pc \notin Waiting
    BY <1>1, Zenon DEF Thread, Places, InAccess, Waiting
  <2>3. On(t, "run") /\ UNCHANGED <<count, owner, box>>
    BY <1>6, Zenon DEF uk_sched_yield, uk_sched_thread_exit, uk_sched_thread_sleep
  <2>4. {"current", "next"} \subseteq DOMAIN sched'
    <3>1. CASE uk_sched_thread_sleep(t)
      <4>1. sched' = uk_thread_block_until(sched, t, TRUE)
        BY <3>1, Zenon DEF uk_sched_thread_sleep
      <4>2. QED
        BY <1>1, <4>1, Zenon DEF uk_thread_block_until
    <3>2. CASE uk_sched_yield(t) \/ uk_sched_thread_exit(t)
      BY <1>1, <3>2, Zenon DEF uk_sched_yield, uk_sched_thread_exit
    <3>3. QED
      BY <1>6, <3>1, <3>2, Zenon
  <2> HIDE DEF x
  <2>5. QED
    BY <1>1, <2>1, <2>2, <2>3, <2>4, QuietChange, Zenon DEF x
<1>7. ASSUME NEW u \in Threads, uk_sched_thread_terminate(t, u) \/ uk_sched_thread_add(t, u)
      PROVE  IInv'
  <2>1. /\ On(t, "run") /\ UNCHANGED <<count, owner, box>>
        /\ \E x \in {Running, Gone} : th' = [th EXCEPT ![u] = x]
    BY <1>7, Zenon DEF uk_sched_thread_terminate, uk_sched_thread_add
  <2>2. {"current", "next"} \subseteq DOMAIN sched'
    BY <1>1, <1>7, Zenon DEF uk_sched_thread_terminate, uk_sched_thread_add
  <2>3. QED
    BY <1>1, <1>2, <2>1, <2>2, QuietChange, Zenon
<1>8. QED
  BY <1>3, <1>4, <1>5, <1>6, <1>7, Zenon

\* The steps of a thread that waits, and of the scheduler, that do not touch the
\* mailbox.
LEMMA WaitStep ==
    ASSUME IInv, NEW t \in Threads, Test(t) \/ Block(t) \/ Woken(t) \/ Leave(t)
    PROVE  IInv'
<1>1. /\ t \in All /\ th \in [All -> Thread] /\ th[t] \in Thread
      /\ count \in [Objs -> Nat] /\ (owner # NoThread => count["mutex"] > 0)
      /\ {"current", "next"} \subseteq DOMAIN sched
      /\ th[t].pc \in Waiting => th[t].obj \in Objs
  BY Zenon DEF All, IInv
<1>2. PICK p \in {"test", "block", "woken", "leave"} : On(t, p)
  BY Zenon DEF Test, Block, Woken, Leave
<1>3. PICK x \in Thread : /\ th' = [th EXCEPT ![t] = x]
                          /\ x.pc \notin InAccess /\ (x.pc \in Waiting => x.obj \in Objs)
  <2>1. CASE th[t].obj \in Objs
    <3>1. \E pc \in Waiting \cup {"yield"} : th' = [th EXCEPT ![t] = [th[t] EXCEPT !.pc = pc]]
      BY <2>1, Zenon DEF Test, Block, Woken, Leave, Goto, Waiting, Objs, Sems
    <3>2. ASSUME NEW pc \in Waiting \cup {"yield"}
          PROVE  LET y == [th[t] EXCEPT !.pc = pc]
                 IN  y \in Thread /\ y.pc \notin InAccess /\ y.obj \in Objs
      BY <1>1, <2>1, Zenon DEF Thread, Places, Waiting, InAccess
    <3>3. QED
      BY <3>1, <3>2, Zenon
  <2>2. CASE th[t].obj \notin Objs
    <3>1. th[t].obj = "none" /\ Woken(t)
      BY <1>1, <2>2, Zenon DEF Thread, Waiting, On, Test, Block, Leave
    <3>2. th' = [th EXCEPT ![t] = Running]
      BY <3>1, Zenon DEF Woken
    <3>3. Running \in Thread /\ Running.pc \notin InAccess /\ Running.pc \notin Waiting
      BY DEF Running, Thread, Places, Never, InAccess, Waiting
    <3>4. QED
      BY <3>2, <3>3, Zenon
  <2>3. QED
    BY <2>1, <2>2, Zenon
<1>4. {"current", "next"} \subseteq DOMAIN sched'
  <2>1. \/ sched' = sched
        \/ \E timed : sched' = uk_thread_block_until(sched, t, timed)
        \/ sched' = uk_thread_wake(sched, <<t>>)
    BY Zenon DEF Test, Block, Woken, Leave
  <2>2. QED
    BY <1>1, <2>1, Kept
<1>5. UNCHANGED <<count, owner, box>>
  BY Zenon DEF Test, Block, Woken, Leave
<1>6. p \notin InAccess
  BY Zenon DEF InAccess
<1>7. QED
  BY <1>1, <1>2, <1>3, <1>4, <1>5, <1>6, QuietChange, Zenon

\* The scheduler and the idle thread.
LEMMA SchedStep ==
    ASSUME IInv,
           \/ \E t \in All : schedcoop_schedule(t)
           \/ Switch \/ uk_sched_thread_gc \/ ukplat_lcpu_halt_to \/ TimerInterrupt
    PROVE  IInv'
<1>1. /\ idle \in All /\ th \in [All -> Thread]
      /\ count \in [Objs -> Nat] /\ (owner # NoThread => count["mutex"] > 0)
      /\ {"current", "next"} \subseteq DOMAIN sched
  BY Zenon DEF All, IInv
<1>2. ASSUME NEW t \in All, NEW pc \in {"gc", "woken", "gone", "halt", "yield", "halted"}
      PROVE  LET y == [th[t] EXCEPT !.pc = pc]
             IN  y \in Thread /\ y.pc \notin InAccess /\ y.pc \notin Waiting
  BY <1>1, Zenon DEF Thread, Places, InAccess, Waiting
<1>3. ASSUME NEW t \in All, schedcoop_schedule(t)
      PROVE  IInv'
  <2>1. PICK pc \in {"gc", "woken", "gone"} : th' = [th EXCEPT ![t] = [th[t] EXCEPT !.pc = pc]]
    BY <1>3, Zenon DEF schedcoop_schedule, Goto
  <2>2. PICK p \in {"yield", "exit"} : On(t, p) /\ UNCHANGED <<count, owner, box>>
    BY <1>3, Zenon DEF schedcoop_schedule
  <2> DEFINE s == uk_thread_wake(sched, Expired)
  <2>3. {"current", "next"} \subseteq DOMAIN s
    BY <1>1, Kept
  <2>4. DOMAIN sched' = DOMAIN s
    BY <1>3, Zenon DEF schedcoop_schedule
  <2>5. p \notin InAccess
    BY Zenon DEF InAccess
  <2> DEFINE y == [th[t] EXCEPT !.pc = pc]
  <2>6. y \in Thread /\ y.pc \notin InAccess /\ y.pc \notin Waiting
    BY <1>2, Zenon
  <2>7. {"current", "next"} \subseteq DOMAIN sched' /\ th' = [th EXCEPT ![t] = y]
    BY <2>1, <2>3, <2>4, Zenon
  <2> HIDE DEF y, s
  <2>8. QED
    BY <1>1, <2>2, <2>5, <2>6, <2>7, QuietChange, Zenon
<1>4. CASE Switch
  <2>1. \A u \in All : th[u].pc \notin InAccess
    BY <1>4, Zenon DEF IInv, Switch
  <2>2. UNCHANGED <<th, count, owner, box>> /\ {"current", "next"} \subseteq DOMAIN sched'
    BY <1>1, <1>4, Zenon DEF Switch
  <2>3. \A u \in All : th[u].pc \in Waiting => th[u].obj \in Objs
    BY Zenon DEF IInv
  <2>4. QED
    BY <1>1, <2>1, <2>2, <2>3, QuietStep, Zenon
<1>5. CASE uk_sched_thread_gc \/ ukplat_lcpu_halt_to \/ TimerInterrupt
  <2>1. PICK pc \in {"halt", "yield", "halted"} : th' = [th EXCEPT ![idle] = [th[idle] EXCEPT !.pc = pc]]
    BY <1>5, Zenon DEF uk_sched_thread_gc, ukplat_lcpu_halt_to, TimerInterrupt, Goto
  <2>2. PICK p \in {"gc", "halt", "halted"} : On(idle, p)
    BY <1>5, Zenon DEF uk_sched_thread_gc, ukplat_lcpu_halt_to, TimerInterrupt
  <2>3. UNCHANGED <<count, owner, box>>
    BY <1>5, Zenon DEF uk_sched_thread_gc, ukplat_lcpu_halt_to, TimerInterrupt
  <2>4. {"current", "next"} \subseteq DOMAIN sched'
    BY <1>1, <1>5, Zenon DEF uk_sched_thread_gc, ukplat_lcpu_halt_to, TimerInterrupt
  <2>5. p \notin InAccess
    BY Zenon DEF InAccess
  <2> DEFINE y == [th[idle] EXCEPT !.pc = pc]
  <2>6. y \in Thread /\ y.pc \notin InAccess /\ y.pc \notin Waiting
    BY <1>1, <1>2, Zenon
  <2>7. th' = [th EXCEPT ![idle] = y]
    BY <2>1, Zenon
  <2> HIDE DEF y
  <2>8. QED
    BY <1>1, <2>2, <2>3, <2>4, <2>5, <2>6, <2>7, QuietChange, Zenon
<1>6. QED
  BY <1>3, <1>4, <1>5, Zenon

-----------------------------------------------------------------------------
\* What semaphore o stands for when thread x is the only one that may have taken
\* from it.
Counted(c, x, o) == c[o] + IF Has(x, o) THEN 1 ELSE 0

\* It is a number.
LEMMA CountedInt ==
    ASSUME NEW c \in [Objs -> Nat], NEW x, NEW o \in Objs
    PROVE  Counted(c, x, o) \in Int
<1>1. c[o] \in Int
  OBVIOUS
<1>2. QED
  BY <1>1 DEF Counted

\* Arithmetic: two counts that change as what they count stay right.
LEMMA Sums ==
    ASSUME NEW f \in Int, NEW f1 \in Int, NEW r \in Int, NEW r1 \in Int, NEW w \in Int, NEW w1 \in Int,
           f = r, Size - f = w, f1 - f = r1 - r, f - f1 = w1 - w, Size \in Int
    PROVE  f1 = r1 /\ Size - f1 = w1
OBVIOUS

\* The same with what a thread has taken kept apart.
LEMMA Shifted ==
    ASSUME NEW f \in Int, NEW f1 \in Int, NEW r \in Int, NEW r1 \in Int, NEW w \in Int, NEW w1 \in Int,
           NEW hr \in Int, NEW hw \in Int, Size \in Int,
           f = r + hr, Size - f = w + hw, f1 - f = r1 - r, f - f1 = w1 - w
    PROVE  f1 = r1 + hr /\ Size - f1 = w1 + hw
OBVIOUS

\* The thread that has the CPU is the only one that can be inside of a call on the
\* mailbox: a step of its own keeps the invariant if it keeps the counts right.
LEMMA AccessStep ==
    ASSUME IInv, NEW t \in All, sched.current = t, sched.next = NoThread,
           NEW x \in Thread, th' = [th EXCEPT ![t] = x],
           x.pc \in InAccess => sched' = sched,
           x.pc \in Waiting => x.obj \in Objs, x.pc = "up" => x.obj \in Sems,
           {"current", "next"} \subseteq DOMAIN sched',
           count' \in [Objs -> Nat], owner' # NoThread => count'["mutex"] > 0,
           box' \in [msgs : [0..Size -> Msgs \cup {NoMsg}], readpos : 0..Size, writepos : 0..Size],
           Filled \in Int, Filled' \in Int,
           Filled' - Filled = Counted(count', x, "readsem") - Counted(count, th[t], "readsem"),
           Filled - Filled' = Counted(count', x, "writesem") - Counted(count, th[t], "writesem")
    PROVE  IInv'
<1>1. /\ th \in [All -> Thread] /\ th' \in [All -> Thread] /\ th'[t] = x
      /\ \A u \in All \ {t} : th'[u] = th[u] /\ th[u].pc \notin InAccess
  BY Zenon DEF IInv
<1>2. ASSUME NEW o \in Sems
      PROVE  (Holds(o) <=> Has(th[t], o)) /\ (Holds(o)' <=> Has(x, o))
  BY <1>1, Zenon DEF Holds, Has, InAccess
<1>3. RingCounted'
  <2>1. /\ Holds("readsem") <=> Has(th[t], "readsem")
        /\ Holds("writesem") <=> Has(th[t], "writesem")
        /\ Holds("readsem")' <=> Has(x, "readsem")
        /\ Holds("writesem")' <=> Has(x, "writesem")
    BY <1>2, Zenon DEF Sems
  <2>2. RingCounted /\ count \in [Objs -> Nat] /\ Size \in Nat
    BY GuestThreadsConstants, Zenon DEF IInv
  <2>3. {"readsem", "writesem"} \subseteq Objs
    BY Zenon DEF Objs, Sems
  <2>4. /\ Filled = Counted(count, th[t], "readsem")
        /\ Size - Filled = Counted(count, th[t], "writesem")
    BY <2>1, <2>2, Zenon DEF RingCounted, Counted
  <2>5. ASSUME NEW o \in Objs
        PROVE  Counted(count, th[t], o) \in Int /\ Counted(count', x, o) \in Int
    BY <2>2, CountedInt, Zenon
  <2>6. Filled' = Counted(count', x, "readsem") /\ Size - Filled' = Counted(count', x, "writesem")
    <3> DEFINE f == Filled   f1 == Filled'
               r == Counted(count, th[t], "readsem")    r1 == Counted(count', x, "readsem")
               w == Counted(count, th[t], "writesem")   w1 == Counted(count', x, "writesem")
    <3>1. f \in Int /\ f1 \in Int /\ r \in Int /\ r1 \in Int /\ w \in Int /\ w1 \in Int /\ Size \in Int
      BY <2>2, <2>3, <2>5
    <3>2. f = r /\ Size - f = w /\ f1 - f = r1 - r /\ f - f1 = w1 - w
      BY <2>4, Zenon
    <3> HIDE DEF f, f1, r, r1, w, w1
    <3>3. f1 = r1 /\ Size - f1 = w1
      BY <3>1, <3>2, Sums, SMTT(30)
    <3>4. QED
      BY <3>3, Zenon DEF f1, r1, w1
  <2>7. QED
    BY <2>1, <2>6, Zenon DEF RingCounted, Counted
<1>4. \A u \in All : /\ th'[u].pc \in InAccess => sched'.current = u /\ sched'.next = NoThread
                     /\ th'[u].pc \in Waiting => th'[u].obj \in Objs
                     /\ th'[u].pc = "up" => th'[u].obj \in Sems
  <2>1. ASSUME NEW u \in All \ {t}
        PROVE  /\ th'[u].pc \in InAccess => sched'.current = u /\ sched'.next = NoThread
               /\ th'[u].pc \in Waiting => th'[u].obj \in Objs
               /\ th'[u].pc = "up" => th'[u].obj \in Sems
    BY <1>1, <2>1, Zenon DEF IInv
  <2>2. QED
    BY <1>1, <2>1
<1>5. QED
  BY <1>1, <1>3, <1>4, Zenon DEF IInv

\* What the ring holds after a message is posted, and after one is received.
LEMMA RingChange ==
    ASSUME box \in [msgs : [0..Size -> Msgs \cup {NoMsg}], readpos : 0..Size, writepos : 0..Size]
    PROVE  /\ Filled \in 0..Size
           /\ \A m \in Msgs : box' = Posted(box, m) =>
                 /\ box' \in [msgs : [0..Size -> Msgs \cup {NoMsg}], readpos : 0..Size, writepos : 0..Size]
                 /\ Filled < Size => Filled' = Filled + 1
           /\ box' = Received(box) =>
                 /\ box' \in [msgs : [0..Size -> Msgs \cup {NoMsg}], readpos : 0..Size, writepos : 0..Size]
                 /\ Filled > 0 => Filled' = Filled - 1
<1>1. box.readpos \in 0..Size /\ box.writepos \in 0..Size
  OBVIOUS
<1>2. (box.writepos + 1) % len \in 0..Size /\ (box.readpos + 1) % len \in 0..Size
  BY <1>1, RingSteps, Zenon
<1>3. Filled \in 0..Size
  BY <1>1, RingSteps, Zenon DEF Filled
<1>4. ASSUME NEW m \in Msgs, box' = Posted(box, m)
      PROVE  /\ box' \in [msgs : [0..Size -> Msgs \cup {NoMsg}], readpos : 0..Size, writepos : 0..Size]
             /\ Filled < Size => Filled' = Filled + 1
  <2>1. /\ box'.readpos = box.readpos /\ box'.writepos = (box.writepos + 1) % len
        /\ box' \in [msgs : [0..Size -> Msgs \cup {NoMsg}], readpos : 0..Size, writepos : 0..Size]
    BY <1>1, <1>2, <1>4, Zenon DEF Posted
  <2>2. Filled' = (((box.writepos + 1) % len) + len - box.readpos) % len
    BY <2>1, Zenon DEF Filled
  <2> DEFINE r == box.readpos   w == box.writepos
  <2>3. r \in 0..Size /\ w \in 0..Size
    BY <1>1, Zenon
  <2>4. (w + len - r) % len < Size =>
            (((w + 1) % len) + len - r) % len = ((w + len - r) % len) + 1
    <3> HIDE DEF r, w
    <3> QED
      BY <2>3, RingSteps, Zenon
  <2>5. QED
    BY <2>1, <2>2, <2>4, Zenon DEF Filled
<1>5. ASSUME box' = Received(box)
      PROVE  /\ box' \in [msgs : [0..Size -> Msgs \cup {NoMsg}], readpos : 0..Size, writepos : 0..Size]
             /\ Filled > 0 => Filled' = Filled - 1
  <2>1. /\ box'.readpos = (box.readpos + 1) % len /\ box'.writepos = box.writepos
        /\ box' \in [msgs : [0..Size -> Msgs \cup {NoMsg}], readpos : 0..Size, writepos : 0..Size]
    BY <1>1, <1>2, <1>5, Zenon DEF Received
  <2>2. Filled' = (box.writepos + len - ((box.readpos + 1) % len)) % len
    BY <2>1, Zenon DEF Filled
  <2> DEFINE r == box.readpos   w == box.writepos
  <2>3. r \in 0..Size /\ w \in 0..Size
    BY <1>1, Zenon
  <2>4. (w + len - r) % len > 0 =>
            (w + len - ((r + 1) % len)) % len = ((w + len - r) % len) - 1
    <3> HIDE DEF r, w
    <3> QED
      BY <2>3, RingSteps, Zenon
  <2>5. QED
    BY <2>1, <2>2, <2>4, Zenon DEF Filled
<1>6. QED
  BY <1>3, <1>4, <1>5, Zenon

\* What the invariant says about the thread that has the CPU.
LEMMA InAccessCounts ==
    ASSUME IInv, NEW t \in All, sched.current = t, sched.next = NoThread
    PROVE  /\ th[t] \in Thread /\ Size \in Nat /\ Filled \in 0..Size
           /\ count["readsem"] \in Nat /\ count["writesem"] \in Nat
           /\ Has(th[t], "readsem") => Filled = count["readsem"] + 1
           /\ Has(th[t], "writesem") => Size - Filled = count["writesem"] + 1
           /\ count["writesem"] > 0 => Filled < Size
           /\ count["readsem"] > 0 => Filled > 0
<1>1. /\ RingCounted /\ th[t] \in Thread /\ count["readsem"] \in Nat /\ count["writesem"] \in Nat
      /\ Filled \in 0..Size /\ Size \in Nat
  BY RingChange, GuestThreadsConstants, Zenon DEF IInv, Objs, Sems
<1>2. (Has(th[t], "readsem") => Holds("readsem")) /\ (Has(th[t], "writesem") => Holds("writesem"))
  BY Zenon DEF Holds
<1>3. QED
  BY <1>1, <1>2 DEF RingCounted

\* A thread takes from a semaphore.
LEMMA TakeStep ==
    ASSUME IInv, NEW t \in Threads, Take(t) \/ \E o \in Sems : uk_semaphore_down_try(t, o)
    PROVE  IInv'
<1>1. /\ t \in All /\ th \in [All -> Thread] /\ th[t] \in Thread
      /\ count \in [Objs -> Nat] /\ (owner # NoThread => count["mutex"] > 0)
      /\ {"current", "next"} \subseteq DOMAIN sched
      /\ box \in [msgs : [0..Size -> Msgs \cup {NoMsg}], readpos : 0..Size, writepos : 0..Size]
      /\ th[t].pc \in Waiting => th[t].obj \in Objs
      /\ Sems \subseteq Objs
  BY Zenon DEF All, IInv, Objs
<1>2. UNCHANGED <<sched, box>> /\ sched.current = t /\ sched.next = NoThread /\ th[t].pc \in {"take", "run"}
  BY Zenon DEF Take, uk_semaphore_down_try, On
<1>3. ASSUME NEW o \in Sems, count[o] > 0, count' = [count EXCEPT ![o] = @ - 1], owner' = owner,
             NEW x \in Thread, th' = [th EXCEPT ![t] = x],
             x.pc = IF o = "readsem" THEN "get" ELSE "put"
      PROVE  IInv'
  <2>1. /\ count' \in [Objs -> Nat] /\ (owner' # NoThread => count'["mutex"] > 0)
    BY <1>1, <1>3, SMTT(30) DEF Objs, Sems
  <2>2. Filled' = Filled /\ Filled \in Int
    BY <1>1, <1>2, InAccessCounts, SMTT(30) DEF Filled
  <2>3. ASSUME NEW p \in Sems
        PROVE  Counted(count', x, p) = Counted(count, th[t], p)
    <3>1. count[p] \in Nat /\ count'[p] = IF p = o THEN count[p] - 1 ELSE count[p]
      BY <1>1, <1>3, Zenon
    <3>2. ~Has(th[t], p) /\ (Has(x, p) <=> p = o)
      BY <1>2, <1>3, <2>3, Zenon DEF Has, Sems
    <3>3. QED
      BY <3>1, <3>2 DEF Counted
  <2>4. Counted(count, th[t], "readsem") \in Int /\ Counted(count, th[t], "writesem") \in Int
    BY <1>1, <1>2, InAccessCounts, SMTT(30) DEF Counted
  <2>5. /\ Filled' - Filled = Counted(count', x, "readsem") - Counted(count, th[t], "readsem")
        /\ Filled - Filled' = Counted(count', x, "writesem") - Counted(count, th[t], "writesem")
    BY <2>2, <2>3, <2>4 DEF Sems
  <2>6. x.pc \notin Waiting /\ x.pc # "up"
    BY <1>3, Zenon DEF Waiting
  <2>7. QED
    BY <1>1, <1>2, <1>3, <2>1, <2>2, <2>5, <2>6, AccessStep, Zenon
<1>4. ASSUME NEW o \in Sems, uk_semaphore_down_try(t, o)
      PROVE  IInv'
  <2> DEFINE x == [th[t] EXCEPT !.pc = IF o = "readsem" THEN "get" ELSE "put"]
  <2>1. x \in Thread /\ x.pc = IF o = "readsem" THEN "get" ELSE "put"
    BY <1>1, Zenon DEF Thread, Places
  <2>2. /\ count[o] > 0 /\ count' = [count EXCEPT ![o] = @ - 1] /\ owner' = owner
        /\ th' = [th EXCEPT ![t] = x]
    BY <1>4, Zenon DEF uk_semaphore_down_try, Goto
  <2> HIDE DEF x
  <2>3. QED
    BY <1>3, <2>1, <2>2, Zenon
<1>5. CASE Take(t)
  <2> DEFINE o == th[t].obj
  <2>1. On(t, "take") /\ o \in Objs /\ "take" \notin InAccess
    BY <1>1, <1>5, Zenon DEF Take, On, Waiting, InAccess
  <2>2. Running \in Thread /\ Running.pc = "run"
    BY DEF Running, Thread, Places, Never
  <2>3. CASE ~Condition(o, t)
    <3> DEFINE x == IF th[t].deadline = 0 THEN Running ELSE [th[t] EXCEPT !.pc = "test"]
    <3>1. UNCHANGED <<count, owner>> /\ th' = [th EXCEPT ![t] = x]
      BY <1>5, <2>3, Zenon DEF Take
    <3>2. x \in Thread /\ x.pc \notin InAccess /\ (x.pc \in Waiting => x.obj \in Objs)
      BY <1>1, <2>1, <2>2, Zenon DEF Thread, Places, InAccess, Waiting
    <3> HIDE DEF x, o
    <3>3. QED
      BY <1>1, <1>2, <2>1, <3>1, <3>2, QuietChange, Zenon
  <2>4. CASE Condition(o, t) /\ o \in Sems
    <3> DEFINE x == [Running EXCEPT !.pc = IF o = "readsem" THEN "get" ELSE "put"]
    <3>1. count[o] > 0
      BY <2>4, Zenon DEF Condition, Sems
    <3>2. /\ count' = [count EXCEPT ![o] = @ - 1] /\ owner' = owner
          /\ th' = [th EXCEPT ![t] = x]
      BY <1>5, <2>4, Zenon DEF Take, Sems
    <3>3. x \in Thread /\ x.pc = IF o = "readsem" THEN "get" ELSE "put"
      BY DEF Running, Thread, Places, Never
    <3> HIDE DEF x, o
    <3>4. QED
      BY <1>3, <2>4, <3>1, <3>2, <3>3, Zenon
  <2>5. CASE Condition(o, t) /\ o = "mutex"
    <3>1. /\ count' = [count EXCEPT !["mutex"] = @ + 1]
          /\ th' = [th EXCEPT ![t] = [Running EXCEPT !.pc = "run"]]
      BY <1>5, <2>5, Zenon DEF Take
    <3>2. /\ count' \in [Objs -> Nat] /\ \A p \in Sems : count'[p] = count[p]
          /\ count'["mutex"] > 0
      BY <1>1, <3>1 DEF Objs, Sems
    <3>3. th' = [th EXCEPT ![t] = Running]
      <4>1. [Running EXCEPT !.pc = "run"] = Running
        BY DEF Running
      <4>2. QED
        BY <3>1, <4>1, Zenon
    <3>4. QED
      BY <1>1, <1>2, <2>1, <2>2, <3>2, <3>3, QuietChange, Zenon DEF InAccess, Waiting
  <2>6. QED
    BY <2>1, <2>3, <2>4, <2>5, Zenon DEF Objs
<1>6. QED
  BY <1>4, <1>5, Zenon

\* A thread accesses the ring, and raises the other semaphore.
LEMMA RingStep ==
    ASSUME IInv, NEW t \in Threads, (\E m \in Msgs : Put(t, m)) \/ Get(t) \/ uk_semaphore_up(t)
    PROVE  IInv'
<1>1. /\ t \in All /\ th \in [All -> Thread] /\ th[t] \in Thread
      /\ count \in [Objs -> Nat] /\ (owner # NoThread => count["mutex"] > 0)
      /\ {"current", "next"} \subseteq DOMAIN sched
      /\ box \in [msgs : [0..Size -> Msgs \cup {NoMsg}], readpos : 0..Size, writepos : 0..Size]
      /\ th[t].pc = "up" => th[t].obj \in Sems
      /\ Sems \subseteq Objs
  BY Zenon DEF All, IInv, Objs
<1>2. sched.current = t /\ sched.next = NoThread /\ owner' = owner
  BY Zenon DEF Put, Get, uk_semaphore_up, On
<1>3. /\ Filled \in 0..Size /\ Size \in Nat /\ count["readsem"] \in Nat /\ count["writesem"] \in Nat
      /\ Has(th[t], "readsem") => Filled = count["readsem"] + 1
      /\ Has(th[t], "writesem") => Size - Filled = count["writesem"] + 1
  BY <1>1, <1>2, InAccessCounts, Zenon
<1>4. ASSUME NEW m \in Msgs, Put(t, m)
      PROVE  IInv'
  <2> DEFINE x == [th[t] EXCEPT !.pc = "up", !.obj = "readsem"]
  <2>1. /\ th' = [th EXCEPT ![t] = x] /\ box' = Posted(box, m) /\ UNCHANGED <<sched, count>>
        /\ th[t].pc = "put"
    BY <1>4, Zenon DEF Put, On
  <2>2. x \in Thread /\ x.pc = "up" /\ x.obj = "readsem"
    BY <1>1, Zenon DEF Thread, Places, Objs, Sems
  <2> HIDE DEF x
  <2>3. /\ ~Has(th[t], "readsem") /\ Has(th[t], "writesem")
        /\ Has(x, "readsem") /\ ~Has(x, "writesem")
    BY <2>1, <2>2, Zenon DEF Has
  <2>4. /\ box' \in [msgs : [0..Size -> Msgs \cup {NoMsg}], readpos : 0..Size, writepos : 0..Size]
        /\ Filled' = Filled + 1
    BY <1>1, <1>3, <2>1, <2>3, RingChange, SMTT(30)
  <2>5. /\ Counted(count', x, "readsem") = count["readsem"] + 1
        /\ Counted(count, th[t], "readsem") = count["readsem"]
        /\ Counted(count', x, "writesem") = count["writesem"]
        /\ Counted(count, th[t], "writesem") = count["writesem"] + 1
    BY <1>3, <2>1, <2>3, SMTT(30) DEF Counted
  <2>6. /\ Filled' - Filled = Counted(count', x, "readsem") - Counted(count, th[t], "readsem")
        /\ Filled - Filled' = Counted(count', x, "writesem") - Counted(count, th[t], "writesem")
        /\ Filled \in Int /\ Filled' \in Int
    BY <1>3, <2>4, <2>5, SMTT(30)
  <2>7. x.pc \notin Waiting /\ x.obj \in Sems
    BY <2>2, Zenon DEF Waiting, Sems
  <2>8. QED
    BY <1>1, <1>2, <2>1, <2>2, <2>4, <2>6, <2>7, AccessStep, Zenon
<1>5. CASE Get(t)
  <2> DEFINE x == [th[t] EXCEPT !.pc = "up", !.obj = "writesem"]
  <2>1. /\ th' = [th EXCEPT ![t] = x] /\ box' = Received(box) /\ UNCHANGED <<sched, count>>
        /\ th[t].pc = "get"
    BY <1>5, Zenon DEF Get, On
  <2>2. x \in Thread /\ x.pc = "up" /\ x.obj = "writesem"
    BY <1>1, Zenon DEF Thread, Places, Objs, Sems
  <2> HIDE DEF x
  <2>3. /\ Has(th[t], "readsem") /\ ~Has(th[t], "writesem")
        /\ ~Has(x, "readsem") /\ Has(x, "writesem")
    BY <2>1, <2>2, Zenon DEF Has
  <2>4. /\ box' \in [msgs : [0..Size -> Msgs \cup {NoMsg}], readpos : 0..Size, writepos : 0..Size]
        /\ Filled' = Filled - 1
    BY <1>1, <1>3, <2>1, <2>3, RingChange, SMTT(30)
  <2>5. /\ Counted(count', x, "readsem") = count["readsem"]
        /\ Counted(count, th[t], "readsem") = count["readsem"] + 1
        /\ Counted(count', x, "writesem") = count["writesem"] + 1
        /\ Counted(count, th[t], "writesem") = count["writesem"]
    BY <1>3, <2>1, <2>3, SMTT(30) DEF Counted
  <2>6. /\ Filled' - Filled = Counted(count', x, "readsem") - Counted(count, th[t], "readsem")
        /\ Filled - Filled' = Counted(count', x, "writesem") - Counted(count, th[t], "writesem")
        /\ Filled \in Int /\ Filled' \in Int
    BY <1>3, <2>4, <2>5, SMTT(30)
  <2>7. x.pc \notin Waiting /\ x.obj \in Sems
    BY <2>2, Zenon DEF Waiting, Sems
  <2>8. QED
    BY <1>1, <1>2, <2>1, <2>2, <2>4, <2>6, <2>7, AccessStep, Zenon
<1>6. CASE uk_semaphore_up(t)
  <2>1. /\ th' = [th EXCEPT ![t] = Running] /\ box' = box
        /\ count' = [count EXCEPT ![th[t].obj] = @ + 1]
        /\ th[t].pc = "up" /\ th[t].obj \in Sems
    BY <1>1, <1>6, Zenon DEF uk_semaphore_up, On
  <2>2. Running \in Thread /\ Running.pc = "run"
    BY SMTT(30) DEF Running, Thread, Places, Never
  <2>3. {"current", "next"} \subseteq DOMAIN sched'
    BY <1>1, <1>6, Kept, SMTT(30) DEF uk_semaphore_up, uk_waitq_wake_up
  <2>4. count' \in [Objs -> Nat] /\ (owner' # NoThread => count'["mutex"] > 0)
    BY <1>1, <1>2, <2>1, SMTT(30) DEF Objs, Sems
  <2>5. Filled' = Filled
    BY <2>1, Zenon DEF Filled
  <2>6. ASSUME NEW p \in Sems
        PROVE  Counted(count', Running, p) = Counted(count, th[t], p) /\ Counted(count, th[t], p) \in Int
    <3>1. count[p] \in Nat /\ count'[p] = IF p = th[t].obj THEN count[p] + 1 ELSE count[p]
      BY <1>1, <2>1, Zenon
    <3>2. ~Has(Running, p) /\ (Has(th[t], p) <=> p = th[t].obj)
      BY <2>1, <2>2, <2>6, Zenon DEF Has, Sems
    <3>3. QED
      BY <3>1, <3>2, SMTT(30) DEF Counted
  <2>7. /\ Filled' - Filled = Counted(count', Running, "readsem") - Counted(count, th[t], "readsem")
        /\ Filled - Filled' = Counted(count', Running, "writesem") - Counted(count, th[t], "writesem")
        /\ Filled \in Int /\ Filled' \in Int
    BY <1>3, <2>5, <2>6, SMTT(30) DEF Sems
  <2>8. Running.pc \notin Waiting /\ Running.pc \notin InAccess
    BY <2>2, Zenon DEF Waiting, InAccess
  <2>9. QED
    BY <1>1, <1>2, <2>1, <2>2, <2>3, <2>4, <2>7, <2>8, AccessStep, Zenon
<1>7. QED
  BY <1>4, <1>5, <1>6, Zenon

-----------------------------------------------------------------------------
\* An interrupt, and time, leave every thread where it is in its call; the idle
\* thread may leave the halting loop.
LEMMA OutsideStep ==
    ASSUME IInv, th' \in [All -> Thread],
           \A u \in All : /\ th'[u].obj = th[u].obj
                          /\ th'[u].pc = th[u].pc \/ (th[u].pc = "halted" /\ th'[u].pc = "yield"),
           {"current", "next"} \subseteq DOMAIN sched',
           sched'.current = sched.current, sched'.next = sched.next,
           count' \in [Objs -> Nat], owner' = owner, count'["mutex"] = count["mutex"],
           box' \in [msgs : [0..Size -> Msgs \cup {NoMsg}], readpos : 0..Size, writepos : 0..Size],
           Filled' \in Int,
           Filled' - Filled = count'["readsem"] - count["readsem"],
           Filled - Filled' = count'["writesem"] - count["writesem"]
    PROVE  IInv'
<1>1. \A u \in All : \A o \in Sems : Has(th'[u], o) <=> Has(th[u], o)
  BY Zenon DEF Has, Sems
<1>2. (Holds("readsem")' <=> Holds("readsem")) /\ (Holds("writesem")' <=> Holds("writesem"))
  BY <1>1, Zenon DEF Holds, Sems
<1>3. /\ \A o \in Sems : count[o] \in Nat /\ count'[o] \in Nat
      /\ Size \in Nat /\ Filled \in Int /\ RingCounted /\ (owner # NoThread => count["mutex"] > 0)
  BY RingChange, GuestThreadsConstants, SMTT(30) DEF IInv, Objs
<1>4. RingCounted'
  <2> DEFINE hr == IF Holds("readsem") THEN 1 ELSE 0
             hw == IF Holds("writesem") THEN 1 ELSE 0
             r == count["readsem"]   r1 == count'["readsem"]
             w == count["writesem"]  w1 == count'["writesem"]
             f == Filled   f1 == Filled'
  <2>1. hr \in Int /\ hw \in Int /\ f = r + hr /\ Size - f = w + hw
    BY <1>3, SMTT(30) DEF RingCounted
  <2>2. r \in Int /\ r1 \in Int /\ w \in Int /\ w1 \in Int
    BY <1>3, SMTT(30) DEF Sems
  <2>3. f \in Int /\ f1 \in Int /\ Size \in Int
    BY <1>3
  <2>4. f1 - f = r1 - r /\ f - f1 = w1 - w
    OBVIOUS
  <2> HIDE DEF r, w, r1, w1, f, f1, hr, hw
  <2>5. f1 = r1 + hr /\ Size - f1 = w1 + hw
    BY <2>1, <2>2, <2>3, <2>4, Shifted, SMTT(30)
  <2>6. QED
    BY <1>2, <2>5, Zenon DEF RingCounted, r1, w1, f1, hr, hw
<1>5. \A u \in All : /\ th'[u].pc \in InAccess => sched'.current = u /\ sched'.next = NoThread
                     /\ th'[u].pc \in Waiting => th'[u].obj \in Objs
                     /\ th'[u].pc = "up" => th'[u].obj \in Sems
  BY Zenon DEF IInv, InAccess, Waiting
<1>6. QED
  BY <1>3, <1>4, <1>5, Zenon DEF IInv

\* The interrupt handlers and the clock.
LEMMA InterruptStep ==
    ASSUME IInv, (\E m \in Msgs : Interrupt(m)) \/ InterruptRecv \/ Tick
    PROVE  IInv'
<1>1. /\ idle \in All /\ th \in [All -> Thread] /\ count \in [Objs -> Nat]
      /\ count["readsem"] \in Nat /\ count["writesem"] \in Nat /\ Size \in Nat
      /\ {"current", "next"} \subseteq DOMAIN sched /\ RingCounted
      /\ box \in [msgs : [0..Size -> Msgs \cup {NoMsg}], readpos : 0..Size, writepos : 0..Size]
  BY GuestThreadsConstants, Zenon DEF All, IInv, Objs, Sems
<1>2. Filled \in 0..Size
  BY <1>1, RingChange, Zenon
<1>3. (count["writesem"] > 0 => Filled < Size) /\ (count["readsem"] > 0 => Filled > 0)
  BY <1>1, <1>2, SMTT(30) DEF RingCounted
<1>4. /\ Kicked \in [All -> Thread]
      /\ \A u \in All : /\ Kicked[u].obj = th[u].obj
                        /\ Kicked[u].pc = th[u].pc \/ (th[u].pc = "halted" /\ Kicked[u].pc = "yield")
  <2> DEFINE y == [th[idle] EXCEPT !.pc = IF @ = "halted" THEN "yield" ELSE @]
  <2>1. /\ y \in Thread /\ y.obj = th[idle].obj
        /\ y.pc = th[idle].pc \/ (th[idle].pc = "halted" /\ y.pc = "yield")
    BY <1>1, Zenon DEF Thread, Places
  <2>2. Kicked = [th EXCEPT ![idle] = y]
    BY Zenon DEF Kicked
  <2> HIDE DEF y
  <2>3. QED
    BY <1>1, <2>1, <2>2, Zenon
<1>5. ASSUME NEW m \in Msgs, Interrupt(m)
      PROVE  IInv'
  <2>1. th' = Kicked /\ owner' = owner
    BY <1>5, Zenon DEF Interrupt
  <2>2. CASE count["writesem"] > 0
    <3>1. /\ count' = [count EXCEPT !["writesem"] = @ - 1, !["readsem"] = @ + 1]
          /\ box' = Posted(box, m) /\ sched' = uk_thread_wake(sched, wait["readsem"])
      BY <1>5, <2>2, Zenon DEF Interrupt, uk_waitq_wake_up
    <3>2. /\ count' \in [Objs -> Nat] /\ count'["mutex"] = count["mutex"]
          /\ count'["readsem"] = count["readsem"] + 1 /\ count'["writesem"] = count["writesem"] - 1
      BY <1>1, <2>2, <3>1, SMTT(30) DEF Objs, Sems
    <3>3. /\ box' \in [msgs : [0..Size -> Msgs \cup {NoMsg}], readpos : 0..Size, writepos : 0..Size]
          /\ Filled' = Filled + 1
      BY <1>1, <1>3, <2>2, <3>1, RingChange, Zenon
    <3>4. /\ {"current", "next"} \subseteq DOMAIN sched'
          /\ sched'.current = sched.current /\ sched'.next = sched.next
      BY <1>1, <3>1, Kept, SMTT(30)
    <3>5. /\ Filled' \in Int
          /\ Filled' - Filled = count'["readsem"] - count["readsem"]
          /\ Filled - Filled' = count'["writesem"] - count["writesem"]
      BY <1>1, <1>2, <3>2, <3>3, SMTT(30)
    <3>6. QED
      BY <1>4, <2>1, <3>2, <3>3, <3>4, <3>5, OutsideStep, Zenon
  <2>3. CASE ~(count["writesem"] > 0)
    <3>1. UNCHANGED <<count, box, sched>>
      BY <1>5, <2>3, Zenon DEF Interrupt
    <3>2. Filled' = Filled
      BY <3>1, Zenon DEF Filled
    <3>3. /\ Filled' \in Int
          /\ Filled' - Filled = count'["readsem"] - count["readsem"]
          /\ Filled - Filled' = count'["writesem"] - count["writesem"]
      BY <1>1, <1>2, <3>1, <3>2
    <3>4. QED
      BY <1>1, <1>4, <2>1, <3>1, <3>3, OutsideStep, Zenon
  <2>4. QED
    BY <2>2, <2>3, Zenon
<1>6. CASE InterruptRecv
  <2>1. th' = Kicked /\ owner' = owner /\ count["readsem"] > 0
    BY <1>6, Zenon DEF InterruptRecv
  <2>2. /\ count' = [count EXCEPT !["readsem"] = @ - 1, !["writesem"] = @ + 1]
        /\ box' = Received(box) /\ sched' = uk_thread_wake(sched, wait["writesem"])
    BY <1>6, Zenon DEF InterruptRecv, uk_waitq_wake_up
  <2>3. /\ count' \in [Objs -> Nat] /\ count'["mutex"] = count["mutex"]
        /\ count'["readsem"] = count["readsem"] - 1 /\ count'["writesem"] = count["writesem"] + 1
    BY <1>1, <2>1, <2>2, SMTT(30) DEF Objs, Sems
  <2>4. /\ box' \in [msgs : [0..Size -> Msgs \cup {NoMsg}], readpos : 0..Size, writepos : 0..Size]
        /\ Filled' = Filled - 1
    BY <1>1, <1>3, <2>1, <2>2, RingChange, Zenon
  <2>5. /\ {"current", "next"} \subseteq DOMAIN sched'
        /\ sched'.current = sched.current /\ sched'.next = sched.next
    BY <1>1, <2>2, Kept, SMTT(30)
  <2>6. /\ Filled' \in Int
        /\ Filled' - Filled = count'["readsem"] - count["readsem"]
        /\ Filled - Filled' = count'["writesem"] - count["writesem"]
    BY <1>1, <1>2, <2>3, <2>4, SMTT(30)
  <2>7. QED
    BY <1>4, <2>1, <2>3, <2>4, <2>5, <2>6, OutsideStep, Zenon
<1>7. CASE Tick
  <2>1. UNCHANGED <<sched, count, owner, box>>
    BY <1>7, Zenon DEF Tick
  <2>2. ASSUME NEW u \in All
        PROVE  th'[u] \in Thread /\ th'[u].obj = th[u].obj /\ th'[u].pc = th[u].pc
    <3>1. th'[u] = [th[u] EXCEPT !.deadline = Less(@)]
      BY <1>7, Zenon DEF Tick
    <3>2. th[u] \in Thread /\ Less(th[u].deadline) \in Int
      BY <1>1 DEF Less, Thread
    <3>3. QED
      BY <3>1, <3>2, Zenon DEF Thread
  <2>3. th' \in [All -> Thread]
    BY <1>7, <2>2, Zenon DEF Tick
  <2>4. Filled' = Filled
    BY <2>1, Zenon DEF Filled
  <2>5. /\ Filled' \in Int
        /\ Filled' - Filled = count'["readsem"] - count["readsem"]
        /\ Filled - Filled' = count'["writesem"] - count["writesem"]
    BY <1>1, <1>2, <2>1, <2>4, SMTT(30)
  <2>6. QED
    BY <1>1, <2>1, <2>2, <2>3, <2>5, OutsideStep, Zenon
<1>8. QED
  BY <1>5, <1>6, <1>7, Zenon

\* Every step of the guest keeps the invariant.
LEMMA NextIInv == IInv /\ [Next]_vars => IInv'
<1> SUFFICES ASSUME IInv, [Next]_vars PROVE IInv'
  OBVIOUS
<1>1. ASSUME NEW t \in Threads, Call(t)
      PROVE  IInv'
  BY <1>1, CallStep, TakeStep, Zenon DEF Call
<1>2. ASSUME NEW t \in Threads, Step(t)
      PROVE  IInv'
  BY <1>2, WaitStep, TakeStep, RingStep, Zenon DEF Step
<1>3. CASE UNCHANGED vars
  <2>1. UNCHANGED <<Filled, Holds("readsem"), Holds("writesem")>>
    BY <1>3, Zenon DEF vars, Filled, Holds, Has
  <2>2. QED
    BY <1>3, <2>1, Zenon DEF vars, IInv, RingCounted
<1>4. QED
  BY <1>1, <1>2, <1>3, SchedStep, InterruptStep, Zenon DEF Next

-----------------------------------------------------------------------------
\* For any number of threads and any size of the mailbox, the invariant holds in
\* every reachable state: only the thread with the CPU is inside of _do_mbox_post
\* or _do_mbox_recv, and a mutex with an owner has a positive lock_count.
THEOREM InductiveInvariant == Spec => []IInv
<1>1. QED
  BY InitIInv, NextIInv, PTL DEF Spec

\* The semaphores of the mailbox count its messages and its free slots, so the
\* assertions of _do_mbox_post and _do_mbox_recv hold, whatever the threads do
\* and whenever an interrupt handler posts or receives.
THEOREM MailboxCounted == Spec => []RingCounted
<1>1. IInv => RingCounted
  BY Zenon DEF IInv
<1>2. QED
  BY <1>1, InductiveInvariant, PTL

-----------------------------------------------------------------------------
\* Where the messages are: from readpos on, with the slot to write next behind
\* them.
LEMMA Behind ==
    ASSUME NEW r \in 0..Size, NEW w \in 0..Size,
           NEW n \in 0..Size, n = (w + len - r) % len, NEW i \in 1..n
    PROVE  (r + i - 1) % len \in 0..Size /\ (r + i - 1) % len # w
<1>1. len \in Nat /\ len = Size + 1 /\ Size \in Nat
  BY GuestThreadsConstants DEF len
<1> HIDE DEF len
<1>2. n = IF w < r THEN w + len - r ELSE w - r
  BY Distance, Zenon
<1>3. i - 1 \in 0..Size /\ r + (i - 1) = r + i - 1
  BY <1>1
<1>4. (r + i - 1) % len = IF r + i - 1 < len THEN r + i - 1 ELSE r + i - 1 - len
  BY <1>3, Ahead, Zenon
<1>5. QED
  BY <1>1, <1>2, <1>3, <1>4, SMTT(30)

\* The slot behind the messages is writepos, and the oldest message is followed by
\* the others.
LEMMA Slots ==
    ASSUME NEW r \in 0..Size, NEW w \in 0..Size,
           NEW n \in 0..Size, n = (w + len - r) % len
    PROVE  /\ (r + n) % len = w
           /\ \A i \in 1..Size : /\ (((r + 1) % len) + i - 1) % len = (r + i) % len
                                 /\ (r + i) % len \in 0..Size /\ (r + i) % len # r
<1>1. len \in Nat /\ len = Size + 1 /\ Size \in Nat
  BY GuestThreadsConstants DEF len
<1> HIDE DEF len
<1>2. ASSUME NEW k \in 0..Size
      PROVE  (r + k) % len = IF r + k < len THEN r + k ELSE r + k - len
  BY <1>1, Ahead, Zenon
<1>3. n = IF w < r THEN w + len - r ELSE w - r
  BY Distance, Zenon
<1>4. (r + n) % len = w
  BY <1>1, <1>2, <1>3, SMTT(30)
<1>5. ASSUME NEW i \in 1..Size
      PROVE  /\ (((r + 1) % len) + i - 1) % len = (r + i) % len
             /\ (r + i) % len \in 0..Size /\ (r + i) % len # r
  <2>1. (r + i) % len = IF r + i < len THEN r + i ELSE r + i - len
    BY <1>1, <1>2, SMTT(30)
  <2>2. (r + 1) % len = IF r + 1 < len THEN r + 1 ELSE r + 1 - len
    BY <1>1, Wraps, SMTT(30)
  <2> DEFINE x == ((r + 1) % len) + i - 1
  <2>3. x = (IF r + 1 < len THEN r + i ELSE r + i - len)
    BY <1>1, <2>2
  <2>4. x \in Nat /\ x < 2 * len
    BY <1>1, <2>3, SMTT(30)
  <2>5. x % len = IF x < len THEN x ELSE x - len
    <3> HIDE DEF x
    <3> QED
      BY <2>4, Wraps, Zenon
  <2>6. x % len = (r + i) % len
    <3> HIDE DEF x
    <3> QED
      BY <1>1, <2>1, <2>3, <2>5, SMTT(30)
  <2>7. QED
    BY <1>1, <2>1, <2>6, SMTT(30)
<1>6. QED
  BY <1>4, <1>5, Zenon

\* Posting to a ring that is not full appends to what is in it, and receiving
\* from one that is not empty takes the oldest message.
LEMMA QueueSteps ==
    ASSUME IInv
    PROVE  /\ \A m \in Msgs : box' = Posted(box, m) /\ Filled < Size => Queue!Post(m)
           /\ box' = Received(box) /\ Filled > 0 => Queue!Recv
           /\ box' = box => Contents' = Contents
<1>1. /\ box \in [msgs : [0..Size -> Msgs \cup {NoMsg}], readpos : 0..Size, writepos : 0..Size]
      /\ box.readpos \in 0..Size /\ box.writepos \in 0..Size
      /\ Filled \in 0..Size /\ Size \in Nat
  BY RingChange, GuestThreadsConstants, Zenon DEF IInv
<1> DEFINE r == box.readpos   w == box.writepos   n == Filled
<1>2. /\ (r + n) % len = w
      /\ \A i \in 1..n : (r + i - 1) % len \in 0..Size /\ (r + i - 1) % len # w
      /\ \A i \in 1..Size : /\ (((r + 1) % len) + i - 1) % len = (r + i) % len
                            /\ (r + i) % len \in 0..Size /\ (r + i) % len # r
  <2>1. n = (w + len - r) % len
    BY Zenon DEF Filled
  <2>2. r \in 0..Size /\ w \in 0..Size /\ n \in 0..Size
    BY <1>1, Zenon
  <2> HIDE DEF r, w, n
  <2>3. (r + n) % len = w
    BY <2>1, <2>2, Slots, SMTT(30)
  <2>4. ASSUME NEW i \in 1..n
        PROVE  (r + i - 1) % len \in 0..Size /\ (r + i - 1) % len # w
    BY <2>1, <2>2, Behind, Zenon
  <2>5. ASSUME NEW i \in 1..Size
        PROVE  /\ (((r + 1) % len) + i - 1) % len = (r + i) % len
               /\ (r + i) % len \in 0..Size /\ (r + i) % len # r
    BY <2>1, <2>2, Slots, Zenon
  <2>6. QED
    BY <2>3, <2>4, <2>5, Zenon
<1>3. Contents \in Seq(Msgs \cup {NoMsg}) /\ Len(Contents) = n /\ DOMAIN Contents = 1..n
  BY <1>1, <1>2, SMTT(30) DEF Contents
<1>4. ASSUME NEW m \in Msgs, box' = Posted(box, m), Filled < Size
      PROVE  Queue!Post(m)
  <2>1. Filled' = n + 1
    BY <1>1, <1>4, RingChange, Zenon
  <2>2. box'.readpos = r /\ box'.msgs = [box.msgs EXCEPT ![w] = m]
    BY <1>1, <1>4, Zenon DEF Posted
  <2>3. Contents' = [i \in 1..(n + 1) |-> [box.msgs EXCEPT ![w] = m][(r + i - 1) % len]]
    BY <2>1, <2>2, Zenon DEF Contents
  <2>4. ASSUME NEW i \in 1..(n + 1)
        PROVE  [box.msgs EXCEPT ![w] = m][(r + i - 1) % len] = IF i = n + 1 THEN m ELSE Contents[i]
    <3>1. CASE i = n + 1
      <4>1. r + i - 1 = r + n
        BY <1>1, <3>1, SMTT(30)
      <4>2. QED
        BY <1>1, <1>2, <3>1, <4>1, Zenon
    <3>2. CASE i # n + 1
      <4>1. i \in 1..n
        BY <1>1, <3>2, SMTT(30)
      <4>2. Contents[i] = box.msgs[(r + i - 1) % len]
        BY <4>1, Zenon DEF Contents
      <4>3. QED
        BY <1>1, <1>2, <3>2, <4>1, <4>2, Zenon
    <3>3. QED
      BY <3>1, <3>2, Zenon
  <2>5. Contents' = Append(Contents, m)
    <3>1. Append(Contents, m) = [i \in 1..(n + 1) |-> IF i = n + 1 THEN m ELSE Contents[i]]
      BY <1>1, <1>3, SMTT(30)
    <3>2. QED
      BY <2>3, <2>4, <3>1, Zenon
  <2>6. QED
    BY <1>3, <1>4, <2>5, Zenon DEF Queue!Post
<1>5. ASSUME box' = Received(box), Filled > 0
      PROVE  Queue!Recv
  <2>1. Filled' = n - 1
    BY <1>1, <1>5, RingChange, Zenon
  <2>2. box'.readpos = (r + 1) % len /\ box'.msgs = [box.msgs EXCEPT ![r] = NoMsg]
    BY <1>1, <1>5, Zenon DEF Received
  <2>3. Contents' = [i \in 1..(n - 1) |->
                        [box.msgs EXCEPT ![r] = NoMsg][(((r + 1) % len) + i - 1) % len]]
    BY <2>1, <2>2, Zenon DEF Contents
  <2>4. ASSUME NEW i \in 1..(n - 1)
        PROVE  [box.msgs EXCEPT ![r] = NoMsg][(((r + 1) % len) + i - 1) % len] = Contents[i + 1]
    <3>1. i \in 1..Size /\ i + 1 \in 1..n /\ r + (i + 1) - 1 = r + i
      BY <1>1
    <3>2. Contents[i + 1] = box.msgs[(r + i) % len]
      BY <3>1, Zenon DEF Contents
    <3>3. QED
      BY <1>1, <1>2, <3>1, <3>2, Zenon
  <2>5. Contents' = Tail(Contents)
    <3>1. Tail(Contents) = [i \in 1..(n - 1) |-> Contents[i + 1]]
      <4>1. n - 1 = Len(Contents) - 1 /\ Contents # <<>>
        BY <1>1, <1>3, <1>5, SMTT(30)
      <4>2. QED
        <5>1. /\ Tail(Contents) \in Seq(Msgs \cup {NoMsg}) /\ Len(Tail(Contents)) = n - 1
              /\ \A i \in 1..(n - 1) : Tail(Contents)[i] = Contents[i + 1]
          BY <1>3, <4>1, HeadTailProperties, Zenon
        <5> DEFINE u == [i \in 1..(n - 1) |-> Contents[i + 1]]
        <5>2. /\ u \in Seq(Msgs \cup {NoMsg}) /\ Len(u) = n - 1
              /\ \A i \in 1..(n - 1) : u[i] = Contents[i + 1]
          BY <1>1, <1>3, <1>5, SMTT(30)
        <5> HIDE DEF u
        <5>3. Tail(Contents) = u
          BY <5>1, <5>2, SeqEqual, Zenon
        <5>4. QED
          BY <5>3, Zenon DEF u
    <3>2. QED
      BY <2>3, <2>4, <3>1, Zenon
  <2>6. Contents # <<>>
    BY <1>1, <1>3, <1>5, SMTT(30)
  <2>7. QED
    BY <2>5, <2>6, Zenon DEF Queue!Recv
<1>6. ASSUME box' = box
      PROVE  Contents' = Contents
  BY <1>6, Zenon DEF Contents, Filled
<1>7. QED
  BY <1>4, <1>5, <1>6, Zenon

\* Every step of the guest posts one message, receives one or leaves the queue
\* alone.
LEMMA RefinementStep == IInv /\ [Next]_vars => [Queue!Next]_Contents
<1> SUFFICES ASSUME IInv, [Next]_vars PROVE [Queue!Next]_Contents
  OBVIOUS
<1>1. (\E t \in Threads : \E m \in Msgs : Put(t, m)) \/ (\E m \in Msgs : Interrupt(m)) \/
      (\E t \in Threads : Get(t)) \/ InterruptRecv \/ box' = box
  <2>1. ASSUME NEW t \in Threads, Call(t)
        PROVE  box' = box
    BY <2>1, Zenon DEF Call, WaitFor, uk_semaphore_down_try, uk_mutex_trylock, uk_mutex_unlock, uk_sched_yield,
                uk_sched_thread_sleep, uk_sched_thread_exit, uk_sched_thread_terminate, uk_sched_thread_add
  <2>2. ASSUME NEW t \in Threads, Step(t)
        PROVE  (\E m \in Msgs : Put(t, m)) \/ Get(t) \/ box' = box
    BY <2>2, Zenon DEF Step, Test, Block, Woken, Leave, Take, uk_semaphore_up
  <2>3. (\E t \in All : schedcoop_schedule(t)) => box' = box
    BY Zenon DEF schedcoop_schedule
  <2>4. Switch \/ uk_sched_thread_gc \/ ukplat_lcpu_halt_to \/ TimerInterrupt \/ Tick => box' = box
    BY Zenon DEF Switch, uk_sched_thread_gc, ukplat_lcpu_halt_to, TimerInterrupt, Tick
  <2>5. UNCHANGED vars => box' = box
    BY Zenon DEF vars
  <2>6. QED
    BY <2>1, <2>2, <2>3, <2>4, <2>5, Zenon DEF Next
<1>2. RingCounted /\ Filled \in 0..Size /\ Size \in Nat /\ count["readsem"] \in Nat /\ count["writesem"] \in Nat
  BY RingChange, GuestThreadsConstants, Zenon DEF IInv, Objs, Sems
<1>3. ASSUME NEW t \in Threads, NEW m \in Msgs, Put(t, m)
      PROVE  Queue!Post(m)
  <2>1. Holds("writesem") /\ box' = Posted(box, m)
    BY <1>3, Zenon DEF Put, On, Holds, Has, All
  <2>2. Filled < Size
    BY <1>2, <2>1, SMTT(30) DEF RingCounted
  <2>3. QED
    BY <2>1, <2>2, QueueSteps, Zenon
<1>4. ASSUME NEW t \in Threads, Get(t)
      PROVE  Queue!Recv
  <2>1. Holds("readsem") /\ box' = Received(box)
    BY <1>4, Zenon DEF Get, On, Holds, Has, All
  <2>2. Filled > 0
    BY <1>2, <2>1, SMTT(30) DEF RingCounted
  <2>3. QED
    BY <2>1, <2>2, QueueSteps, Zenon
<1>5. ASSUME NEW m \in Msgs, Interrupt(m), box' # box
      PROVE  Queue!Post(m)
  <2>1. count["writesem"] > 0 /\ box' = Posted(box, m)
    BY <1>5, Zenon DEF Interrupt
  <2>2. Filled < Size
    BY <1>2, <2>1, SMTT(30) DEF RingCounted
  <2>3. QED
    BY <2>1, <2>2, QueueSteps, Zenon
<1>6. ASSUME InterruptRecv
      PROVE  Queue!Recv
  <2>1. count["readsem"] > 0 /\ box' = Received(box)
    BY <1>6, Zenon DEF InterruptRecv
  <2>2. Filled > 0
    BY <1>2, <2>1, SMTT(30) DEF RingCounted
  <2>3. QED
    BY <2>1, <2>2, QueueSteps, Zenon
<1>7. box' = box => Contents' = Contents
  BY QueueSteps, Zenon
<1>8. QED
  BY <1>1, <1>3, <1>4, <1>5, <1>6, <1>7, Zenon DEF Queue!Next

\* The mailbox (_do_mbox_post, _do_mbox_recv and their variants for interrupt
\* handlers) is a queue of at most Size messages, for any number of threads and
\* any size: no message is lost, repeated or delivered out of order.
THEOREM MailboxRefinement == Spec => RefinesQueue
<1>1. Init => Queue!Init
  <2>1. (0 + len - 0) % len = 0
    BY GuestThreadsConstants, Wraps, SMTT(30) DEF len
  <2>2. Init => Filled = 0
    BY <2>1, SMTT(30) DEF Init, Filled
  <2>3. Filled = 0 => Contents = <<>>
    BY DEF Contents
  <2>4. QED
    BY <2>2, <2>3, Zenon DEF Queue!Init
<1>2. QED
  BY <1>1, RefinementStep, InductiveInvariant, PTL DEF Spec, RefinesQueue, Queue!Spec
-----------------------------------------------------------------------------

\* Appending a new entry to a queue.
LEMMA Appended ==
    ASSUME NEW q \in Seq(Threads), NEW t \in Threads
    PROVE  /\ Append(q, t) \in Seq(Threads)
           /\ Range(Append(q, t)) = Range(q) \cup {t}
           /\ IsInjective(q) /\ t \notin Range(q) => IsInjective(Append(q, t))
<1>1. /\ Append(q, t) \in Seq(Threads) /\ Len(q) \in Nat
      /\ DOMAIN q = 1..Len(q) /\ DOMAIN Append(q, t) = 1..(Len(q) + 1)
      /\ \A i \in 1..(Len(q) + 1) : Append(q, t)[i] = IF i = Len(q) + 1 THEN t ELSE q[i]
  OBVIOUS
<1>2. Range(Append(q, t)) = Range(q) \cup {t}
  BY <1>1, SMTT(30) DEF Range
<1>3. ASSUME IsInjective(q), t \notin Range(q)
      PROVE  IsInjective(Append(q, t))
  BY <1>1, <1>3, SMTT(30) DEF IsInjective, Range
<1>4. QED
  BY <1>1, <1>2, <1>3, Zenon

\* Taking an entry out of a queue in which every thread is once at most.
LEMMA TakenOut ==
    ASSUME NEW q \in Seq(Threads), IsInjective(q), NEW t
    PROVE  /\ Without(q, t) \in Seq(Threads)
           /\ IsInjective(Without(q, t))
           /\ Range(Without(q, t)) = Range(q) \ {t}
<1>1. CASE t \notin Range(q)
  BY <1>1, Zenon DEF Without
<1>2. CASE t \in Range(q)
  <2> DEFINE p == Place(q, t)
             w == [i \in 1..(Len(q) - 1) |-> IF i < p THEN q[i] ELSE q[i + 1]]
  <2>1. Len(q) \in Nat /\ DOMAIN q = 1..Len(q) /\ \A i \in 1..Len(q) : q[i] \in Threads
    OBVIOUS
  <2>2. p \in 1..Len(q) /\ q[p] = t
    BY <1>2, <2>1, Zenon DEF Place, Range
  <2>3. \A i, j \in 1..Len(q) : q[i] = q[j] => i = j
    BY <2>1, Zenon DEF IsInjective
  <2>4. Without(q, t) = w
    BY <1>2, Zenon DEF Without
  <2> HIDE DEF p
  <2>5. w \in Seq(Threads) /\ DOMAIN w = 1..(Len(q) - 1)
    <3>1. Len(q) - 1 \in Nat
      BY <2>1, <2>2, SMTT(30)
    <3>2. \A i \in 1..(Len(q) - 1) : w[i] \in Threads
      BY <2>1, <2>2, SMTT(30)
    <3>3. QED
      BY <3>1, <3>2, SMTT(30)
  <2>6. ASSUME NEW i \in 1..(Len(q) - 1)
        PROVE  \E k \in 1..Len(q) : w[i] = q[k] /\ k # p /\ k = IF i < p THEN i ELSE i + 1
    BY <2>1, <2>2, SMTT(30)
  <2>7. IsInjective(w)
    BY <2>1, <2>2, <2>3, <2>5, <2>6, SMTT(30) DEF IsInjective
  <2>8. Range(w) = Range(q) \ {t}
    <3>1. Range(w) \subseteq Range(q) \ {t}
      BY <2>1, <2>2, <2>3, <2>5, <2>6, SMTT(30) DEF Range
    <3>2. ASSUME NEW k \in 1..Len(q), k # p
          PROVE  \E i \in 1..(Len(q) - 1) : w[i] = q[k]
      <4>1. CASE k < p
        BY <2>1, <2>2, <4>1, SMTT(30)
      <4>2. CASE ~(k < p)
        <5>1. k - 1 \in 1..(Len(q) - 1) /\ ~(k - 1 < p) /\ (k - 1) + 1 = k
          BY <2>1, <2>2, <3>2, <4>2, SMTT(30)
        <5>2. QED
          BY <5>1, Zenon
      <4>3. QED
        BY <4>1, <4>2, Zenon
    <3>3. Range(q) \ {t} \subseteq Range(w)
      <4> HIDE DEF w
      <4>1. QED
        BY <2>1, <2>2, <2>5, <3>2, Zenon DEF Range
    <3>4. QED
      BY <3>1, <3>3, Zenon
  <2>9. QED
    BY <2>4, <2>5, <2>7, <2>8, Zenon
<1>3. QED
  BY <1>1, <1>2, Zenon

Fields == {"runnable", "exited_threads", "free"}

\* What waking and blocking do to who can run.
LEMMA Runnable ==
    ASSUME NEW s, Fields \subseteq DOMAIN s
    PROVE  /\ \A q : LET w == uk_thread_wake(s, q)
                     IN  /\ Fields \subseteq DOMAIN w
                         /\ w.runnable = s.runnable \cup Range(q)
                         /\ w.exited_threads = s.exited_threads /\ w.free = s.free
           /\ \A t, timed : LET w == uk_thread_block_until(s, t, timed)
                            IN  /\ Fields \subseteq DOMAIN w
                                /\ w.runnable = s.runnable \ {t}
                                /\ w.exited_threads = s.exited_threads /\ w.free = s.free
<1>1. ASSUME NEW q
      PROVE  LET w == uk_thread_wake(s, q)
             IN  /\ Fields \subseteq DOMAIN w
                 /\ w.runnable = s.runnable \cup Range(q)
                 /\ w.exited_threads = s.exited_threads /\ w.free = s.free
  BY Zenon DEF uk_thread_wake, Fields
<1>2. ASSUME NEW t, NEW timed
      PROVE  LET w == uk_thread_block_until(s, t, timed)
             IN  /\ Fields \subseteq DOMAIN w
                 /\ w.runnable = s.runnable \ {t}
                 /\ w.exited_threads = s.exited_threads /\ w.free = s.free
  BY Zenon DEF uk_thread_block_until, Fields
<1>3. QED
  BY <1>1, <1>2, Zenon

-----------------------------------------------------------------------------
\* Nobody waits when uk_schedcoop_create is done.
LEMMA InitWaitInv == Init => WaitInv
<1> SUFFICES ASSUME Init PROVE WaitInv
  OBVIOUS
<1>1. /\ Fields \subseteq DOMAIN sched /\ sched.exited_threads = <<>> /\ sched.free = Threads \ {1}
      /\ wait = [o \in Objs |-> <<>>]
  BY Zenon DEF Init, Fields
<1>2. Range(<<>>) = {} /\ <<>> \in Seq(Threads) /\ IsInjective(<<>>)
  BY DEF Range, IsInjective
<1>3. \A t \in Threads \ {1} : th[t].pc = "gone"
  BY GuestThreadsConstants, Zenon DEF Init, All, Gone, idle
<1>4. QED
  BY <1>1, <1>2, <1>3, Zenon DEF WaitInv, NoLostWakeup, Fields

\* A step that leaves the wait queues alone.
LEMMA Undisturbed ==
    ASSUME WaitInv, wait' = wait, Fields \subseteq DOMAIN sched',
           sched'.exited_threads \in Seq(Threads), sched'.free \subseteq Threads,
           \A t \in sched'.free \cup Range(sched'.exited_threads) : th'[t].pc \in {"exit", "gone"},
           sched'.free \cap Range(sched'.exited_threads) = {},
           \A o \in Objs : \A t \in Range(wait[o]) :
               /\ th'[t].obj = o /\ th'[t].pc \in Linked
               /\ t \notin sched'.runnable => ~Condition(o, t)'
    PROVE  WaitInv'
BY Zenon DEF WaitInv, NoLostWakeup, Fields

\* What the two invariants say of who is in a queue.
LEMMA Members ==
    ASSUME IInv, WaitInv
    PROVE  /\ th \in [All -> Thread] /\ Threads \subseteq All /\ idle \notin Threads
           /\ Fields \subseteq DOMAIN sched
           /\ sched.exited_threads \in Seq(Threads) /\ sched.free \subseteq Threads
           /\ Range(sched.exited_threads) \subseteq Threads
           /\ \A u \in sched.free \cup Range(sched.exited_threads) : th[u].pc \in {"exit", "gone"}
           /\ sched.free \cap Range(sched.exited_threads) = {}
           /\ wait \in [Objs -> Seq(Threads)] /\ "none" \notin Objs
           /\ \A o \in Objs : /\ Range(wait[o]) \subseteq Threads /\ IsInjective(wait[o])
                              /\ \A u \in Range(wait[o]) : /\ th[u].obj = o /\ th[u].pc \in Linked
                                                           /\ u \notin sched.runnable => ~Condition(o, u)
<1>1. /\ th \in [All -> Thread] /\ Threads \subseteq All /\ idle \notin Threads
      /\ sched.exited_threads \in Seq(Threads) /\ wait \in [Objs -> Seq(Threads)]
  BY GuestThreadsConstants, Zenon DEF IInv, WaitInv, All, idle
<1>2. Range(sched.exited_threads) \subseteq Threads /\ \A o \in Objs : Range(wait[o]) \subseteq Threads
  BY <1>1 DEF Range
<1>3. QED
  BY <1>1, <1>2, Zenon DEF WaitInv, NoLostWakeup, Fields, Objs, Sems

\* A step of thread t, or of the idle thread, that leaves the wait queues alone.
LEMMA OwnStep ==
    ASSUME IInv, WaitInv, wait' = wait, NEW t \in All, NEW x, th' = [th EXCEPT ![t] = x],
           th[t].pc \notin {"exit", "gone"},
           t # idle /\ th[t].pc \in Linked => /\ x.obj = th[t].obj /\ x.pc \in Linked
                                              /\ sched.runnable \subseteq sched'.runnable,
           Fields \subseteq DOMAIN sched',
           sched'.exited_threads = sched.exited_threads, sched'.free = sched.free,
           sched.runnable \subseteq sched'.runnable \cup {t},
           \A o \in Objs : \A u \in Range(wait[o]) :
               u # t \/ th[t].pc \in Linked => (Condition(o, u)' => Condition(o, u) \/ u \in sched'.runnable)
    PROVE  WaitInv'
<1>1. \A u \in All : u # t => th'[u] = th[u]
  BY Members, Zenon
<1>2. th'[t] = x
  BY Members, Zenon
<1>3. \A u \in sched.free \cup Range(sched.exited_threads) : th'[u].pc \in {"exit", "gone"}
  BY Members, <1>1, Zenon
<1>4. ASSUME NEW o \in Objs, NEW u \in Range(wait[o])
      PROVE  /\ th'[u].obj = o /\ th'[u].pc \in Linked
             /\ u \notin sched'.runnable => ~Condition(o, u)'
  <2>1. u \in Threads /\ u \in All /\ u # idle
    BY Members, Zenon
  <2>2. CASE u = t
    BY Members, <1>2, <2>1, <2>2, Zenon
  <2>3. CASE u # t
    BY Members, <1>1, <2>1, <2>3, Zenon
  <2>4. QED
    BY <2>2, <2>3, Zenon
<1>5. QED
  BY Members, <1>3, <1>4, Undisturbed, Zenon

\* A step of a thread that is not on a wait queue, or stays there, and changes
\* neither the scheduler nor the locks.
LEMMA LocalStep ==
    ASSUME IInv, WaitInv, NEW t \in All, NEW x, th' = [th EXCEPT ![t] = x],
           UNCHANGED <<sched, count, wait, owner>>, th[t].pc \notin {"exit", "gone"},
           t # idle /\ th[t].pc \in Linked => x.obj = th[t].obj /\ x.pc \in Linked
    PROVE  WaitInv'
<1>1. Fields \subseteq DOMAIN sched'
  BY Zenon DEF WaitInv, Fields
<1>2. \A o \in Objs : \A u \in Range(wait[o]) : Condition(o, u)' => Condition(o, u)
  BY Zenon DEF Condition
<1>3. QED
  BY <1>1, <1>2, OwnStep, Zenon

\* The steps of a thread that change only where it is.
LEMMA LocalSteps ==
    ASSUME IInv, WaitInv, NEW t \in Threads,
           \/ Test(t) \/ Woken(t) \/ Get(t) \/ \E m \in Msgs : Put(t, m)
           \/ \E o \in Objs, d \in {Never, Timeout} : WaitFor(t, o, d)
           \/ uk_sched_yield(t)
    PROVE  WaitInv'
<1>1. t \in All /\ th \in [All -> Thread] /\ t # idle
  BY GuestThreadsConstants, Zenon DEF All, IInv, idle
<1>2. UNCHANGED <<sched, count, wait, owner>> /\ th[t].pc \in {"test", "woken", "get", "put", "run"}
  BY Zenon DEF Test, Woken, Get, Put, WaitFor, uk_sched_yield, On
<1>3. \E x : /\ th' = [th EXCEPT ![t] = x]
             /\ th[t].pc = "woken" => th[t].obj = "none" \/ (x.obj = th[t].obj /\ x.pc \in Linked)
  <2>1. CASE Woken(t)
    <3>1. CASE th[t].obj = "none"
      BY <2>1, <3>1, Zenon DEF Woken
    <3>2. CASE th[t].obj # "none"
      <4>1. PICK pc \in {"leave", "block"} : th' = [th EXCEPT ![t] = [th[t] EXCEPT !.pc = pc]]
        BY <2>1, <3>2, Zenon DEF Woken, Goto
      <4>2. [th[t] EXCEPT !.pc = pc].obj = th[t].obj /\ [th[t] EXCEPT !.pc = pc].pc \in Linked
        BY <1>1, Zenon DEF Thread, Linked
      <4>3. QED
        BY <4>1, <4>2, Zenon
    <3>3. QED
      BY <3>1, <3>2, Zenon
  <2>2. CASE Test(t)
    BY <2>2, Zenon DEF Test, Goto, On
  <2>3. CASE Get(t)
    <3>1. th[t].pc = "get"
      BY <2>3, Zenon DEF Get, On
    <3>2. th' = [th EXCEPT ![t] = [th[t] EXCEPT !.pc = "up", !.obj = "writesem"]]
      BY <1>1, <2>3, Zenon DEF Get
    <3>3. QED
      BY <3>1, <3>2, Zenon
  <2>4. ASSUME NEW m \in Msgs, Put(t, m)
        PROVE  \E x : th' = [th EXCEPT ![t] = x] /\ th[t].pc # "woken"
    <3>1. th[t].pc = "put"
      BY <2>4, Zenon DEF Put, On
    <3>2. th' = [th EXCEPT ![t] = [th[t] EXCEPT !.pc = "up", !.obj = "readsem"]]
      BY <1>1, <2>4, Zenon DEF Put
    <3>3. QED
      BY <3>1, <3>2, Zenon
  <2>5. CASE \E o \in Objs, d \in {Never, Timeout} : WaitFor(t, o, d)
    BY <2>5, Zenon DEF WaitFor, On
  <2>6. CASE uk_sched_yield(t)
    BY <2>6, Zenon DEF uk_sched_yield, Goto, On
  <2>7. QED
    BY <2>1, <2>2, <2>3, <2>4, <2>5, <2>6, Zenon
<1>4. PICK x : /\ th' = [th EXCEPT ![t] = x]
               /\ th[t].pc = "woken" => th[t].obj = "none" \/ (x.obj = th[t].obj /\ x.pc \in Linked)
  BY <1>3, Zenon
<1>5. CASE th[t].pc = "woken" /\ th[t].obj # "none"
  BY <1>1, <1>2, <1>4, <1>5, LocalStep, Zenon
<1>6. CASE th[t].pc # "woken"
  BY <1>1, <1>2, <1>4, <1>6, LocalStep, ZenonT(30) DEF Linked
<1>7. CASE th[t].pc = "woken" /\ th[t].obj = "none"
  <2>1. \A u \in All : u # t => th'[u] = th[u]
    BY <1>1, <1>4, Zenon
  <2>2. /\ \A o \in Objs : Range(wait[o]) \subseteq All /\ t \notin Range(wait[o])
        /\ Range(sched.exited_threads) \subseteq All /\ sched.free \subseteq All
        /\ t \notin sched.free /\ t \notin Range(sched.exited_threads)
    BY <1>7, Members, SMTT(30)
  <2>3. \A o \in Objs : \A u \in Range(wait[o]) : Condition(o, u)' <=> Condition(o, u)
    BY <1>2, Zenon DEF Condition
  <2>4. QED
    BY <1>2, <2>1, <2>2, <2>3, Undisturbed, SMTT(30) DEF WaitInv, NoLostWakeup, Fields
<1>8. QED
  BY <1>5, <1>6, <1>7, Zenon

\* The steps of a thread that take from a semaphore, take the mutex, raise a
\* semaphore or release the mutex.
LEMMA LockSteps ==
    ASSUME IInv, WaitInv, NEW t \in Threads,
           \/ Take(t) \/ \E o \in Sems : uk_semaphore_down_try(t, o)
           \/ uk_mutex_trylock(t) \/ uk_mutex_unlock(t) \/ uk_semaphore_up(t)
    PROVE  WaitInv'
<1>1. /\ t \in All /\ th \in [All -> Thread] /\ count \in [Objs -> Nat]
      /\ th[t].pc \in Waiting => th[t].obj \in Objs
      /\ th[t].pc = "up" => th[t].obj \in Sems
      /\ owner # NoThread => count["mutex"] > 0
      /\ t # NoThread /\ Sems \subseteq Objs /\ "mutex" \in Objs /\ "mutex" \notin Sems
  BY GuestThreadsConstants, SMTT(30) DEF All, IInv, NoThread, Objs, Sems
<1>2. wait' = wait /\ th[t].pc \in {"take", "run", "up"}
  BY Zenon DEF Take, uk_semaphore_down_try, uk_mutex_trylock, uk_mutex_unlock, uk_semaphore_up, On
<1>3. \E x : th' = [th EXCEPT ![t] = x]
  <2>1. CASE Take(t)
    <3>1. CASE Condition(th[t].obj, t)
      BY <2>1, <3>1, Zenon DEF Take
    <3>2. CASE ~Condition(th[t].obj, t)
      BY <2>1, <3>2, Zenon DEF Take
    <3>3. QED
      BY <3>1, <3>2, Zenon
  <2>2. CASE \E o \in Sems : uk_semaphore_down_try(t, o)
    BY <2>2, Zenon DEF uk_semaphore_down_try, Goto
  <2>3. CASE uk_mutex_trylock(t) \/ uk_mutex_unlock(t)
    <3>1. th' = [th EXCEPT ![t] = th[t]]
      BY <1>1, <2>3, Zenon DEF uk_mutex_trylock, uk_mutex_unlock
    <3>2. QED
      BY <3>1, Zenon
  <2>4. CASE uk_semaphore_up(t)
    BY <2>4, Zenon DEF uk_semaphore_up
  <2>5. QED
    BY <2>1, <2>2, <2>3, <2>4, Zenon
<1>4. PICK x : th' = [th EXCEPT ![t] = x]
  BY <1>3, Zenon
<1>5. \/ sched' = sched
      \/ \E o \in Objs : sched' = uk_thread_wake(sched, wait[o])
  <2>1. CASE Take(t)
    BY <2>1, Zenon DEF Take
  <2>2. CASE \/ uk_mutex_trylock(t) \/ uk_mutex_unlock(t)
             \/ \E o \in Sems : uk_semaphore_down_try(t, o)
    BY <1>1, <2>2, Zenon DEF uk_semaphore_down_try, uk_mutex_trylock, uk_mutex_unlock, uk_waitq_wake_up
  <2>3. CASE uk_semaphore_up(t)
    <3>1. th[t].obj \in Objs /\ sched' = uk_thread_wake(sched, wait[th[t].obj])
      BY <1>1, <2>3, ZenonT(30) DEF uk_semaphore_up, uk_waitq_wake_up, On
    <3>2. QED
      BY <3>1, Zenon
  <2>4. QED
    BY <2>1, <2>2, <2>3, Zenon
<1>6. /\ Fields \subseteq DOMAIN sched' /\ sched.runnable \subseteq sched'.runnable
      /\ sched'.exited_threads = sched.exited_threads /\ sched'.free = sched.free
  BY <1>5, Members, Runnable, SMTT(30)
<1>7. ASSUME NEW o \in Objs, NEW u \in Range(wait[o]), Condition(o, u)', u # t
      PROVE  Condition(o, u) \/ u \in sched'.runnable
  <2>1. CASE Take(t)
    <3>1. th[t].obj \in Objs
      BY <1>1, <2>1, Zenon DEF Take, On, Waiting
    <3>2. CASE ~Condition(th[t].obj, t)
      BY <1>7, <2>1, <3>2, Zenon DEF Take, Condition
    <3>3. CASE Condition(th[t].obj, t) /\ th[t].obj = "mutex"
      <4>1. count' = [count EXCEPT !["mutex"] = @ + 1] /\ owner' = t
        BY <2>1, <3>3, Zenon DEF Take
      <4>2. QED
        BY <1>1, <1>7, <4>1, SMTT(30) DEF Condition
    <3>4. CASE Condition(th[t].obj, t) /\ th[t].obj # "mutex"
      <4>1. count' = [count EXCEPT ![th[t].obj] = @ - 1] /\ owner' = owner
        BY <2>1, <3>4, Zenon DEF Take
      <4>2. QED
        BY <1>1, <1>7, <3>1, <3>4, <4>1, Zenon DEF Condition
    <3>5. QED
      BY <3>2, <3>3, <3>4, Zenon
  <2>2. ASSUME NEW p \in Sems, uk_semaphore_down_try(t, p)
        PROVE  Condition(o, u)
    BY <1>1, <1>7, <2>2, Zenon DEF uk_semaphore_down_try, Condition
  <2>3. CASE uk_mutex_trylock(t)
    BY <1>1, <1>7, <2>3, SMTT(30) DEF uk_mutex_trylock, Condition
  <2>4. CASE uk_mutex_unlock(t)
    <3>1. CASE count["mutex"] = 1
      <4>1. sched' = uk_thread_wake(sched, wait["mutex"]) /\ count' = [count EXCEPT !["mutex"] = @ - 1]
        BY <2>4, <3>1, Zenon DEF uk_mutex_unlock, uk_waitq_wake_up
      <4>2. sched'.runnable = sched.runnable \cup Range(wait["mutex"])
        BY <4>1, Members, Runnable, Zenon
      <4>3. QED
        BY <1>1, <1>7, <4>1, <4>2, Zenon DEF Condition
    <3>2. CASE count["mutex"] # 1
      <4>1. count["mutex"] > 0 /\ count' = [count EXCEPT !["mutex"] = @ - 1] /\ owner' = owner
        BY <1>1, <2>4, <3>2, Zenon DEF uk_mutex_unlock
      <4>2. count["mutex"] \in Nat
        BY <1>1, Zenon
      <4>3. QED
        BY <1>1, <1>7, <3>2, <4>1, <4>2, SMTT(30) DEF Condition
    <3>3. QED
      BY <3>1, <3>2, Zenon
  <2>5. CASE uk_semaphore_up(t)
    <3>1. th[t].obj \in Sems
      BY <1>1, <2>5, Zenon DEF uk_semaphore_up, On
    <3>2. /\ sched' = uk_thread_wake(sched, wait[th[t].obj])
          /\ count' = [count EXCEPT ![th[t].obj] = @ + 1] /\ owner' = owner
      BY <2>5, Zenon DEF uk_semaphore_up, uk_waitq_wake_up
    <3>3. sched'.runnable = sched.runnable \cup Range(wait[th[t].obj])
      BY <3>2, Members, Runnable, Zenon
    <3>4. QED
      BY <1>1, <1>7, <3>1, <3>2, <3>3, SMTT(30) DEF Condition
  <2>6. QED
    BY <2>1, <2>2, <2>3, <2>4, <2>5, Zenon
<1>8. QED
  BY <1>1, <1>2, <1>4, <1>6, <1>7, OwnStep, Zenon DEF Linked

\* uk_sched_thread_sleep: a thread that is on no wait queue blocks itself.
LEMMA SleepStep ==
    ASSUME IInv, WaitInv, NEW t \in Threads, uk_sched_thread_sleep(t)
    PROVE  WaitInv'
<1>1. t \in All /\ th \in [All -> Thread] /\ th[t].pc = "run"
  BY Zenon DEF All, IInv, uk_sched_thread_sleep, On
<1>2. th' = [th EXCEPT ![t] = [th[t] EXCEPT !.pc = "yield", !.deadline = Timeout]]
  BY <1>1, Zenon DEF uk_sched_thread_sleep
<1>3. UNCHANGED <<count, wait, owner>> /\ sched' = uk_thread_block_until(sched, t, TRUE)
  BY Zenon DEF uk_sched_thread_sleep
<1>4. /\ Fields \subseteq DOMAIN sched' /\ sched'.runnable = sched.runnable \ {t}
      /\ sched'.exited_threads = sched.exited_threads /\ sched'.free = sched.free
  <2>1. Fields \subseteq DOMAIN sched
    BY Members, Zenon
  <2>2. QED
    BY <1>3, <2>1, Zenon DEF uk_thread_block_until, Fields
<1>5. \A o \in Objs : \A u \in Range(wait[o]) : Condition(o, u)' => Condition(o, u)
  BY <1>3, Zenon DEF Condition
<1>6. QED
  BY <1>1, <1>2, <1>3, <1>4, <1>5, OwnStep, Zenon DEF Linked

\* A thread goes to sleep on a wait queue, after it has tested its condition with
\* interrupts disabled.
LEMMA BlockStep ==
    ASSUME IInv, WaitInv, NEW t \in Threads, Block(t)
    PROVE  WaitInv'
<1> DEFINE o == th[t].obj
<1>1. /\ t \in All /\ t # idle /\ th \in [All -> Thread] /\ o \in Objs /\ th[t].pc = "block"
      /\ UNCHANGED <<count, owner>>
  BY GuestThreadsConstants, Zenon DEF All, IInv, Block, On, Waiting, idle
<1>2. CASE Condition(o, t)
  <2> DEFINE x == [th[t] EXCEPT !.pc = "leave"]
  <2>1. th' = [th EXCEPT ![t] = x] /\ UNCHANGED <<sched, wait>>
    BY <1>2, Zenon DEF Block, Goto
  <2>2. x.obj = th[t].obj /\ x.pc \in Linked
    BY <1>1, Zenon DEF Thread, Linked
  <2>3. QED
    BY <1>1, <2>1, <2>2, LocalStep, Zenon
<1>3. CASE ~Condition(o, t)
  <2> DEFINE x == [th[t] EXCEPT !.pc = "yield"]
             w == IF t \in Range(wait[o]) THEN wait[o] ELSE Append(wait[o], t)
  <2>1. /\ th' = [th EXCEPT ![t] = x] /\ wait' = [wait EXCEPT ![o] = w]
        /\ sched' = uk_thread_block_until(sched, t, th[t].deadline # Never)
    BY <1>3, Zenon DEF Block, Goto
  <2>2. x.obj = o /\ x.pc \in Linked
    BY <1>1, Zenon DEF Thread, Linked
  <2>3. wait[o] \in Seq(Threads) /\ IsInjective(wait[o])
    BY <1>1, Members, Zenon
  <2>4. w \in Seq(Threads) /\ IsInjective(w) /\ Range(w) = Range(wait[o]) \cup {t}
    BY <2>3, Appended, Zenon
  <2> HIDE DEF x, w, o
  <2>5. /\ Fields \subseteq DOMAIN sched' /\ sched'.runnable = sched.runnable \ {t}
        /\ sched'.exited_threads = sched.exited_threads /\ sched'.free = sched.free
    BY <2>1, Members, Runnable, SMTT(30)
  <2>6. /\ \A u \in All : u # t => th'[u] = th[u]
        /\ th'[t] = x /\ wait'[o] = w /\ wait' \in [Objs -> Seq(Threads)]
        /\ \A p \in Objs : p # o => wait'[p] = wait[p]
    BY <1>1, <2>1, <2>4, Members, Zenon
  <2>7. \A p \in Objs : \A u \in Range(wait'[p]) :
            (u = t /\ p = o) \/ (u # t /\ u \in Range(wait[p]) /\ u \in All)
    BY <1>1, <2>4, <2>6, Members, SMTT(30) DEF o
  <2>8. \A p \in Objs : \A u \in Threads : Condition(p, u)' <=> Condition(p, u)
    BY <1>1, Zenon DEF Condition
  <2>9. \A p \in Objs : /\ IsInjective(wait'[p])
                        /\ \A u \in Range(wait'[p]) : /\ th'[u].obj = p /\ th'[u].pc \in Linked
                                                      /\ u \notin sched'.runnable => ~Condition(p, u)'
    <3>1. ASSUME NEW p \in Objs, NEW u \in Range(wait'[p])
          PROVE  /\ th'[u].obj = p /\ th'[u].pc \in Linked
                 /\ u \notin sched'.runnable => ~Condition(p, u)'
      <4>1. CASE u = t /\ p = o
        BY <1>3, <2>2, <2>6, <2>8, <4>1, Zenon
      <4>2. CASE u # t /\ u \in Range(wait[p]) /\ u \in All
        BY <2>5, <2>6, <2>8, <4>2, Members, Zenon
      <4>3. QED
        BY <2>7, <3>1, <4>1, <4>2, Zenon
    <3>2. QED
      BY <2>4, <2>6, <3>1, Members, Zenon
  <2>10. \A u \in sched'.free \cup Range(sched'.exited_threads) : th'[u].pc \in {"exit", "gone"}
    BY <1>1, <2>5, <2>6, Members, Zenon
  <2>11. QED
    BY <2>5, <2>6, <2>9, <2>10, Members, Zenon DEF WaitInv, NoLostWakeup, Fields
<1>4. QED
  BY <1>2, <1>3, Zenon

\* A thread leaves the wait queue.
LEMMA LeaveStep ==
    ASSUME IInv, WaitInv, NEW t \in Threads, Leave(t)
    PROVE  WaitInv'
<1> DEFINE o == th[t].obj
           x == [th[t] EXCEPT !.pc = "take"]
           w == Without(wait[o], t)
<1>1. /\ t \in All /\ th \in [All -> Thread] /\ o \in Objs /\ th[t].pc = "leave"
      /\ UNCHANGED <<count, owner>>
      /\ th' = [th EXCEPT ![t] = x] /\ wait' = [wait EXCEPT ![o] = w]
      /\ sched' = uk_thread_wake(sched, <<t>>)
  BY Zenon DEF All, IInv, Leave, On, Waiting, Goto
<1>2. wait[o] \in Seq(Threads) /\ IsInjective(wait[o])
  BY <1>1, Members, Zenon
<1>3. w \in Seq(Threads) /\ IsInjective(w) /\ Range(w) \subseteq Range(wait[o]) \ {t}
  BY <1>2, TakenOut, Zenon
<1>4. /\ Fields \subseteq DOMAIN sched' /\ sched.runnable \subseteq sched'.runnable
      /\ sched'.exited_threads = sched.exited_threads /\ sched'.free = sched.free
  BY <1>1, Members, Runnable, SMTT(30)
<1> HIDE DEF x, w
<1>5. /\ \A u \in All : u # t => th'[u] = th[u]
      /\ wait'[o] = w /\ wait' \in [Objs -> Seq(Threads)]
      /\ \A p \in Objs : p # o => wait'[p] = wait[p]
  BY <1>1, <1>3, Members, Zenon
<1>6. \A p \in Objs : IsInjective(wait'[p]) /\ Range(wait'[p]) \subseteq Range(wait[p]) \ {t}
  BY <1>1, <1>3, <1>5, Members, SMTT(30)
<1>7. \A p \in Objs : \A u \in Threads : Condition(p, u)' <=> Condition(p, u)
  BY <1>1, Zenon DEF Condition
<1>8. ASSUME NEW p \in Objs, NEW u \in Range(wait'[p])
      PROVE  /\ th'[u].obj = p /\ th'[u].pc \in Linked
             /\ u \notin sched'.runnable => ~Condition(p, u)'
  <2>1. u \in Range(wait[p]) /\ u # t /\ u \in Threads
    BY <1>6, Members, Zenon
  <2>2. th'[u] = th[u]
    BY <1>5, <2>1, Members, Zenon
  <2>3. u \notin sched'.runnable => ~Condition(p, u)
    BY <1>4, <2>1, Members, Zenon
  <2>4. QED
    BY <1>7, <2>1, <2>2, <2>3, Members, Zenon
<1>9. \A u \in sched'.free \cup Range(sched'.exited_threads) : th'[u].pc \in {"exit", "gone"}
  BY <1>1, <1>4, <1>5, Members, Zenon
<1>10. QED
  BY <1>4, <1>5, <1>6, <1>8, <1>9, Members, Zenon DEF WaitInv, NoLostWakeup, Fields

\* Thread u, which is on no wait queue, starts or is gone.
LEMMA OtherStep ==
    ASSUME IInv, WaitInv, UNCHANGED <<count, wait, owner>>,
           NEW u \in Threads, \A o \in Objs : u \notin Range(wait[o]),
           NEW x, th' = [th EXCEPT ![u] = x], Fields \subseteq DOMAIN sched',
           sched'.exited_threads \in Seq(Threads), sched'.free \subseteq Threads,
           sched'.free \cap Range(sched'.exited_threads) = {},
           sched'.free \cup Range(sched'.exited_threads)
               \subseteq sched.free \cup Range(sched.exited_threads) \cup {u},
           u \in sched'.free \cup Range(sched'.exited_threads) => x.pc \in {"exit", "gone"},
           sched.runnable \subseteq sched'.runnable \cup {u}
    PROVE  WaitInv'
<1>1. (\A v \in All : v # u => th'[v] = th[v]) /\ th'[u] = x
  BY Members, Zenon
<1>2. \A v \in sched'.free \cup Range(sched'.exited_threads) : th'[v].pc \in {"exit", "gone"}
  BY <1>1, Members, Zenon
<1>3. ASSUME NEW o \in Objs, NEW v \in Range(wait[o])
      PROVE  /\ th'[v].obj = o /\ th'[v].pc \in Linked
             /\ v \notin sched'.runnable => ~Condition(o, v)'
  <2>1. v # u /\ th'[v] = th[v]
    BY <1>1, Members, SMTT(30)
  <2>2. Condition(o, v)' <=> Condition(o, v)
    BY Zenon DEF Condition
  <2>3. QED
    BY <2>1, <2>2, Members, Zenon
<1>4. QED
  BY <1>2, <1>3, Undisturbed, Zenon

\* A thread exits, terminates another one, or starts one.
LEMMA ThreadSteps ==
    ASSUME IInv, WaitInv, NEW t \in Threads,
           \/ uk_sched_thread_exit(t)
           \/ \E u \in Threads : uk_sched_thread_terminate(t, u)
           \/ \E u \in Threads : uk_sched_thread_add(t, u)
    PROVE  WaitInv'
<1>1. CASE uk_sched_thread_exit(t)
  <2> DEFINE x == [th[t] EXCEPT !.pc = "exit"]
  <2>1. /\ UNCHANGED <<count, wait, owner>> /\ th[t].pc = "run" /\ th' = [th EXCEPT ![t] = x]
        /\ sched' = [sched EXCEPT !.runnable = @ \ {t}, !.exited_threads = Append(@, t)]
    BY <1>1, Zenon DEF uk_sched_thread_exit, On, Goto
  <2>2. x.pc = "exit"
    BY Members DEF Thread
  <2>3. /\ Fields \subseteq DOMAIN sched' /\ sched'.runnable = sched.runnable \ {t}
        /\ sched'.exited_threads = Append(sched.exited_threads, t) /\ sched'.free = sched.free
    BY <2>1, Members, Zenon DEF Fields
  <2>4. /\ sched'.exited_threads \in Seq(Threads)
        /\ Range(sched'.exited_threads) = Range(sched.exited_threads) \cup {t}
    BY <2>3, Members, Appended, SMTT(30)
  <2>5. \A o \in Objs : t \notin Range(wait[o])
    BY <2>1, Members, Zenon DEF Linked
  <2> HIDE DEF x
  <2>6. sched'.free \cap Range(sched'.exited_threads) = {}
    BY <2>1, <2>3, <2>4, Members, Zenon
  <2>7. QED
    BY <2>1, <2>2, <2>3, <2>4, <2>5, <2>6, OtherStep, Members, Zenon
<1>2. ASSUME NEW u \in Threads, uk_sched_thread_terminate(t, u)
      PROVE  WaitInv'
  <2>1. /\ UNCHANGED <<count, wait, owner>> /\ th[u].obj = "none" /\ th[u].pc \notin {"exit", "gone"}
        /\ th' = [th EXCEPT ![u] = Gone] /\ Gone.pc = "gone"
    BY <1>2, Zenon DEF uk_sched_thread_terminate, Gone
  <2>2. /\ Fields \subseteq DOMAIN sched' /\ sched'.runnable = sched.runnable \ {u}
        /\ sched'.exited_threads = sched.exited_threads /\ sched'.free = sched.free \cup {u}
    <3>1. Fields \subseteq DOMAIN sched
      BY Members, Zenon
    <3> DEFINE r == Without(sched.run_queue, u)
    <3>2. sched' = [sched EXCEPT !.run_queue = r, !.runnable = @ \ {u}, !.free = @ \cup {u}]
      BY <1>2, Zenon DEF uk_sched_thread_terminate
    <3> HIDE DEF r
    <3>3. QED
      BY <3>1, <3>2, Zenon DEF Fields
  <2>3. \A o \in Objs : u \notin Range(wait[o])
    BY <2>1, Members, Zenon
  <2>4. sched'.free \cap Range(sched'.exited_threads) = {}
    BY <2>1, <2>2, Members, Zenon
  <2>5. QED
    BY <2>1, <2>2, <2>3, <2>4, OtherStep, Members, Zenon
<1>3. ASSUME NEW u \in Threads, uk_sched_thread_add(t, u)
      PROVE  WaitInv'
  <2>1. UNCHANGED <<count, wait, owner>> /\ u \in sched.free /\ th' = [th EXCEPT ![u] = Running]
    BY <1>3, Zenon DEF uk_sched_thread_add
  <2>2. /\ Fields \subseteq DOMAIN sched' /\ sched'.runnable = sched.runnable \cup {u}
        /\ sched'.exited_threads = sched.exited_threads /\ sched'.free = sched.free \ {u}
    <3>1. Fields \subseteq DOMAIN sched
      BY Members, Zenon
    <3>2. QED
      BY <1>3, <3>1, Zenon DEF uk_sched_thread_add, Fields
  <2>3. \A o \in Objs : u \notin Range(wait[o])
    BY <2>1, Members, Zenon DEF Linked
  <2>4. u \notin sched'.free \cup Range(sched'.exited_threads)
    BY <2>1, <2>2, Members, Zenon
  <2>5. QED
    BY <2>1, <2>2, <2>3, <2>4, OtherStep, Members, Zenon
<1>4. QED
  BY <1>1, <1>2, <1>3, Zenon

\* schedcoop_schedule wakes the sleepers whose time has come; whoever calls it
\* after blocking stays on the wait queue.
LEMMA ScheduleStep ==
    ASSUME IInv, WaitInv, NEW t \in All, schedcoop_schedule(t)
    PROVE  WaitInv'
<1> DEFINE pc == IF t = idle THEN "gc" ELSE IF th[t].pc = "exit" THEN "gone" ELSE "woken"
           x == [th[t] EXCEPT !.pc = pc]
           s == uk_thread_wake(sched, Expired)
<1>1. /\ UNCHANGED <<count, wait, owner>> /\ th[t].pc \in {"yield", "exit"}
      /\ th' = [th EXCEPT ![t] = x]
  BY Zenon DEF schedcoop_schedule, Goto, On
<1>2. x.pc = pc /\ x.obj = th[t].obj
  BY Members, SMTT(30) DEF Thread
<1>3. PICK a, b, c : sched' = [s EXCEPT !.run_queue = a, !.queueable = b, !.next = c]
  BY Zenon DEF schedcoop_schedule
<1>4. /\ Fields \subseteq DOMAIN s /\ sched.runnable \subseteq s.runnable
      /\ s.exited_threads = sched.exited_threads /\ s.free = sched.free
  <2>1. Fields \subseteq DOMAIN sched
    BY Members, Zenon
  <2>2. s.runnable = sched.runnable \cup Range(Expired) /\ Fields \subseteq DOMAIN s
        /\ s.exited_threads = sched.exited_threads /\ s.free = sched.free
    BY <2>1, Runnable, Zenon
  <2> HIDE DEF s
  <2>3. QED
    BY <2>2, Zenon
<1> HIDE DEF s, x
<1>5. /\ Fields \subseteq DOMAIN sched' /\ sched.runnable \subseteq sched'.runnable
      /\ sched'.exited_threads = sched.exited_threads /\ sched'.free = sched.free
  BY <1>3, <1>4, Zenon DEF Fields
<1>6. \A o \in Objs : \A u \in Range(wait[o]) : Condition(o, u)' <=> Condition(o, u)
  BY <1>1, Zenon DEF Condition
<1>7. CASE th[t].pc = "yield"
  BY <1>1, <1>2, <1>5, <1>6, <1>7, OwnStep, Zenon DEF Linked
<1>8. CASE th[t].pc = "exit"
  <2>1. \A u \in All : u # t => th'[u] = th[u]
    BY <1>1, Members, Zenon
  <2>2. th'[t].pc = "gone" \/ t = idle
    BY <1>1, <1>2, <1>8, Members, Zenon
  <2>3. \A u \in sched'.free \cup Range(sched'.exited_threads) : th'[u].pc \in {"exit", "gone"}
    BY <1>5, <2>1, <2>2, Members, SMTT(30)
  <2>4. ASSUME NEW o \in Objs, NEW u \in Range(wait[o])
        PROVE  /\ th'[u].obj = o /\ th'[u].pc \in Linked
               /\ u \notin sched'.runnable => ~Condition(o, u)'
    <3>1. u # t /\ u \in All
      BY <1>8, Members, Zenon DEF Linked
    <3>2. QED
      BY <1>5, <1>6, <2>1, <3>1, Members, Zenon
  <2>5. QED
    BY <1>1, <1>5, <2>3, <2>4, Undisturbed, Members, Zenon
<1>9. QED
  BY <1>1, <1>7, <1>8, Zenon

\* The switch, the idle thread and the clock.
LEMMA IdleSteps ==
    ASSUME IInv, WaitInv,
           Switch \/ uk_sched_thread_gc \/ ukplat_lcpu_halt_to \/ TimerInterrupt \/ Tick
    PROVE  WaitInv'
<1>1. /\ UNCHANGED <<count, wait, owner>>
      /\ \A o \in Objs : \A u \in Range(wait[o]) : Condition(o, u)' <=> Condition(o, u)
  BY Zenon DEF Switch, uk_sched_thread_gc, ukplat_lcpu_halt_to, TimerInterrupt, Tick, Condition
<1>2. \A u \in Threads : th'[u].pc = th[u].pc /\ th'[u].obj = th[u].obj
  <2>1. CASE Switch
    BY <2>1, Zenon DEF Switch
  <2>2. CASE uk_sched_thread_gc \/ ukplat_lcpu_halt_to \/ TimerInterrupt
    <3>1. \E y : th' = [th EXCEPT ![idle] = y]
      BY <2>2, Zenon DEF uk_sched_thread_gc, ukplat_lcpu_halt_to, TimerInterrupt, Goto
    <3>2. QED
      BY <3>1, Members, Zenon
  <2>3. CASE Tick
    <3>1. th' = [t \in All |-> [th[t] EXCEPT !.deadline = Less(th[t].deadline)]]
      BY <2>3, Zenon DEF Tick
    <3>2. QED
      BY <3>1, Members, SMTT(30) DEF Thread
  <2>4. QED
    BY <2>1, <2>2, <2>3, Zenon
<1>3. /\ Fields \subseteq DOMAIN sched' /\ sched'.runnable = sched.runnable
      /\ sched'.exited_threads \in Seq(Threads) /\ sched'.free \subseteq Threads
      /\ sched'.free \cap Range(sched'.exited_threads) = {}
      /\ sched'.free \cup Range(sched'.exited_threads) = sched.free \cup Range(sched.exited_threads)
  <2>1. CASE sched' = sched
    BY <2>1, Members, Zenon
  <2>2. CASE Switch
    <3>1. Fields \subseteq DOMAIN sched
      BY Members, Zenon
    <3>2. /\ Fields \subseteq DOMAIN sched' /\ sched'.runnable = sched.runnable
          /\ sched'.exited_threads = sched.exited_threads /\ sched'.free = sched.free
      BY <2>2, <3>1, Zenon DEF Switch, Fields
    <3>3. QED
      BY <3>2, Members, Zenon
  <2>3. CASE uk_sched_thread_gc
    <3>1. Fields \subseteq DOMAIN sched
      BY Members, Zenon
    <3>2. /\ Fields \subseteq DOMAIN sched' /\ sched'.runnable = sched.runnable
          /\ sched'.exited_threads = <<>>
          /\ sched'.free = sched.free \cup Range(sched.exited_threads)
      BY <2>3, <3>1, Zenon DEF uk_sched_thread_gc, Fields
    <3>3. Range(<<>>) = {} /\ <<>> \in Seq(Threads)
      BY DEF Range
    <3>4. QED
      BY <3>2, <3>3, Members, Zenon
  <2>4. QED
    BY <2>1, <2>2, <2>3, Zenon DEF ukplat_lcpu_halt_to, TimerInterrupt, Tick
<1>4. QED
  BY <1>1, <1>2, <1>3, Undisturbed, Members, Zenon

\* An interrupt handler posts or receives: it raises one semaphore, whose waiters
\* it wakes, and takes from the other.
LEMMA InterruptSteps ==
    ASSUME IInv, WaitInv, InterruptRecv \/ \E m \in Msgs : Interrupt(m)
    PROVE  WaitInv'
<1>1. wait' = wait /\ owner' = owner /\ th' = Kicked /\ count \in [Objs -> Nat]
  BY Zenon DEF InterruptRecv, Interrupt, IInv
<1>2. \A u \in Threads : th'[u] = th[u]
  <2>1. \E y : th' = [th EXCEPT ![idle] = y]
    BY <1>1, Zenon DEF Kicked
  <2>2. QED
    BY <2>1, Members, Zenon
<1>3. ASSUME NEW o \in Sems, NEW p \in Sems, o # p, sched' = uk_thread_wake(sched, wait[o]),
             count' = [count EXCEPT ![p] = @ - 1, ![o] = @ + 1]
      PROVE  WaitInv'
  <2>1. /\ Fields \subseteq DOMAIN sched' /\ sched'.runnable = sched.runnable \cup Range(wait[o])
        /\ sched'.exited_threads = sched.exited_threads /\ sched'.free = sched.free
    BY <1>3, Members, Runnable, SMTT(30)
  <2>2. ASSUME NEW e \in Objs, NEW u \in Range(wait[e]), u \notin sched'.runnable
        PROVE  ~Condition(e, u)'
    <3>1. e # o /\ ~Condition(e, u)
      BY <2>1, <2>2, Members, Zenon
    <3>2. count'[e] = IF e = p THEN count[e] - 1 ELSE count[e]
      BY <1>1, <1>3, <3>1, Zenon DEF Objs
    <3>3. count[e] \in Nat /\ p # "mutex"
      BY <1>1, Zenon DEF Sems
    <3>4. QED
      BY <1>1, <3>1, <3>2, <3>3, SMTT(30) DEF Condition
  <2>3. QED
    BY <1>1, <1>2, <2>1, <2>2, Undisturbed, Members, SMTT(30)
<1>4. CASE InterruptRecv
  BY <1>3, <1>4, Zenon DEF InterruptRecv, uk_waitq_wake_up, Sems
<1>5. ASSUME NEW m \in Msgs, Interrupt(m)
      PROVE  WaitInv'
  <2>1. CASE count["writesem"] > 0
    BY <1>3, <1>5, <2>1, Zenon DEF Interrupt, uk_waitq_wake_up, Sems
  <2>2. CASE ~(count["writesem"] > 0)
    <3>1. UNCHANGED <<sched, count>>
      BY <1>5, <2>2, Zenon DEF Interrupt
    <3>2. \A o \in Objs : \A u \in Range(wait[o]) : Condition(o, u)' <=> Condition(o, u)
      BY <1>1, <3>1, Zenon DEF Condition
    <3>3. QED
      BY <1>1, <1>2, <3>1, <3>2, Undisturbed, Members, SMTT(30)
  <2>3. QED
    BY <2>1, <2>2, Zenon
<1>6. QED
  BY <1>4, <1>5, Zenon

\* Every step, of a thread, of the scheduler or of an interrupt handler, keeps it.
LEMMA NextWaitInv == IInv /\ WaitInv /\ [Next]_vars => WaitInv'
<1> SUFFICES ASSUME IInv, WaitInv, [Next]_vars PROVE WaitInv'
  OBVIOUS
<1>1. ASSUME NEW t \in Threads, Call(t)
      PROVE  WaitInv'
  BY <1>1, LocalSteps, LockSteps, SleepStep, ThreadSteps, Zenon DEF Call
<1>2. ASSUME NEW t \in Threads, Step(t)
      PROVE  WaitInv'
  BY <1>2, LocalSteps, LockSteps, BlockStep, LeaveStep, Zenon DEF Step
<1>3. CASE UNCHANGED vars
  BY <1>3, Zenon DEF vars, WaitInv, NoLostWakeup, Condition
<1>4. QED
  BY <1>1, <1>2, <1>3, ScheduleStep, IdleSteps, InterruptSteps, Zenon DEF Next

-----------------------------------------------------------------------------
\* For any number of threads, who is on the wait queue of a semaphore or of the
\* mutex is there once and inside of __wq_wait_event_deadline for it, and a thread
\* that exited or was terminated is not on one.
THEOREM WaitInvariant == Spec => []WaitInv
<1>1. QED
  BY InitWaitInv, NextWaitInv, InductiveInvariant, PTL DEF Spec

\* For any number of threads, no thread stays blocked on a semaphore or a mutex
\* that it could take, although its condition is tested twice, with interrupts
\* enabled and disabled, and an interrupt handler may raise the semaphore between
\* any two steps (__wq_wait_event_deadline, uk_waitq_wake_up).
THEOREM NoWakeupLost == Spec => []NoLostWakeup
<1>1. WaitInv => NoLostWakeup
  BY Zenon DEF WaitInv
<1>2. QED
  BY <1>1, WaitInvariant, PTL
==============================================================================
