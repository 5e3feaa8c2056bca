---------------------------- MODULE GuestSchedProofs ----------------------------
(***************************************************************************)
(* Proof that the scheduler of GuestThreads keeps its queues, for any      *)
(* number of threads, with interrupts between any two steps: who can run   *)
(* has the CPU or is on the run queue once, who is blocked with a deadline *)
(* is on the sleep queue once, and who is gone is on none.                 *)
(***************************************************************************)
EXTENDS GuestThreadsProofs, FiniteSetTheorems

\* The scheduler as a value s, with the threads h, so that a step can be followed
\* through the changes that it makes one after the other.
SchedType ==
    [current : All, next : All \cup {NoThread}, run_queue : Seq(Threads),
     sleep_queue : Seq(Threads), runnable : SUBSET All, queueable : SUBSET All,
     armed : SUBSET Threads, exited_threads : Seq(Threads), free : SUBSET Threads]
HasCpu(s, t) == IF s.next = NoThread THEN s.current = t ELSE s.next = t
Dead(s) == s.free \cup Range(s.exited_threads)

Queued(s) ==
    /\ IsInjective(s.run_queue)
    /\ \A t \in Threads : t \in Range(s.run_queue) <=> t \in s.runnable /\ ~HasCpu(s, t)
Asleep(s) ==
    /\ IsInjective(s.sleep_queue) /\ Range(s.sleep_queue) = s.armed
    /\ s.armed \cap s.runnable = {}

\* UK_THREADF_QUEUEABLE is clear for the thread that has the CPU and set for any
\* other that is blocked; what is gone is not runnable and does not sleep.
Flagged(s) ==
    /\ idle \in s.runnable
    /\ \A t \in Threads : /\ HasCpu(s, t) => t \notin s.queueable
                          /\ t \in s.runnable \cup s.queueable \cup Dead(s) \/ HasCpu(s, t)
                          /\ t \in Dead(s) => t \notin s.runnable \cup s.armed

\* Only a thread that is about to enter the scheduler has the CPU while it is
\* blocked, and only one that exits while it is gone.
Located(s, h) ==
    \A t \in Threads : /\ HasCpu(s, t) /\ h[t].pc \notin {"yield", "exit"} => t \in s.runnable
                       /\ t \in Dead(s) <=> h[t].pc \in {"exit", "gone"}
                       /\ HasCpu(s, t) => h[t].pc # "gone"

Sound(s, h) == s \in SchedType /\ Queued(s) /\ Asleep(s) /\ Flagged(s) /\ Located(s, h)

\* RunnableOnce, SleepersTimed and GoneUnlinked with what makes them inductive.
SchedInv == Sound(sched, th)

-----------------------------------------------------------------------------
\* The ranks of the members of a finite set of numbers are 1 to its size.
LEMMA Ranked ==
    ASSUME NEW at \in SUBSET Nat, IsFiniteSet(at)
    PROVE  /\ \A i \in at : Cardinality({j \in at : j <= i}) \in 1..Cardinality(at)
           /\ \A i, k \in at : Cardinality({j \in at : j <= i}) = Cardinality({j \in at : j <= k}) => i = k
           /\ \A n \in 1..Cardinality(at) : \E i \in at : Cardinality({j \in at : j <= i}) = n
<1> DEFINE Upto(i) == {j \in at : j <= i}
           n == Cardinality(at)
           rank == [i \in at |-> Cardinality(Upto(i))]
<1>1. n \in Nat /\ \A S \in SUBSET at : IsFiniteSet(S) /\ Cardinality(S) \in Nat /\ Cardinality(S) <= n
  BY FS_CardinalityType, FS_Subset, Zenon
<1>2. ASSUME NEW i \in at
      PROVE  Cardinality(Upto(i)) \in 1..n
  <2>1. Upto(i) \in SUBSET at /\ i \in Upto(i)
    BY SMTT(30)
  <2>2. Cardinality(Upto(i)) # 0
    BY <1>1, <2>1, FS_EmptySet, ZenonT(30)
  <2>3. QED
    BY <1>1, <2>1, <2>2, SMTT(30)
<1>3. ASSUME NEW i \in at, NEW k \in at, i < k
      PROVE  Cardinality(Upto(i)) # Cardinality(Upto(k))
  <2>1. Upto(i) \subseteq Upto(k) /\ k \in Upto(k) /\ k \notin Upto(i) /\ Upto(k) \in SUBSET at
    <3>1. \A j \in at : j \in Nat
      BY SMTT(30)
    <3>2. \A j \in at : j <= i => j <= k
      BY <1>3, <3>1, SMTT(30)
    <3>3. k \in Upto(k) /\ k \notin Upto(i)
      BY <1>3, <3>1, SMTT(30)
    <3>4. QED
      BY <3>2, <3>3, Zenon
  <2>2. IsFiniteSet(Upto(k))
    BY <1>1, <2>1, Zenon
  <2> HIDE DEF Upto
  <2>3. QED
    BY <2>1, <2>2, FS_Subset, ZenonT(30)
<1>4. \A i, k \in at : Cardinality(Upto(i)) = Cardinality(Upto(k)) => i = k
  BY <1>3, SMTT(30)
<1>5. rank \in Injection(at, 1..n)
  <2>1. rank \in [at -> 1..n]
    BY <1>2, Zenon
  <2>2. ASSUME NEW c \in at, NEW d \in at, rank[c] = rank[d]
        PROVE  c = d
    BY <2>2, <1>4, Zenon
  <2>3. IsInjective(rank)
    BY <2>1, <2>2, Zenon DEF IsInjective
  <2>4. QED
    BY <2>1, <2>3, Zenon DEF Injection
<1>6. rank \in Surjection(at, 1..n)
  <2>1. IsFiniteSet(1..n) /\ Cardinality(1..n) = n
    BY <1>1, FS_Interval, SMTT(30)
  <2>2. QED
    BY <1>5, <2>1, FS_Injection, ZenonT(30)
<1>7. \A m \in 1..n : \E i \in at : Cardinality(Upto(i)) = m
  BY <1>6, Zenon DEF Surjection
<1>8. QED
  BY <1>2, <1>4, <1>7, ZenonT(30)

\* The entries of a queue that are in a set.
LEMMA OnlyThose ==
    ASSUME NEW q \in Seq(Threads), NEW S
    PROVE  /\ Only(q, S) \in Seq(Threads)
           /\ Range(Only(q, S)) = Range(q) \cap S
           /\ IsInjective(q) => IsInjective(Only(q, S))
<1> DEFINE at == {i \in DOMAIN q : q[i] \in S}
           Rank(i) == Cardinality({j \in at : j <= i})
           n == Cardinality(at)
           Pick(k) == CHOOSE i \in at : Rank(i) = k
<1>1. Len(q) \in Nat /\ DOMAIN q = 1..Len(q) /\ \A i \in 1..Len(q) : q[i] \in Threads
  BY SMTT(30)
<1>2. at \in SUBSET Nat /\ IsFiniteSet(at)
  <2>1. at \subseteq 1..Len(q) /\ IsFiniteSet(1..Len(q))
    BY <1>1, FS_Interval, SMTT(30)
  <2>2. QED
    BY <1>1, <2>1, FS_Subset, SMTT(30)
<1>3. Only(q, S) = [k \in 1..n |-> q[Pick(k)]]
  BY Zenon DEF Only
<1>4. n \in Nat
  BY <1>2, FS_CardinalityType, ZenonT(30)
<1>5. /\ \A i \in at : Rank(i) \in 1..n
      /\ \A i, k \in at : Rank(i) = Rank(k) => i = k
      /\ \A m \in 1..n : \E i \in at : Rank(i) = m
  <2> HIDE DEF at
  <2>1. QED
    BY <1>2, Ranked, ZenonT(30)
<1>6. \A i \in at : i \in DOMAIN q /\ q[i] \in S
  BY SMTT(30)
<1>7. \A i \in DOMAIN q : q[i] \in S => i \in at
  BY SMTT(30)
<1> HIDE DEF at, Rank, n
<1>8. \A k \in 1..n : Pick(k) \in at /\ Rank(Pick(k)) = k
  BY <1>5, Zenon
<1>9. \A i \in at : Pick(Rank(i)) = i
  BY <1>5, <1>8, ZenonT(30)
<1> HIDE DEF Pick
<1> DEFINE r == [k \in 1..n |-> q[Pick(k)]]
<1>10. r \in Seq(Threads) /\ DOMAIN r = 1..n /\ \A k \in 1..n : r[k] = q[Pick(k)]
  BY <1>1, <1>4, <1>6, <1>8, SMTT(30)
<1> HIDE DEF r
<1>11. Range(r) = Range(q) \cap S
  <2>1. \A k \in 1..n : r[k] \in Range(q) \cap S
    BY <1>6, <1>8, <1>10, ZenonT(30) DEF Range
  <2>2. ASSUME NEW x \in Range(q) \cap S
        PROVE  \E k \in 1..n : r[k] = x
    <3>1. PICK i \in DOMAIN q : q[i] = x
      BY Zenon DEF Range
    <3>2. i \in at /\ Rank(i) \in 1..n /\ r[Rank(i)] = x
      BY <1>5, <1>7, <1>9, <1>10, <3>1, SMTT(30)
    <3>3. QED
      BY <3>2, Zenon
  <2>3. QED
    BY <1>10, <2>1, <2>2, SMTT(30) DEF Range
<1>12. ASSUME IsInjective(q)
       PROVE  IsInjective(r)
  <2>1. ASSUME NEW k \in 1..n, NEW m \in 1..n, r[k] = r[m]
        PROVE  k = m
    <3>1. Pick(k) = Pick(m)
      BY <1>6, <1>8, <1>10, <1>12, <2>1, ZenonT(30) DEF IsInjective
    <3>2. QED
      BY <1>8, <3>1, ZenonT(30)
  <2>2. QED
    BY <1>10, <2>1, ZenonT(30) DEF IsInjective
<1>13. QED
  BY <1>3, <1>10, <1>11, <1>12, ZenonT(30) DEF r

\* Two queues, one after the other.
LEMMA Joined ==
    ASSUME NEW q \in Seq(Threads), NEW r \in Seq(Threads)
    PROVE  /\ q \o r \in Seq(Threads)
           /\ Range(q \o r) = Range(q) \cup Range(r)
           /\ IsInjective(q) /\ IsInjective(r) /\ Range(q) \cap Range(r) = {} => IsInjective(q \o r)
<1> DEFINE s == q \o r
<1>1. /\ s \in Seq(Threads) /\ Len(q) \in Nat /\ Len(r) \in Nat
      /\ DOMAIN q = 1..Len(q) /\ DOMAIN r = 1..Len(r) /\ DOMAIN s = 1..(Len(q) + Len(r))
      /\ \A i \in 1..(Len(q) + Len(r)) : s[i] = IF i <= Len(q) THEN q[i] ELSE r[i - Len(q)]
  BY SMTT(30)
<1> HIDE DEF s
<1>2. \A i \in 1..Len(r) : Len(q) + i \in 1..(Len(q) + Len(r)) /\ s[Len(q) + i] = r[i]
  <2> SUFFICES ASSUME NEW i \in 1..Len(r)
               PROVE  Len(q) + i \in 1..(Len(q) + Len(r)) /\ s[Len(q) + i] = r[i]
    BY SMTT(30)
  <2>1. Len(q) + i \in 1..(Len(q) + Len(r)) /\ ~(Len(q) + i <= Len(q)) /\ (Len(q) + i) - Len(q) = i
    BY <1>1, SMTT(30)
  <2>2. QED
    BY <1>1, <2>1, ZenonT(30)
<1>3. \A i \in 1..Len(q) : i \in 1..(Len(q) + Len(r)) /\ s[i] = q[i]
  BY <1>1, SMTT(30)
<1>4. \A i \in 1..(Len(q) + Len(r)) : (i \in 1..Len(q) /\ s[i] = q[i])
                                     \/ (i - Len(q) \in 1..Len(r) /\ s[i] = r[i - Len(q)] /\ ~(i \in 1..Len(q)))
  BY <1>1, SMTT(30)
<1>5. Range(s) = Range(q) \cup Range(r)
  <2>1. \A x \in Range(s) : x \in Range(q) \cup Range(r)
    BY <1>1, <1>4, Zenon DEF Range
  <2>2. \A x \in Range(q) : x \in Range(s)
    BY <1>1, <1>3, ZenonT(30) DEF Range
  <2>3. \A x \in Range(r) : x \in Range(s)
    BY <1>1, <1>2, SMTT(30) DEF Range
  <2>4. QED
    BY <2>1, <2>2, <2>3, ZenonT(30)
<1>6. ASSUME IsInjective(q), IsInjective(r), Range(q) \cap Range(r) = {}
      PROVE  IsInjective(s)
  <2>1. \A i \in 1..Len(q), j \in 1..Len(r) : q[i] # r[j]
    BY <1>1, <1>6, ZenonT(30) DEF Range
  <2>2. ASSUME NEW i \in 1..(Len(q) + Len(r)), NEW j \in 1..(Len(q) + Len(r)), s[i] = s[j]
        PROVE  i = j
    <3>1. CASE i \in 1..Len(q)
      BY <1>1, <1>4, <1>6, <2>1, <2>2, <3>1, SMTT(30) DEF IsInjective
    <3>2. CASE ~(i \in 1..Len(q))
      <4>1. i - Len(q) \in 1..Len(r) /\ j - Len(q) \in 1..Len(r) /\ r[i - Len(q)] = r[j - Len(q)]
        BY <1>1, <1>4, <2>1, <2>2, <3>2, ZenonT(30)
      <4>2. i - Len(q) = j - Len(q)
        BY <1>1, <1>6, <4>1, ZenonT(30) DEF IsInjective
      <4>3. QED
        BY <1>1, <4>2, SMTT(30)
    <3>3. QED
      BY <3>1, <3>2, ZenonT(30)
  <2>3. QED
    BY <1>1, <2>2, ZenonT(30) DEF IsInjective
<1>7. QED
  BY <1>1, <1>5, <1>6, ZenonT(30) DEF s

-----------------------------------------------------------------------------
\* What uk_thread_wake does to a scheduler in order, for threads that are not gone.
LEMMA WakeSound ==
    ASSUME NEW s, NEW h, Sound(s, h), NEW q \in Seq(Threads), IsInjective(q),
           Range(q) \cap Dead(s) = {}
    PROVE  LET w == uk_thread_wake(s, q)
           IN  /\ Sound(w, h) /\ w.current = s.current /\ w.next = s.next
               /\ w.runnable = s.runnable \cup Range(q) /\ Dead(w) = Dead(s)
<1> DEFINE w == uk_thread_wake(s, q)
           blocked == Range(q) \ s.runnable
           asleep == Range(s.sleep_queue) \ (blocked \cap s.armed)
           sq == Only(s.sleep_queue, asleep)
           rq == Only(q, blocked \cap s.queueable)
           jq == s.run_queue \o rq
<1>1. /\ s \in SchedType /\ Queued(s) /\ Asleep(s) /\ Flagged(s) /\ Located(s, h)
      /\ s.run_queue \in Seq(Threads) /\ s.sleep_queue \in Seq(Threads)
      /\ s.runnable \subseteq All /\ s.queueable \subseteq All /\ s.armed \subseteq Threads
  BY Zenon DEF Sound, SchedType
<1>2. Range(q) \subseteq Threads /\ Threads \subseteq All
  BY SMTT(30) DEF Range, All
<1>3. w = [s EXCEPT !.runnable = s.runnable \cup Range(q), !.armed = s.armed \ Range(q),
                    !.sleep_queue = sq, !.run_queue = jq, !.queueable = s.queueable \ blocked]
  BY Zenon DEF uk_thread_wake
<1>4. sq \in Seq(Threads) /\ Range(sq) = Range(s.sleep_queue) \cap asleep /\ IsInjective(sq)
  BY <1>1, OnlyThose, Zenon DEF Asleep
<1>5. rq \in Seq(Threads) /\ Range(rq) = Range(q) \cap (blocked \cap s.queueable) /\ IsInjective(rq)
  BY OnlyThose, Zenon
<1> HIDE DEF sq, rq
<1>6. Range(s.run_queue) \cap Range(rq) = {}
  <2>1. Range(s.run_queue) \subseteq Threads
    BY <1>1, SMTT(30) DEF Range
  <2>2. QED
    BY <1>1, <1>5, <2>1, ZenonT(30) DEF Queued
<1>7. jq \in Seq(Threads) /\ Range(jq) = Range(s.run_queue) \cup Range(rq) /\ IsInjective(jq)
  BY <1>1, <1>5, <1>6, Joined, ZenonT(30) DEF Queued
<1> HIDE DEF jq, w
<1>8. /\ w.current = s.current /\ w.next = s.next /\ w.run_queue = jq /\ w.sleep_queue = sq
      /\ w.runnable = s.runnable \cup Range(q) /\ w.queueable = s.queueable \ blocked
      /\ w.armed = s.armed \ Range(q) /\ w.exited_threads = s.exited_threads /\ w.free = s.free
  BY <1>1, <1>3, ZenonT(30) DEF SchedType
<1>9. w \in SchedType
  <2>1. s.runnable \cup Range(q) \in SUBSET All /\ s.armed \ Range(q) \in SUBSET Threads
        /\ s.queueable \ blocked \in SUBSET All
    BY <1>1, <1>2, ZenonT(30)
  <2> HIDE DEF blocked
  <2>2. QED
    BY <1>1, <1>3, <1>4, <1>7, <2>1, Zenon DEF SchedType
<1>10. Dead(w) = Dead(s) /\ \A t \in Threads : HasCpu(w, t) <=> HasCpu(s, t)
  BY <1>8, Zenon DEF Dead, HasCpu
<1>11. Queued(w)
  <2>1. ASSUME NEW t \in Threads
        PROVE  t \in Range(jq) <=> t \in w.runnable /\ ~HasCpu(w, t)
    <3>1. t \in Range(s.run_queue) <=> t \in s.runnable /\ ~HasCpu(s, t)
      BY <1>1, ZenonT(30) DEF Queued
    <3>2. t \in blocked => (t \in s.queueable <=> ~HasCpu(s, t))
      BY <1>1, ZenonT(30) DEF Flagged
    <3>3. QED
      BY <1>5, <1>7, <1>8, <1>10, <3>1, <3>2, SMTT(30)
  <2>2. QED
    BY <1>7, <1>8, <2>1, ZenonT(30) DEF Queued
<1>12. Asleep(w)
  <2>1. Range(sq) = s.armed \ Range(q)
    BY <1>1, <1>4, ZenonT(30) DEF Asleep
  <2>2. (s.armed \ Range(q)) \cap (s.runnable \cup Range(q)) = {}
    BY <1>1, Zenon DEF Asleep
  <2>3. QED
    BY <1>4, <1>8, <2>1, <2>2, SMTT(30) DEF Asleep
<1>13. Flagged(w)
  <2>1. idle \in w.runnable
    BY <1>1, <1>8, ZenonT(30) DEF Flagged
  <2>2. ASSUME NEW t \in Threads
        PROVE  /\ HasCpu(w, t) => t \notin w.queueable
               /\ t \in w.runnable \cup w.queueable \cup Dead(w) \/ HasCpu(w, t)
               /\ t \in Dead(w) => t \notin w.runnable \cup w.armed
    BY <1>1, <1>8, <1>10, ZenonT(30) DEF Flagged
  <2>3. QED
    BY <2>1, <2>2, ZenonT(30) DEF Flagged
<1>14. Located(w, h)
  BY <1>1, <1>8, <1>10, ZenonT(30) DEF Located
<1>15. QED
  BY <1>8, <1>9, <1>10, <1>11, <1>12, <1>13, <1>14, ZenonT(30) DEF Sound, w

\* Where threads are changes, and what they have to do with the scheduler does not.
LEMMA PlaceSound ==
    ASSUME NEW s, NEW h, Sound(s, h), NEW g,
           \A t \in Threads : \/ g[t].pc = h[t].pc
                             \/ /\ h[t].pc \notin {"exit", "gone"} /\ g[t].pc \notin {"exit", "gone"}
                                /\ HasCpu(s, t) => t \in s.runnable \/ g[t].pc = "yield"
    PROVE  Sound(s, g)
<1>1. Located(s, g)
  BY Zenon DEF Sound, Located
<1>2. QED
  BY <1>1, Zenon DEF Sound

\* A thread that has the CPU blocks itself, and is about to call the scheduler.
LEMMA BlockSound ==
    ASSUME NEW s, NEW h, Sound(s, h), NEW t \in Threads, HasCpu(s, t), t \in s.runnable,
           NEW timed \in BOOLEAN, NEW g, g[t].pc = "yield", h[t].pc \notin {"exit", "gone"},
           \A u \in Threads \ {t} : g[u].pc = h[u].pc
    PROVE  Sound(uk_thread_block_until(s, t, timed), g)
<1> DEFINE w == uk_thread_block_until(s, t, timed)
           armed == IF timed THEN s.armed \cup {t} ELSE s.armed \ {t}
           sq == IF timed THEN Append(s.sleep_queue, t) ELSE s.sleep_queue
<1>1. /\ s \in SchedType /\ Queued(s) /\ Asleep(s) /\ Flagged(s) /\ Located(s, h)
      /\ s.sleep_queue \in Seq(Threads) /\ s.runnable \subseteq All /\ s.armed \subseteq Threads
  BY Zenon DEF Sound, SchedType
<1>2. w = [s EXCEPT !.runnable = s.runnable \ {t}, !.armed = armed, !.sleep_queue = sq]
  BY Zenon DEF uk_thread_block_until
<1>3. t \notin s.armed
  BY <1>1, Zenon DEF Asleep
<1>4. armed \subseteq Threads /\ sq \in Seq(Threads) /\ IsInjective(sq) /\ Range(sq) = armed
  <2>1. CASE timed
    <3>1. armed = s.armed \cup {t} /\ sq = Append(s.sleep_queue, t)
      BY <2>1, Zenon
    <3>2. QED
      BY <1>1, <1>3, <3>1, Appended, ZenonT(30) DEF Asleep
  <2>2. CASE ~timed
    BY <1>1, <1>3, <2>2, ZenonT(30) DEF Asleep
  <2>3. QED
    BY <2>1, <2>2, ZenonT(30)
<1>5. armed \cap (s.runnable \ {t}) = {}
  BY <1>1, Zenon DEF Asleep
<1>6. armed \subseteq s.armed \cup {t}
  BY SMTT(30)
<1> HIDE DEF armed, sq, w
<1>7. /\ w.current = s.current /\ w.next = s.next /\ w.run_queue = s.run_queue
      /\ w.sleep_queue = sq /\ w.runnable = s.runnable \ {t} /\ w.queueable = s.queueable
      /\ w.armed = armed /\ w.exited_threads = s.exited_threads /\ w.free = s.free
  BY <1>1, <1>2, ZenonT(30) DEF SchedType
<1>8. w \in SchedType
  <2>1. s.runnable \ {t} \in SUBSET All
    BY <1>1, Zenon
  <2>2. QED
    BY <1>1, <1>2, <1>4, <2>1, Zenon DEF SchedType
<1>9. Dead(w) = Dead(s) /\ \A u \in Threads : HasCpu(w, u) <=> HasCpu(s, u)
  BY <1>7, Zenon DEF Dead, HasCpu
<1>10. Queued(w)
  BY <1>1, <1>7, <1>9, ZenonT(30) DEF Queued
<1>11. Asleep(w)
  BY <1>4, <1>5, <1>7, ZenonT(30) DEF Asleep
<1>12. t \notin Dead(s)
  BY <1>1, Zenon DEF Flagged
<1>13. Flagged(w)
  <2>1. idle \in w.runnable
    BY <1>1, <1>7, GuestThreadsConstants, ZenonT(30) DEF Flagged, idle
  <2>2. ASSUME NEW u \in Threads
        PROVE  /\ HasCpu(w, u) => u \notin w.queueable
               /\ u \in w.runnable \cup w.queueable \cup Dead(w) \/ HasCpu(w, u)
               /\ u \in Dead(w) => u \notin w.runnable \cup w.armed
    BY <1>1, <1>6, <1>7, <1>9, <1>12, SMTT(30) DEF Flagged
  <2>3. QED
    BY <2>1, <2>2, ZenonT(30) DEF Flagged
<1>14. Located(w, g)
  <2>1. \A u \in Threads : u # t => g[u].pc = h[u].pc
    BY SMTT(30)
  <2>2. QED
    BY <1>1, <1>7, <1>9, <1>12, <2>1, SMTT(30) DEF Located
<1>15. QED
  BY <1>8, <1>10, <1>11, <1>13, <1>14, SMTT(30) DEF Sound, w

\* The second half of schedcoop_schedule: the next thread is taken off the run
\* queue, and the one that called is put there if it is still runnable.
Switched(s, t) ==
    LET next == Chosen(s, t)
        rest == Without(s.run_queue, next)
    IN  [s EXCEPT !.run_queue = IF t \in s.runnable \ {idle, next} THEN Append(rest, t) ELSE rest,
                  !.queueable = IF next = t THEN @ ELSE (@ \cup {t}) \ {next},
                  !.next = IF next = t THEN NoThread ELSE next]

\* The switch keeps the queues: the next thread has the CPU and is off the run
\* queue, and the one that called is on it if and only if it can run.
LEMMA SwitchedSound ==
    ASSUME NEW s, NEW h, Sound(s, h), NEW t \in All, s.current = t, s.next = NoThread,
           NEW g, \A u \in Threads \ {t} : g[u].pc = h[u].pc,
           t \in Threads => /\ h[t].pc \in {"yield", "exit"}
                           /\ g[t].pc = IF h[t].pc = "exit" THEN "gone" ELSE "woken"
    PROVE  Sound(Switched(s, t), g)
<1> DEFINE w == Switched(s, t)
           next == Chosen(s, t)
           rest == Without(s.run_queue, next)
           rq == IF t \in s.runnable \ {idle, next} THEN Append(rest, t) ELSE rest
           qb == IF next = t THEN s.queueable ELSE (s.queueable \cup {t}) \ {next}
           nx == IF next = t THEN NoThread ELSE next
<1>1. /\ s \in SchedType /\ Queued(s) /\ Asleep(s) /\ Flagged(s) /\ Located(s, h)
      /\ s.run_queue \in Seq(Threads) /\ s.runnable \subseteq All /\ s.queueable \subseteq All
      /\ IsInjective(s.run_queue) /\ idle \in s.runnable /\ Range(s.run_queue) \subseteq Threads
  BY SMTT(30) DEF Sound, SchedType, Queued, Flagged, Range
<1>2. Threads \subseteq All /\ idle \notin Threads /\ NoThread \notin All /\ All = Threads \cup {idle}
  BY GuestThreadsConstants, SMTT(30) DEF All, idle, NoThread
<1>3. \A u \in All : HasCpu(s, u) <=> u = t
  BY Zenon DEF HasCpu
<1>4. \A u \in Threads : u \in Range(s.run_queue) <=> u \in s.runnable /\ u # t
  BY <1>1, <1>2, <1>3, ZenonT(30) DEF Queued
<1>5. /\ s.run_queue # <<>> => next \in Range(s.run_queue)
      /\ s.run_queue = <<>> => Range(s.run_queue) = {} /\ next = IF t \in s.runnable THEN t ELSE idle
  <2>1. ASSUME s.run_queue # <<>>
        PROVE  next \in Range(s.run_queue)
    <3>1. 1 \in DOMAIN s.run_queue /\ Head(s.run_queue) = s.run_queue[1]
      BY <1>1, <2>1, SMTT(30)
    <3>2. QED
      BY <2>1, <3>1, ZenonT(30) DEF Chosen, Range
  <2>2. ASSUME s.run_queue = <<>>
        PROVE  Range(s.run_queue) = {} /\ next = IF t \in s.runnable THEN t ELSE idle
    BY <2>2, SMTT(30) DEF Chosen, Range
  <2>3. QED
    BY <2>1, <2>2, ZenonT(30)
<1>6. next \in s.runnable /\ next \in All /\ next # NoThread /\ (next = t => s.run_queue = <<>>)
  BY <1>1, <1>2, <1>4, <1>5, SMTT(30)
<1>7. rest \in Seq(Threads) /\ IsInjective(rest) /\ Range(rest) = Range(s.run_queue) \ {next}
  BY <1>1, TakenOut, ZenonT(30)
<1>8. w = [s EXCEPT !.run_queue = rq, !.queueable = qb, !.next = nx]
  BY Zenon DEF Switched
<1> HIDE DEF next, rest, w
<1>9. /\ rq \in Seq(Threads) /\ IsInjective(rq)
      /\ \A u \in Threads : u \in Range(rq) <=> u \in s.runnable /\ u # next
  <2>1. CASE t \in s.runnable \ {idle, next}
    <3>1. t \in Threads /\ t \notin Range(rest) /\ rq = Append(rest, t)
      BY <1>2, <1>4, <1>7, <2>1, ZenonT(30)
    <3>2. rq \in Seq(Threads) /\ IsInjective(rq) /\ Range(rq) = Range(rest) \cup {t}
      BY <1>7, <3>1, Appended, ZenonT(30)
    <3>3. QED
      BY <1>4, <1>7, <2>1, <3>2, SMTT(30)
  <2>2. CASE ~(t \in s.runnable \ {idle, next})
    <3>1. rq = rest
      BY <2>2, ZenonT(30)
    <3> HIDE DEF rq
    <3>2. QED
      BY <1>2, <1>4, <1>7, <2>2, <3>1, SMTT(30)
  <2>3. QED
    BY <2>1, <2>2, ZenonT(30)
<1>10. qb \in SUBSET All /\ nx \in All \cup {NoThread}
  BY <1>1, <1>2, <1>6, ZenonT(30)
<1>11. /\ \A u \in Threads : u = next => u \notin qb
       /\ \A u \in s.queueable : u \in qb \/ u = next
       /\ t \in qb \/ t = next
  BY <1>1, <1>2, <1>3, ZenonT(30) DEF Flagged
<1> HIDE DEF rq, qb
<1>12. /\ w.current = t /\ w.next = nx /\ w.run_queue = rq /\ w.sleep_queue = s.sleep_queue
       /\ w.runnable = s.runnable /\ w.queueable = qb /\ w.armed = s.armed
       /\ w.exited_threads = s.exited_threads /\ w.free = s.free
  BY <1>1, <1>8, ZenonT(30) DEF SchedType
<1>13. w \in SchedType
  <2> HIDE DEF nx
  <2>1. QED
    BY <1>1, <1>8, <1>9, <1>10, ZenonT(30) DEF SchedType
<1>14. Dead(w) = Dead(s) /\ \A u \in Threads : HasCpu(w, u) <=> u = next
  BY <1>6, <1>12, Zenon DEF Dead, HasCpu
<1>15. Queued(w) /\ Asleep(w)
  BY <1>1, <1>9, <1>12, <1>14, SMTT(30) DEF Queued, Asleep
<1>16. Flagged(w)
  <2>1. ASSUME NEW u \in Threads
        PROVE  /\ HasCpu(w, u) => u \notin w.queueable
               /\ u \in w.runnable \cup w.queueable \cup Dead(w) \/ HasCpu(w, u)
               /\ u \in Dead(w) => u \notin w.runnable \cup w.armed
    <3>1. /\ u \in s.runnable \cup s.queueable \cup Dead(s) \/ u = t
          /\ u \in Dead(s) => u \notin s.runnable \cup s.armed
      BY <1>1, <1>2, <1>3, ZenonT(30) DEF Flagged
    <3>2. QED
      BY <1>11, <1>12, <1>14, <3>1, SMTT(30)
  <2>2. QED
    BY <1>1, <1>12, <2>1, ZenonT(30) DEF Flagged
<1>17. Located(w, g)
  <2>1. ASSUME NEW u \in Threads
        PROVE  /\ HasCpu(w, u) /\ g[u].pc \notin {"yield", "exit"} => u \in w.runnable
               /\ u \in Dead(w) <=> g[u].pc \in {"exit", "gone"}
               /\ HasCpu(w, u) => g[u].pc # "gone"
    <3>1. u \in Dead(s) <=> h[u].pc \in {"exit", "gone"}
      BY <1>1, Zenon DEF Located
    <3>2. u = next => u \in s.runnable /\ u \notin Dead(s)
      BY <1>1, <1>6, ZenonT(30) DEF Flagged
    <3>3. CASE u = t
      BY <1>12, <1>14, <3>1, <3>2, <3>3, SMTT(30)
    <3>4. CASE u # t
      BY <1>12, <1>14, <3>1, <3>2, <3>4, ZenonT(30)
    <3>5. QED
      BY <3>3, <3>4, ZenonT(30)
  <2>2. QED
    BY <2>1, Zenon DEF Located
<1>18. QED
  BY <1>13, <1>15, <1>16, <1>17, SMTT(30) DEF Sound, w

\* The fields of the scheduler that a lemma speaks of, in one place.
LEMMA Parts ==
    ASSUME NEW s, NEW h, Sound(s, h)
    PROVE  /\ s \in SchedType /\ Queued(s) /\ Asleep(s) /\ Flagged(s) /\ Located(s, h)
           /\ s.run_queue \in Seq(Threads) /\ s.sleep_queue \in Seq(Threads)
           /\ s.exited_threads \in Seq(Threads) /\ s.free \subseteq Threads
           /\ s.runnable \subseteq All /\ s.queueable \subseteq All /\ s.armed \subseteq Threads
           /\ Threads \subseteq All /\ idle \notin Threads /\ NoThread \notin All
BY GuestThreadsConstants, SMTT(30) DEF Sound, SchedType, All, idle, NoThread

\* What uk_sched_thread_exit, uk_sched_thread_terminate and uk_sched_thread_add do
\* to the scheduler.
Exited(s, t) == [s EXCEPT !.runnable = @ \ {t}, !.exited_threads = Append(@, t)]
Terminated(s, t) ==
    [s EXCEPT !.run_queue = Without(@, t), !.runnable = @ \ {t}, !.free = @ \cup {t}]
Started(s, t) ==
    [s EXCEPT !.run_queue = Append(@, t), !.runnable = @ \cup {t},
              !.queueable = @ \ {t}, !.free = @ \ {t}]

\* A thread that has the CPU exits.
LEMMA ExitSound ==
    ASSUME NEW s, NEW h, Sound(s, h), NEW t \in Threads, HasCpu(s, t), t \in s.runnable,
           NEW g, g[t].pc = "exit", \A u \in Threads \ {t} : g[u].pc = h[u].pc
    PROVE  Sound(Exited(s, t), g)
<1> DEFINE run == s.runnable \ {t}
           gone == Append(s.exited_threads, t)
           w == [s EXCEPT !.runnable = run, !.exited_threads = gone]
<1>1. run \in SUBSET All /\ gone \in Seq(Threads) /\ Range(gone) = Range(s.exited_threads) \cup {t}
  BY Parts, Appended, ZenonT(30)
<1>2. t \notin s.armed /\ idle \in run
  BY Parts, Zenon DEF Asleep, Flagged
<1>3. run = s.runnable \ {t}
  BY SMTT(30)
<1> HIDE DEF run, gone
<1>4. /\ w.current = s.current /\ w.next = s.next /\ w.run_queue = s.run_queue
      /\ w.sleep_queue = s.sleep_queue /\ w.runnable = run /\ w.queueable = s.queueable
      /\ w.armed = s.armed /\ w.exited_threads = gone /\ w.free = s.free /\ w \in SchedType
  <2>1. s \in SchedType
    BY Parts, Zenon
  <2>2. QED
    BY <2>1, <1>1, ZenonT(30) DEF SchedType
<1> HIDE DEF w
<1>5. Dead(w) = Dead(s) \cup {t} /\ \A u \in Threads : HasCpu(w, u) <=> HasCpu(s, u)
  BY <1>1, <1>4, ZenonT(30) DEF Dead, HasCpu
<1>6. Queued(w) /\ Asleep(w)
  BY Parts, <1>3, <1>4, <1>5, ZenonT(30) DEF Queued, Asleep
<1>7. Flagged(w)
  BY Parts, <1>2, <1>3, <1>4, <1>5, SMTT(30) DEF Flagged
<1>8. Located(w, g)
  <2>1. \A u \in Threads : u # t => g[u].pc = h[u].pc
    BY SMTT(30)
  <2>2. QED
    BY Parts, <1>3, <1>4, <1>5, <2>1, SMTT(30) DEF Located
<1>9. QED
  BY <1>4, <1>6, <1>7, <1>8, SMTT(30) DEF Sound, w, run, gone, Exited

\* A runnable thread without the CPU is terminated.
LEMMA TerminateSound ==
    ASSUME NEW s, NEW h, Sound(s, h), NEW t \in Threads, ~HasCpu(s, t), t \in s.runnable,
           NEW g, g[t].pc = "gone", \A u \in Threads \ {t} : g[u].pc = h[u].pc
    PROVE  Sound(Terminated(s, t), g)
<1> DEFINE rq == Without(s.run_queue, t)
           run == s.runnable \ {t}
           free == s.free \cup {t}
           w == [s EXCEPT !.run_queue = rq, !.runnable = run, !.free = free]
<1>1. rq \in Seq(Threads) /\ IsInjective(rq) /\ Range(rq) = Range(s.run_queue) \ {t}
  <2>1. IsInjective(s.run_queue)
    BY Parts, Zenon DEF Queued
  <2>2. QED
    BY <2>1, Parts, TakenOut, ZenonT(30)
<1>2. t \notin s.armed /\ idle \in run /\ run \in SUBSET All /\ free \in SUBSET Threads
  BY Parts, Zenon DEF Asleep, Flagged
<1>3. run = s.runnable \ {t} /\ free = s.free \cup {t}
  BY SMTT(30)
<1> HIDE DEF rq, run, free
<1>4. /\ w.current = s.current /\ w.next = s.next /\ w.run_queue = rq
      /\ w.sleep_queue = s.sleep_queue /\ w.runnable = run /\ w.queueable = s.queueable
      /\ w.armed = s.armed /\ w.exited_threads = s.exited_threads /\ w.free = free /\ w \in SchedType
  <2>1. s \in SchedType
    BY Parts, Zenon
  <2>2. QED
    BY <2>1, <1>1, <1>2, ZenonT(30) DEF SchedType
<1> HIDE DEF w
<1>5. Dead(w) = Dead(s) \cup {t} /\ \A u \in Threads : HasCpu(w, u) <=> HasCpu(s, u)
  BY <1>3, <1>4, ZenonT(30) DEF Dead, HasCpu
<1>6. Queued(w) /\ Asleep(w)
  BY Parts, <1>1, <1>3, <1>4, <1>5, SMTT(30) DEF Queued, Asleep
<1>7. Flagged(w)
  BY Parts, <1>2, <1>3, <1>4, <1>5, ZenonT(30) DEF Flagged
<1>8. Located(w, g)
  <2>1. \A u \in Threads : u # t => g[u].pc = h[u].pc
    BY SMTT(30)
  <2>2. QED
    BY Parts, <1>3, <1>4, <1>5, <2>1, SMTT(30) DEF Located
<1>9. QED
  BY <1>4, <1>6, <1>7, <1>8, ZenonT(30) DEF Sound, w, rq, run, free, Terminated

\* A thread that is free, and without the CPU, is started.
LEMMA AddSound ==
    ASSUME NEW s, NEW h, Sound(s, h), NEW t \in Threads, ~HasCpu(s, t), t \in s.free,
           t \notin Range(s.exited_threads),
           NEW g, g[t].pc \notin {"exit", "gone"}, \A u \in Threads \ {t} : g[u].pc = h[u].pc
    PROVE  Sound(Started(s, t), g)
<1> DEFINE rq == Append(s.run_queue, t)
           run == s.runnable \cup {t}
           qb == s.queueable \ {t}
           free == s.free \ {t}
           w == [s EXCEPT !.run_queue = rq, !.runnable = run, !.queueable = qb, !.free = free]
<1>1. t \in Dead(s) /\ t \notin s.runnable /\ t \notin s.armed
  BY Parts, Zenon DEF Dead, Flagged
<1>2. t \notin Range(s.run_queue)
  BY Parts, <1>1, ZenonT(30) DEF Queued
<1>3. rq \in Seq(Threads) /\ IsInjective(rq) /\ Range(rq) = Range(s.run_queue) \cup {t}
  <2>1. IsInjective(s.run_queue)
    BY Parts, Zenon DEF Queued
  <2>2. QED
    BY <1>2, <2>1, Parts, Appended, ZenonT(30)
<1>4. idle \in run /\ run \in SUBSET All /\ qb \in SUBSET All /\ free \in SUBSET Threads
  BY Parts, ZenonT(30) DEF Flagged
<1>5. run = s.runnable \cup {t} /\ qb = s.queueable \ {t} /\ free = s.free \ {t}
  BY SMTT(30)
<1> HIDE DEF rq, run, qb, free
<1>6. /\ w.current = s.current /\ w.next = s.next /\ w.run_queue = rq
      /\ w.sleep_queue = s.sleep_queue /\ w.runnable = run /\ w.queueable = qb
      /\ w.armed = s.armed /\ w.exited_threads = s.exited_threads /\ w.free = free /\ w \in SchedType
  <2>1. s \in SchedType
    BY Parts, Zenon
  <2>2. QED
    BY <2>1, <1>3, <1>4, ZenonT(30) DEF SchedType
<1> HIDE DEF w
<1>7. Dead(w) = Dead(s) \ {t} /\ \A u \in Threads : HasCpu(w, u) <=> HasCpu(s, u)
  BY <1>5, <1>6, ZenonT(30) DEF Dead, HasCpu
<1>8. Queued(w) /\ Asleep(w)
  BY Parts, <1>1, <1>3, <1>5, <1>6, <1>7, SMTT(30) DEF Queued, Asleep
<1>9. Flagged(w)
  BY Parts, <1>4, <1>5, <1>6, <1>7, ZenonT(30) DEF Flagged
<1>10. Located(w, g)
  <2>1. \A u \in Threads : u # t => g[u].pc = h[u].pc
    BY SMTT(30)
  <2>2. QED
    BY Parts, <1>5, <1>6, <1>7, <2>1, SMTT(30) DEF Located
<1>11. QED
  BY <1>6, <1>8, <1>9, <1>10, SMTT(30) DEF Sound, w, rq, run, qb, free, Started

\* The next thread becomes the current one, and what has exited becomes free.
LEMMA SwitchSound ==
    ASSUME NEW s, NEW h, Sound(s, h)
    PROVE  /\ s.next # NoThread => Sound([s EXCEPT !.current = s.next, !.next = NoThread], h)
           /\ Sound([s EXCEPT !.free = @ \cup Range(s.exited_threads), !.exited_threads = <<>>], h)
<1>1. ASSUME s.next # NoThread
      PROVE  Sound([s EXCEPT !.current = s.next, !.next = NoThread], h)
  <2> DEFINE w == [s EXCEPT !.current = s.next, !.next = NoThread]
  <2>1. /\ w.current = s.next /\ w.next = NoThread /\ w.run_queue = s.run_queue
        /\ w.sleep_queue = s.sleep_queue /\ w.runnable = s.runnable /\ w.queueable = s.queueable
        /\ w.armed = s.armed /\ w.exited_threads = s.exited_threads /\ w.free = s.free
        /\ w \in SchedType
    <3>1. s \in SchedType
      BY Parts, Zenon
    <3>2. QED
      BY <3>1, <1>1, ZenonT(30) DEF SchedType
  <2> HIDE DEF w
  <2>2. Dead(w) = Dead(s) /\ \A u \in Threads : HasCpu(w, u) <=> HasCpu(s, u)
    BY <1>1, <2>1, ZenonT(30) DEF Dead, HasCpu
  <2>3. Queued(w) /\ Asleep(w) /\ Flagged(w)
    BY Parts, <2>1, <2>2, ZenonT(30) DEF Queued, Asleep, Flagged
  <2>4. Located(w, h)
    BY Parts, <2>1, <2>2, ZenonT(30) DEF Located
  <2>5. QED
    BY <2>1, <2>3, <2>4, ZenonT(30) DEF Sound, w
<1>2. Sound([s EXCEPT !.free = @ \cup Range(s.exited_threads), !.exited_threads = <<>>], h)
  <2> DEFINE free == s.free \cup Range(s.exited_threads)
             w == [s EXCEPT !.free = free, !.exited_threads = <<>>]
  <2>1. free \in SUBSET Threads /\ <<>> \in Seq(Threads) /\ Range(<<>>) = {}
    BY Parts, SMTT(30) DEF Range
  <2>2. free = s.free \cup Range(s.exited_threads)
    BY SMTT(30)
  <2> HIDE DEF free
  <2>3. /\ w.current = s.current /\ w.next = s.next /\ w.run_queue = s.run_queue
        /\ w.sleep_queue = s.sleep_queue /\ w.runnable = s.runnable /\ w.queueable = s.queueable
        /\ w.armed = s.armed /\ w.exited_threads = <<>> /\ w.free = free /\ w \in SchedType
    <3>1. s \in SchedType
      BY Parts, Zenon
    <3>2. QED
      BY <3>1, <2>1, ZenonT(30) DEF SchedType
  <2> HIDE DEF w
  <2>4. Dead(w) = Dead(s) /\ \A u \in Threads : HasCpu(w, u) <=> HasCpu(s, u)
    BY <2>1, <2>2, <2>3, Zenon DEF Dead, HasCpu
  <2>5. Queued(w) /\ Asleep(w) /\ Flagged(w)
    BY Parts, <2>3, <2>4, ZenonT(30) DEF Queued, Asleep, Flagged
  <2>6. Located(w, h)
    BY Parts, <2>3, <2>4, ZenonT(30) DEF Located
  <2>7. QED
    BY <2>3, <2>5, <2>6, ZenonT(30) DEF Sound, w, free
<1>3. QED
  BY <1>1, <1>2, ZenonT(30)

-----------------------------------------------------------------------------
\* The main thread has the CPU, and nobody else is there yet.
LEMMA InitSched == Init => SchedInv
<1> SUFFICES ASSUME Init PROVE SchedInv
  BY SMTT(30)
<1>1. /\ sched.current = 1 /\ sched.next = NoThread /\ sched.run_queue = <<>>
      /\ sched.sleep_queue = <<>> /\ sched.runnable = {idle, 1} /\ sched.queueable = {}
      /\ sched.armed = {} /\ sched.exited_threads = <<>> /\ sched.free = Threads \ {1}
  BY Zenon DEF Init
<1>2. 1 \in Threads /\ 1 \in All /\ idle \in All /\ idle # 1 /\ idle \notin Threads /\ Threads \subseteq All
  BY GuestThreadsConstants, ZenonT(30) DEF All, idle
<1>3. sched \in SchedType
  BY <1>2, SMTT(30) DEF Init, SchedType
<1>4. Range(<<>>) = {} /\ IsInjective(<<>>)
  BY SMTT(30) DEF Range, IsInjective
<1>5. \A t \in Threads : HasCpu(sched, t) <=> t = 1
  BY <1>1, Zenon DEF HasCpu
<1>6. Dead(sched) = Threads \ {1}
  BY <1>1, <1>4, ZenonT(30) DEF Dead
<1>7. Queued(sched) /\ Asleep(sched)
  BY <1>1, <1>2, <1>4, <1>5, ZenonT(30) DEF Queued, Asleep
<1>8. Flagged(sched)
  BY <1>1, <1>2, <1>5, <1>6, ZenonT(30) DEF Flagged
<1>9. th[1].pc = "run" /\ \A t \in Threads \ {1} : th[t].pc = "gone"
  BY <1>2, Zenon DEF Init, Gone, Running
<1>10. Located(sched, th)
  BY <1>1, <1>5, <1>6, <1>9, ZenonT(30) DEF Located
<1>11. QED
  BY <1>3, <1>7, <1>8, <1>10, ZenonT(30) DEF SchedInv, Sound

\* Threads that a wait queue holds can be woken.
LEMMA Wakeable ==
    ASSUME IInv, WaitInv, SchedInv
    PROVE  /\ Sound(sched, th)
           /\ \A o \in Objs : /\ wait[o] \in Seq(Threads) /\ IsInjective(wait[o])
                              /\ Range(wait[o]) \cap Dead(sched) = {}
<1>1. ASSUME NEW o \in Objs
      PROVE  Range(wait[o]) \cap Dead(sched) = {}
  <2>1. \A u \in Dead(sched) : th[u].pc \in {"exit", "gone"}
    BY Members, Zenon DEF Dead
  <2>2. \A u \in Range(wait[o]) : th[u].pc \in Linked
    BY Members, Zenon
  <2>3. QED
    BY <2>1, <2>2, ZenonT(30) DEF Linked
<1>2. QED
  BY <1>1, Members, ZenonT(30) DEF SchedInv

\* A step of the thread that has the CPU, outside of the scheduler: it goes to
\* another place, and may wake threads.
LEMMA OwnSched ==
    ASSUME IInv, WaitInv, SchedInv, NEW t \in Threads, sched.current = t, sched.next = NoThread,
           th[t].pc \notin {"yield", "exit", "gone"},
           \A u \in Threads \ {t} : th'[u].pc = th[u].pc, th'[t].pc \notin {"exit", "gone"},
           sched' = sched \/ \E q \in Seq(Threads) : /\ sched' = uk_thread_wake(sched, q) /\ IsInjective(q)
                                                     /\ Range(q) \cap Dead(sched) = {}
    PROVE  SchedInv'
<1>1. t \in sched.runnable
  BY Parts, Wakeable, ZenonT(30) DEF Located, HasCpu
<1>2. Sound(sched', th) /\ t \in sched'.runnable
  BY <1>1, Wakeable, WakeSound, SMTT(30)
<1>3. Sound(sched', th')
  <2>1. \A u \in Threads : u # t => th'[u].pc = th[u].pc
    BY SMTT(30)
  <2>2. QED
    BY <1>2, <2>1, PlaceSound, SMTT(30)
<1>4. QED
  BY <1>3, Zenon DEF SchedInv

\* What a thread does outside of the scheduler.
LEMMA OwnSteps ==
    ASSUME IInv, WaitInv, SchedInv, NEW t \in Threads,
           \/ Test(t) \/ Woken(t) \/ Leave(t) \/ Take(t) \/ Get(t) \/ \E m \in Msgs : Put(t, m)
           \/ uk_semaphore_up(t)
           \/ \E o \in Objs, d \in {Never, Timeout} : WaitFor(t, o, d)
           \/ \E o \in Sems : uk_semaphore_down_try(t, o)
           \/ uk_mutex_trylock(t) \/ uk_mutex_unlock(t) \/ uk_sched_yield(t)
    PROVE  SchedInv'
<1>1. /\ t \in All /\ th \in [All -> Thread] /\ Threads \subseteq All
      /\ th[t].pc \in Waiting => th[t].obj \in Objs
      /\ th[t].pc = "up" => th[t].obj \in Sems
      /\ Sems \subseteq Objs /\ "mutex" \in Objs
  BY ZenonT(30) DEF All, IInv, Objs
<1>2. \E p : On(t, p) /\ p \notin {"yield", "exit", "gone"}
  BY SMTT(30) DEF Test, Woken, Leave, Take, Get, Put, uk_semaphore_up, WaitFor, uk_semaphore_down_try,
         uk_mutex_trylock, uk_mutex_unlock, uk_sched_yield
<1>3. sched.current = t /\ sched.next = NoThread /\ th[t].pc \notin {"yield", "exit", "gone"}
  BY <1>2, Zenon DEF On
<1>4. PICK x : th' = [th EXCEPT ![t] = x] /\ x.pc \notin {"exit", "gone"}
  <2>1. Running.pc = "run"
    BY Zenon DEF Running
  <2>2. ASSUME NEW pc, Goto(t, pc), pc \notin {"exit", "gone"}
        PROVE  \E x : th' = [th EXCEPT ![t] = x] /\ x.pc \notin {"exit", "gone"}
    <3>1. th' = [th EXCEPT ![t] = [th[t] EXCEPT !.pc = pc]]
      BY <2>2, Zenon DEF Goto
    <3>2. [th[t] EXCEPT !.pc = pc].pc = pc
      BY <1>1, Zenon DEF Thread
    <3>3. QED
      BY <2>2, <3>1, <3>2, ZenonT(30)
  <2>3. CASE Test(t) \/ Leave(t) \/ uk_sched_yield(t) \/ \E o \in Sems : uk_semaphore_down_try(t, o)
    <3>1. \E pc : Goto(t, pc) /\ pc \notin {"exit", "gone"}
      BY <2>3, SMTT(30) DEF Test, Leave, uk_sched_yield, uk_semaphore_down_try
    <3>2. QED
      BY <2>2, <3>1, ZenonT(30)
  <2>4. CASE Woken(t)
    <3>1. th' = [th EXCEPT ![t] = Running] \/ \E pc : Goto(t, pc) /\ pc \notin {"exit", "gone"}
      BY <2>4, SMTT(30) DEF Woken
    <3>2. QED
      BY <2>1, <2>2, <3>1, ZenonT(30)
  <2>5. CASE uk_semaphore_up(t)
    BY <2>1, <2>5, ZenonT(30) DEF uk_semaphore_up
  <2>6. CASE \E o \in Objs, d \in {Never, Timeout} : WaitFor(t, o, d)
    <3>1. PICK o \in Objs, d \in {Never, Timeout} : WaitFor(t, o, d)
      BY <2>6, ZenonT(30)
    <3> DEFINE x == [pc |-> "test", obj |-> o, deadline |-> d]
    <3>2. th' = [th EXCEPT ![t] = x] /\ x.pc = "test"
      BY <3>1, ZenonT(30) DEF WaitFor
    <3> HIDE DEF x
    <3>3. QED
      BY <3>2, ZenonT(30)
  <2>7. CASE uk_mutex_trylock(t) \/ uk_mutex_unlock(t)
    <3>1. th' = [th EXCEPT ![t] = th[t]]
      BY <1>1, <2>7, ZenonT(30) DEF uk_mutex_trylock, uk_mutex_unlock
    <3>2. QED
      BY <1>3, <3>1, ZenonT(30)
  <2>8. CASE Get(t) \/ \E m \in Msgs : Put(t, m)
    <3>1. PICK o : th' = [th EXCEPT ![t] = [th[t] EXCEPT !.pc = "up", !.obj = o]]
      BY <1>1, <2>8, Zenon DEF Get, Put
    <3>2. [th[t] EXCEPT !.pc = "up", !.obj = o].pc = "up"
      BY <1>1, Zenon DEF Thread
    <3>3. QED
      BY <3>1, <3>2, ZenonT(30)
  <2>9. CASE Take(t)
    <3> DEFINE o == th[t].obj
    <3>1. o \in Objs
      BY <1>1, <2>9, ZenonT(30) DEF Take, On, Waiting
    <3>2. CASE ~Condition(o, t)
      <4>1. th' = [th EXCEPT ![t] = IF th[t].deadline = 0 THEN Running ELSE [th[t] EXCEPT !.pc = "test"]]
        BY <2>9, <3>2, ZenonT(30) DEF Take
      <4>2. [th[t] EXCEPT !.pc = "test"].pc = "test"
        BY <1>1, Zenon DEF Thread
      <4>3. QED
        BY <2>1, <4>1, <4>2, ZenonT(30)
    <3>3. CASE Condition(o, t) /\ o \in Sems
      <4> DEFINE x == [Running EXCEPT !.pc = IF o = "readsem" THEN "get" ELSE "put"]
      <4>1. th' = [th EXCEPT ![t] = x]
        BY <2>9, <3>3, ZenonT(30) DEF Take, Sems
      <4>2. x.pc = IF o = "readsem" THEN "get" ELSE "put"
        BY Zenon DEF Running
      <4> HIDE DEF x, o
      <4>3. QED
        BY <4>1, <4>2, ZenonT(30)
    <3>4. CASE Condition(o, t) /\ o = "mutex"
      <4>1. th' = [th EXCEPT ![t] = [Running EXCEPT !.pc = "run"]]
        BY <2>9, <3>4, ZenonT(30) DEF Take
      <4>2. [Running EXCEPT !.pc = "run"].pc = "run"
        BY Zenon DEF Running
      <4>3. QED
        BY <4>1, <4>2, ZenonT(30)
    <3>5. QED
      BY <3>1, <3>2, <3>3, <3>4, ZenonT(30) DEF Objs
  <2>10. QED
    BY <2>3, <2>4, <2>5, <2>6, <2>7, <2>8, <2>9, ZenonT(30)
<1>5. th'[t].pc \notin {"exit", "gone"} /\ \A u \in Threads \ {t} : th'[u].pc = th[u].pc
  BY <1>1, <1>4, ZenonT(30)
<1>6. sched' = sched \/ (\E o \in Objs : sched' = uk_thread_wake(sched, wait[o]))
      \/ sched' = uk_thread_wake(sched, <<t>>)
  <2>1. CASE Take(t)
    BY <2>1, ZenonT(30) DEF Take
  <2>2. CASE \/ Test(t) \/ Woken(t) \/ Leave(t) \/ Get(t) \/ (\E m \in Msgs : Put(t, m))
             \/ (\E o \in Objs, d \in {Never, Timeout} : WaitFor(t, o, d))
             \/ (\E o \in Sems : uk_semaphore_down_try(t, o)) \/ uk_mutex_trylock(t) \/ uk_sched_yield(t)
    BY <2>2, ZenonT(30) DEF Test, Woken, Leave, Get, Put, WaitFor, uk_semaphore_down_try, uk_mutex_trylock, uk_sched_yield
  <2>3. CASE uk_semaphore_up(t)
    <3>1. th[t].obj \in Objs /\ sched' = uk_thread_wake(sched, wait[th[t].obj])
      BY <1>1, <2>3, ZenonT(30) DEF uk_semaphore_up, uk_waitq_wake_up, On
    <3>2. QED
      BY <3>1, Zenon
  <2>4. CASE uk_mutex_unlock(t)
    BY <1>1, <2>4, ZenonT(30) DEF uk_mutex_unlock, uk_waitq_wake_up
  <2>5. QED
    BY <2>1, <2>2, <2>3, <2>4, ZenonT(30)
<1>7. <<t>> \in Seq(Threads) /\ IsInjective(<<t>>) /\ Range(<<t>>) = {t}
  BY SMTT(30) DEF IsInjective, Range
<1>8. t \notin Dead(sched)
  BY <1>3, Parts, Wakeable, SMTT(30) DEF Located
<1>9. sched' = sched \/ \E q \in Seq(Threads) : /\ sched' = uk_thread_wake(sched, q) /\ IsInjective(q)
                                                 /\ Range(q) \cap Dead(sched) = {}
  <2>1. Range(<<t>>) \cap Dead(sched) = {}
    BY <1>7, <1>8, ZenonT(30)
  <2>2. QED
    BY <1>6, <1>7, <2>1, Wakeable, ZenonT(30)
<1>10. QED
  BY <1>3, <1>5, <1>9, OwnSched, ZenonT(30)

\* A thread blocks itself, on a wait queue or for a time.
LEMMA BlockSched ==
    ASSUME IInv, WaitInv, SchedInv, NEW t \in Threads, Block(t) \/ uk_sched_thread_sleep(t)
    PROVE  SchedInv'
<1>1. t \in All /\ th \in [All -> Thread] /\ Threads \subseteq All
  BY Zenon DEF All, IInv
<1>2. sched.current = t /\ sched.next = NoThread /\ th[t].pc \in {"block", "run"}
  BY Zenon DEF Block, uk_sched_thread_sleep, On
<1>3. HasCpu(sched, t) /\ t \in sched.runnable
  BY <1>2, Parts, Wakeable, ZenonT(30) DEF Located, HasCpu
<1>4. ASSUME NEW timed \in BOOLEAN, sched' = uk_thread_block_until(sched, t, timed),
             NEW x, th' = [th EXCEPT ![t] = x], x.pc = "yield"
      PROVE  SchedInv'
  <2>1. th'[t].pc = "yield" /\ \A u \in Threads \ {t} : th'[u].pc = th[u].pc
    BY <1>1, <1>4, ZenonT(30)
  <2>2. Sound(sched', th')
    <3>1. Sound(sched, th) /\ th[t].pc \notin {"exit", "gone"}
      BY <1>2, Wakeable, ZenonT(30)
    <3>2. Sound(uk_thread_block_until(sched, t, timed), th')
      BY <1>3, <2>1, <3>1, BlockSound, SMTT(30)
    <3>3. QED
      BY <1>4, <3>2, Zenon
  <2>3. QED
    BY <2>2, Zenon DEF SchedInv
<1>5. CASE uk_sched_thread_sleep(t)
  <2> DEFINE x == [th[t] EXCEPT !.pc = "yield", !.deadline = Timeout]
  <2>1. th' = [th EXCEPT ![t] = x]
    BY <1>1, <1>5, ZenonT(30) DEF uk_sched_thread_sleep
  <2>2. x.pc = "yield"
    BY <1>1, ZenonT(30) DEF Thread
  <2>3. sched' = uk_thread_block_until(sched, t, TRUE)
    BY <1>5, Zenon DEF uk_sched_thread_sleep
  <2> HIDE DEF x
  <2>4. QED
    BY <1>4, <2>1, <2>2, <2>3, ZenonT(30)
<1>6. CASE Block(t) /\ ~Condition(th[t].obj, t)
  <2> DEFINE x == [th[t] EXCEPT !.pc = "yield"]
             timed == th[t].deadline # Never
  <2>1. th' = [th EXCEPT ![t] = x] /\ sched' = uk_thread_block_until(sched, t, timed)
    BY <1>6, ZenonT(30) DEF Block, Goto
  <2>2. x.pc = "yield"
    BY <1>1, ZenonT(30) DEF Thread
  <2>3. timed \in BOOLEAN
    BY SMTT(30)
  <2> HIDE DEF x, timed
  <2>4. QED
    BY <1>4, <2>1, <2>2, <2>3, ZenonT(30)
<1>7. CASE Block(t) /\ Condition(th[t].obj, t)
  <2>1. th' = [th EXCEPT ![t] = [th[t] EXCEPT !.pc = "leave"]] /\ sched' = sched
    BY <1>7, ZenonT(30) DEF Block, Goto
  <2>2. th'[t].pc = "leave" /\ \A u \in Threads \ {t} : th'[u].pc = th[u].pc
    BY <1>1, <2>1, ZenonT(30) DEF Thread
  <2>3. QED
    BY <1>2, <2>1, <2>2, OwnSched, ZenonT(30)
<1>8. QED
  BY <1>5, <1>6, <1>7, ZenonT(30)

\* A thread exits, terminates another one, or starts one.
LEMMA ThreadSched ==
    ASSUME IInv, WaitInv, SchedInv, NEW t \in Threads,
           \/ uk_sched_thread_exit(t)
           \/ \E u \in Threads : uk_sched_thread_terminate(t, u)
           \/ \E u \in Threads : uk_sched_thread_add(t, u)
    PROVE  SchedInv'
<1>1. t \in All /\ th \in [All -> Thread] /\ Threads \subseteq All
  BY Zenon DEF All, IInv
<1>2. sched.current = t /\ sched.next = NoThread /\ th[t].pc = "run"
  BY Zenon DEF uk_sched_thread_exit, uk_sched_thread_terminate, uk_sched_thread_add, On
<1>3. /\ HasCpu(sched, t) /\ t \in sched.runnable /\ t \notin Dead(sched)
      /\ \A u \in Threads \ {t} : ~HasCpu(sched, u)
  BY <1>2, Parts, Wakeable, ZenonT(30) DEF Located, HasCpu
<1>4. CASE uk_sched_thread_exit(t)
  <2>1. /\ th' = [th EXCEPT ![t] = [th[t] EXCEPT !.pc = "exit"]]
        /\ sched' = Exited(sched, t)
    BY <1>4, ZenonT(30) DEF uk_sched_thread_exit, Goto, Exited
  <2>2. th'[t].pc = "exit" /\ \A u \in Threads \ {t} : th'[u].pc = th[u].pc
    BY <1>1, <2>1, ZenonT(30) DEF Thread
  <2>3. Sound(Exited(sched, t), th')
    <3>1. Sound(sched, th)
      BY Wakeable, ZenonT(30)
    <3>2. QED
      BY <1>3, <2>2, <3>1, ExitSound, SMTT(30)
  <2>4. Sound(sched', th')
    BY <2>1, <2>3, ZenonT(30)
  <2>5. QED
    BY <2>4, ZenonT(30) DEF SchedInv
<1>5. ASSUME NEW u \in Threads, uk_sched_thread_terminate(t, u)
      PROVE  SchedInv'
  <2>1. /\ u # t /\ u \in sched.runnable /\ th' = [th EXCEPT ![u] = Gone]
        /\ sched' = Terminated(sched, u)
    BY <1>5, Zenon DEF uk_sched_thread_terminate, Terminated
  <2>2. th'[u].pc = "gone" /\ \A v \in Threads \ {u} : th'[v].pc = th[v].pc
    BY <1>1, <2>1, ZenonT(30) DEF Gone
  <2>3. Sound(Terminated(sched, u), th')
    <3>1. Sound(sched, th) /\ ~HasCpu(sched, u) /\ u \in sched.runnable
      BY <1>3, <2>1, Wakeable, ZenonT(30)
    <3>2. QED
      BY <2>2, <3>1, TerminateSound, SMTT(30)
  <2>4. Sound(sched', th')
    BY <2>1, <2>3, ZenonT(30)
  <2>5. QED
    BY <2>4, Zenon DEF SchedInv
<1>6. ASSUME NEW u \in Threads, uk_sched_thread_add(t, u)
      PROVE  SchedInv'
  <2>1. /\ u \in sched.free /\ th' = [th EXCEPT ![u] = Running]
        /\ sched' = Started(sched, u)
    BY <1>6, ZenonT(30) DEF uk_sched_thread_add, Started
  <2>2. u # t /\ u \notin Range(sched.exited_threads)
    BY <1>3, <2>1, Members, ZenonT(30) DEF Dead
  <2>3. th'[u].pc = "run" /\ \A v \in Threads \ {u} : th'[v].pc = th[v].pc
    BY <1>1, <2>1, ZenonT(30) DEF Running
  <2>4. Sound(Started(sched, u), th')
    <3>1. /\ Sound(sched, th) /\ ~HasCpu(sched, u) /\ u \in sched.free
          /\ u \notin Range(sched.exited_threads) /\ th'[u].pc \notin {"exit", "gone"}
          /\ \A v \in Threads \ {u} : th'[v].pc = th[v].pc
      BY <1>3, <2>1, <2>2, <2>3, Wakeable, ZenonT(30)
    <3>2. QED
      BY <3>1, AddSound, SMTT(30)
  <2>5. Sound(sched', th')
    BY <2>1, <2>4, ZenonT(30)
  <2>6. QED
    BY <2>5, Zenon DEF SchedInv
<1>7. QED
  BY <1>4, <1>5, <1>6, ZenonT(30)

\* The scheduler wakes the sleepers whose time has come, and chooses.
LEMMA ScheduleSched ==
    ASSUME IInv, WaitInv, SchedInv, NEW t \in All, schedcoop_schedule(t)
    PROVE  SchedInv'
<1> DEFINE s == uk_thread_wake(sched, Expired)
           pc == IF t = idle THEN "gc" ELSE IF th[t].pc = "exit" THEN "gone" ELSE "woken"
<1>1. th \in [All -> Thread] /\ Threads \subseteq All /\ idle \notin Threads
  BY Members, Zenon
<1>2. sched.current = t /\ sched.next = NoThread /\ th[t].pc \in {"yield", "exit"}
  BY Zenon DEF schedcoop_schedule, On
<1>3. th' = [th EXCEPT ![t] = [th[t] EXCEPT !.pc = pc]]
  BY Zenon DEF schedcoop_schedule, Goto
<1>4. sched' = Switched(s, t)
  BY Zenon DEF schedcoop_schedule, Switched
<1>5. /\ Expired \in Seq(Threads) /\ IsInjective(Expired)
      /\ Range(Expired) \cap Dead(sched) = {}
  <2>1. Expired \in Seq(Threads) /\ IsInjective(Expired) /\ Range(Expired) \subseteq sched.armed
    <3>1. sched.sleep_queue \in Seq(Threads) /\ IsInjective(sched.sleep_queue)
          /\ Range(sched.sleep_queue) = sched.armed
      BY Parts, Wakeable, ZenonT(30) DEF Asleep
    <3>2. QED
      BY <3>1, OnlyThose, SMTT(30) DEF Expired
  <2>2. \A u \in Threads : u \in Dead(sched) => u \notin sched.armed
    BY Parts, Wakeable, ZenonT(30) DEF Flagged
  <2>3. sched.armed \subseteq Threads
    BY Parts, Wakeable, ZenonT(30)
  <2>4. QED
    BY <2>1, <2>2, <2>3, ZenonT(30)
<1>6. Sound(s, th) /\ s.current = t /\ s.next = NoThread
  BY <1>2, <1>5, Wakeable, WakeSound, ZenonT(30)
<1>7. /\ \A u \in Threads \ {t} : th'[u].pc = th[u].pc
      /\ t \in Threads => th'[t].pc = IF th[t].pc = "exit" THEN "gone" ELSE "woken"
  BY <1>1, <1>3, ZenonT(30) DEF Thread
<1> HIDE DEF s
<1>8. Sound(Switched(s, t), th')
  BY <1>2, <1>6, <1>7, SwitchedSound, SMTT(30)
<1>9. QED
  BY <1>4, <1>8, ZenonT(30) DEF SchedInv

\* The switch, the idle thread, the clock and the interrupt handlers.
LEMMA OtherSched ==
    ASSUME IInv, WaitInv, SchedInv,
           \/ Switch \/ uk_sched_thread_gc \/ ukplat_lcpu_halt_to \/ TimerInterrupt \/ Tick
           \/ InterruptRecv \/ \E m \in Msgs : Interrupt(m)
    PROVE  SchedInv'
<1>1. \A u \in Threads : th'[u].pc = th[u].pc
  <2>1. CASE Switch
    BY <2>1, Zenon DEF Switch
  <2>2. CASE \/ uk_sched_thread_gc \/ ukplat_lcpu_halt_to \/ TimerInterrupt
             \/ InterruptRecv \/ \E m \in Msgs : Interrupt(m)
    <3>1. \E y : th' = [th EXCEPT ![idle] = y]
      BY <2>2, Zenon DEF uk_sched_thread_gc, ukplat_lcpu_halt_to, TimerInterrupt, Goto,
                         InterruptRecv, Interrupt, Kicked
    <3>2. QED
      BY <3>1, Members, ZenonT(30)
  <2>3. CASE Tick
    <3>1. th' = [t \in All |-> [th[t] EXCEPT !.deadline = Less(th[t].deadline)]]
      BY <2>3, Zenon DEF Tick
    <3>2. QED
      BY <3>1, Members, SMTT(30) DEF Thread
  <2>4. QED
    BY <2>1, <2>2, <2>3, ZenonT(30)
<1>2. Sound(sched', th)
  <2>1. CASE sched' = sched
    BY <2>1, Wakeable, ZenonT(30)
  <2>2. CASE Switch
    <3>1. /\ sched.next # NoThread
          /\ sched' = [sched EXCEPT !.current = sched.next, !.next = NoThread]
      BY <2>2, Zenon DEF Switch
    <3>2. QED
      BY <3>1, Wakeable, SwitchSound, ZenonT(30)
  <2>3. CASE uk_sched_thread_gc
    <3>1. sched' = [sched EXCEPT !.free = @ \cup Range(sched.exited_threads), !.exited_threads = <<>>]
      BY <2>3, ZenonT(30) DEF uk_sched_thread_gc
    <3>2. QED
      BY <3>1, Wakeable, SwitchSound, ZenonT(30)
  <2>4. CASE InterruptRecv \/ \E m \in Msgs : Interrupt(m)
    <3>1. sched' = sched \/ \E o \in Objs : sched' = uk_thread_wake(sched, wait[o])
      BY <2>4, ZenonT(30) DEF InterruptRecv, Interrupt, uk_waitq_wake_up, Objs, Sems
    <3>2. QED
      BY <3>1, Wakeable, WakeSound, SMTT(30)
  <2>5. QED
    BY <2>1, <2>2, <2>3, <2>4, ZenonT(30) DEF ukplat_lcpu_halt_to, TimerInterrupt, Tick
<1>3. Sound(sched', th')
  BY <1>1, <1>2, PlaceSound, SMTT(30)
<1>4. QED
  BY <1>3, Zenon DEF SchedInv

\* Every step, of a thread, of the scheduler or of an interrupt handler, keeps it.
LEMMA NextSched == IInv /\ WaitInv /\ SchedInv /\ [Next]_vars => SchedInv'
<1> SUFFICES ASSUME IInv, WaitInv, SchedInv, [Next]_vars PROVE SchedInv'
  BY SMTT(30)
<1>1. ASSUME NEW t \in Threads, Call(t)
      PROVE  SchedInv'
  BY <1>1, OwnSteps, BlockSched, ThreadSched, Zenon DEF Call
<1>2. ASSUME NEW t \in Threads, Step(t)
      PROVE  SchedInv'
  BY <1>2, OwnSteps, BlockSched, Zenon DEF Step
<1>3. CASE UNCHANGED vars
  BY <1>3, Zenon DEF vars, SchedInv
<1>4. QED
  BY <1>1, <1>2, <1>3, ScheduleSched, OtherSched, ZenonT(30) DEF Next

-----------------------------------------------------------------------------
\* For any number of threads, the run queue, the sleep queue and the flags of the
\* threads agree with who has the CPU, who is blocked and who is gone.
THEOREM SchedInvariant == Spec => []SchedInv
<1>1. QED
  BY InitSched, NextSched, InductiveInvariant, WaitInvariant, PTL DEF Spec

\* For any number of threads, a thread that can run has the CPU or is on the run
\* queue exactly once, and no other thread is on it, although an interrupt handler
\* may wake a thread between its blocking and its leaving the CPU
\* (schedcoop_thread_woken, schedcoop_schedule).
THEOREM RunnableOnceHolds == Spec => []RunnableOnce
<1>1. SchedInv => RunnableOnce
  <2> SUFFICES ASSUME SchedInv, NEW t \in Threads
               PROVE  Cardinality(Positions(t)) = IF t \in sched.runnable /\ ~Executes(t) THEN 1 ELSE 0
    BY Zenon DEF RunnableOnce
  <2>1. /\ IsInjective(sched.run_queue)
        /\ t \in Range(sched.run_queue) <=> t \in sched.runnable /\ ~Executes(t)
    BY Zenon DEF SchedInv, Sound, Queued, HasCpu, Executes
  <2>2. CASE t \in Range(sched.run_queue)
    <3>1. PICK i \in DOMAIN sched.run_queue : sched.run_queue[i] = t
      BY <2>2, Zenon DEF Range
    <3>2. Positions(t) = {i}
      BY <2>1, <3>1, ZenonT(30) DEF Positions, IsInjective
    <3>3. QED
      BY <2>1, <2>2, <3>2, FS_Singleton, ZenonT(30)
  <2>3. CASE t \notin Range(sched.run_queue)
    <3>1. Positions(t) = {}
      BY <2>3, ZenonT(30) DEF Positions, Range
    <3>2. QED
      BY <2>1, <2>3, <3>1, FS_EmptySet, ZenonT(30)
  <2>4. QED
    BY <2>2, <2>3, ZenonT(30)
<1>2. QED
  BY <1>1, SchedInvariant, PTL

\* For any number of threads, the sleep queue holds exactly the threads that are
\* blocked with a deadline, each once, whoever wakes them
\* (schedcoop_thread_blocked, schedcoop_thread_woken).
THEOREM SleepersTimedHolds == Spec => []SleepersTimed
<1>1. SchedInv => SleepersTimed
  BY Zenon DEF SchedInv, Sound, Asleep, SleepersTimed
<1>2. QED
  BY <1>1, SchedInvariant, PTL

\* For any number of threads, a thread that exited or was terminated is in no
\* queue, and the CPU never comes back to it (uk_sched_thread_exit,
\* uk_sched_thread_terminate).
THEOREM GoneUnlinkedHolds == Spec => []GoneUnlinked
<1>1. IInv /\ WaitInv /\ SchedInv => GoneUnlinked
  <2> SUFFICES ASSUME IInv, WaitInv, SchedInv, NEW t \in sched.free \cup Range(sched.exited_threads)
               PROVE  /\ t \notin Range(sched.run_queue) /\ t \notin Range(sched.sleep_queue)
                      /\ \A o \in Objs : t \notin Range(wait[o])
                      /\ Executes(t) => th[t].pc = "exit"
    BY Zenon DEF GoneUnlinked
  <2>1. t \in Threads /\ t \in Dead(sched)
    BY Members, Zenon DEF Dead
  <2>2. t \notin sched.runnable /\ t \notin sched.armed
    BY <2>1, Parts, Wakeable, ZenonT(30) DEF Flagged
  <2>3. t \notin Range(sched.run_queue) /\ t \notin Range(sched.sleep_queue)
    BY <2>1, <2>2, Parts, Wakeable, ZenonT(30) DEF Queued, Asleep
  <2>4. \A o \in Objs : t \notin Range(wait[o])
    BY <2>1, Wakeable, ZenonT(30)
  <2>5. Executes(t) => th[t].pc = "exit"
    BY <2>1, Parts, Wakeable, SMTT(30) DEF Located, HasCpu, Executes
  <2>6. QED
    BY <2>3, <2>4, <2>5, ZenonT(30)
<1>2. QED
  BY <1>1, InductiveInvariant, WaitInvariant, SchedInvariant, PTL
=============================================================================
