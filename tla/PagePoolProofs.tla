---------------------------- MODULE PagePoolProofs ----------------------------
(***************************************************************************)
(* Proofs about PagePool, for a pool of any size, any base address, any    *)
(* set of CPUs and any set of requests.                                    *)
(***************************************************************************)
EXTENDS PagePool, FiniteSetTheorems, TLAPS

\* A set of pages is finite, its size is at most NrPages, and it is the
\* whole pool when it has that size.
LEMMA PageSets ==
    ASSUME NEW S \in SUBSET Pages
    PROVE  /\ IsFiniteSet(S)
           /\ Cardinality(S) \in Nat
           /\ Cardinality(S) <= NrPages
           /\ Cardinality(S) = NrPages => S = Pages
<1>1. NrPages \in Nat /\ NrPages > 0
  BY PoolAssumption
<1>2. IsFiniteSet(Pages) /\ Cardinality(Pages) = NrPages
  BY <1>1, FS_Interval DEF Pages
<1>3. QED
  BY <1>1, <1>2, FS_Subset, FS_CardinalityType

\* A segment of nr pages has nr members.
LEMMA SegmentSize ==
    ASSUME NEW b \in Int, NEW nr \in Nat
    PROVE  IsFiniteSet(Segment(b, nr)) /\ Cardinality(Segment(b, nr)) = nr
<1>1. IsFiniteSet(b..(b + nr - 1))
      /\ Cardinality(b..(b + nr - 1)) = IF b > b + nr - 1 THEN 0 ELSE (b + nr - 1) - b + 1
  BY FS_Interval
<1>2. (IF b > b + nr - 1 THEN 0 ELSE (b + nr - 1) - b + 1) = nr
  OBVIOUS
<1>3. QED
  BY <1>1, <1>2 DEF Segment

\* Marking a clear segment adds its length to the number of set bits.
LEMMA MarkCount ==
    ASSUME NEW U \in SUBSET Pages, NEW b \in Nat, NEW nr \in Nat,
           Segment(b, nr) \cap U = {}
    PROVE  Cardinality(U \cup Segment(b, nr)) = Cardinality(U) + nr
<1>1. IsFiniteSet(U) /\ Cardinality(U) \in Nat
  BY PageSets
<1>2. IsFiniteSet(Segment(b, nr)) /\ Cardinality(Segment(b, nr)) = nr
  BY SegmentSize
<1>3. U \cap Segment(b, nr) = {}
  OBVIOUS
<1>4. Cardinality(U \cup Segment(b, nr))
          = Cardinality(U) + Cardinality(Segment(b, nr)) - Cardinality({})
  BY <1>1, <1>2, <1>3, FS_Union
<1>5. QED
  BY <1>1, <1>2, <1>4, FS_EmptySet

\* Clearing a segment whose bits are all set subtracts its length.
LEMMA ClearCount ==
    ASSUME NEW U \in SUBSET Pages, NEW b \in Nat, NEW nr \in Nat,
           Segment(b, nr) \subseteq U
    PROVE  Cardinality(U \ Segment(b, nr)) = Cardinality(U) - nr
<1> DEFINE V == U \ Segment(b, nr)
<1>1. V \in SUBSET Pages /\ Segment(b, nr) \cap V = {}
  OBVIOUS
<1>2. Cardinality(V \cup Segment(b, nr)) = Cardinality(V) + nr
  BY <1>1, MarkCount
<1>3. V \cup Segment(b, nr) = U
  OBVIOUS
<1>4. Cardinality(V) \in Nat
  BY <1>1, PageSets
<1> HIDE DEF V
<1>5. Cardinality(U) = Cardinality(V) + nr
  BY <1>2, <1>3
<1>6. Cardinality(V) = Cardinality(U) - nr
  BY <1>4, <1>5
<1>7. QED
  BY <1>6 DEF V

\* mem_init establishes the invariant.
LEMMA InitIInv == Init => IInv
<1> SUFFICES ASSUME Init PROVE IInv
  OBVIOUS
<1>1. BitmapArea \subseteq Pages
  BY PoolAssumption DEF BitmapArea, Segment, Pages
<1>2. TypeOK
  <2>1. used \subseteq Pages /\ free \in Nat /\ last \in 0..NrPages /\ blocks = {}
    BY <1>1, PoolAssumption DEF Init
  <2>2. NoReq \in [nr : Nat \ {0}, aligned : BOOLEAN, start : Nat, curr : Nat, bit : Nat]
    BY DEF NoReq
  <2>3. QED
    BY <2>1, <2>2 DEF Init, TypeOK
<1>3. BlocksPartition
  BY DEF Init, BlocksPartition
<1>4. FreeIsExact
  BY PoolAssumption, SegmentSize DEF Init, FreeIsExact, BitmapArea
<1>5. QED
  BY <1>2, <1>3, <1>4, PoolAssumption DEF Init, IInv, InLoop

\* Taking the lock: pp_alloc_enter touches nothing that blocks depend on.
LEMMA EnterStep ==
    ASSUME IInv, NEW c \in CPUs, NEW q \in Requests, pp_alloc_enter(c, q[1], q[2])
    PROVE  IInv'
<1> DEFINE nr == q[1]
           start == IF q[2] THEN BasePage % nr ELSE 0
           r == [nr |-> nr, aligned |-> q[2], start |-> start,
                    curr |-> last + ((last + start) % nr), bit |-> 0]
<1>1. nr \in Nat \ {0} /\ q[2] \in BOOLEAN
  BY PoolAssumption
<1>2. start \in Nat /\ last \in Nat
  BY <1>1, PoolAssumption DEF IInv, TypeOK
<1>3. last + ((last + start) % nr) \in Nat
  BY <1>1, <1>2
<1>4. r \in [nr : Nat \ {0}, aligned : BOOLEAN, start : Nat, curr : Nat, bit : Nat]
  BY <1>1, <1>2, <1>3
<1>5. req' = [req EXCEPT ![c] = r]
  BY DEF pp_alloc_enter
<1> HIDE DEF r
<1>6. TypeOK'
  BY <1>4, <1>5 DEF IInv, TypeOK, pp_alloc_enter, Goto
<1>7. BlocksPartition' /\ FreeIsExact'
  BY DEF IInv, BlocksPartition, FreeIsExact, pp_alloc_enter
<1>8. \A d \in CPUs : pc'[d] = IF d = c THEN "search1" ELSE pc[d]
  BY DEF IInv, TypeOK, pp_alloc_enter, Goto
<1>9. \A d \in CPUs : d # c => req'[d] = req[d] /\ pc[d] \notin InLoop
  BY <1>5, PoolAssumption DEF IInv, TypeOK, pp_alloc_enter
<1>10. \A d \in CPUs : pc'[d] \in InLoop <=> lock' = d
  BY <1>8, <1>9 DEF pp_alloc_enter, InLoop
<1>11. \A d \in CPUs : pc'[d] \notin {"mark", "search2", "fail"}
  BY <1>8, <1>9 DEF InLoop
<1>12. QED
  BY <1>6, <1>7, <1>10, <1>11 DEF IInv

\* One search: what it finds is clear, and a second search that finds nothing
\* from page 0 proves that there is nothing.
LEMMA SearchStep ==
    ASSUME IInv, NEW c \in CPUs, pp_alloc_search(c)
    PROVE  IInv'
<1> DEFINE r == req[c]
           found == Runs(r.curr, r.nr)
<1> USE PoolAssumption
<1>1. /\ r \in [nr : Nat \ {0}, aligned : BOOLEAN, start : Nat, curr : Nat, bit : Nat]
      /\ pc[c] \in {"search1", "search2"}
      /\ UNCHANGED <<used, free, last, lock, blocks>>
  BY DEF IInv, TypeOK, pp_alloc_search, NotFound
<1>2. lock = c /\ \A d \in CPUs : d # c => pc[d] \notin InLoop
  BY <1>1 DEF IInv, InLoop
<1>3. BlocksPartition' /\ FreeIsExact'
  BY <1>1 DEF IInv, BlocksPartition, FreeIsExact
<1>4. CASE (free = 0 \/ found = {}) /\ NotFound(c)
  <2> DEFINE next_aligned == (r.nr - (BasePage % r.nr)) % r.nr
             curr == IF free = 0 THEN r.curr ELSE IF r.aligned THEN next_aligned ELSE 0
             p == IF pc[c] = "search1" THEN "search2" ELSE "fail"
  <2>1. BasePage % r.nr \in 0..(r.nr - 1)
    BY <1>1
  <2>2. next_aligned \in Nat
    BY <1>1, <2>1
  <2>3. curr \in Nat
    BY <1>1, <2>2
  <2>4. req' = [req EXCEPT ![c].curr = curr] /\ pc' = [pc EXCEPT ![c] = p]
    BY <1>4 DEF NotFound, Goto
  <2> HIDE DEF curr
  <2>5. /\ \A d \in CPUs : d # c => req'[d] = req[d] /\ pc'[d] = pc[d]
        /\ req'[c] = [r EXCEPT !.curr = curr] /\ pc'[c] = p
    BY <2>4 DEF IInv, TypeOK
  <2>6. req'[c].nr = r.nr /\ req'[c].aligned = r.aligned /\ req'[c].curr = curr
    BY <1>1, <2>5
  <2>7. TypeOK'
    BY <1>1, <2>3, <2>4 DEF IInv, TypeOK
  <2>8. \A d \in CPUs : pc'[d] \in InLoop <=> lock' = d
    BY <1>1, <1>2, <2>5 DEF IInv, InLoop
  <2>9. \A d \in CPUs : pc'[d] # "mark"
    BY <1>1, <1>2, <2>5 DEF InLoop
  <2>10. p = "search2" /\ ~r.aligned => free = 0 \/ curr = 0
    BY DEF curr
  <2>11. p = "fail" /\ ~r.aligned => free = 0 \/ Runs(0, r.nr) = {}
    BY <1>1, <1>4 DEF IInv
  <2>12. \A d \in CPUs :
            /\ pc'[d] = "search2" /\ ~req'[d].aligned => free = 0 \/ req'[d].curr = 0
            /\ pc'[d] = "fail" /\ ~req'[d].aligned => free = 0 \/ Runs(0, req'[d].nr) = {}
    BY <1>2, <2>5, <2>6, <2>10, <2>11 DEF InLoop
  <2>13. QED
    BY <1>1, <1>3, <2>7, <2>8, <2>9, <2>12 DEF IInv, Runs
<1>5. ASSUME NEW b \in found, \A a \in found : b <= a,
             r.aligned /\ (b + r.start) % r.nr # 0,
             req' = [req EXCEPT ![c].curr = Realign(r, b)], UNCHANGED pc
      PROVE  IInv'
  <2>1. b \in Nat
    BY <1>1 DEF Runs
  <2>2. Realign(r, b) \in Nat
    BY <1>1, <2>1 DEF Realign
  <2>3. \A d \in CPUs : d # c => req'[d] = req[d]
    BY <1>5
  <2>4. req'[c].nr = r.nr /\ req'[c].aligned
    BY <1>1, <1>5 DEF IInv, TypeOK
  <2>5. TypeOK'
    BY <1>1, <1>5, <2>2 DEF IInv, TypeOK
  <2>6. \A d \in CPUs : pc[d] = "mark" => req'[d].bit \in Runs(0, req'[d].nr)
    BY <1>1, <1>2, <2>3 DEF InLoop
  <2>7. QED
    BY <1>1, <1>2, <1>3, <1>5, <2>3, <2>4, <2>5, <2>6 DEF IInv, Runs, InLoop
<1>6. ASSUME NEW b \in found, req' = [req EXCEPT ![c].bit = b], Goto(c, "mark")
      PROVE  IInv'
  <2>1. b \in Nat /\ b \in Runs(0, r.nr)
    BY <1>1 DEF Runs
  <2>2. /\ \A d \in CPUs : d # c => req'[d] = req[d] /\ pc'[d] = pc[d]
        /\ pc'[c] = "mark"
    BY <1>6 DEF IInv, TypeOK, Goto
  <2>3. req'[c].nr = r.nr /\ req'[c].bit = b
    BY <1>1, <1>6 DEF IInv, TypeOK
  <2>4. TypeOK'
    BY <1>1, <1>6, <2>1 DEF IInv, TypeOK, Goto
  <2>5. \A d \in CPUs : pc'[d] \in InLoop <=> lock' = d
    BY <1>1, <1>2, <2>2 DEF IInv, InLoop
  <2>6. \A d \in CPUs : pc'[d] = "mark" => req'[d].bit \in Runs(0, req'[d].nr)
    BY <1>2, <2>1, <2>2, <2>3 DEF InLoop
  <2>7. \A d \in CPUs : pc'[d] \notin {"search2", "fail"}
    BY <1>2, <2>2 DEF InLoop
  <2>8. QED
    BY <1>1, <1>3, <2>4, <2>5, <2>6, <2>7 DEF IInv, Runs
<1>7. QED
  BY <1>4, <1>5, <1>6 DEF pp_alloc_search

\* Marking: the segment found is still clear, because the lock is held.
LEMMA MarkStep ==
    ASSUME IInv, NEW c \in CPUs, pp_alloc_mark(c)
    PROVE  IInv'
<1> DEFINE b == req[c].bit
           nr == req[c].nr
           blk == [base |-> b, nr |-> nr]
<1> USE PoolAssumption
<1>1. nr \in Nat \ {0} /\ b \in Runs(0, nr) /\ lock = c
  BY DEF IInv, TypeOK, pp_alloc_mark, InLoop
<1>2. b \in 0..(NrPages - nr) /\ Segment(b, nr) \cap used = {}
  BY <1>1 DEF Runs
<1>3. used \cup Segment(b, nr) \subseteq Pages /\ b \in Pages
  <2>1. used \subseteq Pages
    BY DEF IInv, TypeOK
  <2> HIDE DEF b, nr
  <2>2. b \in Pages /\ \A x \in Segment(b, nr) : x \in Pages
    BY <1>1, <1>2 DEF Segment, Pages
  <2>3. QED
    BY <2>1, <2>2
<1>4. Cardinality(used \cup Segment(b, nr)) = Cardinality(used) + nr
  BY <1>1, <1>2, MarkCount DEF IInv, TypeOK
<1>5. Cardinality(used \cup Segment(b, nr)) <= NrPages /\ Cardinality(used) \in Nat
  BY <1>3, PageSets
<1>6. /\ used' = used \cup Segment(b, nr) /\ free' = free - nr
      /\ last' = b + nr /\ blocks' = blocks \cup {blk}
      /\ pc' = [pc EXCEPT ![c] = "unlock"] /\ lock' = lock /\ req' = req
  BY DEF pp_alloc_mark, Goto
<1>7. FreeIsExact' /\ free' \in Nat
  BY <1>1, <1>4, <1>5, <1>6 DEF IInv, TypeOK, FreeIsExact
<1>8. TypeOK'
  <2>1. blk \in [base : Pages, nr : Nat \ {0}]
    BY <1>1, <1>3
  <2>2. b + nr \in 0..NrPages
    BY <1>1, <1>2
  <2>3. QED
    BY <1>3, <1>6, <1>7, <2>1, <2>2 DEF IInv, TypeOK
<1>9. BlocksPartition'
  <2>1. Area(blk) = Segment(b, nr)
    BY DEF Area
  <2> HIDE DEF blk
  <2>2. used' = BitmapArea \cup UNION {Area(x) : x \in blocks'}
    BY <1>6, <2>1 DEF IInv, BlocksPartition
  <2>3. Area(blk) \cap used = {}
    BY <1>2, <2>1
  <2>4. \A x \in blocks : Area(x) \subseteq used
    BY DEF IInv, BlocksPartition
  <2>5. \A x \in blocks' : Area(x) \cap BitmapArea = {}
    BY <1>6, <2>3 DEF IInv, BlocksPartition
  <2>6. \A x, y \in blocks' : x # y => Area(x) \cap Area(y) = {}
    BY <1>6, <2>3, <2>4 DEF IInv, BlocksPartition
  <2>7. QED
    BY <2>2, <2>5, <2>6 DEF BlocksPartition
<1>10. \A d \in CPUs : pc'[d] \in InLoop <=> lock' = d
  BY <1>1, <1>6 DEF IInv, TypeOK, InLoop
<1>11. \A d \in CPUs : pc'[d] \notin {"mark", "search2", "fail"}
  BY <1>1, <1>6 DEF IInv, TypeOK, InLoop
<1>12. QED
  BY <1>7, <1>8, <1>9, <1>10, <1>11 DEF IInv

\* Leaving pp_alloc gives up the lock and the locals of the call.
LEMMA LeaveStep ==
    ASSUME IInv, NEW c \in CPUs, pp_alloc_leave(c)
    PROVE  IInv'
<1> USE PoolAssumption
<1>1. lock = c /\ \A d \in CPUs : d # c => pc[d] \notin InLoop
  BY DEF IInv, InLoop, pp_alloc_leave
<1>2. \A d \in CPUs : pc'[d] \notin InLoop
  BY <1>1 DEF IInv, TypeOK, InLoop, pp_alloc_leave, Goto
<1>3. NoReq \in [nr : Nat \ {0}, aligned : BOOLEAN, start : Nat, curr : Nat, bit : Nat]
  BY DEF NoReq
<1>4. TypeOK'
  BY <1>3 DEF IInv, TypeOK, pp_alloc_leave, Goto
<1>5. BlocksPartition' /\ FreeIsExact'
  BY DEF IInv, BlocksPartition, FreeIsExact, pp_alloc_leave
<1>6. lock' = NoCPU
  BY DEF pp_alloc_leave
<1>7. QED
  BY <1>2, <1>4, <1>5, <1>6 DEF IInv, InLoop

\* mem_free_page takes back exactly the pages of one block.
LEMMA FreeStep ==
    ASSUME IInv, NEW c \in CPUs, NEW blk \in blocks, mem_free_page(c, blk)
    PROVE  IInv'
<1> USE PoolAssumption
<1>1. blk.base \in Pages /\ blk.nr \in Nat \ {0} /\ Area(blk) \subseteq used
  BY DEF IInv, TypeOK, BlocksPartition
<1>2. blk.base \in Nat
  BY <1>1 DEF Pages
<1>3. Cardinality(used \ Area(blk)) = Cardinality(used) - blk.nr
  BY <1>1, <1>2, ClearCount DEF IInv, TypeOK, Area
<1>4. Cardinality(used) \in Nat
  BY PageSets DEF IInv, TypeOK
<1>5. /\ used' = used \ Area(blk) /\ free' = free + blk.nr
      /\ blocks' = blocks \ {blk} /\ UNCHANGED <<last, lock, pc, req>>
  BY DEF mem_free_page, Area
<1>6. FreeIsExact' /\ free' \in Nat
  BY <1>1, <1>3, <1>4, <1>5 DEF IInv, TypeOK, FreeIsExact
<1>7. TypeOK'
  BY <1>5, <1>6 DEF IInv, TypeOK
<1>8. BlocksPartition'
  <2>1. \A x \in blocks \ {blk} : Area(x) \cap Area(blk) = {}
    BY DEF IInv, BlocksPartition
  <2>2. Area(blk) \cap BitmapArea = {}
    BY DEF IInv, BlocksPartition
  <2>3. used' = BitmapArea \cup UNION {Area(x) : x \in blocks'}
    BY <1>5, <2>1, <2>2 DEF IInv, BlocksPartition
  <2>4. QED
    BY <1>5, <2>3 DEF IInv, BlocksPartition
<1>9. \A d \in CPUs : pc[d] \notin InLoop
  BY DEF IInv, mem_free_page
<1>10. QED
  BY <1>5, <1>6, <1>7, <1>8, <1>9 DEF IInv, InLoop

\* Every step of every CPU preserves the inductive invariant.
LEMMA NextIInv == IInv /\ [Next]_vars => IInv'
<1> SUFFICES ASSUME IInv, [Next]_vars PROVE IInv'
  OBVIOUS
<1>1. ASSUME NEW c \in CPUs, NEW q \in Requests, pp_alloc_enter(c, q[1], q[2])
      PROVE  IInv'
  BY <1>1, EnterStep
<1>2. ASSUME NEW c \in CPUs, Inside(c) PROVE IInv'
  BY <1>2, SearchStep, MarkStep, LeaveStep DEF Inside
<1>3. ASSUME NEW c \in CPUs, NEW blk \in blocks, mem_free_page(c, blk) PROVE IInv'
  BY <1>3, FreeStep
<1>4. CASE UNCHANGED vars
  BY <1>4 DEF vars, IInv, TypeOK, BlocksPartition, FreeIsExact, Runs
<1>5. QED
  BY <1>1, <1>2, <1>3, <1>4 DEF Next

\* The invariant that ties the lock, the searches in progress, the bitmap and
\* the blocks handed out holds in every reachable state of the page pool.
THEOREM InductiveInvariant == Spec => []IInv
  BY InitIInv, NextIInv, PTL DEF Spec

\* pp_alloc and mem_free_page keep the blocks of all callers apart.
THEOREM BlocksStayDisjoint == Spec => []BlocksPartition
<1>1. IInv => BlocksPartition
  BY DEF IInv
<1>2. QED
  BY <1>1, InductiveInvariant, PTL

\* The counter that mem_get_free_pages returns is the number of clear bits.
THEOREM FreeCountIsExact == Spec => []FreeIsExact
<1>1. IInv => FreeIsExact
  BY DEF IInv
<1>2. QED
  BY <1>1, InductiveInvariant, PTL

\* No request in flight asks for an aligned segment.
NoneAligned == \A c \in CPUs : ~req[c].aligned

\* As long as callers ask for unaligned segments only, pp_alloc fails only
\* when no clear segment is long enough: starting at pool->last loses
\* nothing.
THEOREM UnalignedSearchIsComplete ==
    ASSUME \A q \in Requests : q[2] = FALSE
    PROVE  Spec => []FailsOnlyWhenFull
<1>1. Init => NoneAligned
  BY DEF Init, NoneAligned, NoReq
<1>2. IInv /\ NoneAligned /\ [Next]_vars => NoneAligned'
  <2> SUFFICES ASSUME IInv, NoneAligned, [Next]_vars PROVE NoneAligned'
    OBVIOUS
  <2>1. req \in [CPUs -> [nr : Nat \ {0}, aligned : BOOLEAN, start : Nat, curr : Nat, bit : Nat]]
    BY DEF IInv, TypeOK
  <2>2. ASSUME NEW c \in CPUs, NEW q \in Requests, pp_alloc_enter(c, q[1], q[2])
        PROVE  NoneAligned'
    BY <2>1, <2>2 DEF NoneAligned, pp_alloc_enter
  <2>3. ASSUME NEW c \in CPUs, pp_alloc_search(c) PROVE NoneAligned'
    BY <2>1, <2>3 DEF NoneAligned, pp_alloc_search, NotFound
  <2>4. ASSUME NEW c \in CPUs, pp_alloc_leave(c) PROVE NoneAligned'
    BY <2>1, <2>4 DEF NoneAligned, pp_alloc_leave, NoReq
  <2>5. ASSUME NEW c \in CPUs, pp_alloc_mark(c) PROVE NoneAligned'
    BY <2>5 DEF NoneAligned, pp_alloc_mark
  <2>6. ASSUME NEW c \in CPUs, NEW blk \in blocks, mem_free_page(c, blk) PROVE NoneAligned'
    BY <2>6 DEF NoneAligned, mem_free_page
  <2>7. CASE UNCHANGED vars
    BY <2>7 DEF NoneAligned, vars
  <2>8. QED
    BY <2>2, <2>3, <2>4, <2>5, <2>6, <2>7 DEF Next, Inside
<1>3. IInv /\ NoneAligned => FailsOnlyWhenFull
  <2> SUFFICES ASSUME IInv, NoneAligned, NEW c \in CPUs, pc[c] = "fail"
               PROVE  Runs(0, req[c].nr) = {}
    BY DEF FailsOnlyWhenFull
  <2>1. CASE free = 0
    <3>1. used = Pages
      BY <2>1, PoolAssumption, PageSets DEF IInv, FreeIsExact, TypeOK
    <3>2. ASSUME NEW b \in Runs(0, req[c].nr) PROVE FALSE
      <4>1. req[c].nr \in Nat \ {0}
        BY DEF IInv, TypeOK
      <4>2. b \in Segment(b, req[c].nr) /\ b \in Pages
        BY <3>2, <4>1, PoolAssumption DEF Runs, Segment, Pages
      <4>3. QED
        BY <3>1, <3>2, <4>2 DEF Runs
    <3>3. QED
      BY <3>2
  <2>2. CASE free # 0
    BY <2>2 DEF IInv, NoneAligned
  <2>3. QED
    BY <2>1, <2>2
<1>4. QED
  BY <1>1, <1>2, <1>3, InductiveInvariant, PTL DEF Spec
==============================================================================
