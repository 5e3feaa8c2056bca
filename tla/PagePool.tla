------------------------------- MODULE PagePool -------------------------------
(***************************************************************************)
(* The page pool of core/mem.c: root_pool_set_up_bitmap, pp_alloc with     *)
(* mem_alloc_ppages, and mem_free_page, called by several CPUs.            *)
(*                                                                         *)
(* The bitmap is the set used of pages whose bit is set (Bitmap.tla shows  *)
(* that the routines of lib/bitmap.c search and update it as assumed       *)
(* here).  Pages are named by their index in the pool.  lock is the CPU    *)
(* that holds pool->lock (TicketLock.tla).  One step of pp_alloc is one    *)
(* search of the bitmap or the update that follows it; req holds the       *)
(* locals of the call.  blocks is a history variable: what callers own.    *)
(***************************************************************************)
EXTENDS Integers, FiniteSets

CONSTANTS
    CPUs,
    NrPages,        \* pool->nr_pages
    BasePage,       \* pool->base / PAGE_SIZE
    BitmapPages,    \* pages at the end of the pool that hold the bitmap
    Requests,       \* the <<nr_pages, aligned>> that callers ask for
    NoCPU

ASSUME PoolAssumption ==
    /\ NrPages \in Nat /\ BitmapPages \in Nat /\ BasePage \in Nat
    /\ BitmapPages < NrPages
    /\ Requests \subseteq (Nat \ {0}) \X BOOLEAN
    /\ NoCPU \notin CPUs

VARIABLES used, free, last, lock, pc, req, blocks

vars == <<used, free, last, lock, pc, req, blocks>>

Pages == 0..(NrPages - 1)

Segment(b, nr) == b..(b + nr - 1)

BitmapArea == Segment(NrPages - BitmapPages, BitmapPages)

NoReq == [nr |-> 1, aligned |-> FALSE, start |-> 0, curr |-> 0, bit |-> 0]

\* mem_init with root_pool_set_up_bitmap: only the bitmap itself is in use.
Init ==
    /\ used = BitmapArea
    /\ free = NrPages - BitmapPages
    /\ last = 0
    /\ lock = NoCPU
    /\ pc = [c \in CPUs |-> "idle"]
    /\ req = [c \in CPUs |-> NoReq]
    /\ blocks = {}

\* The clear segments of nr pages at or after index from.
Runs(from, nr) == {b \in from..(NrPages - nr) : Segment(b, nr) \cap used = {}}

Goto(c, p) == pc' = [pc EXCEPT ![c] = p]
-----------------------------------------------------------------------------
\* Mutated forms of the operations below.

\* pp_alloc without spin_lock.
pp_alloc_enter_unlocked(c, nr, aligned) ==
    /\ pc[c] = "idle"
    /\ lock' = c
    /\ LET start == IF aligned THEN BasePage % nr ELSE 0
       IN  req' = [req EXCEPT ![c] = [nr |-> nr, aligned |-> aligned, start |-> start,
                       curr |-> last + ((last + start) % nr), bit |-> 0]]
    /\ Goto(c, "search1")
    /\ UNCHANGED <<used, free, last, blocks>>

\* The second search starts where the first one did.
NotFound_no_wrap(c) ==
    /\ IF pc[c] = "search1" THEN Goto(c, "search2") ELSE Goto(c, "fail")
    /\ UNCHANGED <<used, free, last, lock, blocks, req>>

\* The search for an aligned segment starts again at the segment just found.
Realign_stuck(r, b) == b

-----------------------------------------------------------------------------

\* pp_alloc up to the first search: take the lock, choose where to start.
pp_alloc_enter(c, nr, aligned) ==
    /\ pc[c] = "idle"
    /\ lock = NoCPU
    /\ lock' = c
    /\ LET start == IF aligned THEN BasePage % nr ELSE 0
       IN  req' = [req EXCEPT ![c] = [nr |-> nr, aligned |-> aligned, start |-> start,
                       curr |-> last + ((last + start) % nr), bit |-> 0]]
    /\ Goto(c, "search1")
    /\ UNCHANGED <<used, free, last, blocks>>

\* A search that ends without a segment: the first one is followed by one
\* from the lowest (aligned) index, the second one by failure.
NotFound(c) ==
    /\ IF pc[c] = "search1" THEN Goto(c, "search2") ELSE Goto(c, "fail")
    /\ LET nr == req[c].nr
           next_aligned == (nr - (BasePage % nr)) % nr
       IN  req' = [req EXCEPT ![c].curr =
                       IF free = 0 THEN @ ELSE IF req[c].aligned THEN next_aligned ELSE 0]
    /\ UNCHANGED <<used, free, last, lock, blocks>>

\* Where the search goes on when the segment found at b is not aligned.
Realign(r, b) == b + ((b + r.start) % r.nr)

\* One turn of the loop over bitmap_find_consec.
pp_alloc_search(c) ==
    /\ pc[c] \in {"search1", "search2"}
    /\ LET r == req[c]
           found == Runs(r.curr, r.nr)
       IN  \/ (free = 0 \/ found = {}) /\ NotFound(c)
           \/ /\ free # 0
              /\ \E b \in found :
                    /\ \A a \in found : b <= a
                    /\ IF r.aligned /\ (b + r.start) % r.nr # 0
                         THEN /\ req' = [req EXCEPT ![c].curr = Realign(r, b)]
                              /\ UNCHANGED pc
                         ELSE /\ req' = [req EXCEPT ![c].bit = b]
                              /\ Goto(c, "mark")
              /\ UNCHANGED <<used, free, last, lock, blocks>>

\* The segment is found: mark it and update the pool's bookkeeping.
pp_alloc_mark(c) ==
    /\ pc[c] = "mark"
    /\ used' = used \cup Segment(req[c].bit, req[c].nr)
    /\ free' = free - req[c].nr
    /\ last' = req[c].bit + req[c].nr
    /\ blocks' = blocks \cup {[base |-> req[c].bit, nr |-> req[c].nr]}
    /\ Goto(c, "unlock")
    /\ UNCHANGED <<lock, req>>

\* pp_alloc returns; mem_alloc_ppages stops the CPU in ERROR when it failed.
pp_alloc_leave(c) ==
    /\ pc[c] \in {"unlock", "fail"}
    /\ lock' = NoCPU
    /\ Goto(c, IF pc[c] = "fail" THEN "hung" ELSE "idle")
    /\ req' = [req EXCEPT ![c] = NoReq]
    /\ UNCHANGED <<used, free, last, blocks>>

\* mem_free_page of a block its owner got from pp_alloc.
mem_free_page(c, blk) ==
    /\ pc[c] = "idle" /\ lock = NoCPU
    /\ used' = used \ Segment(blk.base, blk.nr)
    /\ free' = free + blk.nr
    /\ blocks' = blocks \ {blk}
    /\ UNCHANGED <<last, lock, pc, req>>

\* The steps of a CPU that is inside pp_alloc.
Inside(c) == pp_alloc_search(c) \/ pp_alloc_mark(c) \/ pp_alloc_leave(c)

Next ==
    \E c \in CPUs :
        \/ \E q \in Requests : pp_alloc_enter(c, q[1], q[2])
        \/ Inside(c)
        \/ \E blk \in blocks : mem_free_page(c, blk)

Spec == Init /\ [][Next]_vars

\* Interrupts are masked inside the hypervisor: a CPU in pp_alloc goes on.
FairSpec == Spec /\ \A c \in CPUs : WF_vars(Inside(c))
-----------------------------------------------------------------------------

TypeOK ==
    /\ used \subseteq Pages
    /\ free \in Nat
    /\ last \in 0..NrPages
    /\ lock \in CPUs \cup {NoCPU}
    /\ pc \in [CPUs -> {"idle", "search1", "search2", "mark", "unlock", "fail", "hung"}]
    /\ req \in [CPUs -> [nr : Nat \ {0}, aligned : BOOLEAN, start : Nat, curr : Nat, bit : Nat]]
    /\ blocks \subseteq [base : Pages, nr : Nat \ {0}]

Area(blk) == Segment(blk.base, blk.nr)

\* The blocks handed out by pp_alloc and the bitmap never share a page, and
\* the set bits are exactly theirs: no allocation returns a page in use, no
\* release by mem_free_page gives back somebody else's.
BlocksPartition ==
    /\ used = BitmapArea \cup UNION {Area(blk) : blk \in blocks}
    /\ \A blk \in blocks : Area(blk) \cap BitmapArea = {}
    /\ \A x, y \in blocks : x # y => Area(x) \cap Area(y) = {}

\* pool->free is the number of clear bits: the test of get_new_ss for
\* enough memory reads a true number.
FreeIsExact == free = NrPages - Cardinality(used)

\* pp_alloc gives up only when the pool has no segment that would do, in
\* spite of starting its search in the middle of the pool.
FailsOnlyWhenFull ==
    \A c \in CPUs :
        LET r == req[c]
        IN  pc[c] = "fail" =>
                \A b \in Runs(0, r.nr) : r.aligned /\ (b + r.start) % r.nr # 0

InLoop == {"search1", "search2", "mark", "unlock", "fail"}

\* The inductive form: the lock belongs to the CPU inside pp_alloc, so what
\* a search found is still clear when it is marked, and a second search
\* without alignment starts from page 0.
IInv ==
    /\ TypeOK
    /\ BlocksPartition
    /\ FreeIsExact
    /\ \A c \in CPUs : pc[c] \in InLoop <=> lock = c
    /\ \A c \in CPUs : pc[c] = "mark" => req[c].bit \in Runs(0, req[c].nr)
    /\ \A c \in CPUs :
          /\ pc[c] = "search2" /\ ~req[c].aligned => free = 0 \/ req[c].curr = 0
          /\ pc[c] = "fail" /\ ~req[c].aligned => free = 0 \/ Runs(0, req[c].nr) = {}

\* Every call of pp_alloc comes to an end: the search for an aligned segment
\* always moves forward, and the second search is the last.
AllocEnds ==
    \A c \in CPUs : pc[c] = "search1" ~> pc[c] \in {"idle", "hung"}
==============================================================================
