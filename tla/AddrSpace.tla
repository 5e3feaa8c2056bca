------------------------------ MODULE AddrSpace ------------------------------
(***************************************************************************)
(* The address space of a machine: mem_alloc_vpage, mem_map, mem_unmap and *)
(* their helpers of core/mmu.c, over the page tables of                    *)
(* arch_page_table.c and core/inc/page_table.h.                            *)
(*                                                                         *)
(* Addresses are counted in pages.  pt holds the entries of all tables:    *)
(* entry <<l, i>> is the one on level l for the pages i * LvlSize(l) up to *)
(* the next.  A table above the last level is allocated at once with the   *)
(* entry that points to it and never freed, so its own frame is left out.  *)
(* An entry has a type, the mark PTE_RSW_RSRV and, for a page, its frame,  *)
(* the k-th of block b.  mem_map writes single pages only, so that no      *)
(* superpage is ever valid, and the branches for one are left out.         *)
(*                                                                         *)
(* as->lock is held during each of the three operations: each is one step. *)
(* mem_alloc_map and mem_alloc_map_dev are two of them, and the callers of *)
(* mem_map: rq_attach_hanlder, which maps what it has not reserved, is in  *)
(* no table of handlers.  Callers name the address they want (none passes  *)
(* INVALID_VA), and ranges that lie in the space.  That the page pool runs *)
(* out, which stops the CPU in ERROR, is left to PagePool.                 *)
(***************************************************************************)
EXTENDS Integers, FiniteSets

CONSTANTS CPUs,
          Lvls,         \* dscr->lvls
          Fanout,       \* pt_nentries of every level
          Terminal,     \* the levels l with dscr->lvl_term[l]
          Ranges,       \* the <<at, n>> that callers use
          MaxMaps       \* bound on the number of ranges reserved

ASSUME AddrSpaceAssumption ==
    /\ Lvls \in Nat \ {0} /\ Fanout \in Nat \ {0, 1} /\ MaxMaps \in Nat
    /\ Lvls - 1 \in Terminal /\ Terminal \subseteq 0..(Lvls - 1)
    /\ \A r \in Ranges : r[1] \in Nat /\ r[2] \in Nat /\ r[1] + r[2] <= Fanout^Lvls

VARIABLES pt, pc,
          ret,      \* CPU -> the range mem_alloc_vpage gave it last
          maps,     \* number of ranges reserved so far
          astray,   \* an entry was looked up below one that is no table
          locked    \* a CPU stands still and holds as->lock

vars == <<pt, pc, ret, maps, astray, locked>>

Last == Lvls - 1
Pages == 0..(Fanout^Lvls - 1)
LvlSize(l) == Fanout^(Last - l)
NoFrame == <<0, 0>>
INVALID_VA == <<-1, 0>>

Empty == [type |-> "invalid", rsrv |-> FALSE, frame |-> NoFrame]
Table == [Empty EXCEPT !.type = "table"]
Page(b, k) == [Empty EXCEPT !.type = "page", !.frame = <<b, k>>]

Entries == UNION {{l} \X (0..(Fanout^(l + 1) - 1)) : l \in 0..Last}

\* The place of the entry for page va on level l, and whether pt_get_pte gets
\* there: it follows the entries above without a look at their types.
At(l, va) == <<l, va \div LvlSize(l)>>
Reached(t, l, va) == \A k \in 0..(l - 1) : t[At(k, va)].type = "table"

\* as_init
Init ==
    /\ pt = [e \in Entries |-> Empty]
    /\ pc = [c \in CPUs |-> "idle"]
    /\ ret = [c \in CPUs |-> INVALID_VA]
    /\ maps = 0
    /\ astray = FALSE
    /\ locked = FALSE

-----------------------------------------------------------------------------
\* Mutated forms of the definitions below.

\* An entry is taken as a whole although the address is inside it.
pte_allocable_unaligned(l, left, va) == l = Last \/ (l \in Terminal /\ LvlSize(l) <= left)

\* The search goes on at the same level when it comes to the end of a table.
NextLvl_same(l, va) == l
-----------------------------------------------------------------------------

pte_allocable(l, left, va) ==
    l = Last \/ (l \in Terminal /\ LvlSize(l) <= left /\ va % LvlSize(l) = 0)

\* mem_alloc_pt: the entries of the new table inherit the reservation.
mem_alloc_pt(t, l, va) ==
    [e \in Entries |->
        IF e = At(l, va) THEN Table
        ELSE IF e[1] = l + 1 /\ e[2] \div Fanout = At(l, va)[2]
             THEN [Empty EXCEPT !.rsrv = t[At(l, va)].rsrv]
        ELSE t[e]]

\* The level on which the search looks at va, after it stepped there on level l.
NextLvl(l, va) == IF (va \div LvlSize(l)) % Fanout = 0 THEN 0 ELSE l

\* The search of mem_alloc_vpage for n pages from a given address.
RECURSIVE Search(_, _)
Search(s, n) ==
    LET e     == s.pt[At(s.lvl, s.va)]
        size  == LvlSize(s.lvl)
    IN  IF s.count >= n THEN s
        ELSE IF ~Reached(s.pt, s.lvl, s.va) THEN [s EXCEPT !.astray = TRUE]
        ELSE IF e.rsrv \/ e.type = "page" THEN [s EXCEPT !.failed = TRUE]
        ELSE IF e.type = "table" THEN Search([s EXCEPT !.lvl = @ + 1], n)
        ELSE IF pte_allocable(s.lvl, n - s.count, s.va)
        THEN Search([s EXCEPT !.count = @ + size, !.va = @ + size,
                              !.lvl = NextLvl(@, s.va + size)], n)
        ELSE Search([s EXCEPT !.pt = mem_alloc_pt(@, s.lvl, s.va), !.lvl = @ + 1], n)

\* Its second part: on the path of each page the first invalid entry is marked.
RECURSIVE Mark(_, _, _)
Mark(t, va, n) ==
    IF n <= 0 THEN t
    ELSE LET l == CHOOSE k \in 0..Last : t[At(k, va)].type = "invalid" /\ Reached(t, k, va)
         IN  Mark([t EXCEPT ![At(l, va)].rsrv = TRUE], va + LvlSize(l), n - LvlSize(l))

mem_alloc_vpage(c, at, n) ==
    /\ pc[c] = "idle" /\ ~locked /\ ~astray
    /\ maps < MaxMaps
    /\ LET s == Search([pt |-> pt, va |-> at, lvl |-> 0, count |-> 0,
                        failed |-> FALSE, astray |-> FALSE], n)
           ok == n > 0 /\ ~s.failed /\ ~s.astray
       IN  /\ pt' = IF ok THEN Mark(s.pt, at, n) ELSE s.pt
           /\ ret' = [ret EXCEPT ![c] = IF ok THEN <<at, n>> ELSE INVALID_VA]
           /\ pc' = [pc EXCEPT ![c] = IF ok THEN "reserved" ELSE "idle"]
           /\ maps' = IF ok THEN maps + 1 ELSE maps
           /\ astray' = s.astray
    /\ UNCHANGED locked

\* mem_expand_pte
mem_expand_pte(s, va, l) ==
    IF ~Reached(s.pt, l, va) THEN [s EXCEPT !.astray = TRUE]
    ELSE IF s.pt[At(l, va)].type = "table" THEN s
    ELSE [s EXCEPT !.pt = mem_alloc_pt(@, l, va)]

\* mem_inflate_pt from page v on level l, up to page top: each level in steps of
\* the size of its entries, counted from va.
RECURSIVE mem_inflate_pt(_, _, _, _, _)
mem_inflate_pt(s, va, v, top, l) ==
    IF l = Last THEN s
    ELSE IF v >= top THEN mem_inflate_pt(s, va, va, top, l + 1)
    ELSE mem_inflate_pt(mem_expand_pte(s, v, l), va, v + LvlSize(l), top, l)

\* mem_map of the range that this CPU has reserved, to the frames of a block.
mem_map(c, b) ==
    /\ pc[c] = "reserved" /\ ~locked /\ ~astray
    /\ LET at == ret[c][1]
           n  == ret[c][2]
           s  == mem_inflate_pt([pt |-> pt, astray |-> FALSE], at, at, at + n, 0)
       IN  /\ pt' = [e \in Entries |->
                        IF e[1] = Last /\ e[2] \in at..(at + n - 1)
                        THEN Page(b, e[2] - at) ELSE s.pt[e]]
           /\ astray' = (s.astray \/ \E p \in at..(at + n - 1) : ~Reached(s.pt, Last, p))
    /\ pc' = [pc EXCEPT ![c] = "idle"]
    /\ UNCHANGED <<ret, maps, locked>>

\* The walk of mem_unmap from page s.va up to page top.  Where it meets a page it
\* clears the entries of that table, whatever they hold, and goes one level up at
\* the end of the table.
RECURSIVE Clear(_, _)
Clear(s, top) ==
    LET type == s.pt[At(s.lvl, s.va)].type
        end  == (s.va \div Fanout + 1) * Fanout
        stop == IF top < end THEN top ELSE end
    IN  IF s.va >= top THEN s
        ELSE IF ~Reached(s.pt, s.lvl, s.va) THEN [s EXCEPT !.astray = TRUE]
        ELSE IF type = "invalid" THEN Clear([s EXCEPT !.va = @ + LvlSize(s.lvl)], top)
        ELSE IF type = "table" THEN Clear([s EXCEPT !.lvl = @ + 1], top)
        ELSE Clear([s EXCEPT !.va = stop, !.lvl = IF stop = end THEN @ - 1 ELSE @,
                             !.pt = [e \in Entries |->
                                 IF e[1] = Last /\ e[2] \in s.va..(stop - 1) THEN Empty
                                 ELSE s.pt[e]]], top)

\* A caller unmaps pages that were given to it, some of which it may have
\* unmapped before: given and not waiting to be mapped by another CPU.
Unmappable(c, at, n) ==
    /\ ret[c] # INVALID_VA
    /\ ret[c][1] <= at /\ at + n <= ret[c][1] + ret[c][2]
    /\ \A d \in CPUs : pc[d] = "reserved" =>
          at..(at + n - 1) \cap ret[d][1]..(ret[d][1] + ret[d][2] - 1) = {}

\* mem_unmap that keeps the frames
mem_unmap(c, at, n) ==
    /\ pc[c] = "idle" /\ ~locked /\ ~astray
    /\ Unmappable(c, at, n)
    /\ LET s == Clear([pt |-> pt, va |-> at, lvl |-> 0, astray |-> FALSE], at + n)
       IN  pt' = s.pt /\ astray' = s.astray
    /\ UNCHANGED <<pc, ret, maps, locked>>

\* mem_unmap that frees them: mem_free_ppages takes the lock of the page pool a
\* second time where it should release it, on the first page it meets.
mem_unmap_free(c, at, n) ==
    /\ pc[c] = "idle" /\ ~locked /\ ~astray
    /\ Unmappable(c, at, n)
    /\ \E p \in at..(at + n - 1) : pt[At(Last, p)].type = "page"
    /\ pc' = [pc EXCEPT ![c] = "hung"]
    /\ locked' = TRUE
    /\ UNCHANGED <<pt, ret, maps, astray>>

Next ==
    \E c \in CPUs :
        \/ mem_map(c, maps)
        \/ \E r \in Ranges :
              \/ mem_alloc_vpage(c, r[1], r[2])
              \/ mem_unmap(c, r[1], r[2])
              \/ mem_unmap_free(c, r[1], r[2])

Spec == Init /\ [][Next]_vars
-----------------------------------------------------------------------------

\* The entry that decides about page p: the first on its path, from level l on,
\* that is no table.
RECURSIVE Walk(_, _)
Walk(l, p) == LET e == pt[At(l, p)] IN IF e.type = "table" THEN Walk(l + 1, p) ELSE e
Leaf(p) == Walk(0, p)

\* No operation follows an entry that does not point to a table: the tables that
\* mem_alloc_vpage and mem_inflate_pt leave behind reach every page of the range,
\* although the latter steps over part of an unaligned one.
NeverAstray == ~astray

\* The page tables are a flat map.  mem_alloc_vpage gives a range if and only if
\* every page of it is free, whatever the levels on which its neighbours were
\* reserved; mem_map then gives the frames to these pages, and mem_unmap takes
\* them from its pages; no other page changes what it maps to or its reservation.
Flat ==
    INSTANCE AddrMap WITH
        Invalid <- INVALID_VA,
        Blocks  <- 0..MaxMaps,
        map     <- [p \in {p \in Pages : Leaf(p).type = "page"} |-> Leaf(p).frame],
        resv    <- {p \in Pages : Leaf(p).rsrv}

RefinesMap == Flat!Spec
==============================================================================
