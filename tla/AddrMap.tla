------------------------------- MODULE AddrMap -------------------------------
(***************************************************************************)
(* What an address space promises: a flat map from pages to frames.  A     *)
(* range is reserved if all of its pages are free and refused otherwise; a *)
(* reserved range is then mapped by the CPU that reserved it, and pages    *)
(* can be unmapped.  No call touches a page outside its range.             *)
(***************************************************************************)
EXTENDS Integers

CONSTANTS CPUs, Ranges, Blocks, Invalid

VARIABLES map,      \* page -> its frame, for the pages that are mapped
          resv,     \* pages that are reserved and not yet mapped
          ret       \* CPU -> the range it was given last, or Invalid

vars == <<map, resv, ret>>

PagesOf(r) == r[1]..(r[1] + r[2] - 1)

Init ==
    /\ map = <<>>
    /\ resv = {}
    /\ ret = [c \in CPUs |-> Invalid]

IsFree(r) == PagesOf(r) \cap (DOMAIN map \cup resv) = {}

Reserve(c, r) ==
    /\ ret' = [ret EXCEPT ![c] = r]
    /\ PagesOf(r) # {} /\ IsFree(r)
    /\ resv' = resv \cup PagesOf(r)
    /\ UNCHANGED map

Refuse(c, r) ==
    /\ ret' = [ret EXCEPT ![c] = Invalid]
    /\ PagesOf(r) = {} \/ ~IsFree(r)
    /\ UNCHANGED <<map, resv>>

\* The pages get frames that follow each other, counted from <<b, 0>>.
Map(c, b) ==
    /\ ret[c] # Invalid /\ UNCHANGED ret
    /\ LET mine == PagesOf(ret[c])
           old  == map
       IN  /\ mine \subseteq resv
           /\ map' = [p \in DOMAIN old \cup mine |->
                        IF p \in mine THEN <<b, p - ret[c][1]>> ELSE old[p]]
           /\ resv' = resv \ mine

Unmap(r) ==
    /\ UNCHANGED <<ret, resv>>
    /\ PagesOf(r) \cap resv = {}
    /\ LET old == map IN map' = [p \in DOMAIN old \ PagesOf(r) |-> old[p]]

Next ==
    \/ \E c \in CPUs, r \in Ranges : Reserve(c, r) \/ Refuse(c, r)
    \/ \E c \in CPUs, b \in Blocks : Map(c, b)
    \/ \E r \in Ranges : Unmap(r)

Spec == Init /\ [][Next]_vars
==============================================================================
