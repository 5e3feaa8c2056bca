-------------------------------- MODULE CpuMsg --------------------------------
(***************************************************************************)
(* Messages between CPUs: cpu_send_msg, cpu_get_msg and cpu_msg_handler of *)
(* core/cpu.c, with the doubly linked list of lib/inc/list.h one memory    *)
(* access per step, the pool of core/objpool.c, and the interrupt that     *)
(* announces a message.                                                    *)
(*                                                                         *)
(* A list pointer is a node of msg_pool, the head of the list of a CPU, or *)
(* Bad: null or one of the LIST_POISONs, whose use faults.  event_list_lock *)
(* is taken by the receiver only, around one load, and so is left out.     *)
(***************************************************************************)
EXTENDS Integers, Sequences, FiniteSets, FiniteSetsExt, Functions

CONSTANTS
    NrCPUs,     \* PLAT_CPU_NUM
    NrNodes,    \* CPU_MSG_POOL_SIZE
    MaxSends    \* bound: messages sent in a behaviour

ASSUME MsgAssumption == {NrCPUs, NrNodes, MaxSends} \subseteq Nat \ {0}

CPUs == 0..(NrCPUs - 1)
Nodes == 1..NrNodes
Bad == 0
event_list(d) == -1 - d

VARIABLES
    nxt, prv,   \* the fields of the list heads and of the nodes
    msg,        \* node -> the message in it, <<target, number>>
    inuse,      \* the bitmap of msg_pool
    pending,    \* the CPUs on which IPI_CPU_MSG is pending
    pc,         \* where each CPU is
    r,          \* its registers: node, target or own list, prev, next
    sent,       \* messages sent so far
    handled,    \* CPU -> the messages it has handled, in that order
    raced       \* history: two CPUs have been inside one list at once

vars == <<nxt, prv, msg, inuse, pending, pc, r, sent, handled, raced>>
list == <<nxt, prv>>

Regs(node, head) == [node |-> node, list |-> head, p |-> Bad, n |-> Bad]
NoRegs == Regs(Bad, Bad)

\* cpu_init on every CPU: INIT_LIST_HEAD, and msg_pool in the zeroed bss.
Init ==
    /\ nxt = [a \in Nodes \cup {event_list(d) : d \in CPUs} |-> IF a < 0 THEN a ELSE Bad]
    /\ prv = nxt
    /\ msg = [a \in Nodes |-> <<>>]
    /\ inuse = {}
    /\ pending = {}
    /\ pc = [c \in CPUs |-> "idle"]
    /\ r = [c \in CPUs |-> NoRegs]
    /\ sent = 0
    /\ handled = [c \in CPUs |-> <<>>]
    /\ raced = FALSE

Goto(c, p) == pc' = [pc EXCEPT ![c] = p]

\* Another CPU is between the first load and the last store of an operation
\* on the list that c is about to work on.
Occupied(c) ==
    \E d \in CPUs \ {c} :
        /\ r[d].list = r[c].list
        /\ pc[d] \in {"add1", "add2", "add3", "add4",
                      "load_prev", "load_next", "del1", "del2", "poison"}

\* A store through a pointer: faults when there is nothing behind it.
Store(c, f, a, val, p) ==
    IF a = Bad
      THEN Goto(c, "fault") /\ UNCHANGED f
      ELSE f' = [f EXCEPT ![a] = val] /\ Goto(c, p)
-----------------------------------------------------------------------------
\* Mutated forms of the steps below.

\* The node goes back to the pool without leaving the list.
list_del_load_next_kept(d) ==
    /\ pc[d] = "load_next"
    /\ Goto(d, "free")
    /\ UNCHANGED <<list, msg, inuse, pending, r, sent, handled, raced>>

\* The pool hands out a node without marking it.
objpool_alloc_unmarked(c, d) ==
    /\ pc[c] = "idle" /\ c # d /\ sent < MaxSends
    /\ LET n == Min(Nodes \ inuse)
       IN  /\ msg' = [msg EXCEPT ![n] = <<d, sent>>]
           /\ r' = [r EXCEPT ![c] = Regs(n, event_list(d))]
    /\ sent' = sent + 1
    /\ Goto(c, "load_tail")
    /\ UNCHANGED <<list, inuse, pending, handled, raced>>

\* One interrupt, one message: the handler does not look at the list again.
objpool_free_once(d) ==
    /\ pc[d] = "free"
    /\ inuse' = inuse \ {r[d].node}
    /\ r' = [r EXCEPT ![d] = NoRegs]
    /\ Goto(d, "idle")
    /\ UNCHANGED <<list, msg, pending, sent, handled, raced>>
-----------------------------------------------------------------------------

(***************************************************************************)
(* cpu_send_msg by CPU c to CPU d.  objpool_alloc takes the first node     *)
(* that is free under the lock of the pool; without one, ERROR stops the   *)
(* CPU for good.                                                           *)
(***************************************************************************)
objpool_alloc(c, d) ==
    /\ pc[c] = "idle" /\ c # d /\ sent < MaxSends
    /\ IF inuse = Nodes
         THEN Goto(c, "error") /\ UNCHANGED <<msg, inuse, r, sent>>
         ELSE LET n == Min(Nodes \ inuse)
              IN  /\ inuse' = inuse \cup {n}
                  /\ msg' = [msg EXCEPT ![n] = <<d, sent>>]
                  /\ r' = [r EXCEPT ![c] = Regs(n, event_list(d))]
                  /\ sent' = sent + 1
                  /\ Goto(c, "load_tail")
    /\ UNCHANGED <<list, pending, handled, raced>>

\* list_add_tail: the load of head->prev, then the stores of __list_add
list_add_tail(c) ==
    /\ pc[c] = "load_tail"
    /\ r' = [r EXCEPT ![c].p = prv[r[c].list]]
    /\ Goto(c, "add1")
    /\ raced' = (raced \/ Occupied(c))
    /\ UNCHANGED <<list, msg, inuse, pending, sent, handled>>

list_add1(c) ==
    /\ pc[c] = "add1"
    /\ Store(c, prv, r[c].list, r[c].node, "add2")
    /\ UNCHANGED <<nxt, msg, inuse, pending, r, sent, handled, raced>>

list_add2(c) ==
    /\ pc[c] = "add2"
    /\ Store(c, nxt, r[c].node, r[c].list, "add3")
    /\ UNCHANGED <<prv, msg, inuse, pending, r, sent, handled, raced>>

list_add3(c) ==
    /\ pc[c] = "add3"
    /\ Store(c, prv, r[c].node, r[c].p, "add4")
    /\ UNCHANGED <<nxt, msg, inuse, pending, r, sent, handled, raced>>

list_add4(c) ==
    /\ pc[c] = "add4"
    /\ Store(c, nxt, r[c].p, r[c].node, "sendipi")
    /\ UNCHANGED <<prv, msg, inuse, pending, r, sent, handled, raced>>

\* gicc_init: the position of the only bit of ITARGETSR[0], plus one.
gic_cpu_map(c) == c + 1

\* interrupts_cpu_sendipi, gic_send_sgi
sendipi(c) ==
    /\ pc[c] = "sendipi"
    /\ pending' = pending \cup (CPUs \cap {gic_cpu_map(-1 - r[c].list)})
    /\ Goto(c, "idle")
    /\ r' = [r EXCEPT ![c] = NoRegs]
    /\ UNCHANGED <<list, msg, inuse, sent, handled, raced>>

(***************************************************************************)
(* The interrupt: cpu_msg_handler takes messages until the list is empty.  *)
(***************************************************************************)
gic_handle(d) ==
    /\ pc[d] = "idle" /\ d \in pending
    /\ pending' = pending \ {d}
    /\ r' = [r EXCEPT ![d] = Regs(Bad, event_list(d))]
    /\ Goto(d, "empty?")
    /\ UNCHANGED <<list, msg, inuse, sent, handled, raced>>

list_empty(d) ==
    /\ pc[d] = "empty?"
    /\ IF nxt[r[d].list] = r[d].list
         THEN Goto(d, "idle") /\ r' = [r EXCEPT ![d] = NoRegs]
         ELSE Goto(d, "last") /\ UNCHANGED r
    /\ UNCHANGED <<list, msg, inuse, pending, sent, handled, raced>>

\* list_last_entry and *msg = node->msg; the list head is no node.
list_last_entry(d) ==
    /\ pc[d] = "last"
    /\ LET n == prv[r[d].list]
       IN  IF n \in Nodes
             THEN /\ r' = [r EXCEPT ![d].node = n]
                  /\ handled' = [handled EXCEPT ![d] = Append(@, msg[n])]
                  /\ Goto(d, "load_prev")
             ELSE Goto(d, "fault") /\ UNCHANGED <<r, handled>>
    /\ raced' = (raced \/ Occupied(d))
    /\ UNCHANGED <<list, msg, inuse, pending, sent>>

\* list_del
list_del_load_prev(d) ==
    /\ pc[d] = "load_prev"
    /\ r' = [r EXCEPT ![d].p = prv[r[d].node]]
    /\ Goto(d, "load_next")
    /\ UNCHANGED <<list, msg, inuse, pending, sent, handled, raced>>

list_del_load_next(d) ==
    /\ pc[d] = "load_next"
    /\ r' = [r EXCEPT ![d].n = nxt[r[d].node]]
    /\ Goto(d, "del1")
    /\ UNCHANGED <<list, msg, inuse, pending, sent, handled, raced>>

list_del1(d) ==
    /\ pc[d] = "del1"
    /\ Store(d, prv, r[d].n, r[d].p, "del2")
    /\ UNCHANGED <<nxt, msg, inuse, pending, r, sent, handled, raced>>

list_del2(d) ==
    /\ pc[d] = "del2"
    /\ Store(d, nxt, r[d].p, r[d].n, "poison")
    /\ UNCHANGED <<prv, msg, inuse, pending, r, sent, handled, raced>>

list_poison(d) ==
    /\ pc[d] = "poison"
    /\ nxt' = [nxt EXCEPT ![r[d].node] = Bad]
    /\ prv' = [prv EXCEPT ![r[d].node] = Bad]
    /\ Goto(d, "free")
    /\ UNCHANGED <<msg, inuse, pending, r, sent, handled, raced>>

objpool_free(d) ==
    /\ pc[d] = "free"
    /\ inuse' = inuse \ {r[d].node}
    /\ r' = [r EXCEPT ![d] = Regs(Bad, event_list(d))]
    /\ Goto(d, "empty?")
    /\ UNCHANGED <<list, msg, pending, sent, handled, raced>>

Send(c) ==
    \/ \E d \in CPUs : objpool_alloc(c, d)
    \/ list_add_tail(c) \/ list_add1(c) \/ list_add2(c)
    \/ list_add3(c) \/ list_add4(c) \/ sendipi(c)

Handle(d) ==
    \/ gic_handle(d) \/ list_empty(d) \/ list_last_entry(d)
    \/ list_del_load_prev(d) \/ list_del_load_next(d)
    \/ list_del1(d) \/ list_del2(d) \/ list_poison(d) \/ objpool_free(d)

Next == \E c \in CPUs : Send(c) \/ Handle(c)

Spec == Init /\ [][Next]_vars

\* A CPU goes on with what it has begun and takes its interrupts; nothing
\* makes it send.
FairSpec ==
    Spec /\ \A c \in CPUs : WF_vars((pc[c] # "idle" /\ Send(c)) \/ Handle(c))
-----------------------------------------------------------------------------

Queued(d) == {n \in inuse : msg[n][1] = d}
Resting == \A c \in CPUs : pc[c] \in {"idle", "error"}

\* The nodes met by following next from the head of the list of CPU d.
Linked(d) ==
    {n \in Nodes : \E k \in 1..NrNodes : \E p \in [1..k -> Nodes] :
        /\ p[1] = nxt[event_list(d)] /\ p[k] = n
        /\ \A i \in 1..(k - 1) : p[i + 1] = nxt[p[i]]}

\* The list of CPU d is a circle: from the head along the nodes of p to the head,
\* and the same way back.
Circle(d, p) ==
    LET Stop(k) == IF k \in 1..Len(p) THEN p[k] ELSE event_list(d)
    IN  \A k \in 0..Len(p) : nxt[Stop(k)] = Stop(k + 1) /\ prv[Stop(k + 1)] = Stop(k)

\* A message is handled once, by the CPU it was sent to, however the stores
\* of list_add_tail and of list_del interleave.
HandledOnce ==
    \A c \in CPUs :
        /\ IsInjective(handled[c])
        /\ \A k \in 1..Len(handled[c]) : handled[c][k][1] = c

\* No list operation goes through a poisoned or null pointer, or takes the
\* list head for a message: the poison of list_del is never met.
NoPoisonMet == \A c \in CPUs : pc[c] # "fault"

\* When no CPU is inside cpu_send_msg or cpu_msg_handler, the list of a CPU
\* is a circle through the messages sent to it and not handled, each once.
QueueIntact ==
    Resting => \A d \in CPUs :
        \E p \in [1..Cardinality(Queued(d)) -> Queued(d)] : IsInjective(p) /\ Circle(d, p)

\* As long as no two CPUs have worked on one list at a time, the list keeps
\* every message, hands each to its CPU once, and meets no poison: what
\* goes wrong goes wrong for want of a lock around both operations.
SoundUnlessRaced == raced \/ (HandledOnce /\ NoPoisonMet)
IntactUnlessRaced == raced \/ QueueIntact

\* A CPU that takes the interrupt leaves no message behind: what is in its list
\* when IPI_CPU_MSG is pending is handled, also what came with an interrupt that
\* was signalled elsewhere, unless CPUs race on a list or this one has stopped.
Drained ==
    \A d \in CPUs : \A k \in 0..(MaxSends - 1) :
        (d \in pending /\ \E n \in Linked(d) : msg[n] = <<d, k>>)
            ~> (raced \/ pc[d] \in {"error", "fault"}
                      \/ \E j \in 1..Len(handled[d]) : handled[d][j] = <<d, k>>)
==============================================================================
