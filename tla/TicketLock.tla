------------------------------ MODULE TicketLock ------------------------------
(***************************************************************************)
(* spin_lock and spin_unlock of lib/inc/spinlock.h, one step per memory    *)
(* access of the assembly.                                                 *)
(*                                                                         *)
(* ticket and next are the 32-bit fields of the lock, of Modulus values    *)
(* here.  mon[c] says that the exclusive monitor of CPU c still holds the  *)
(* address of ticket, event[c] is its event register (wfe waits for it and *)
(* clears it, sev sets it on every CPU), w0[c] and w1[c] are the registers *)
(* of the assembly that outlive a step.                                    *)
(*                                                                         *)
(* drawn, served and turn are history variables: the number of tickets     *)
(* drawn and served without wrapping around, and the number of the ticket  *)
(* each CPU drew last.                                                     *)
(***************************************************************************)
EXTENDS Integers, FiniteSets

CONSTANTS CPUs, Modulus, MaxDraws

ASSUME LockAssumption ==
    /\ IsFiniteSet(CPUs)
    /\ Modulus \in Nat /\ Cardinality(CPUs) < Modulus
    /\ MaxDraws \in Nat

VARIABLES ticket, next, mon, event, w0, w1, pc, drawn, served, turn

history == <<drawn, served, turn>>
vars == <<ticket, next, mon, event, w0, w1, pc, drawn, served, turn>>

\* spinlock_init, or SPINLOCK_INITVAL.
Init ==
    /\ ticket = 0 /\ next = 0
    /\ mon = [c \in CPUs |-> FALSE]
    /\ event = [c \in CPUs |-> FALSE]
    /\ w0 = [c \in CPUs |-> 0]
    /\ w1 = [c \in CPUs |-> 0]
    /\ pc = [c \in CPUs |-> "out"]
    /\ drawn = 0 /\ served = 0
    /\ turn = [c \in CPUs |-> 0]

Goto(c, p) == pc' = [pc EXCEPT ![c] = p]

\* The CPUs that have drawn a ticket which is not served yet.
Queue == {c \in CPUs : pc[c] \in {"check", "wfe", "inside", "store_next"}}
-----------------------------------------------------------------------------
\* Mutated forms of the steps below.

\* The store of the new ticket succeeds whatever happened since the load.
stxr_plain(c) ==
    /\ pc[c] = "stxr"
    /\ ticket' = (w0[c] + 1) % Modulus
    /\ mon' = [d \in CPUs |-> FALSE]
    /\ drawn' = drawn + 1
    /\ turn' = [turn EXCEPT ![c] = drawn]
    /\ Goto(c, "check")
    /\ UNCHANGED <<next, event, w0, w1, served>>

\* spin_unlock without sev.
sev_missing(c) ==
    /\ pc[c] = "sev"
    /\ Goto(c, "out")
    /\ UNCHANGED <<ticket, next, mon, event, w0, w1, history>>

-----------------------------------------------------------------------------

\* spin_lock: ldaxr
ldaxr(c) ==
    /\ pc[c] = "out"
    /\ drawn < MaxDraws
    /\ w0' = [w0 EXCEPT ![c] = ticket]
    /\ mon' = [mon EXCEPT ![c] = TRUE]
    /\ Goto(c, "stxr")
    /\ UNCHANGED <<ticket, next, event, w1, history>>

\* add, stxr, cbnz: the store takes place if nobody else has stored since
\* the load, and otherwise the load is done again.
stxr(c) ==
    /\ pc[c] = "stxr"
    /\ IF mon[c]
         THEN /\ ticket' = (w0[c] + 1) % Modulus
              /\ mon' = [d \in CPUs |-> FALSE]
              /\ drawn' = drawn + 1
              /\ turn' = [turn EXCEPT ![c] = drawn]
              /\ Goto(c, "check")
         ELSE Goto(c, "out") /\ UNCHANGED <<ticket, mon, drawn, turn>>
    /\ UNCHANGED <<next, event, w0, w1, served>>

MyTurn(c) == w0[c] = next

\* ldar, cmp, b.eq
ldar(c) ==
    /\ pc[c] = "check"
    /\ Goto(c, IF MyTurn(c) THEN "inside" ELSE "wfe")
    /\ UNCHANGED <<ticket, next, mon, event, w0, w1, history>>

wfe(c) ==
    /\ pc[c] = "wfe"
    /\ event[c]
    /\ event' = [event EXCEPT ![c] = FALSE]
    /\ Goto(c, "check")
    /\ UNCHANGED <<ticket, next, mon, w0, w1, history>>

\* spin_unlock: ldr and add, apart from the store
ldr(c) ==
    /\ pc[c] = "inside"
    /\ w1' = [w1 EXCEPT ![c] = (next + 1) % Modulus]
    /\ Goto(c, "store_next")
    /\ UNCHANGED <<ticket, next, mon, event, w0, history>>

stlr(c) ==
    /\ pc[c] = "store_next"
    /\ next' = w1[c]
    /\ served' = served + 1
    /\ Goto(c, "sev")
    /\ UNCHANGED <<ticket, mon, event, w0, w1, drawn, turn>>

sev(c) ==
    /\ pc[c] = "sev"
    /\ event' = [d \in CPUs |-> TRUE]
    /\ Goto(c, "out")
    /\ UNCHANGED <<ticket, next, mon, w0, w1, history>>

Acquire(c) == ldaxr(c) \/ stxr(c) \/ ldar(c) \/ wfe(c)
Release(c) == ldr(c) \/ stlr(c) \/ sev(c)

Next == \E c \in CPUs : Acquire(c) \/ Release(c)

Spec == Init /\ [][Next]_vars

\* A CPU in spin_lock or spin_unlock keeps running, and critical sections end.
\* The latter is an assumption on the callers; it holds where the lock is that of
\* the page pool, of an object pool or of vm_list and no ERROR stops the CPU.
FairSpec == Spec /\ \A c \in CPUs : WF_vars(Acquire(c)) /\ WF_vars(Release(c))
-----------------------------------------------------------------------------

TypeOK ==
    /\ ticket \in 0..(Modulus - 1) /\ next \in 0..(Modulus - 1)
    /\ mon \in [CPUs -> BOOLEAN] /\ event \in [CPUs -> BOOLEAN]
    /\ w0 \in [CPUs -> 0..(Modulus - 1)] /\ w1 \in [CPUs -> 0..(Modulus - 1)]
    /\ pc \in [CPUs -> {"out", "stxr", "check", "wfe", "inside", "store_next", "sev"}]
    /\ drawn \in Nat /\ served \in Nat
    /\ turn \in [CPUs -> Nat]

Holding(c) == pc[c] \in {"inside", "store_next"}

\* At most one CPU is between spin_lock and spin_unlock, also after the
\* tickets have wrapped around.
MutualExclusion == \A c, d \in CPUs : Holding(c) /\ Holding(d) => c = d

\* The inductive form: the tickets not yet served are those of the CPUs in
\* the queue, one each; the fields of the lock are their numbers modulo
\* 2^32, and a load for stxr that is still monitored has the current ticket.
IInv ==
    /\ TypeOK
    /\ ticket = drawn % Modulus /\ next = served % Modulus
    /\ served <= drawn /\ drawn - served = Cardinality(Queue)
    /\ \A c \in Queue : turn[c] \in served..(drawn - 1) /\ w0[c] = turn[c] % Modulus
    /\ \A c, d \in Queue : turn[c] = turn[d] => c = d
    /\ \A k \in served..(drawn - 1) : \E c \in Queue : turn[c] = k
    /\ \A c \in CPUs : Holding(c) => turn[c] = served
    /\ \A c \in CPUs : pc[c] = "store_next" => w1[c] = (next + 1) % Modulus
    /\ \A c \in CPUs : pc[c] = "stxr" /\ mon[c] => w0[c] = ticket

\* spin_lock and spin_unlock are a lock that serves in order: drawing the
\* ticket is asking, seeing it in next is entering, the store to next is
\* leaving.
Line == [k \in 1..(drawn - served) |-> CHOOSE c \in Queue : turn[c] = served + k - 1]

Holders == {c \in CPUs : Holding(c)}

F == INSTANCE FifoLock WITH queue <- Line, inside <- Holders

RefinesFifoLock == F!Spec

\* A CPU that has drawn a ticket gets the lock: no wake-up is lost between
\* the check of next and wfe.
NoStarvation == \A c \in CPUs : pc[c] = "check" ~> pc[c] = "inside"
==============================================================================
