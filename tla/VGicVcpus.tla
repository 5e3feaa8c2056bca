----------------------------- MODULE VGicVcpus -----------------------------
(***************************************************************************)
(* The virtual interrupt controller of a machine with several vcpus        *)
(* (arch/aarch64/vgic.c and vgicv2.c): which vcpu owns a shared interrupt, *)
(* the locks, and the messages by which vcpus pass interrupts and writes   *)
(* on to each other.                                                       *)
(*                                                                         *)
(* Each vcpu has a CPU of its own.  Its guest acknowledges and ends        *)
(* interrupts in the list registers of that CPU; its hypervisor runs for a *)
(* write of the guest to the distributor, for a message, and for a         *)
(* maintenance interrupt.  A step of the hypervisor goes from one          *)
(* spin_lock to the next: Wants(c) is the lock that CPU c waits for.       *)
(* Everything a vcpu does alone, with its private interrupts and with      *)
(* those of the hardware, is in module VGic; here are the shared           *)
(* interrupts that only software raises.                                   *)
(*                                                                         *)
(* The messages of a CPU are a list that is emptied from its end, as in    *)
(* CpuMsg when no two operations on it overlap.  Every shared interrupt is *)
(* enabled.  The flag astray is set where the records stop describing the  *)
(* registers, and the model ends there: an interrupt on the list of        *)
(* spilled ones is changed, listed again or placed, or an interrupt is     *)
(* changed between its end and the maintenance interrupt that reports the  *)
(* end, which then gives up the register it has got since.                 *)
(*                                                                         *)
(* No file of the repository sets platform.cpu_num, which is 0 then; both  *)
(* this and the number of CPUs are values of it here.  The field untold is *)
(* history: the interrupts that vgic_route could not pass on to a target   *)
(* beyond cpu_num and that got no other place since.                       *)
(***************************************************************************)
EXTENDS Integers, Sequences, FiniteSets, FiniteSetsExt, SequencesExt

CONSTANTS NCpus,      \* vcpus of the machine, one on each CPU
          CpuNums,    \* values of platform.cpu_num, the bound of vgic_route's loop
          Ints,       \* shared interrupts, raised by software
          NUM_LRS,    \* list registers of each CPU
          Prio(_),    \* priority the guest gives an interrupt
          Targets(_), \* vcpus to which the guest's driver has routed an interrupt
          Writes,     \* writes of the guest: vcpus, register, interrupts of its word, value
          MaxWrites   \* bound on writes of the guest

VARIABLES gic,        \* interrupts, registers, locks, messages, CPUs, platform.cpu_num
          running,    \* what the guest of each vcpu has acknowledged, innermost first
          writes      \* number of writes so far

vars == <<gic, running, writes>>

Cpus == 0..(NCpus - 1)
Lrs == 0..(NUM_LRS - 1)
NoInt == 0
None == -1
PEND == "PEND"
ACT == "ACT"
\* Locks: one for each interrupt, one for the lists of spilled ones, one for the
\* registers of the distributor.
vgic_spilled_lock == 0
vgicd_lock == -1
Locks == Ints \cup {vgic_spilled_lock, vgicd_lock}
EmptyLr == [id |-> NoInt, state |-> {}]

ASSUME VGicVcpusConstants == /\ NCpus \in Nat \ {0} /\ CpuNums \subseteq Nat
                             /\ Ints \subseteq Nat \ {0} /\ IsFiniteSet(Ints)
                             /\ NUM_LRS \in Nat \ {0, 1}

-----------------------------------------------------------------------------
\* The shared interrupts of software have their end reported: a register that
\* one of them has left is not free until the report was taken.
Elrsr(s, c) == {k \in Lrs : s.lr[c][k] = EmptyLr}
Eisr(s, c) == {k \in Lrs : s.lr[c][k].state = {} /\ s.lr[c][k].id # NoInt}

InLr(s, c, i) == LET int == s.int[i]
                 IN  /\ int.in_lr /\ int.owner = c
                     /\ s.lr[c][int.lr].id = i /\ s.lr[c][int.lr].state # {}

vgic_get_state(s, c, i) == IF InLr(s, c, i) THEN s.lr[c][s.int[i].lr].state ELSE s.int[i].state

Owns(s, c, i) == s.int[i].owner = c

\* Mutant: the owner is not asked.
CanOwn_any(s, c, i) == TRUE

\* vgic_get_ownership succeeds.
CanOwn(s, c, i) == s.int[i].owner \in {c, None}

vgic_yield_ownership(s, c, i) ==
    IF ~Owns(s, c, i) \/ s.int[i].in_lr \/ ACT \in vgic_get_state(s, c, i) THEN s
    ELSE [s EXCEPT !.int[i].owner = None]

vgic_remove_lr(s, c, i) ==
    IF ~Owns(s, c, i) \/ ~s.int[i].in_lr THEN s
    ELSE IF ~InLr(s, c, i) THEN [s EXCEPT !.int[i].in_lr = FALSE, !.astray = TRUE]
    ELSE LET k == s.int[i].lr
             state == s.lr[c][k].state
         IN  [s EXCEPT !.lr[c][k] = EmptyLr, !.uie[c] = TRUE,
                       !.npie[c] = @ \/ PEND \in state,
                       !.int[i] = [@ EXCEPT !.in_lr = FALSE, !.state = state]]

\* The end of vgic_write_lr, once the interrupt that had the register lost it.
WriteLr(s, c, i, k) ==
    [s EXCEPT !.lr[c][k] = [id |-> i, state |-> vgic_get_state(s, c, i)],
              !.curr_lrs[c][k] = i, !.astray = @ \/ i \in s.spilled, !.untold = @ \ {i},
              !.int[i] = [@ EXCEPT !.state = {}, !.in_lr = TRUE, !.lr = k]]

\* a comes after b in the order of service: priority, then number.
After(a, b) == Prio(a) > Prio(b) \/ (Prio(a) = Prio(b) /\ a > b)

vgic_highest_prio_spilled(s, c, flags) ==
    LET found == {i \in s.spilled : vgic_get_state(s, c, i) \cap flags # {}}
    IN  {i \in found : \A j \in found : ~After(i, j)}

\* cpu_send_msg
Send(s, to, msg) == [s EXCEPT !.msgs = [d \in Cpus |-> IF d \in to THEN Append(@[d], msg) ELSE @[d]]]

-----------------------------------------------------------------------------
\* Where a CPU goes next.  op[c] is the place it has reached (pc), the function
\* in which it writes a list register (task), interrupt and register at hand,
\* the interrupt that gives way (victim), and what is left to do.
Go(s, c, pc) == [s EXCEPT !.op[c].pc = pc]
GoFor(s, c, pc, i) == [s EXCEPT !.op[c].pc = pc, !.op[c].i = i]
Unlock(s, l) == [s EXCEPT !.lock[l] = None]

\* A CPU that runs its guest.
Idle == [pc |-> "guest", task |-> "none", i |-> NoInt, k |-> 0, victim |-> NoInt, msg |-> FALSE,
         todo |-> {}, write |-> [reg |-> "none", val |-> {}], flags |-> {}, misr |-> {},
         hcr |-> [npie |-> FALSE, uie |-> FALSE]]
Return(s, c) == [s EXCEPT !.op[c] = Idle]

\* The loop of vgic_emul_generic_access, and the return from vgicd_emul_handler.
NextField(s, c) ==
    LET op == s.op[c]
    IN  IF op.msg THEN [s EXCEPT !.op[c] = [Idle EXCEPT !.pc = "msgs", !.msg = TRUE]]
        ELSE IF op.todo = {} THEN Return(Unlock(s, vgicd_lock), c)
        ELSE LET i == Min(op.todo)
             IN  [s EXCEPT !.op[c] = [Idle EXCEPT !.pc = "field", !.i = i, !.todo = op.todo \ {i},
                                                  !.write = op.write]]

\* The end of vgic_route, of vgic_int_set_field and of the handler of a route.
FieldDone(s, c) ==
    LET i == s.op[c].i
        int == s.int[i]
        others == int.targets \ {c}
        told == {d \in others : d < s.cpu_num}
        route == s.op[c].task = "field" /\ int.state # {} /\ ~int.in_lr /\ others # {}
        t == vgic_yield_ownership(s, c, i)
        u == [Send(t, told, [event |-> "ROUTE", i |-> i]) EXCEPT
                 !.untold = IF told = others THEN @ ELSE @ \cup {i}]
    IN  NextField(Unlock(IF route THEN u ELSE t, i), c)

\* gic_maintenance_handler, once the registers are refilled.
MaintenanceDone(s, c) ==
    IF "LRPEN" \in s.op[c].misr /\ s.eoicount[c] > 0
    THEN [s EXCEPT !.op[c] = [Idle EXCEPT !.pc = "count", !.misr = s.op[c].misr]]
    ELSE Return(s, c)

\* One more end of an interrupt was counted.  The control register is written
\* back as it was read before: what was set in it since is undone.
CountDone(s, c) ==
    MaintenanceDone([s EXCEPT !.eoicount[c] = @ - 1, !.npie[c] = s.op[c].hcr.npie,
                              !.uie[c] = s.op[c].hcr.uie], c)

\* vgic_add_lr has returned.
AddDone(s, c) == IF s.op[c].task = "end" THEN CountDone(Unlock(s, s.op[c].i), c)
                 ELSE FieldDone(s, c)

\* One turn of the loop of vgic_refill_lrs, with the lock of the lists held.
Search(s, c) ==
    LET irq == vgic_highest_prio_spilled(s, c, s.op[c].flags)
    IN  IF irq # {} THEN GoFor(s, c, "take", Min(irq))
        ELSE MaintenanceDone([Unlock(s, vgic_spilled_lock) EXCEPT !.npie[c] = FALSE, !.uie[c] = FALSE], c)

\* vgic_write_lr has returned: in vgic_refill_lrs the loop goes on.
WriteDone(s, c) ==
    IF s.op[c].task # "take" THEN AddDone(s, c)
    ELSE LET t == [Unlock(s, s.op[c].i) EXCEPT
                      !.op[c] = [Idle EXCEPT !.flags = {PEND, ACT}, !.misr = s.op[c].misr]]
         IN  IF Elrsr(t, c) = {} THEN MaintenanceDone(Unlock(t, vgic_spilled_lock), c) ELSE Search(t, c)

\* The first half of vgic_write_lr: the interrupt that register k was last
\* written for is looked at, under its lock.
vgic_write_lr(s, c, k) ==
    IF s.curr_lrs[c][k] \in Ints \ {s.op[c].i}
    THEN Go([s EXCEPT !.op[c].k = k], c, "prev")
    ELSE WriteDone(WriteLr(s, c, s.op[c].i, k), c)

\* Mutant: the interrupt that finds no register is not put on the list.
vgic_add_lr_dropped(s, c) ==
    LET i       == s.op[c].i
        active  == {k \in Lrs : ACT \in s.lr[c][k].state}
        pending == {k \in Lrs : s.lr[c][k].state = {PEND}}
        later   == {k \in IF Cardinality(pending) > 1 THEN pending ELSE active :
                        After(s.lr[c][k].id, i)}
        last    == {k \in later : \A l \in later : ~After(s.lr[c][l].id, s.lr[c][k].id)}
    IN  CASE s.int[i].in_lr -> AddDone(s, c)
          [] Elrsr(s, c) # {} -> vgic_write_lr(s, c, Min(Elrsr(s, c)))
          [] last # {} -> LET k == Min(last)
                          IN  Go([s EXCEPT !.op[c].k = k, !.op[c].victim = s.lr[c][k].id], c, "spill")
          [] OTHER -> AddDone(s, c)

\* vgic_add_lr: a free register, one whose interrupt gives way, or the list.
vgic_add_lr(s, c) ==
    LET i       == s.op[c].i
        active  == {k \in Lrs : ACT \in s.lr[c][k].state}
        pending == {k \in Lrs : s.lr[c][k].state = {PEND}}
        later   == {k \in IF Cardinality(pending) > 1 THEN pending ELSE active :
                        After(s.lr[c][k].id, i)}
        last    == {k \in later : \A l \in later : ~After(s.lr[c][l].id, s.lr[c][k].id)}
    IN  CASE s.int[i].in_lr -> AddDone(s, c)
          [] Elrsr(s, c) # {} -> vgic_write_lr(s, c, Min(Elrsr(s, c)))
          [] last # {} -> LET k == Min(last)
                          IN  Go([s EXCEPT !.op[c].k = k, !.op[c].victim = s.lr[c][k].id], c, "spill")
          [] OTHER -> Go([s EXCEPT !.op[c].victim = NoInt], c, "add")

\* The registers of the distributor that change an interrupt of software.
update_field(s, i, reg, v) ==
    CASE reg = "ITARGETSR" -> [s EXCEPT !.int[i].targets = v]
      [] reg = "ISPENDR" /\ v -> [s EXCEPT !.int[i].state = @ \cup {PEND}]
      [] OTHER -> s

\* vgic_int_set_field with the lock of the interrupt held, up to where
\* vgic_route has called vgic_add_lr or found no reason to.
vgic_int_set_field(s, c) ==
    LET i == s.op[c].i
        w == s.op[c].write
        v == IF w.reg = "ITARGETSR" THEN w.val ELSE i \in w.val
        msg == [event |-> "SET_REG", i |-> i,
                write |-> IF w.reg = "ITARGETSR" THEN w ELSE [w EXCEPT !.val = @ \cap {i}]]
        t == [s EXCEPT !.int[i].owner = c, !.astray = @ \/ i \in s.spilled, !.op[c].task = "field"]
        u == update_field(vgic_remove_lr(t, c, i), i, w.reg, v)
    IN  IF ~CanOwn(s, c, i)
        THEN NextField(Unlock(Send(s, {s.int[i].owner}, msg), i), c)
        ELSE IF u.int[i].state # {} /\ c \in u.int[i].targets
        THEN vgic_add_lr(u, c)
        ELSE FieldDone(u, c)

-----------------------------------------------------------------------------
\* The lock that CPU c waits for, if any.
Wants(c) ==
    LET op == gic.op[c]
    IN  CASE op.pc \in {"field", "route", "eoi", "take", "end"} -> {op.i}
          [] op.pc = "spill" -> {op.victim}
          [] op.pc = "prev" -> {gic.curr_lrs[c][op.k]}
          [] op.pc \in {"add", "refill"} -> {vgic_spilled_lock}
          [] OTHER -> {}

\* spin_lock returns.
Acquire(c, pc, l) == /\ gic.op[c].pc = pc /\ gic.lock[l] = None
Held(c, l) == [gic EXCEPT !.lock[l] = c]

SetField(c) ==
    LET i == gic.op[c].i
    IN  Acquire(c, "field", i) /\ gic' = vgic_int_set_field(Held(c, i), c)

\* vgic_spill_lr, and vgic_add_spilled for the interrupt that gives way or for
\* the one that finds no register.
vgic_spill_lr(c) ==
    LET v == gic.op[c].victim
    IN  Acquire(c, "spill", v) /\ gic' = Go(vgic_remove_lr(Held(c, v), c, v), c, "add")

\* Mutant: the interrupt that gave way stays the vcpu's.
vgic_add_spilled_keep(c) ==
    LET op == gic.op[c]
        i  == IF op.victim = NoInt THEN op.i ELSE op.victim
        t  == [gic EXCEPT !.spilled = @ \cup {i}, !.npie[c] = TRUE, !.astray = @ \/ i \in gic.spilled,
                          !.untold = @ \ {i}]
    IN  /\ Acquire(c, "add", vgic_spilled_lock)
        /\ gic' = IF op.victim = NoInt THEN AddDone(t, c)
                  ELSE vgic_write_lr(Unlock(t, i), c, op.k)

vgic_add_spilled(c) ==
    LET op == gic.op[c]
        i  == IF op.victim = NoInt THEN op.i ELSE op.victim
        t  == [gic EXCEPT !.spilled = @ \cup {i}, !.npie[c] = TRUE, !.astray = @ \/ i \in gic.spilled,
                          !.untold = @ \ {i}]
    IN  /\ Acquire(c, "add", vgic_spilled_lock)
        /\ gic' = IF op.victim = NoInt THEN AddDone(t, c)
                  ELSE vgic_write_lr(Unlock(vgic_yield_ownership(t, c, i), i), c, op.k)

\* The rest of vgic_write_lr.
Displace(c) ==
    LET op == gic.op[c]
        p  == gic.curr_lrs[c][op.k]
        t  == IF Owns(gic, c, p) /\ gic.int[p].in_lr /\ gic.int[p].lr = op.k
              THEN vgic_yield_ownership([gic EXCEPT !.int[p].in_lr = FALSE], c, p)
              ELSE gic
    IN  Acquire(c, "prev", p) /\ gic' = WriteDone(WriteLr(t, c, op.i, op.k), c)

-----------------------------------------------------------------------------
\* cpu_msg_handler, and vgic_ipi_handler for the message it takes.
TakeMsg(c) ==
    /\ gic.op[c].pc = "msgs"
    /\ LET q == gic.msgs[c]
           m == Last(q)
           t == [gic EXCEPT !.msgs[c] = Front(q)]
       IN  gic' = CASE q = <<>> -> Return(gic, c)
                    [] m.event = "UPDATE_ENABLE" -> [t EXCEPT !.en[c] = gic.ctlr]
                    [] m.event = "ROUTE" -> GoFor(t, c, "route", m.i)
                    [] OTHER -> GoFor([t EXCEPT !.op[c].write = m.write], c, "field", m.i)

\* Mutant: the lock is kept when another vcpu owns the interrupt.
Route_locked(c) ==
    LET i == gic.op[c].i
        t == [Held(c, i) EXCEPT !.int[i].owner = c, !.op[c].task = "route"]
    IN  /\ Acquire(c, "route", i)
        /\ gic' = IF ~CanOwn(gic, c, i) THEN Go(Held(c, i), c, "msgs")
                  ELSE IF c \in gic.int[i].targets THEN vgic_add_lr(t, c)
                  ELSE FieldDone(t, c)

\* Mutant: what another vcpu owns is tried again.
Route_again(c) ==
    LET i == gic.op[c].i
        t == [Held(c, i) EXCEPT !.int[i].owner = c, !.op[c].task = "route"]
    IN  /\ Acquire(c, "route", i)
        /\ gic' = IF ~CanOwn(gic, c, i) THEN Go(Send(gic, {c}, [event |-> "ROUTE", i |-> i]), c, "msgs")
                  ELSE IF c \in gic.int[i].targets THEN vgic_add_lr(t, c)
                  ELSE FieldDone(t, c)

Route(c) ==
    LET i == gic.op[c].i
        t == [Held(c, i) EXCEPT !.int[i].owner = c, !.op[c].task = "route"]
    IN  /\ Acquire(c, "route", i)
        /\ gic' = IF ~CanOwn(gic, c, i) THEN Go(gic, c, "msgs")
                  ELSE IF c \in gic.int[i].targets THEN vgic_add_lr(t, c)
                  ELSE FieldDone(t, c)

-----------------------------------------------------------------------------
\* gic_maintenance_handler
Np(c) == gic.npie[c] /\ \A k \in Lrs : gic.lr[c][k].state # {PEND}
U(c) == gic.uie[c] /\ Cardinality({k \in Lrs : gic.lr[c][k].state # {}}) <= 1
Misr(c) == {f \in {"EOI", "NP", "U", "LRPEN"} :
               CASE f = "EOI" -> Eisr(gic, c) # {}
                 [] f = "NP"  -> Np(c)
                 [] f = "U"   -> U(c)
                 [] OTHER     -> gic.eoicount[c] > 0}

\* The loop of vgic_handle_trapped_eoir clears a register and then waits for the
\* lock of its interrupt; after the last one the registers are refilled.
Trapped(s, c) ==
    LET ks == Eisr(s, c)
        k  == Min(ks)
    IN  IF "EOI" \in s.op[c].misr /\ ks # {}
        THEN GoFor([s EXCEPT !.lr[c][k] = EmptyLr], c, "eoi", s.lr[c][k].id)
        ELSE IF s.op[c].misr \cap {"NP", "U"} # {} THEN GoFor(s, c, "refill", NoInt)
        ELSE MaintenanceDone(s, c)

Maintenance(c) ==
    /\ gic.op[c].pc = "guest" /\ gic.en[c] /\ Misr(c) # {}
    /\ gic' = Trapped([gic EXCEPT !.op[c].misr = Misr(c), !.op[c].msg = FALSE,
                 !.op[c].flags = IF Np(c) THEN {PEND} ELSE {PEND, ACT}], c)

vgic_handle_trapped_eoir(c) ==
    LET i == gic.op[c].i
    IN  /\ Acquire(c, "eoi", i)
        /\ gic' = Trapped(vgic_yield_ownership([gic EXCEPT !.int[i].in_lr = FALSE], c, i), c)

vgic_refill_lrs(c) ==
    /\ Acquire(c, "refill", vgic_spilled_lock)
    /\ gic' = IF Elrsr(gic, c) = {} THEN MaintenanceDone(gic, c) ELSE Search(Held(c, vgic_spilled_lock), c)

\* The loop goes round for as long as the interrupt is another vcpu's.
Take(c) ==
    LET i == gic.op[c].i
        t == [Held(c, i) EXCEPT !.spilled = @ \ {i}, !.int[i].owner = c, !.op[c].task = "take"]
    IN  /\ Acquire(c, "take", i)
        /\ gic' = IF CanOwn(gic, c, i) THEN vgic_write_lr(t, c, Min(Elrsr(gic, c)))
                  ELSE Search(gic, c)

\* One turn of the loop that counts ends of interrupts.  The lists are read
\* without their lock.
Count(c) ==
    /\ gic.op[c].pc = "count"
    /\ LET irq == vgic_highest_prio_spilled(gic, c, {ACT})
           t == [gic EXCEPT !.op[c].hcr = [npie |-> gic.npie[c], uie |-> gic.uie[c]]]
       IN  gic' = IF irq = {} THEN CountDone(t, c) ELSE GoFor(t, c, "end", Min(irq))

vgic_eoir_highest_spilled_active(c) ==
    LET i == gic.op[c].i
        t == [Held(c, i) EXCEPT !.int[i] = [@ EXCEPT !.owner = c, !.state = @ \ {ACT}], !.op[c].task = "end"]
    IN  /\ Acquire(c, "end", i)
        /\ gic' = IF ~CanOwn(gic, c, i) THEN CountDone(gic, c)
                  ELSE IF PEND \in t.int[i].state THEN vgic_add_lr(t, c)
                  ELSE CountDone(Unlock(t, i), c)

Hypervisor(c) ==
    /\ \/ SetField(c)
       \/ vgic_spill_lr(c) \/ vgic_add_spilled(c) \/ Displace(c)
       \/ TakeMsg(c) \/ Route(c)
       \/ Maintenance(c) \/ vgic_handle_trapped_eoir(c)
       \/ vgic_refill_lrs(c) \/ Take(c)
       \/ Count(c) \/ vgic_eoir_highest_spilled_active(c)
    /\ UNCHANGED <<running, writes>>

-----------------------------------------------------------------------------
\* vgic_init and vgic_cpu_init, and the guest's driver: every interrupt is
\* enabled, with the targets the guest chose.
Init ==
    /\ \E n \in CpuNums :
       gic = [cpu_num |-> n, untold |-> {},
                 int |-> [i \in Ints |-> [state |-> {}, targets |-> Targets(i),
                                         in_lr |-> FALSE, lr |-> 0, owner |-> None]],
                 lr |-> [c \in Cpus |-> [k \in Lrs |-> EmptyLr]],
                 curr_lrs |-> [c \in Cpus |-> [k \in Lrs |-> NoInt]],
                 ctlr |-> TRUE, en |-> [c \in Cpus |-> TRUE],
                 npie |-> [c \in Cpus |-> FALSE], uie |-> [c \in Cpus |-> FALSE],
                 eoicount |-> [c \in Cpus |-> 0], spilled |-> {}, astray |-> FALSE,
                 lock |-> [l \in Locks |-> None], msgs |-> [c \in Cpus |-> <<>>],
                 op |-> [c \in Cpus |-> Idle]]
    /\ running = [c \in Cpus |-> <<>>] /\ writes = 0

\* The guest of vcpu c goes on: no maintenance interrupt is signalled to its CPU.
InGuest(c) == gic.op[c].pc = "guest" /\ ~(gic.en[c] /\ Misr(c) # {})

\* vgicd_emul_misc_access for CTLR, one register of the machine.
vgicd_emul_misc_access(s, c, v) ==
    IF v = s.ctlr THEN s
    ELSE Send([s EXCEPT !.ctlr = v, !.en[c] = v], Cpus \ {c}, [event |-> "UPDATE_ENABLE"])

\* A write of the guest to the distributor.  The registers other than CTLR have
\* a field for each interrupt, which NextField goes through.  The guest does not
\* move what a vcpu is running.
vgicd_emul_handler(c, w) ==
    /\ c \in w.by /\ InGuest(c) /\ writes < MaxWrites /\ gic.lock[vgicd_lock] = None
    /\ w.reg = "ITARGETSR" => \A d \in Cpus : w.word \cap Range(running[d]) = {}
    /\ gic' = IF w.reg = "CTLR" THEN vgicd_emul_misc_access(gic, c, w.val)
              ELSE NextField([Held(c, vgicd_lock) EXCEPT !.op[c] =
                       [Idle EXCEPT !.todo = w.word, !.write = [reg |-> w.reg, val |-> w.val]]], c)
    /\ writes' = writes + 1 /\ UNCHANGED running

\* The interrupt that announces messages.
Ipi(c) ==
    /\ gic.op[c].pc = "guest" /\ gic.msgs[c] # <<>>
    /\ gic' = [gic EXCEPT !.op[c] = [Idle EXCEPT !.pc = "msgs", !.msg = TRUE]]
    /\ UNCHANGED <<running, writes>>

\* The guest reads GICV_IAR: the first pending interrupt, if it precedes what runs.
Acknowledge(c, k) ==
    LET i == gic.lr[c][k].id
    IN  /\ InGuest(c) /\ gic.en[c] /\ gic.lr[c][k].state = {PEND}
        /\ \A l \in Lrs : gic.lr[c][l].state = {PEND} => ~After(i, gic.lr[c][l].id)
        /\ running[c] # <<>> => Prio(i) < Prio(running[c][1])
        /\ gic' = [gic EXCEPT !.lr[c][k].state = {ACT}]
        /\ running' = [running EXCEPT ![c] = <<i>> \o @]
        /\ UNCHANGED writes

\* The guest writes GICV_EOIR for the innermost interrupt.
EndOfInterrupt(c) ==
    /\ InGuest(c) /\ gic.en[c] /\ running[c] # <<>>
    /\ LET ks == {k \in Lrs : gic.lr[c][k].id = running[c][1] /\ ACT \in gic.lr[c][k].state}
       IN  gic' = IF ks = {} THEN [gic EXCEPT !.eoicount[c] = @ + 1]
                  ELSE [gic EXCEPT !.lr[c][Min(ks)].state = @ \ {ACT}]
    /\ running' = [running EXCEPT ![c] = Tail(@)]
    /\ UNCHANGED writes

Cpu(c) == Hypervisor(c) \/ Ipi(c) \/ EndOfInterrupt(c) \/ \E k \in Lrs : Acknowledge(c, k)

Next == ~gic.astray /\ \E c \in Cpus : Cpu(c) \/ \E w \in Writes : vgicd_emul_handler(c, w)

-----------------------------------------------------------------------------
\* CPU c waits for a lock that d holds; the CPUs of S wait for each other.
WaitsFor(c, d) == \E l \in Wants(c) : gic.lock[l] = d
Stuck(S) == S # {} /\ \A c \in S : \E d \in S : WaitsFor(c, d)

\* vgic_refill_lrs goes round and round: the interrupt it found is not its vcpu's.
Spins(c) == LET i == gic.op[c].i
            IN  gic.op[c].pc = "take" /\ ~CanOwn(gic, c, i) /\ gic.lock[i] = None

\* The hypervisor of CPU c has a step to do, and does one.  The locks are those
\* of TicketLock, which serve in the order of arrival: no CPU is passed over.
Ready(c) ==
    /\ ~gic.astray /\ ~Spins(c) /\ \A l \in Wants(c) : gic.lock[l] = None
    /\ gic.op[c].pc = "guest" => gic.msgs[c] # <<>> \/ (gic.en[c] /\ Misr(c) # {})
Moves(c) == \/ gic'.op[c] # gic.op[c]
            \/ Len(gic'.msgs[c]) < Len(gic.msgs[c])
            \/ gic'.eoicount[c] < gic.eoicount[c]

\* Each CPU runs on its own; nothing is assumed of the guest.
Fairness == \A c \in Cpus : []<>~Ready(c) \/ []<><<Moves(c)>>_vars

Spec == Init /\ [][Next]_vars /\ Fairness
-----------------------------------------------------------------------------
\* A register that holds something holds an interrupt whose record names that
\* register and that vcpu as its owner, whatever the other vcpus do meanwhile:
\* no interrupt is in the registers of two vcpus (vgic_get_ownership,
\* vgic_write_lr, vgic_remove_lr).
LrsOwned ==
    \A c \in Cpus, k \in Lrs : gic.lr[c][k].state # {} =>
        LET int == gic.int[gic.lr[c][k].id] IN int.in_lr /\ int.lr = k /\ int.owner = c

\* CPUs come to wait for each other's locks in two ways only: one of them holds
\* the lock of the lists and waits for an interrupt (vgic_refill_lrs), or holds
\* an interrupt and waits for the one that last had the list register it is about
\* to write (vgic_write_lr).  Distributor, interrupt, the interrupt that gives
\* way, and lists are otherwise taken in an order that closes no circle.
CirclesKnown == \A S \in SUBSET Cpus : Stuck(S) => \E c \in S : gic.op[c].pc \in {"take", "prev"}

State(i) == IF gic.int[i].owner \in Cpus THEN vgic_get_state(gic, gic.int[i].owner, i) ELSE gic.int[i].state
Rest == \A c \in Cpus : gic.op[c].pc = "guest" /\ gic.msgs[c] = <<>>

\* Once every handler has returned and every message was taken, a pending
\* interrupt is in a list register or on the list of spilled ones, whichever
\* vcpus wrote, routed, refused or moved it on the way (vgic_route, the handlers
\* of VGIC_ROUTE and VGIC_SET_REG).  The one exception is an interrupt with a
\* target beyond platform.cpu_num, which the loop of vgic_route has passed over:
\* there is none where cpu_num is the number of CPUs, and where it is 0, as in
\* this repository, an interrupt that no other step places stays pending for good.
NoneStranded ==
    ~gic.astray /\ Rest =>
        \A i \in Ints : State(i) = {PEND} =>
            i \in gic.spilled \cup gic.untold \/ \E c \in Cpus : InLr(gic, c, i)

\* vgic_refill_lrs goes round for an interrupt only while another vcpu has it
\* active: an interrupt that was spilled when it was pending is everybody's.
SpinsForActive == ~gic.astray =>
    \A c \in Cpus : Spins(c) => ACT \in gic.int[gic.op[c].i].state

\* Every CPU comes back to its guest, from a write, from its messages and from a
\* maintenance interrupt, unless CPUs wait for each other in a circle or one goes
\* round in vgic_refill_lrs.
Returns ==
    \A c \in Cpus : []<>(\/ gic.op[c].pc = "guest" \/ gic.astray
                         \/ \E S \in SUBSET Cpus : Stuck(S)
                         \/ \E d \in Cpus : Spins(d))
=============================================================================
