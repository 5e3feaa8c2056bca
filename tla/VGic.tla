-------------------------------- MODULE VGic --------------------------------
(***************************************************************************)
(* The virtual interrupt controller of a machine with one vcpu             *)
(* (arch/aarch64/vgic.c and vgicv2.c), between the physical GIC and the    *)
(* guest.                                                                  *)
(*                                                                         *)
(* An interrupt that is pending or active for the guest lives in one of    *)
(* NUM_LRS list registers, from which the hardware serves the guest, or,   *)
(* when they are full, in a list of spilled interrupts.  The guest         *)
(* acknowledges and ends interrupts without the hypervisor; the hypervisor *)
(* runs when a physical interrupt arrives, when the guest writes a         *)
(* register of the distributor, and on a maintenance interrupt.  Each      *)
(* of these is one action, as all of them run on one CPU with interrupts   *)
(* masked.  The state of the hypervisor and of the hardware is one record  *)
(* s, and the functions of the source are operators from s to s.           *)
(*                                                                         *)
(* Software-generated interrupts are left out: vgic_send_sgi_msg sends     *)
(* them to the CPUs below platform.cpu_num, which no platform sets, so     *)
(* none is ever injected.  So is the trigger configuration, a number that  *)
(* is stored and passed on.                                                *)
(*                                                                         *)
(* The spilled lists are one set.  The source does not check, before it    *)
(* changes or adds an interrupt, whether it is in the list already: a      *)
(* write by the guest to a register of a spilled interrupt links it a      *)
(* second time, or puts it in a list register while it stays in the list.  *)
(* The history flag astray records that this has happened, and the model   *)
(* ends there.                                                             *)
(***************************************************************************)
EXTENDS Integers, Sequences, FiniteSets, FiniteSetsExt, SequencesExt

CONSTANTS Ints,       \* interrupts of the machine: private and shared ones
          Priv,       \* the private ones (below GIC_CPU_PRIV)
          Hw,         \* those assigned to the machine by its configuration
          NUM_LRS,    \* number of list registers
          Interfaces, \* the bits set in the ITARGETSR[0] of this CPU
          Prios,      \* priorities the guest writes
          Regs,       \* registers the guest writes
          MaxEvents   \* bound on what devices and guest do

ASSUME VGicConstants == /\ Ints \subseteq Nat \ {0} /\ IsFiniteSet(Ints)
                        /\ Priv \subseteq Ints /\ Hw \subseteq Ints
                        /\ NUM_LRS \in Nat \ {0, 1}
                        /\ Interfaces \subseteq 0..7 /\ Cardinality(Interfaces) <= 1
                        /\ Prios \subseteq 0..255

VARIABLES gic,        \* vgic_int, list registers, spilled lists, physical GIC
          running,    \* what the guest has acknowledged, innermost first
          owed,       \* history: raised, and not yet taken or withdrawn
          events      \* number of events so far

vars == <<gic, running, owed, events>>

Lrs == 0..(NUM_LRS - 1)
NoInt == 0
PEND == "PEND"
ACT == "ACT"
GIC_LOWEST_PRIO == 255

\* A list register that holds nothing: what writing 0 leaves.
EmptyLr == [id |-> NoInt, state |-> {}, prio |-> 0, hw |-> FALSE, eoi |-> FALSE]

-----------------------------------------------------------------------------
\* What the hardware shows of the list registers: those that are free
\* (GICH_ELRSR), and those whose end was to be reported (GICH_EISR).
Elrsr(s) == {k \in Lrs : s.lr[k].state = {} /\ (s.lr[k].hw \/ ~s.lr[k].eoi)}
Eisr(s) == {k \in Lrs : s.lr[k].state = {} /\ ~s.lr[k].hw /\ s.lr[k].eoi}

\* gich_get_lr: interrupt i is in a list register, as its record says.
InLr(s, i) == /\ s.int[i].in_lr
              /\ s.lr[s.int[i].lr].id = i
              /\ s.lr[s.int[i].lr].state # {}

vgic_get_state(s, i) == IF InLr(s, i) THEN s.lr[s.int[i].lr].state ELSE s.int[i].state

vgic_yield_ownership(s, i) ==
    IF i \in Priv \/ s.int[i].in_lr \/ ACT \in vgic_get_state(s, i)
    THEN s
    ELSE [s EXCEPT !.int[i].owned = FALSE]

\* The entry for interrupt i in a list register.  An interrupt of the
\* hardware cannot be pending and active there; the end of a shared one of
\* software is reported.
LrEntry(s, i) ==
    LET state == vgic_get_state(s, i)
    IN  [id |-> i, prio |-> (s.int[i].prio \div 8) * 8, hw |-> i \in Hw,
         state |-> IF i \in Hw /\ state = {PEND, ACT} THEN {ACT} ELSE state,
         eoi |-> i \notin Hw /\ i \notin Priv]

\* The shared interrupt that list register k was last written for loses it.
Displace(s, i, k) ==
    LET prev == s.curr_lrs[k]
    IN  IF /\ prev \in Ints \ (Priv \cup {i})
           /\ s.int[prev].owned /\ s.int[prev].in_lr /\ s.int[prev].lr = k
        THEN vgic_yield_ownership([s EXCEPT !.int[prev].in_lr = FALSE], prev)
        ELSE s

vgic_write_lr(s, i, k) ==
    LET t == Displace(s, i, k)
    IN  [t EXCEPT !.lr[k] = LrEntry(t, i), !.curr_lrs[k] = i,
                  !.astray = @ \/ i \in s.spilled,
                  !.int[i] = [@ EXCEPT !.state = {}, !.in_lr = TRUE, !.lr = k]]

\* Mutant: the list register is not written.
vgic_remove_lr_unwritten(s, i) ==
    IF ~s.int[i].owned \/ ~s.int[i].in_lr THEN s
    ELSE IF ~InLr(s, i) THEN [s EXCEPT !.int[i].in_lr = FALSE]
    ELSE LET k == s.int[i].lr
         IN  [s EXCEPT !.int[i] = [@ EXCEPT !.in_lr = FALSE, !.state = s.lr[k].state],
                       !.uie = TRUE,
                       !.npie = @ \/ (PEND \in s.lr[k].state /\ s.int[i].enabled)]

\* Mutant: the state found in the list register is not kept.
vgic_remove_lr_forgotten(s, i) ==
    IF ~s.int[i].owned \/ ~s.int[i].in_lr THEN s
    ELSE IF ~InLr(s, i) THEN [s EXCEPT !.int[i].in_lr = FALSE]
    ELSE [s EXCEPT !.lr[s.int[i].lr] = EmptyLr, !.int[i].in_lr = FALSE, !.uie = TRUE]

vgic_remove_lr(s, i) ==
    IF ~s.int[i].owned \/ ~s.int[i].in_lr THEN s
    ELSE IF ~InLr(s, i) THEN [s EXCEPT !.int[i].in_lr = FALSE]
    ELSE LET k == s.int[i].lr
         IN  [s EXCEPT !.lr[k] = EmptyLr,
                       !.int[i] = [@ EXCEPT !.in_lr = FALSE, !.state = s.lr[k].state],
                       !.uie = TRUE,
                       !.npie = @ \/ (PEND \in s.lr[k].state /\ s.int[i].enabled)]

-----------------------------------------------------------------------------
vgic_add_spilled(s, i) == [s EXCEPT !.spilled = @ \cup {i}, !.npie = TRUE,
                                    !.astray = @ \/ i \in s.spilled]

\* Mutant: what makes room is not put on the list.
vgic_spill_lr_dropped(s, k) ==
    LET i == s.lr[k].id IN vgic_yield_ownership(vgic_remove_lr(s, i), i)

vgic_spill_lr(s, k) ==
    LET i == s.lr[k].id
    IN  vgic_yield_ownership(vgic_add_spilled(vgic_remove_lr(s, i), i), i)

\* a comes after b in the order of service: priority, then number.
After(a, b) == a[1] > b[1] \/ (a[1] = b[1] /\ a[2] > b[2])

\* The register that would be served last among ks, if it comes after i.
LastServed(s, i, ks) ==
    LET Key(k) == <<s.lr[k].prio, s.lr[k].id>>
        later  == {k \in ks : After(Key(k), <<s.int[i].prio, i>>)}
    IN  {k \in later : \A l \in later : ~After(Key(l), Key(k)) /\ (Key(l) = Key(k) => k <= l)}

vgic_add_lr(s, i) ==
    LET active  == {k \in Lrs : ACT \in s.lr[k].state}
        pending == {k \in Lrs : s.lr[k].state = {PEND}}
        victim  == LastServed(s, i, IF Cardinality(pending) > 1 THEN pending ELSE active)
    IN  CASE ~s.int[i].enabled \/ s.int[i].in_lr -> s
          [] Elrsr(s) # {} -> vgic_write_lr(s, i, Min(Elrsr(s)))
          [] victim # {} -> LET k == Min(victim) IN vgic_write_lr(vgic_spill_lr(s, k), i, k)
          [] OTHER -> vgic_add_spilled(s, i)

vgic_route(s, i) ==
    IF s.int[i].state # {} /\ s.int[i].enabled /\ (i \in Priv \/ s.int[i].target)
    THEN vgic_add_lr(s, i) ELSE s

-----------------------------------------------------------------------------
\* Guest writes to the distributor.  An interrupt of the hardware has its
\* enable bit and its target copied to the physical distributor at once, so
\* these are not kept twice.

\* Mutant: the state of the guest is the state of the physical GIC.
vgic_int_state_hw_same(s, i) ==
    LET state == s.int[i].state
        Put(set, in) == IF in THEN set \cup {i} ELSE set \ {i}
    IN  [s EXCEPT !.pact = Put(@, ACT \in state), !.ppend = Put(@, PEND \in state)]

\* vgic_int_state_hw: a pending interrupt is active for the physical GIC.
vgic_int_state_hw(s, i) ==
    LET state == IF s.int[i].state = {PEND} THEN {ACT} ELSE s.int[i].state
        Put(set, in) == IF in THEN set \cup {i} ELSE set \ {i}
    IN  [s EXCEPT !.pact = Put(@, ACT \in state), !.ppend = Put(@, PEND \in state)]

vgic_int_update_state(s, i, bit, on) ==
    LET t == [s EXCEPT !.int[i].state = IF on THEN @ \cup {bit} ELSE @ \ {bit}]
    IN  IF i \in Hw /\ t # s THEN vgic_int_state_hw(t, i) ELSE t

\* The update of one field; a write of 0 to a set or clear register is none.
update_field(s, i, reg, v) ==
    CASE reg = "IPRIORITYR" -> [s EXCEPT !.int[i].prio = (v \div 8) * 8]
      [] reg = "ITARGETSR"  -> [s EXCEPT !.int[i].target = i \notin Priv /\ v]
      [] reg = "ISENABLER" /\ v -> [s EXCEPT !.int[i].enabled = TRUE]
      [] reg = "ICENABLER" /\ v -> [s EXCEPT !.int[i].enabled = FALSE]
      [] reg = "ISPENDR" /\ v   -> vgic_int_update_state(s, i, PEND, TRUE)
      [] reg = "ICPENDR" /\ v   -> vgic_int_update_state(s, i, PEND, FALSE)
      [] reg = "ISACTIVER" /\ v -> vgic_int_update_state(s, i, ACT, TRUE)
      [] reg = "ICACTIVER" /\ v -> vgic_int_update_state(s, i, ACT, FALSE)
      [] OTHER -> s

vgic_int_set_field(s, i, reg, v) ==
    LET t == vgic_remove_lr([s EXCEPT !.int[i].owned = TRUE, !.astray = @ \/ i \in s.spilled], i)
    IN  vgic_yield_ownership(vgic_route(update_field(t, i, reg, v), i), i)

\* The interrupts of one register: 32 private ones or shared ones with a bit
\* each, or one that is accessed by its byte.
Words == {Priv, Ints \ Priv} \ {{}}

vgic_emul_generic_access(s, reg, word, ones) ==
    FoldLeft(LAMBDA t, i : vgic_int_set_field(t, i, reg, i \in ones),
             s, SetToSortSeq(word, <))

-----------------------------------------------------------------------------
\* Interrupts to the hypervisor.

vgic_inject_hw(s, i) ==
    vgic_add_lr([s EXCEPT !.int[i] = [@ EXCEPT !.owned = TRUE, !.state = {PEND},
                                               !.in_lr = FALSE]], i)

\* The spilled interrupt to serve first among those in a state of flags.
vgic_highest_prio_spilled(s, flags) ==
    LET found == {i \in s.spilled : vgic_get_state(s, i) \cap flags # {}}
        Key(i) == <<s.int[i].prio, i>>
    IN  {i \in found : \A j \in found : ~After(Key(i), Key(j))}

RECURSIVE RefillLoop(_, _)
RefillLoop(s, flags) ==
    LET irq == vgic_highest_prio_spilled(s, flags)
    IN  IF Elrsr(s) = {} THEN s
        ELSE IF irq = {} THEN [s EXCEPT !.npie = FALSE, !.uie = FALSE]
        ELSE LET i == Min(irq)
                 t == [s EXCEPT !.spilled = @ \ {i}, !.int[i].owned = TRUE]
             IN  RefillLoop(vgic_write_lr(t, i, Min(Elrsr(s))), {PEND, ACT})

vgic_refill_lrs(s, npie) == RefillLoop(s, IF npie THEN {PEND} ELSE {PEND, ACT})

\* Mutant: the first of all spilled interrupts is ended.
vgic_eoir_highest_spilled(s) ==
    LET irq == vgic_highest_prio_spilled(s, {PEND, ACT})
    IN  IF irq = {} THEN s
        ELSE LET i == Min(irq)
                 t == [s EXCEPT !.int[i] = [@ EXCEPT !.owned = TRUE, !.state = @ \ {ACT}]]
             IN  IF i \in Hw THEN [t EXCEPT !.pact = @ \ {i}] ELSE t

vgic_eoir_highest_spilled_active(s) ==
    LET irq == vgic_highest_prio_spilled(s, {ACT})
    IN  IF irq = {} THEN s
        ELSE LET i == Min(irq)
                 t == [s EXCEPT !.int[i] = [@ EXCEPT !.owned = TRUE, !.state = @ \ {ACT}]]
             IN  IF i \in Hw THEN [t EXCEPT !.pact = @ \ {i}]
                 ELSE IF PEND \in t.int[i].state THEN vgic_add_lr(t, i)
                 ELSE t

\* Mutant: the register keeps the interrupt that ended.
vgic_handle_trapped_eoir_kept(s) ==
    FoldLeft(LAMBDA t, k :
                LET i == t.lr[k].id
                IN  vgic_yield_ownership([t EXCEPT !.int[i].in_lr = FALSE], i),
             s, SetToSortSeq(Eisr(s), <))

vgic_handle_trapped_eoir(s) ==
    FoldLeft(LAMBDA t, k :
                LET i == t.lr[k].id
                IN  vgic_yield_ownership([t EXCEPT !.lr[k] = EmptyLr, !.int[i].in_lr = FALSE], i),
             s, SetToSortSeq(Eisr(s), <))

\* The control register is read before the loop's body and written back after
\* it: what the body sets in it is undone.
RECURSIVE EoiCountLoop(_)
EoiCountLoop(s) ==
    IF s.eoicount = 0 THEN s
    ELSE EoiCountLoop([vgic_eoir_highest_spilled_active(s) EXCEPT
                          !.npie = s.npie, !.uie = s.uie, !.eoicount = s.eoicount - 1])

Np(s) == s.npie /\ \A k \in Lrs : s.lr[k].state # {PEND}
U(s) == s.uie /\ Cardinality({k \in Lrs : s.lr[k].state # {}}) <= 1
Misr(s) == Eisr(s) # {} \/ Np(s) \/ U(s) \/ s.eoicount > 0

gic_maintenance_handler(s) ==
    LET t == IF Eisr(s) # {} THEN vgic_handle_trapped_eoir(s) ELSE s
        u == IF Np(s) \/ U(s) THEN vgic_refill_lrs(t, Np(s)) ELSE t
    IN  IF s.eoicount > 0 THEN EoiCountLoop(u) ELSE u

-----------------------------------------------------------------------------
\* vgic_init and vgic_cpu_init, the interrupts of the configuration assigned.
Reset ==
    [int |-> [i \in Ints |-> [state |-> {}, prio |-> GIC_LOWEST_PRIO, enabled |-> FALSE,
                 target |-> FALSE, in_lr |-> FALSE, lr |-> 0, owned |-> i \in Priv]],
     lr |-> [k \in Lrs |-> EmptyLr], curr_lrs |-> [k \in Lrs |-> NoInt],
     spilled |-> {}, en |-> FALSE, npie |-> FALSE, uie |-> FALSE, eoicount |-> 0,
     pact |-> {}, ppend |-> {}, astray |-> FALSE]

Init == gic = Reset /\ running = <<>> /\ owed = {} /\ events = 0

\* The driver of the guest sets up the distributor.  Nothing is pending, so its
\* writes only set the fields.
SetUp(prio) ==
    /\ gic = Reset
    /\ gic' = [gic EXCEPT !.en = TRUE,
                   !.int = [i \in Ints |-> [@[i] EXCEPT !.prio = prio[i], !.enabled = TRUE,
                                                        !.target = i \notin Priv]]]
    /\ UNCHANGED <<running, owed, events>>

\* Bound on what devices and guest do.
Event == events < MaxEvents /\ events' = events + 1

\* A device raises its line.
Raise(i) ==
    /\ Event /\ i \in Hw \ gic.ppend
    /\ gic' = [gic EXCEPT !.ppend = @ \cup {i}]
    /\ UNCHANGED <<running, owed>>

\* The guest is to have interrupt i.
Deliverable(i) == gic.int[i].enabled /\ (i \in Priv \/ gic.int[i].target)

\* gicc_init: the interface that stands for this CPU in a target register.
gic_cpu_map == (IF Interfaces = {} THEN -1 ELSE Min(Interfaces)) + 1

\* The physical interrupt comes to this CPU.  A GIC with one interface reads no
\* bits and has no targets; with several, the map names the interface after the
\* right one.
Arrives(i) == /\ gic.int[i].enabled
              /\ i \notin Priv /\ Interfaces # {} =>
                     gic.int[i].target /\ gic_cpu_map \in Interfaces

\* gic_handle for an interrupt of the machine: acknowledged and left active.
gic_handle(i) ==
    /\ i \in gic.ppend \ gic.pact /\ Arrives(i)
    /\ gic' = vgic_inject_hw([gic EXCEPT !.ppend = @ \ {i}, !.pact = @ \cup {i}], i)
    /\ owed' = owed \cup {i}
    /\ UNCHANGED <<running, events>>

\* The maintenance interrupt is taken before the guest does anything else.
Signalled == gic.en /\ Misr(gic)

Maintenance ==
    /\ Signalled
    /\ gic' = gic_maintenance_handler(gic)
    /\ UNCHANGED <<running, owed, events>>

vgicd_emul_misc_access ==
    /\ Event
    /\ gic' = [gic EXCEPT !.en = ~@]
    /\ UNCHANGED <<running, owed>>

Running == {running[n].id : n \in DOMAIN running}

\* vgicd_emul_handler for a register with one bit for each interrupt.  The
\* guest does not disable or deactivate what it is running.
WriteBits(reg, word, ones) ==
    /\ Event
    /\ reg \in {"ICENABLER", "ICACTIVER"} => ones \cap Running = {}
    /\ gic' = vgic_emul_generic_access(gic, reg, word, ones)
    /\ owed' = CASE reg = "ISPENDR" -> owed \cup ones
                 [] reg = "ICPENDR" -> owed \ ones
                 [] OTHER -> owed
    /\ UNCHANGED running

\* The same for a register with a byte for each interrupt.  The guest does not
\* move or reprioritise what it is running.
WriteByte(reg, i, v) ==
    /\ Event
    /\ i \notin Running
    /\ gic' = vgic_int_set_field(gic, i, reg, v)
    /\ UNCHANGED <<running, owed>>

\* The guest reads GICV_IAR: the highest pending interrupt above those it runs.
CanAcknowledge(k) ==
    LET Key(l) == <<gic.lr[l].prio, l>>
    IN  /\ gic.en /\ gic.lr[k].state = {PEND}
        /\ \A l \in Lrs : gic.lr[l].state = {PEND} => ~After(Key(k), Key(l))
        /\ running # <<>> => gic.lr[k].prio < running[1].prio

Acknowledge(k) ==
    /\ CanAcknowledge(k)
    /\ gic' = [gic EXCEPT !.lr[k].state = {ACT}]
    /\ running' = <<[id |-> gic.lr[k].id, prio |-> gic.lr[k].prio]>> \o running
    /\ owed' = owed \ {gic.lr[k].id}
    /\ UNCHANGED events

\* The guest writes GICV_EOIR for the innermost interrupt.
EndOfInterrupt ==
    /\ gic.en /\ running # <<>>
    /\ running' = Tail(running)
    /\ LET i == running[1].id
           ks == {k \in Lrs : gic.lr[k].id = i /\ ACT \in gic.lr[k].state}
       IN  IF ks = {} THEN gic' = [gic EXCEPT !.eoicount = @ + 1]
           ELSE LET k == Min(ks)
                IN  gic' = [gic EXCEPT !.lr[k].state = @ \ {ACT},
                                       !.pact = IF gic.lr[k].hw THEN @ \ {i} ELSE @]
    /\ UNCHANGED <<owed, events>>

BitRegs == {"ISENABLER", "ICENABLER", "ISPENDR", "ICPENDR", "ISACTIVER", "ICACTIVER"}

Guest == ~Signalled /\ ((\E k \in Lrs : Acknowledge(k)) \/ EndOfInterrupt)

GuestWrite ==
    \/ vgicd_emul_misc_access
    \/ \E reg \in Regs \cap BitRegs, word \in Words : \E ones \in SUBSET word \ {{}} :
           WriteBits(reg, word, ones)
    \/ \E i \in Ints, v \in Prios : "IPRIORITYR" \in Regs /\ WriteByte("IPRIORITYR", i, v)
    \/ \E i \in Ints \ Priv, v \in BOOLEAN : "ITARGETSR" \in Regs /\ WriteByte("ITARGETSR", i, v)

Next ==
    /\ ~gic.astray
    /\ \/ \E prio \in [Ints -> Prios] : SetUp(prio)
       \/ \E i \in Hw : Raise(i) \/ gic_handle(i)
       \/ Maintenance
       \/ gic # Reset /\ ~Signalled /\ GuestWrite
       \/ Guest

\* Weak fairness of the CPU as a whole: it does not stop while an interrupt is to
\* be taken or the guest can go on.  Ready is the condition under which one of
\* these steps changes the state.
Work == Maintenance \/ Guest \/ \E i \in Hw : gic_handle(i)
Ready == /\ ~gic.astray
         /\ \/ Signalled /\ gic_maintenance_handler(gic) # gic
            \/ ~Signalled /\ gic.en /\ (running # <<>> \/ \E k \in Lrs : CanAcknowledge(k))
            \/ \E i \in gic.ppend \ gic.pact : Arrives(i)

Fairness == []<>~Ready \/ []<><<Work>>_vars

Spec == Init /\ [][Next]_vars /\ Fairness
-----------------------------------------------------------------------------

\* A list register that holds something holds an interrupt that knows it: in
\* whatever order registers were given, spilled, displaced and written by the
\* guest, no register serves an interrupt behind the back of its record
\* (in_lr, lr and owner of vgic_write_lr and vgic_remove_lr).  It follows that
\* no interrupt is in two of them.
LrsTracked ==
    \A k \in Lrs : gic.lr[k].state # {} =>
        LET i == gic.lr[k].id IN gic.int[i].in_lr /\ gic.int[i].lr = k /\ gic.int[i].owned

\* An interrupt of the hardware is active for the physical GIC exactly while it
\* is pending or active for the guest (vgic_int_state_hw, and the hw bit that
\* vgic_write_lr sets): otherwise its device is shut out for ever, or
\* interrupts again before the guest is done.
HwInStep == gic.astray \/ \A i \in Hw : i \in gic.pact <=> vgic_get_state(gic, i) # {}

\* An interrupt that was raised is pending for the guest until the guest takes
\* or clears it, through every spilling, refill and rewriting of its fields.
NothingLost == gic.astray \/ \A i \in owed : PEND \in vgic_get_state(gic, i) \/ i \in gic.ppend

\* What is pending or active, enabled and routed to the vcpu is in a list
\* register or in the list of spilled ones, from where vgic_refill_lrs takes it.
Placed == \A i \in Ints : Deliverable(i) /\ vgic_get_state(gic, i) # {} =>
              InLr(gic, i) \/ i \in gic.spilled

\* An interrupt the guest wants to have is active only while the guest runs it or
\* its end waits to be counted: the end of a spilled one is credited to that
\* interrupt, although the hardware tells the hypervisor only how many there were.
Ended == gic.astray \/ \A i \in Ints : Deliverable(i) /\ ACT \in vgic_get_state(gic, i) =>
                                           i \in Running \/ gic.eoicount > 0

\* No register is pending and none is free: the maintenance interrupt is signalled
\* again as soon as vgic_refill_lrs has found no room, and the guest, which alone
\* could make some, does not run.
Storm == Np(gic) /\ Elrsr(gic) = {} /\ Eisr(gic) = {} /\ gic.eoicount = 0

Waiting(i) == i \in owed /\ Deliverable(i) /\ gic.en /\ ~gic.astray /\ ~Storm

\* An interrupt that was raised does not wait for ever: the guest takes it, unless
\* it disables or retargets it or switches its distributor off, or a storm sets in.
AllServed == \A i \in Ints : []<>~Waiting(i)
=============================================================================
