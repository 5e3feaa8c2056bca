---------------------------- MODULE MCVGicVcpus ----------------------------
(* Two vcpus with two list registers each, three interrupts; cpu_num as it *)
(* is, 0, and as it should be, 2.                                          *)
EXTENDS VGicVcpus

\* Interrupt 1 precedes 2, which precedes 3.
MCPrio(i) == 8 * i

\* The first interrupt is for both vcpus, the others for one.
MCTargets(i) == CASE i = 1 -> {0, 1} [] i = 2 -> {1} [] OTHER -> {0}

\* The first vcpu switches the distributor off, moves the second interrupt to
\* itself or raises all interrupts; the second vcpu raises its own.
MCWrites == {[by |-> {0}, reg |-> "CTLR", word |-> {}, val |-> FALSE],
             [by |-> {0}, reg |-> "ITARGETSR", word |-> {2}, val |-> {0}],
             [by |-> {0}, reg |-> "ISPENDR", word |-> Ints, val |-> Ints],
             [by |-> {1}, reg |-> "ISPENDR", word |-> {1, 2}, val |-> {1, 2}]}
=============================================================================
