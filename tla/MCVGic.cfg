\* A private and a shared interrupt of the hardware and two shared ones of the
\* guest's own compete for two list registers.  The GIC has one CPU interface,
\* so that the shared interrupts of the hardware arrive.
SPECIFICATION Spec
CONSTANTS
    Ints = {1, 2, 3, 4}
    Priv = {1}
    Hw = {1, 2}
    NUM_LRS = 2
    Interfaces = {}
    Prios = {0, 160}
    MaxEvents = 3
    Regs = {"ISENABLER", "ICENABLER", "IPRIORITYR", "ITARGETSR", "ISPENDR", "ICPENDR", "ICACTIVER"}
INVARIANTS LrsTracked HwInStep NothingLost Placed Ended
PROPERTY AllServed
CHECK_DEADLOCK FALSE
