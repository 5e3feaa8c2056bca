SPECIFICATION Spec
CONSTANTS
    CPUs = {0}
    VMs = {"vm0"}
    NrPages = 39
    BootPages = 3
    BitmapPages = 1
    PoolPages = 8
    MaxIds = 39
CONSTANT VmOf <- MCVmOf
CONSTANT Asked <- MCAsked
INVARIANTS SnapshotsIntact AlwaysRoom
PROPERTY RefinesStore
CHECK_DEADLOCK FALSE
