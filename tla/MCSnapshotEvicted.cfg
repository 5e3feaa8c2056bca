SPECIFICATION Spec
CONSTANTS
    CPUs = {0}
    VMs = {"vm0"}
    NrPages = 39
    BootPages = 3
    BitmapPages = 1
    PoolPages = 8
    MaxIds = 18
CONSTANT VmOf <- MCVmOf
CONSTANT Asked <- MCOldIds
INVARIANT OnlyLiveRestored
CHECK_DEADLOCK FALSE
