SPECIFICATION FairSpec
CONSTANTS
    CPUs = {c0, c1}
    NrPages = 8
    BasePage = 1
    BitmapPages = 1
    NoCPU = NoCPU
CONSTANT Requests <- MCRequests
INVARIANTS BlocksPartition FailsOnlyWhenFull
PROPERTIES AllocEnds
CHECK_DEADLOCK FALSE
