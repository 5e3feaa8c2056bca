SPECIFICATION FairSpec
CONSTANTS
    NrCPUs = 4
    NrVMs = 2
    NrVcpus <- MCTwoAndOne
    Irqs <- MCShared
INVARIANTS VcpusComplete InterruptsReady ListedUnlessRelinked
PROPERTIES AllStart
CHECK_DEADLOCK FALSE
