SPECIFICATION Spec
CONSTANTS
    NCpus = 2
    CpuNums = {0, 2}
    Ints = {1, 2, 3}
    NUM_LRS = 2
    Prio <- MCPrio
    Targets <- MCTargets
    Writes <- MCWrites
    MaxWrites = 3
INVARIANTS LrsOwned CirclesKnown NoneStranded SpinsForActive
PROPERTY Returns
CHECK_DEADLOCK FALSE
