SPECIFICATION FairSpec
CONSTANTS
    CPUs = {c0, c1, c2}
    Modulus = 4
    MaxDraws = 6
PROPERTIES RefinesFifoLock NoStarvation
CHECK_DEADLOCK FALSE
