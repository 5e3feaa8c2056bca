SPECIFICATION FairSpec
CONSTANTS
    CPUs = {c0, c1, c2, c3}
    Master = c0
    MaxRounds = 4
PROPERTIES RefinesBarrier AllPass
CHECK_DEADLOCK FALSE
