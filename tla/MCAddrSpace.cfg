SPECIFICATION Spec
CONSTANTS
    CPUs = {c0, c1}
    Lvls = 4
    Fanout = 2
    Terminal = {1, 2, 3}
    MaxMaps = 3
CONSTANT Ranges <- MCRanges
SYMMETRY MCSymmetry
INVARIANT NeverAstray
PROPERTY RefinesMap
CHECK_DEADLOCK FALSE
