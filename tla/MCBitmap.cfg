SPECIFICATION Spec
CONSTANTS
    Granule = 3
    Size = 9
INVARIANTS FindsFirstRun FindsNth SetsExactly
CHECK_DEADLOCK FALSE
