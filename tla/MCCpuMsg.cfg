SPECIFICATION FairSpec
CONSTANTS
    NrCPUs = 2
    NrNodes = 3
    MaxSends = 5
INVARIANTS SoundUnlessRaced IntactUnlessRaced
PROPERTY Drained
CHECK_DEADLOCK FALSE
