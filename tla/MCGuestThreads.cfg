SPECIFICATION Spec
CONSTANTS
    Threads = {1, 2}
    Size = 2
    Timeout = 1
    Msgs = {1, 2}
    MaxDepth = 1
INVARIANTS RunnableOnce SleepersTimed NoLostWakeup GoneUnlinked
PROPERTIES RefinesQueue RoundRobin TimedReturn
