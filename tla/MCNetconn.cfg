CONSTANTS
    MboxSize = 3
    PoolSize = 3
    SegLen = 2
    TCP_WND = 8
    MaxSegs = 4
    MaxQueues = 2
    MaxConns = 2
SPECIFICATION FairSpec
INVARIANTS
    StreamExact
    NeverWaitsInVain
PROPERTY ReadUnlessFull
CHECK_DEADLOCK FALSE
