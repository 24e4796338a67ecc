CONSTANTS
    OSQSize = 2
    Task = {5, 6}
    Msg = {m1, m2, m3}
    NoMsg = null
    MaxTimeout = 2
SPECIFICATION FairSpec
INVARIANTS
    WaitersExact
    MessagesConserved
PROPERTIES
    QueueSpec
    TimedPendReturns
