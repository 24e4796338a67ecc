CONSTANTS
    H = 6
    OS_TICKS_PER_SEC = 1
    MsPerSec = 2
    Millis = {1, 5}
    Seconds = {5}
    NUM_SOCKETS = 2
    MEMP_NUM_NETDB = 1
    PendMax = 4
    Lens = {1, 2}
    MaxBytes = 3
    BlockCap = 7
SPECIFICATION Spec
INVARIANTS
    TimerExact
    SocketsAccounted
    ReadsExact
PROPERTY ReadReturns
