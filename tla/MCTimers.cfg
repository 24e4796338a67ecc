CONSTANTS
    Periodic <- MCPeriodic
    Interval <- MCInterval
    Tcp = "tcp"
    App = {"app"}
    PoolSize = 4
    U32 = 16
    U16 = 8
    MsPerSec = 5
    OS_TICKS_PER_SEC = 1
    MboxSize = 1
    MaxWaited = 3
SPECIFICATION Spec
INVARIANTS
    TimeoutsExact
PROPERTY PeriodicRuns
