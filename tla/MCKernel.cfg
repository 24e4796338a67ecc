CONSTANTS
    a = a
    b = b
    c = c
    Task = {a, b, c}
    Idle = idle
    Event = {e}
    Flag = {1, 2}
    Message = {m}
    Lowest = 4
    Nil = nil
    Reserved = reserved
    MaxCnt = 2
    Scenarios <- MCScenarios
    Waits <- MCWaits
    MaxTimeout = 2
    MaxLock = 1
    Rules = {"owner", "pip", "delete", "free", "settled"}
    Tmr = {t1, t2, t3}
    OS_TMR_CFG_WHEEL_SIZE = 2
    OSTmrTimeMax = 4
    TicksPerSignal = 2
    Settings <- MCSettings
    MaxSignal = 1
    MaxCalls = 1
    NoTmr = none
    CallbackOwn = TRUE
SPECIFICATION MCSpec
INVARIANTS
    TablesExact
    RunsHighest
    NoSleepOnAvailable
    InversionBounded
    TimersExact
