CONSTANTS
    SeqSpace = 32
    MaxCwnd = 8
    TCP_SND_QUEUELEN = 8
    RtxSpace = 6
    Scenarios <- MCScenarios
    ClientIss = 30
    ServerIss = 30
    IssStep = 8
    Capacity = 4
    TCP_MAXRTX = 3
    TCP_SYNMAXRTX = 2
    CloseDrained = TRUE
SPECIFICATION TcpSpec
INVARIANTS
    StreamKept
    WindowAccounted
    
PROPERTIES
    WindowNeverShrinks
    
    
    FallsQuiet
CHECK_DEADLOCK FALSE
