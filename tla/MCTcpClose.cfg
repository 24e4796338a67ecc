CONSTANTS
    SeqSpace = 32
    MaxCwnd = 8
    TCP_SND_QUEUELEN = 8
    RtxSpace = 6
    Scenarios <- MCCloseScenarios
    ClientIss = 30
    ServerIss = 30
    IssStep = 8
    Capacity = 4
    TCP_MAXRTX = 3
    TCP_SYNMAXRTX = 2
    CloseDrained = FALSE
SPECIFICATION TcpSpec
INVARIANT ClosedIsDelivered
CHECK_DEADLOCK FALSE
