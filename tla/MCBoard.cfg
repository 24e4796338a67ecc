CONSTANTS
    USART_REC_LEN = 3
    CR = "cr"
    LF = "lf"
    Data = {"x", "y"}
    MaxBytes = 7
    MemTblSize = 5
    BlkSize = 2
    Sizes = {0, 1, 3, 6, 11}
    U16 = 8
    NBlocks = 103
    Needs <- MCNeeds
    MaxPhyFailures = 4
    ETH_RXBUFNB = 2
    PoolSize = 3
    MsgPool = 2
    MboxSize = 2
    MaxRxFrames = 6
    MaxLate = 1
    ETH_TXBUFNB = 2
    Tasks = {5}
    MaxTxFrames = 5
SPECIFICATION BoardSpec
INVARIANTS
    CompleteLineIsWhatArrived
    TableIsLive
    BootMemory
    RxExact
    SentExact
PROPERTIES
    PoolSpec
    BootEnds
    
    AllSent
\* The serial line, the start and the frames end.
CHECK_DEADLOCK FALSE
