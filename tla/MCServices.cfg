CONSTANTS
    LWIP_MAX_DHCP_TRIES = 4
    MaxNaks = 1
    MaxConflicts = 1
    ConflictsForever = 0
    MaxMissed = 2
    Resolvers = {"r1", "r2"}
    Hosts = {"h1", "h2"}
    DNS_TABLE_SIZE = 2
    DNS_MAX_RETRIES = 3
    Servers = 2
    DNS_MAX_TTL = 2
    Ttls = {1, 3}
    TtlSpace = 6
    SeqSpace = 8
    Confused = {}
    MEMP_NUM_TCPIP_MSG_API = 8
    MaxQueries = 3
    Neighbours = {"a", "b", "c"}
    Gateway = "a"
    Macs = {"m1", "m2"}
    ARP_TABLE_SIZE = 2
    ARP_MAXAGE = 5
    ARP_AGE_REREQUEST_USED = 2
    ARP_MAXPENDING = 2
    TcpipMbox = 3
    InPkts = 2
    TCP_SND_BUF = 2
    MaxChunk = 2
    WriteLens = {1, 4}
    MaxWrites = 2
    MaxShortages = 2
    MaxSockets = 2
SPECIFICATION ServicesSpec
INVARIANTS
    DnsExact
    ArpExact
    SendExact
PROPERTIES
    LeaseKept
    
    CallsReturn
\* The DHCP task ends, and the bounds end the sockets and the queries.
CHECK_DEADLOCK FALSE
