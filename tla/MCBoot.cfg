SPECIFICATION Spec
CONSTANTS
    DServers = {"A", "B", "C", "D"}
    MaxCalls = 2
    Retries = 2
    None = None
    Unset = Unset
    Content <- MCContent
    Hosts <- MCHosts
    OnLink <- MCOnLink
    Servers <- MCServers
    MacOf <- MCMacOf
    Adverts <- MCAdverts
    V6Replies <- MCV6Replies
    MaxName = 3
    LongLabel = "long"
    MaxLookups = 2
    MaxQueries = 2
    HaveServer = TRUE
    MaxNest = 2
    MaxSends = 1
    MaxAttempts = 2
    Words = 4
    Addrs = {"s", "c", "g"}
    Numbers = {"5", "7"}
    MaxEntries = 3
    Room = 3
    BootRetries = 2
    ARP_ENTRIES = 3
    Subnet = {r, a, b}
    Outside = {x}
    router_ip = r
    Broadcast = Broadcast
    LogSize = 1100
    GptParts = {"p1", "p2", "zero"}
    MaxParts = 2
    MaxFaults = 1
    MaxTpmCalls = 2
    CrqEntries = 3
    MaxCmds = 5
    MinSize = 2
    MaxLength = 260
INVARIANTS
    
    LookupRight
    NeighboursRight
    ArpTableRight
    
    LoadedAsTold
    MeasurementsRight
    AnswersMatched
    PaddingRight
PROPERTIES
    DhcpReturns
CHECK_DEADLOCK FALSE
