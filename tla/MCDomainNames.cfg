SPECIFICATION FairSpec
CONSTANTS
    ip1 = ip1
    alias = alias
    host = host
    NoName = NoName
    IPs = {ip1}
    ZeroIP = ZeroIP
    Names = {alias, host}
    Packets <- MCPackets
    QueueSize = 1
    TTL = 1
    StorageTTL = 1
    FetchTimeout = 1
    MaxWait = 0
INVARIANTS
    TypeOK
    FreshNames
PROPERTIES
    EmptyOnlyWhenStale
    StartStops
    AnswersFiled
