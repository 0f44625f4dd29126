SPECIFICATION PartsSpec
CONSTANTS
    n1 = n1
    n2 = n2
    ip1 = ip1
    Names = {n1, n2}
    IPs = {ip1}
    NameReuse = TRUE
    Graces = {0, 1}
    MaxPods = 2
    MaxBreaks = 0
    MaxEvents = 2
    LastChange = 1
    MaxTime = 4
    PodTimeout = 1
    host = host
    pod = pod
    far = far
    z1 = z1
    z2 = z2
    NodeNames = {n1, n2}
    NodeIPs = {host}
    PodAddrs = {pod}
    Public = {far}
    Zones = {z1, z2}
    NoZone = NoZone
    NoNode = NoNode
    NoAddr = NoAddr
    MaxChanges = 2
SYMMETRY Symmetry
INVARIANTS
    TypeOK
    GhostsAreTracked
    KnownSourceKept
    CrossZoneSound
    DestinationFound
PROPERTIES
    RetainsDeleted
CHECK_DEADLOCK FALSE
