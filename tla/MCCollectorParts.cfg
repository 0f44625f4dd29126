SPECIFICATION PartsSpec
CONSTANTS
    n1 = n1
    n2 = n2
    ip1 = ip1
    Names = {n1, n2}
    IPs = {ip1}
    NameReuse = TRUE
    Graces = {0}
    MaxPods = 2
    MaxBreaks = 1
    MaxEvents = 2
    LastChange = 1
    MaxTime = 2
    a = a
    b = b
    c = c
    vip = vip
    far = far
    h1 = h1
    h2 = h2
    Hosts = {h1, h2}
    PodIPs = {a, b, c}
    Home <- MCHome
    Tracked = {a, c}
    VIPs = {vip}
    Outside = {far}
    HostIP <- MCHostIP
    Ports = {1, 2}
    Protos = {6}
    MaxFlows = 2
    MaxBytes = 1
    Elapsed <- MCElapsed
    Jitter = 1
    Lives <- MCLives
INVARIANTS
    TypeOK
    NoLeak
    EndsForAReason
    EachEndOnce
    KeysDiffer
    HertzMeasured
    ExpirySound
PROPERTIES
    RunningIsSeen
    ProgramEnds
    CollectReturnsAlways
CHECK_DEADLOCK FALSE
