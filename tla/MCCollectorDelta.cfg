SPECIFICATION HSpec
CONSTANTS
    Conns <- OneConn
    pod = pod
    hostPod = hostPod
    excludedPod = excludedPod
    Pods = {pod}
    PodIP <- MCPodIP
    HostNetworkPods = {hostPod}
    ExcludedPods = {excludedPod}
    PrivateIPs = {"10.0.0.1"}
    GroupPublicIPs = TRUE
    SendTrafficDelta = TRUE
    Untimed = {}
    Timeouts = {0, 1}
    SentLifetime = 1
    MaxTime = 3
    MaxBytes = 3
    MaxTraffic = 3
    MaxRecount = 1
INVARIANTS
    TypeOK
    NoOvercount
    ExactOnFirstLife
PROPERTIES
    ImplementsLedger
