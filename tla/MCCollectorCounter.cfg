SPECIFICATION HFairSpec
CONSTANTS
    Conns <- TwoConns
    pod = pod
    hostPod = hostPod
    excludedPod = excludedPod
    Pods = {pod}
    PodIP <- MCPodIP
    HostNetworkPods = {hostPod}
    ExcludedPods = {excludedPod}
    PrivateIPs = {"10.0.0.1"}
    GroupPublicIPs = TRUE
    SendTrafficDelta = FALSE
    Untimed <- SecondConn
    Timeouts = {0}
    SentLifetime = 1
    MaxTime = 2
    MaxBytes = 2
    MaxTraffic = 2
    MaxRecount = 1
INVARIANTS
    BooksBalance
PROPERTIES
    GrowsUntilDropped
    CollectCompletes
    EventuallySeen
