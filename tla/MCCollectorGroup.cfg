SPECIFICATION HSpec
CONSTANTS
    Conns <- TwoConns
    pod = pod
    hostPod = hostPod
    excludedPod = excludedPod
    Pods = {pod}
    PodIP <- MCPodIP
    HostNetworkPods = {hostPod}
    ExcludedPods = {excludedPod}
    PrivateIPs = {"10.0.0.1"}
    GroupPublicIPs = TRUE
    SendTrafficDelta = TRUE
    Untimed <- SecondConn
    Timeouts = {0, 1}
    SentLifetime = 1
    MaxTime = 2
    MaxBytes = 1
    MaxTraffic = 1
    MaxRecount = 1
INVARIANTS
    BooksBalance
    MetricOutlivesEntries
