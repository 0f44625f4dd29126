SPECIFICATION Spec
CONSTANTS
    n1 = n1
    n2 = n2
    ip1 = ip1
    Names = {n1, n2}
    IPs = {ip1}
    NameReuse = TRUE
    Graces = {0}
    MaxPods = 2
    MaxBreaks = 0
    MaxEvents = 2
    LastChange = 2
    MaxTime = 4
    PodTimeout = 1
PROPERTIES
    PrefersNewestRunning
CHECK_DEADLOCK FALSE
