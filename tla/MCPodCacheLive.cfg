SPECIFICATION FairSpec
CONSTANTS
    n1 = n1
    n2 = n2
    ip1 = ip1
    Names = {n1}
    IPs = {ip1}
    NameReuse = TRUE
    Graces = {0, 1}
    MaxPods = 2
    MaxBreaks = 1
    MaxEvents = 1
    LastChange = 1
    MaxTime = 3
    PodTimeout = 0
PROPERTIES
    GhostsLeave
    ResyncRepairs
CHECK_DEADLOCK FALSE
