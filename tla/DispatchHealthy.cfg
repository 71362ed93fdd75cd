SPECIFICATION Spec
CONSTANTS
    t1 = t1
    t2 = t2
    t3 = t3
    Threads = {t1, t2, t3}
    SrvMax = 2
    Exclusive = {}
    LoadBalancing = TRUE
    HealthChecked = {}
    MaxSlots = 3
    Api = {2}
    MaxConnections <- LimitTwo
    QueueTimeout = 1
    Preferences = {1}
    Faults = {"stale", "idle", "memory", "admin"}
SYMMETRY Symmetry
INVARIANTS
    ExclusiveUse
    RoutedToChosen
