SPECIFICATION Spec
CONSTANTS
    t1 = t1
    t2 = t2
    t3 = t3
    Threads = {t1}
    SrvMax = 3
    Exclusive = {2}
    LoadBalancing = FALSE
    HealthChecked = {1}
    MaxSlots = 3
    Api = {}
    MaxConnections <- NoLimit
    QueueTimeout = 1
    Preferences = {2, 4}
    Faults = {"stale", "connect", "receive", "client", "send", "stream", "admin"}
INVARIANTS
    TypeOK
    RetryInProgress
    NoLostSlot
PROPERTIES
    ReservedApart
    NeverDispatchedAgain
CHECK_DEADLOCK FALSE
