SPECIFICATION Spec
CONSTANTS
    t1 = t1
    t2 = t2
    t3 = t3
    Threads = {t1, t2}
    SrvMax = 2
    Exclusive = {}
    LoadBalancing = FALSE
    HealthChecked = {}
    MaxSlots = 1
    Api = {}
    MaxConnections <- LimitOne
    QueueTimeout = 1
    Preferences = {}
    Faults = {"connect", "receive"}
INVARIANTS
    NoLostSlot
PROPERTIES
    NeverDispatchedAgain
    EveryRequestAnswered
