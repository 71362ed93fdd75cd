SPECIFICATION Spec
CONSTANTS
    Threads = {t1,t2}
    NoThread = NoThread
    MaxBindings = 2
    Faults = {"load", "attach", "call", "client"}
INVARIANTS TypeOK SoleCaller
PROPERTIES
    MutexGivenBack
    SafeUntilClosed
CHECK_DEADLOCK FALSE
