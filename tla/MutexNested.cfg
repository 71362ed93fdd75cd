SPECIFICATION Spec
CONSTANTS
    Threads = {t1, t2, t3, t4}
    NoThread = NoThread
    MaxDepth = 4
INVARIANTS TypeOK Exclusion CountedByOwner
PROPERTY ImplementsLock
