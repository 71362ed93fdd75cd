SPECIFICATION Spec
CONSTANTS
    Threads = {t1,t2}
    NoThread = NoThread
    MaxBindings = 1
    Faults = {"call"}
PROPERTY ServedSafely
CHECK_DEADLOCK FALSE
