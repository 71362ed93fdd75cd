SPECIFICATION Spec
CONSTANTS
    Requests <- MixedRequests
    Servers = {1, 2, 3}
    Link <- TwoLinks
    NameLength <- Names
    Spare = 230
    Configured = 240
    MaxAlloc = 275
CHECK_DEADLOCK FALSE
INVARIANTS
    HeardAsTold
    StaysInside
