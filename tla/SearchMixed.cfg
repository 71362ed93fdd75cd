SPECIFICATION Spec
CONSTANTS
    SrvMax = 4
    Exclusive = {2, 4}
    LoadBalancing = FALSE
    HealthChecked = {1, 2, 3}
INVARIANTS
    TypeOK
PROPERTIES
    FoundIfAny
    LoopMatchesOutcome
    EndsUnlessSpinning
