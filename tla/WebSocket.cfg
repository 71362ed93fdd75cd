SPECIFICATION Spec
CONSTANTS
    Streams <- Clients
    Hosts = {"nginx", "apache"}
    BlockSize = 16
    Pieces = {3}
    Lost = {0, 2}
    Faults = {"refuse", "reset", "memory"}
    MaxSent = 1
INVARIANTS
    TypeOK
    PongsMatch
PROPERTIES
    ImplementsMessages
    SessionEnds
    EndTold
CHECK_DEADLOCK FALSE
