SPECIFICATION Spec
CONSTANTS
    Answers <- MixedAnswers
    Room = 4
    Slack = 2
    MarkLen = 2
    PreLen = 2
    Chunking = 8
    MaxClen = 6
    Width = 256
    Places = {4, 16, 64}
    MaxRequests = 2
    Faults = {"timeout", "eof", "error", "memory", "client"}
CHECK_DEADLOCK FALSE
INVARIANTS
    TypeOK
    CleanReuse
PROPERTIES
    ClientSeesThePipe
    AnswerEnds
