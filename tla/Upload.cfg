SPECIFICATION Spec
CONSTANTS
    Bodies <- MixedBodies
    Adapters = {"nginx", "apache", "iis"}
    Links = {"tcp", "api"}
    Paths <- TwoPaths
    Scripts <- SomeScripts
    Foreign <- Image
    Names <- TwoServers
    Variables <- TwoVariables
    Cookie = "mg"
    Asks <- SomeAsks
    Orders = {"none", "variable", "cookie"}
    FormFits = 1
    Alloc = 4
    MaxString <- Limits
    BoundaryLen = 2
    Faults = {"write", "reset", "leave", "memory", "pool"}
CHECK_DEADLOCK FALSE
INVARIANTS
    TypeOK
    FramesMatch
    ContentInOrder
    AnsweredWhenComplete
    BlocksFit
    AffinityFollowed
PROPERTIES
    UploadEnds
