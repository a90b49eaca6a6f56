CONSTANTS
    Threads = {"t1", "t2"}
    TagLists <- MCTagLists
    BadTags <- MCBadTags
    Stacks <- MCStacks
    Reasons = {"truncated"}
    Backends = {"PySpy", "Signal"}
    BackendConfig <- MCBackendConfig
    Id <- MCId
    Period = 10
    MaxValue = 9
    MaxBlocks = 2
    MaxSamples = 2
    MaxAgents = 2
SPECIFICATION Spec
INVARIANTS
    TypeOK
    NoLeakedTags
    LabelsTrue
    ProfileExact
CHECK_DEADLOCK FALSE
