SPECIFICATION FairSpec
CHECK_DEADLOCK FALSE
CONSTANTS
    Client = {1, 2, 3}
    Feature = {1}
    Prompt <- MCPrompt
    MaxTokens = 3
    Headroom = 1
    KvTokens = 4
    Lanes = 2
    MaxWaiting = 1
    Budget = 2
    Chunk = 1
    Recurrent = FALSE
    Capacity = 2
    Permits = 2
    Faults = {"setup", "run", "missing", "panic"}
INVARIANTS
    TypeOK
    Tracked
    MemoryHeld
    ContextIsWhole
    SessionStays
    TokensReachTheirRequest
    LanesComeBack
PROPERTIES
    Answered
