CONSTANTS
    Chunks <- MCChunks
    Window = 1
    MaxConn = 1
    MaxCalls = 2
SPECIFICATION FairSpec
PROPERTIES
    StopEndsProxy
CHECK_DEADLOCK FALSE
