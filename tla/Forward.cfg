CONSTANTS
    Chunks <- MCChunks
    Window = 1
    MaxConn = 1
    MaxCalls = 2
SPECIFICATION FairSpec
INVARIANTS
    TypeOK
    WholeUnlessCrossed
PROPERTIES
    EndsTogether
CHECK_DEADLOCK FALSE
