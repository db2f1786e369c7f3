CONSTANTS
    Source = {s1, s2}
    MaxConn = 2
    NoConn = NoConn
    Nobody = Nobody
    Window = 1
    MaxTraffic = 2
    MaxReaders = 1
    NoSource = NoSource
SPECIFICATION FairSpec
INVARIANTS
    TypeOK
    OneUnsetter
    ReadersBounded
PROPERTIES
    LostChannelCleared
    StopEndsListener
CHECK_DEADLOCK FALSE
VIEW MCView
