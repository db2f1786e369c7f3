CONSTANTS
    Source = {s1, s2}
    MaxConn = 2
    NoConn = NoConn
    Nobody = Nobody
    Window = 1
    MaxTraffic = 2
    MaxReaders = 1
    NoSource = NoSource
SPECIFICATION FairSpec
PROPERTIES
    EndedChannelReplaced
CHECK_DEADLOCK FALSE
