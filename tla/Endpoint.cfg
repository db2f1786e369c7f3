CONSTANTS
    MaxConn = 2
    Getter = {g1}
    NoConn = NoConn
    Binder = Binder
    MaxRetryCount = 1
SPECIFICATION FairSpec
INVARIANTS
    TypeOK
    CountersAgree
    BoundMeansReady
    NoDoubleBind
    ServerGetBlocks
    FirstGetBlocks
    PanicOnlyByRace
PROPERTIES
    WaitingGetterServed
    StopEndsAll
    LinkSpec
CHECK_DEADLOCK FALSE
