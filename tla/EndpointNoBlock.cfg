CONSTANTS
    MaxConn = 2
    Getter = {g1}
    NoConn = NoConn
    Binder = Binder
    MaxRetryCount = 1
SPECIFICATION Spec
INVARIANTS
    GetBlocksWhileConnecting
CHECK_DEADLOCK FALSE
