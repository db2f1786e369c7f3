CONSTANTS
    Identity <- MCIdentity
    NoIdentity = NoIdentity
    ClientPort = {80}
    Port <- MCPort
    MinPort = 1
    MaxPort = 2
    Alloc = {a1, a2, a3, a4}
    NoAlloc = NoAlloc
    Session = {s1, s2}
    Hold = 0
    RemoteLists <- OneRemoteLists
    ReverseEnabled = TRUE
    NoSession = NoSession
    Leaked = Leaked
SPECIFICATION Spec
INVARIANTS
    TypeOK
    SessionHoldsItsRecord
    ListenersHaveSession
    TablesAgree
PROPERTIES
    NoTakeover
    StatusKeptWhileHeld
    AllocSpec
    LeasingSpec
VIEW MCView
