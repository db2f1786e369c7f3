CONSTANTS
    Identity <- OneIdentity
    NoIdentity = NoIdentity
    ClientPort = {80}
    Port <- ZeroAndOne
    MinPort = 1
    MaxPort = 1
    Alloc = {a1, a2, a3}
    NoAlloc = NoAlloc
    Session = {s1, s2}
    Hold = 0
    RemoteLists <- MixedRemoteLists
    ReverseEnabled = TRUE
    NoSession = NoSession
    Leaked = Leaked
SPECIFICATION FairSpec
INVARIANTS
    SessionHoldsItsRecord
    ListenersHaveSession
PROPERTIES
    LostSessionEnds
VIEW MCSessionView
