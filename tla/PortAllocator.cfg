CONSTANTS
    Identity <- MCIdentity
    NoIdentity = NoIdentity
    ClientPort = {80, 81}
    Port <- MCPort
    MinPort = 1
    MaxPort = 1
    Alloc = {a1, a2, a3, a4}
    NoAlloc = NoAlloc
    Session = {s1}
    Hold = 1
SPECIFICATION TimerSpec
INVARIANTS
    AllocTypeOK
    IndexSound
PROPERTIES
    OperationsKeepLeases
    HangingEnds
VIEW MCView
