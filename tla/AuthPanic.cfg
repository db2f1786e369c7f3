CONSTANTS
    User <- MCUser
    NoUser = NoUser
    Port <- MCPort
    Host <- MCHost
    Word <- MCWord
    Proto <- MCProto
    L4Proto <- MCL4Proto
    AppendUdp <- MCAppendUdp
    Invalid = Invalid
    Text <- MCText
    Addr <- MCAddr
    Content <- MCContent
    Malformed = Malformed
    NoContent = NoContent
    AuthUser = NoUser
    Session = {s1}
SPECIFICATION Spec
INVARIANT NoAuthBug
