CONSTANTS
    User <- MCUser
    NoUser = NoUser
    Port <- MCPort
    Host <- MCHost
    Word <- MCWord
    Proto <- MCProto
    L4Proto <- MCL4Proto
    AppendUdp <- MCAppendUdp
    Invalid = Invalid
    Text <- MCText
    Addr <- MCAddr
    Content <- MCContent
    Malformed = Malformed
    NoContent = NoContent
    AuthUser <- Bob
    Session = {s1}
SPECIFICATION FairSpec
INVARIANTS
    TypeOK
    AccessOfOwnUser
    RemotesDecodable
    TableEmptied
    IndexOfOneFile
PROPERTIES
    WrittenIsLoaded
