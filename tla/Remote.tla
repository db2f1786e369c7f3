------------------------------- MODULE Remote -------------------------------
(***************************************************************************)
(* Remotes: what a client is told on its command line, decoded, and        *)
(* encoded again (share/settings/remote.go).                               *)
(*                                                                         *)
(* A text is the prefix "R:" or not, and the parts between the colons.  A  *)
(* part is a word, out of which L4Proto takes the protocol at its end; what*)
(* is left may end in a protocol again.  Words are ports, hosts, and words *)
(* that are neither; "socks" and "stdio" are hosts where they mean nothing *)
(* else.                                                                   *)
(***************************************************************************)
EXTENDS Naturals, Sequences

CONSTANTS
    Port,           \* the words isPort accepts
    Host,           \* the words isHost accepts and isPort does not
    Word,           \* all words
    Proto,          \* what L4Proto returns: it keeps the case of the letters
    L4Proto,        \* [Word -> the word before the protocol, the protocol]
    AppendUdp,      \* a word with "/udp" behind it
    Invalid         \* the error of DecodeRemote

Keyword == {"socks", "stdio", "R", "0.0.0.0", "127.0.0.1"}

ASSUME WordAssumption ==
    /\ Port \cap Host = {}
    /\ Port \cup Host \cup {""} \subseteq Word
    /\ Keyword \subseteq Host
    /\ "1080" \in Port
    /\ "" \notin Port
ASSUME ProtoAssumption == {"", "tcp", "udp"} \subseteq Proto

Plain(w) == L4Proto[w].proto = ""

ASSUME L4ProtoAssumption ==
    /\ L4Proto \in [Word -> [word : Word, proto : Proto]]
    /\ \A w \in Word : Plain(w) <=> L4Proto[w].word = w
    /\ \A w \in Port \cup Keyword \cup {""} : Plain(w)
ASSUME AppendAssumption ==
    /\ AppendUdp \in [Port \cup {"", "socks"} -> Word]
    /\ \A w \in Port \cup {"", "socks"} :
          L4Proto[AppendUdp[w]] = [word |-> w, proto |-> "udp"]

Record ==
    [localHost : Host \cup {""}, localPort : Port \cup {""}, localProto : Proto,
     remoteHost : Host \cup {""}, remotePort : Port \cup {""}, remoteProto : Proto,
     socks : BOOLEAN, reverse : BOOLEAN, stdio : BOOLEAN]

ASSUME InvalidAssumption == Invalid \notin Record

Blank(reverse) ==
    [localHost |-> "", localPort |-> "", localProto |-> "",
     remoteHost |-> "", remotePort |-> "", remoteProto |-> "",
     socks |-> FALSE, reverse |-> reverse, stdio |-> FALSE]

-----------------------------------------------------------------------------
(* DecodeRemote, with the parts from back to front.                        *)

(* The protocol of a part belongs to the remote side, unless that has its  *)
(* port already.                                                           *)
TakeProto(r, proto) ==
    IF proto = "" THEN r
    ELSE IF r.remotePort = "" THEN [r EXCEPT !.remoteProto = proto]
    ELSE IF r.localProto = "" THEN [r EXCEPT !.localProto = proto]
    ELSE r

TakePort(r, w) ==
    [r EXCEPT !.localPort = w,
              !.remotePort = IF ~r.socks /\ @ = "" THEN w ELSE @]

TakeHost(r, w) ==
    IF ~r.socks /\ r.remoteHost = "" THEN [r EXCEPT !.remoteHost = w]
                                     ELSE [r EXCEPT !.localHost = w]

NoPorts(r) == ~r.socks /\ r.remotePort = "" /\ r.localPort = ""

(* The i-th of n parts.                                                    *)
TakePart(r, part, i, n) ==
    LET p == L4Proto[part]
        q == TakeProto(r, p.proto)
    IN  IF r = Invalid THEN Invalid
        ELSE IF i = n /\ part = "socks" THEN [r EXCEPT !.socks = TRUE]
        ELSE IF i = 1 /\ part = "stdio" THEN [r EXCEPT !.stdio = TRUE]
        ELSE IF p.word \in Port THEN TakePort(q, p.word)
        ELSE IF NoPorts(q) \/ p.word \notin Host THEN Invalid
        ELSE TakeHost(q, p.word)

Or(field, default) == IF field = "" THEN default ELSE field

Defaults(r) ==
    LET proto == Or(r.remoteProto, "tcp")
    IN  [r EXCEPT !.localHost = Or(@, IF r.socks THEN "127.0.0.1" ELSE "0.0.0.0"),
                  !.localPort = IF r.socks THEN Or(@, "1080") ELSE @,
                  !.remoteHost = IF r.socks THEN @ ELSE Or(@, "127.0.0.1"),
                  !.remoteProto = proto,
                  !.localProto = Or(@, proto)]

Supported(r) ==
    /\ r.localProto = r.remoteProto
    /\ r.socks => r.remoteProto = "tcp"
    /\ ~(r.stdio /\ r.reverse)

(* The k-th part from the end, if there are so many.                       *)
Step(text, k, r) ==
    LET n == Len(text.parts)
        i == n + 1 - k
    IN  IF k > n THEN r ELSE TakePart(r, text.parts[i], i, n)

(* A text of more than four parts is refused before the loop.              *)
Taken(text) ==
    Step(text, 4, Step(text, 3, Step(text, 2, Step(text, 1, Blank(text.reverse)))))

DecodeRemote(text) ==
    LET r == Taken(text)
    IN  IF Len(text.parts) \notin 1..4 \/ r = Invalid THEN Invalid
        ELSE IF Supported(Defaults(r)) THEN Defaults(r)
        ELSE Invalid

-----------------------------------------------------------------------------
(* The parts of an address; an empty port is none.                         *)
Address(host, port) == IF port = "" THEN <<host>> ELSE <<host, port>>

(* Local, the decodable local portion; Remote, the decodable remote one,   *)
(* and what Encode writes behind it.                                       *)
LocalPart(r) ==
    IF r.stdio THEN <<"stdio">>
    ELSE Address(Or(r.localHost, "0.0.0.0"), Or(r.localPort, r.remotePort))

Suffixed(r, w) == IF r.remoteProto = "udp" THEN AppendUdp[w] ELSE w

RemotePart(r) ==
    IF r.socks THEN <<Suffixed(r, "socks")>>
    ELSE Address(Or(r.remoteHost, "127.0.0.1"), Suffixed(r, r.remotePort))

(* A text is read again as parts behind "R:" if its first part is "R".     *)
Written(reverse, parts) ==
    IF ~reverse /\ parts[1] = "R"
    THEN [reverse |-> TRUE, parts |-> Tail(parts)]
    ELSE [reverse |-> reverse, parts |-> parts]

(* Mutant: the protocol is not written.                                    *)
Encode_NoProto(r) ==
    Written(r.reverse, LocalPart(r) \o RemotePart([r EXCEPT !.remoteProto = ""]))

Encode(r) == Written(r.reverse, LocalPart(r) \o RemotePart(r))

UserAddr(r) ==
    IF r.reverse THEN <<"R", r.localHost, r.localPort>>
                 ELSE <<r.remoteHost, r.remotePort>>

-----------------------------------------------------------------------------
(* A stdio remote does not listen.                                         *)
Meaning(r) == IF r.stdio THEN [r EXCEPT !.localHost = "", !.localPort = ""] ELSE r

(* What Encode writes DecodeRemote reads, and finds the same remote ("the  *)
(* decodable local portion", "the decodable remote portion", remote.go:196 *)
(* and :207).                                                              *)
Decodable(r) ==
    LET q == DecodeRemote(Encode(r))
    IN  q # Invalid /\ Meaning(q) = Meaning(r)

(* The remotes of which this is not so: "stdio" alone gets no port; a      *)
(* local host of the name "stdio" or "R", which was not the first part, is *)
(* taken for the keyword or the prefix; of the protocols Encode writes     *)
(* "udp" only, whose letters may have been capitals; and a host that ends  *)
(* in a protocol still, as that of "h/tcp/tcp:80" does, loses it.          *)
Unwritable(r) ==
    \/ r.stdio /\ ~r.socks /\ r.remotePort = ""
    \/ ~r.stdio /\ r.localHost = "stdio"
    \/ ~r.stdio /\ ~r.reverse /\ r.localHost = "R"
    \/ r.remoteProto \notin {"tcp", "udp"}
    \/ ~r.stdio /\ ~Plain(r.localHost)
    \/ ~r.socks /\ ~Plain(r.remoteHost)
=============================================================================
