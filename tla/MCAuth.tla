------------------------------- MODULE MCAuth -------------------------------
(* Auth with two names, of which one may come with two passwords in one    *)
(* file, with a user of --auth, and with clients that are told to open any *)
(* text of up to four parts, among them words that DecodeRemote takes for  *)
(* keywords in one place and for hosts in another, words that end in a     *)
(* protocol, once or twice, and one that is no host; or that send a record *)
(* no text gives.                                                          *)
EXTENDS Auth

MCPort == {"80", "1080"}
MCHost == {"", "h", "h/tcp", "80/tcp", "R", "socks", "stdio", "0.0.0.0", "127.0.0.1"}

MCProto == {"", "tcp", "udp", "UDP"}

Ends(w, proto) == [word |-> w, proto |-> proto]

(* The words that end in a protocol: what is before it, and what it is.    *)
Ending ==
    {<<"80/udp", "80", "udp">>,         <<"80/UDP", "80", "UDP">>,
     <<"1080/udp", "1080", "udp">>,     <<"socks/udp", "socks", "udp">>,
     <<"stdio/udp", "stdio", "udp">>,   <<"/udp", "", "udp">>,
     <<"80/tcp", "80", "tcp">>,         <<"h/tcp", "h", "tcp">>,
     <<"80/tcp/tcp", "80/tcp", "tcp">>, <<"h/tcp/tcp", "h/tcp", "tcp">>}

MCWord == MCPort \cup MCHost \cup {"%"} \cup {e[1] : e \in Ending}

MCL4Proto ==
    [w \in MCWord |->
        IF \E e \in Ending : e[1] = w
        THEN LET e == CHOOSE e \in Ending : e[1] = w IN Ends(e[2], e[3])
        ELSE Ends(w, "")]

MCAppendUdp ==
    [w \in {"80", "1080", "", "socks"} |->
        CHOOSE x \in MCWord : MCL4Proto[x] = Ends(w, "udp")]

MCPart ==
    {"80", "R", "socks", "stdio", "%", "80/udp", "80/UDP", "/udp", "stdio/udp",
     "h/tcp", "h/tcp/tcp", "80/tcp/tcp"}

MCText ==
    {Written(rev, parts) : rev \in BOOLEAN, parts \in UNION {[1..n -> MCPart] : n \in 1..4}}

(* The addresses of decoded remotes, and that of a record no text gives.   *)
MCAddr == {UserAddr(r) : r \in Wanted} \cup {<<"R", "", "80">>}

Ann  == [name |-> "ann", pass |-> "p",
         addrs |-> {{<<"127.0.0.1", "80">>}, {a \in MCAddr : a[1] = "R"}}]
Ann2 == [name |-> "ann", pass |-> "q", addrs |-> {MCAddr}]
Bob  == [name |-> "bob", pass |-> "q", addrs |-> {MCAddr}]

MCUser == {Ann, Ann2, Bob}

MCContent == {{}, {Ann, Ann2}, {Bob}}
=============================================================================
