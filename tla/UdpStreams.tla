----------------------------- MODULE UdpStreams -----------------------------
(***************************************************************************)
(* What the two ends of a UDP remote share: SSH connections, one after the *)
(* other, and on each of them the channel of the remote, a stream of gob   *)
(* packets each way (share/tunnel/udp.go).  A connection carries at most   *)
(* one channel of the remote, which has its number.                        *)
(*                                                                         *)
(* Of a packet, only the address of the source counts here.  A write waits *)
(* while Window packets are under way.  A channel ends with its connection *)
(* or because the handler at the far end returned; what is under way may   *)
(* still be read then, or be cut.                                          *)
(***************************************************************************)
EXTENDS Naturals, Sequences

CONSTANTS
    Source,         \* addresses of UDP clients
    MaxConn,        \* connections that are made, at most
    NoConn,
    Window,
    MaxTraffic      \* datagrams that come from sources, at most

Conn == 1..MaxConn

ASSUME MaxConnAssumption == MaxConn \in Nat \ {0} /\ NoConn \notin Conn
ASSUME WindowAssumption == Window \in Nat \ {0} /\ MaxTraffic \in Nat

VARIABLES
    up,         \* the connections that are open
    shut,       \* the channels whose far end has returned
    there,      \* [Conn -> packets from the listener to the handler]
    back,       \* [Conn -> packets from the handler to the listener]
    traffic     \* datagrams that came from sources

streamVars == <<up, shut, there, back, traffic>>

StreamsInit ==
    /\ up = {} /\ shut = {}
    /\ there = [c \in Conn |-> <<>>]
    /\ back = [c \in Conn |-> <<>>]
    /\ traffic = 0

Datagram ==
    /\ traffic < MaxTraffic
    /\ traffic' = traffic + 1

Ended(c) == c \notin up \/ c \in shut

(* Encode on an open channel.                                              *)
Encode(stream, c, p) ==
    /\ ~Ended(c) /\ Len(stream[c]) < Window
    /\ stream' = [stream EXCEPT ![c] = Append(@, p)]

(* Decode the next packet.                                                 *)
Decode(stream, c) ==
    /\ stream[c] # <<>>
    /\ stream' = [stream EXCEPT ![c] = Tail(@)]

StreamsTypeOK ==
    /\ up \subseteq Conn /\ shut \subseteq Conn
    /\ there \in [Conn -> Seq(Source)]
    /\ back \in [Conn -> Seq(Source)]
    /\ traffic \in 0..MaxTraffic
    /\ \A c \in Conn : Len(there[c]) <= Window /\ Len(back[c]) <= Window
=============================================================================
