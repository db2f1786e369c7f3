----------------------------- MODULE UdpListener ----------------------------
(***************************************************************************)
(* The near end of a UDP remote (share/tunnel/tunnel_in_proxy_udp.go): the *)
(* loops runInbound and runOutbound, the channel they share, which         *)
(* getUDPChan caches under outboundMut, and the goroutines of              *)
(* unsetUDPChan that clear it when its connection is gone.                 *)
(*                                                                         *)
(* The tunnel is what module Endpoint shows of it: it has an active        *)
(* connection or none, the active one may be lost already, and getSSH      *)
(* waits for one, or answers nil when the context is cancelled, when its   *)
(* time-out is over, or when the group is open without a connection.       *)
(*                                                                         *)
(* An error that ends in "EOF" is not an error for the two loops; the      *)
(* error of a lost connection may or may not end so.                       *)
(***************************************************************************)
EXTENDS UdpStreams

CONSTANT Nobody

Loop == {"inbound", "outbound"}

ASSUME NobodyAssumption == Nobody \notin Loop

VARIABLES
    active,     \* the connection of the tunnel, or NoConn
    made,       \* how many connections were made
    cancelled,  \* the context of the proxy is done
    pc,         \* [Loop -> its next step]
    using,      \* [Loop -> the channel it holds]
    mutex,      \* who holds outboundMut
    outbound,   \* the cached channel, or NoConn
    unsetters   \* [Conn -> goroutines of unsetUDPChan that wait for it]

tunnelVars == <<active, made, cancelled>>
loopVars == <<pc, using>>
chanVars == <<mutex, outbound, unsetters>>
listenerVars == <<tunnelVars, loopVars, chanVars>>

ListenerInit ==
    /\ active = NoConn /\ made = 0
    /\ cancelled = FALSE
    /\ pc = [l \in Loop |-> "top"]
    /\ using = [l \in Loop |-> NoConn]
    /\ mutex = Nobody
    /\ outbound = NoConn
    /\ unsetters = [c \in Conn |-> 0]

ListenerGoTo(l, step) == pc' = [pc EXCEPT ![l] = step]

(* The context of the errgroup: cancelled, or one loop has failed.         *)
GroupDone == cancelled \/ \E l \in Loop : pc[l] = "failed"

Leave(l, step) ==
    /\ ListenerGoTo(l, step)
    /\ using' = [using EXCEPT ![l] = NoConn]

Again(l) == Leave(l, "top")

Fail(l) == Leave(l, "failed")

-----------------------------------------------------------------------------
(* Mutant: the loop does not look at the context.                          *)
Top_NoCheck(l) ==
    /\ pc[l] = "top"
    /\ ListenerGoTo(l, "get")
    /\ IF l = "inbound" THEN Datagram ELSE UNCHANGED traffic
    /\ UNCHANGED <<up, shut, there, back, tunnelVars, using, chanVars>>

(* Each iteration of a loop looks at the context first; runInbound then    *)
(* reads a datagram, or comes back after a second without one.             *)
Top(l) ==
    /\ pc[l] = "top"
    /\ IF GroupDone
       THEN ListenerGoTo(l, "ended") /\ UNCHANGED traffic
       ELSE /\ ListenerGoTo(l, "get")
            /\ IF l = "inbound" THEN Datagram ELSE UNCHANGED traffic
    /\ UNCHANGED <<up, shut, there, back, tunnelVars, using, chanVars>>

(* Mutant: getUDPChan does not look at the cached channel.                 *)
Get_NoCache(l) ==
    /\ pc[l] = "get" /\ mutex = Nobody
    /\ mutex' = l
    /\ ListenerGoTo(l, "ssh")
    /\ UNCHANGED <<streamVars, tunnelVars, using, outbound, unsetters>>

(* getUDPChan: the cached channel, or a new one, for which outboundMut is  *)
(* held all through getSSH and OpenChannel.                                *)
Get(l) ==
    /\ pc[l] = "get" /\ mutex = Nobody
    /\ IF outbound # NoConn
       THEN /\ using' = [using EXCEPT ![l] = outbound]
            /\ ListenerGoTo(l, "use")
            /\ UNCHANGED mutex
       ELSE mutex' = l /\ ListenerGoTo(l, "ssh") /\ UNCHANGED using
    /\ UNCHANGED <<streamVars, tunnelVars, outbound, unsetters>>

(* Mutant: nil is taken for a connection.                                  *)
GetSSH_NoNilTest(l) ==
    /\ pc[l] = "ssh"
    /\ using' = [using EXCEPT ![l] = active]
    /\ ListenerGoTo(l, "open")
    /\ UNCHANGED <<streamVars, tunnelVars, chanVars>>

GetSSH(l) ==
    /\ pc[l] = "ssh"
    /\ active # NoConn
    /\ using' = [using EXCEPT ![l] = active]
    /\ ListenerGoTo(l, "open")
    /\ UNCHANGED <<streamVars, tunnelVars, chanVars>>

(* "ssh-conn nil" is an error that ends the loop.  getSSH looks at the     *)
(* context of the errgroup.                                                *)
Nil(l) ==
    /\ pc[l] = "ssh"
    /\ mutex' = Nobody
    /\ Fail(l)
    /\ UNCHANGED <<streamVars, tunnelVars, outbound, unsetters>>

(* The context is done.                                                    *)
GetCancelled(l) == GroupDone /\ Nil(l)

(* SSH_WAIT is over, or the group is open without a connection.            *)
GetNothing(l) == ~GroupDone /\ active = NoConn /\ Nil(l)

(* Mutant: no unsetUDPChan is started.                                     *)
OpenChannel_NoUnset(l) ==
    /\ pc[l] = "open"
    /\ using[l] \in up
    /\ outbound' = using[l]
    /\ mutex' = Nobody
    /\ ListenerGoTo(l, "use")
    /\ UNCHANGED <<streamVars, tunnelVars, using, unsetters>>

OpenChannel(l) ==
    /\ pc[l] = "open"
    /\ using[l] \in up
    /\ outbound' = using[l]
    /\ unsetters' = [unsetters EXCEPT ![using[l]] = @ + 1]
    /\ mutex' = Nobody
    /\ ListenerGoTo(l, "use")
    /\ UNCHANGED <<streamVars, tunnelVars, using>>

OpenFails(l) ==
    /\ pc[l] = "open"
    /\ using[l] \notin up
    /\ mutex' = Nobody
    /\ Again(l) \/ Fail(l)
    /\ UNCHANGED <<streamVars, tunnelVars, outbound, unsetters>>

-----------------------------------------------------------------------------
(* runInbound sends the datagram; on a channel that has ended it is lost.  *)
InboundEncode ==
    /\ pc["inbound"] = "use"
    /\ \E s \in Source : Encode(there, using["inbound"], s)
    /\ Again("inbound")
    /\ UNCHANGED <<up, shut, back, traffic, tunnelVars, chanVars>>

InboundEOF ==
    /\ pc["inbound"] = "use"
    /\ Ended(using["inbound"])
    /\ Again("inbound") \/ (using["inbound"] \notin up /\ Fail("inbound"))
    /\ UNCHANGED <<streamVars, tunnelVars, chanVars>>

(* runOutbound writes an answer back to its source.                        *)
OutboundDecode ==
    /\ pc["outbound"] = "use"
    /\ Decode(back, using["outbound"])
    /\ Again("outbound")
    /\ UNCHANGED <<up, shut, there, traffic, tunnelVars, chanVars>>

(* "outbound ssh disconnected, get new connection..."                      *)
OutboundEOF ==
    /\ pc["outbound"] = "use"
    /\ Ended(using["outbound"])
    /\ Again("outbound") \/ (using["outbound"] \notin up /\ Fail("outbound"))
    /\ UNCHANGED <<streamVars, tunnelVars, chanVars>>

(* A read or a write of the UDP socket fails.                              *)
SocketFails(l) ==
    /\ \/ l = "inbound" /\ pc[l] = "top"
       \/ l = "outbound" /\ pc[l] = "use" /\ back[using[l]] # <<>>
    /\ ~GroupDone
    /\ Fail(l)
    /\ UNCHANGED <<streamVars, tunnelVars, chanVars>>

(* unsetUDPChan.                                                           *)
Unset(c) ==
    /\ unsetters[c] > 0 /\ c \notin up
    /\ mutex = Nobody
    /\ unsetters' = [unsetters EXCEPT ![c] = @ - 1]
    /\ outbound' = NoConn
    /\ UNCHANGED <<streamVars, tunnelVars, loopVars, mutex>>

(* run returns.  If a loop has failed, so do the proxy and BindRemotes,    *)
(* and the context of the others is cancelled.                             *)
Returned == \A l \in Loop : pc[l] \in {"ended", "failed"}

RunFails ==
    /\ Returned /\ \E l \in Loop : pc[l] = "failed"
    /\ ~cancelled
    /\ cancelled' = TRUE
    /\ UNCHANGED <<streamVars, active, made, loopVars, chanVars>>

-----------------------------------------------------------------------------
ListenerTypeOK ==
    /\ active \in Conn \cup {NoConn} /\ made \in 0..MaxConn
    /\ cancelled \in BOOLEAN
    /\ pc \in [Loop -> {"top", "get", "ssh", "open", "use", "ended", "failed"}]
    /\ using \in [Loop -> Conn \cup {NoConn}]
    /\ \A l \in Loop : pc[l] \in {"open", "use"} <=> using[l] \in Conn
    /\ mutex \in Loop \cup {Nobody}
    /\ outbound \in Conn \cup {NoConn}
    /\ unsetters \in [Conn -> Nat]

(* The cached channel has exactly one unsetUDPChan, and no channel that is *)
(* not cached has one: a late unsetUDPChan of an old connection never      *)
(* takes away the channel of a newer one, and no dead one stays for ever.  *)
OneUnsetter ==
    \A c \in Conn : unsetters[c] = IF outbound = c THEN 1 ELSE 0
=============================================================================
