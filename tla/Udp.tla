-------------------------------- MODULE Udp ---------------------------------
(***************************************************************************)
(* A UDP remote from end to end: the listener, the handlers of its         *)
(* channels, and the connections that come and go under them.              *)
(***************************************************************************)
EXTENDS UdpListener, UdpHandler

vars == <<streamVars, listenerVars, handlerVars>>

Init == StreamsInit /\ ListenerInit /\ HandlerInit

(* What module Endpoint is shown to do.                                    *)
Link == INSTANCE Link

Unlinked == <<loopVars, chanVars, handlerVars>>

(* The tunnel binds a connection when it has none; it is lost, or closed   *)
(* because the context is cancelled, and BindSSH sees it later.            *)
BindConn == Link!Bind /\ UNCHANGED <<shut, there, back, traffic, Unlinked>>

LoseConn(c) == Link!Lose(c) /\ UNCHANGED <<shut, there, back, traffic, Unlinked>>

CloseConn(c) == cancelled /\ LoseConn(c)

ClearConn == Link!Clear /\ UNCHANGED <<shut, there, back, traffic, Unlinked>>

Cancel == Link!Cancel /\ UNCHANGED <<shut, there, back, traffic, Unlinked>>

(* The channel is opened and its handler starts, both or neither.          *)
Open(l) ==
    /\ OpenChannel(l)
    /\ hpc' = [hpc EXCEPT ![using[l]] = "decode"]
    /\ UNCHANGED <<hsrc, flow>>
-----------------------------------------------------------------------------
Near(l) ==
    \/ (Top(l) \/ Get(l) \/ GetSSH(l) \/ GetCancelled(l) \/ OpenFails(l)) /\ UNCHANGED handlerVars
    \/ Open(l)

NearInbound ==
    \/ Near("inbound")
    \/ (InboundEncode \/ InboundEOF) /\ UNCHANGED handlerVars

NearOutbound ==
    \/ Near("outbound")
    \/ (OutboundDecode \/ OutboundEOF) /\ UNCHANGED handlerVars

Far(c) ==
    HandlerDecode(c) \/ Dial(c) \/ StartReader(c) \/ Write(c) \/ HandlerReturns(c)

FarReader(c, s) == Reply(c, s) \/ ReaderStops(c, s) \/ Remove(c, s)

Next ==
    \/ BindConn \/ ClearConn \/ Cancel
    \/ \E c \in Conn : LoseConn(c)
    \/ NearInbound \/ NearOutbound
    \/ /\ \/ \E l \in Loop : GetNothing(l) \/ SocketFails(l)
          \/ \E c \in Conn : Unset(c)
          \/ RunFails
       /\ UNCHANGED handlerVars
    \/ /\ \E c \in Conn : Far(c) \/ \E s \in Source : FarReader(c, s)
       /\ UNCHANGED listenerVars

Spec == Init /\ [][Next]_vars

(* The listener's goroutines run, and the tunnel closes what is cancelled  *)
(* (StopEndsAll of Endpoint).  Nothing makes connections, losses,          *)
(* datagrams or the far end's steps happen.                                *)
FairSpec ==
    /\ Spec
    /\ WF_vars(NearInbound) /\ WF_vars(NearOutbound)
    /\ WF_vars(ClearConn)
    /\ WF_vars(RunFails /\ UNCHANGED handlerVars)
    /\ WF_vars(\E c \in Conn : Unset(c) /\ UNCHANGED handlerVars)
    /\ WF_vars(\E c \in Conn : CloseConn(c))

-----------------------------------------------------------------------------
(* The variables are well formed.                                          *)
TypeOK == StreamsTypeOK /\ ListenerTypeOK /\ HandlerTypeOK

(* When a connection is lost its channel is given up, so that a newer one  *)
(* can be used.                                                            *)
LostChannelCleared ==
    (outbound # NoConn /\ outbound \notin up) ~> (outbound \in up \cup {NoConn})

(* "close the proxy by cancelling the context" (tunnel_in_proxy.go:73),    *)
(* wherever its two loops are, and whoever holds outboundMut.              *)
StopEndsListener == cancelled ~> Returned

(* tunnel_in_proxy_udp.go:133: "outbound ssh disconnected, get new         *)
(* connection...".  A channel that runOutbound finds at its end is         *)
(* replaced, unless there is no other connection or the listener ends.     *)
EndedChannelReplaced ==
    \A c \in Conn : (outbound = c /\ Ended(c)) ~> (outbound # c \/ Returned)
=============================================================================
