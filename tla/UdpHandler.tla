----------------------------- MODULE UdpHandler -----------------------------
(***************************************************************************)
(* The far end of a UDP remote (share/tunnel/tunnel_out_ssh_udp.go): one   *)
(* handler for each channel, a table of flows with one socket for each     *)
(* source, and a reader for each of at most MaxReaders flows, 100 in the   *)
(* code.  A reader gives up when no answer comes for UDP_DEADLINE.         *)
(*                                                                         *)
(* The state of a flow, by source:                                         *)
(*   none     no socket in the table                                       *)
(*   fresh    dialed, the readers not yet counted                          *)
(*   unread   in the table without a reader                                *)
(*   reading  its reader waits for answers                                 *)
(*   ending   its reader has stopped and not yet removed the socket        *)
(***************************************************************************)
EXTENDS UdpStreams, FiniteSets

CONSTANTS
    MaxReaders,
    NoSource

ASSUME MaxReadersAssumption == MaxReaders \in Nat /\ NoSource \notin Source

VARIABLES
    hpc,        \* [Conn -> the step of handleUDP]
    hsrc,       \* [Conn -> the source of the packet at hand, or NoSource]
    flow        \* [Conn -> [Source -> the state of the flow]]

handlerVars == <<hpc, hsrc, flow>>

NoFlows == [s \in Source |-> "none"]

HandlerInit ==
    /\ hpc = [c \in Conn |-> "off"]
    /\ hsrc = [c \in Conn |-> NoSource]
    /\ flow = [c \in Conn |-> NoFlows]

HandlerGoTo(c, step) == hpc' = [hpc EXCEPT ![c] = step]

(* The packet at hand is done with.                                        *)
Forget(c) == hsrc' = [hsrc EXCEPT ![c] = NoSource]

SetFlow(c, s, state) == flow' = [flow EXCEPT ![c][s] = state]

Table(c) == {s \in Source : flow[c][s] # "none"}

-----------------------------------------------------------------------------
(* handleWrite: decode, dial, start a reader, write.                       *)
HandlerDecode(c) ==
    /\ hpc[c] = "decode"
    /\ Decode(there, c)
    /\ hsrc' = [hsrc EXCEPT ![c] = Head(there[c])]
    /\ HandlerGoTo(c, "dial")
    /\ UNCHANGED <<up, shut, back, traffic, flow>>

Dial(c) ==
    /\ hpc[c] = "dial"
    /\ IF flow[c][hsrc[c]] = "none"
       THEN SetFlow(c, hsrc[c], "fresh") /\ HandlerGoTo(c, "count")
       ELSE UNCHANGED flow /\ HandlerGoTo(c, "write")
    /\ UNCHANGED <<streamVars, hsrc>>

(* Mutant: the new flow is not counted.                                    *)
StartReader_CountsOthers(c) ==
    /\ hpc[c] = "count"
    /\ SetFlow(c, hsrc[c], IF Cardinality(Table(c)) - 1 <= MaxReaders
                           THEN "reading" ELSE "unread")
    /\ HandlerGoTo(c, "write")
    /\ UNCHANGED <<streamVars, hsrc>>

(* The table is locked again to count it.                                  *)
StartReader(c) ==
    /\ hpc[c] = "count"
    /\ SetFlow(c, hsrc[c], IF Cardinality(Table(c)) <= MaxReaders
                           THEN "reading" ELSE "unread")
    /\ HandlerGoTo(c, "write")
    /\ UNCHANGED <<streamVars, hsrc>>

(* The datagram is sent, even if the reader has just removed the socket.   *)
Write(c) ==
    /\ hpc[c] = "write"
    /\ HandlerGoTo(c, "decode")
    /\ Forget(c)
    /\ UNCHANGED <<streamVars, flow>>

(* The stream has ended, the dial fails (a name that does not resolve) or  *)
(* the write does (the destination refused an earlier datagram): the       *)
(* handler returns, closeAll empties the table, and the stream is closed   *)
(* with what nobody has read from it.                                      *)
HandlerReturns(c) ==
    /\ \/ hpc[c] = "decode" /\ c \notin up
       \/ hpc[c] = "dial" /\ flow[c][hsrc[c]] = "none"
       \/ hpc[c] = "write"
    /\ flow' = [flow EXCEPT ![c] = NoFlows]
    /\ shut' = shut \cup {c}
    /\ there' = [there EXCEPT ![c] = <<>>]
    /\ HandlerGoTo(c, "returned")
    /\ Forget(c)
    /\ UNCHANGED <<up, back, traffic>>

-----------------------------------------------------------------------------
(* handleRead.                                                             *)

(* An answer comes on the socket of s and is encoded for s.                *)
Reply(c, s) ==
    /\ flow[c][s] = "reading"
    /\ Encode(back, c, s)
    /\ UNCHANGED <<up, shut, there, traffic, handlerVars>>

(* The deadline, a refusal, or an answer that cannot be encoded.           *)
ReaderStops(c, s) ==
    /\ flow[c][s] = "reading"
    /\ SetFlow(c, s, "ending")
    /\ UNCHANGED <<streamVars, hpc, hsrc>>

Remove(c, s) ==
    /\ flow[c][s] = "ending"
    /\ SetFlow(c, s, "none")
    /\ UNCHANGED <<streamVars, hpc, hsrc>>

-----------------------------------------------------------------------------
HandlerTypeOK ==
    /\ hpc \in [Conn -> {"off", "decode", "dial", "count", "write", "returned"}]
    /\ hsrc \in [Conn -> Source \cup {NoSource}]
    /\ flow \in [Conn -> [Source -> {"none", "fresh", "unread", "reading", "ending"}]]

(* A channel has at most MaxReaders goroutines that read, although the     *)
(* table is locked anew for the dial, the count and each removal.          *)
ReadersBounded ==
    \A c \in Conn :
        Cardinality({s \in Source : flow[c][s] \in {"reading", "ending"}}) <= MaxReaders
=============================================================================
