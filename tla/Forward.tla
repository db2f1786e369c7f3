------------------------------- MODULE Forward ------------------------------
(***************************************************************************)
(* A TCP or stdio remote from end to end: the proxy                        *)
(* (share/tunnel/tunnel_in_proxy.go, runTCP, runStdio and pipeRemote), the *)
(* far handler of a channel (share/tunnel/tunnel_out_ssh.go,               *)
(* handleSSHChannel and handleTCP), the connections that come and go under *)
(* them, and the two pipes.                                                *)
(*                                                                         *)
(* The users of a TCP remote share nothing but a counter, so one of them   *)
(* is modelled.  On a stdio remote one call of pipeRemote follows another; *)
(* the handlers of two channels share nothing either, and a call opens its *)
(* channel here when the handler of the one before has returned.           *)
(***************************************************************************)
EXTENDS Pipe

CONSTANTS
    MaxConn,    \* connections that are made, at most
    MaxCalls    \* calls of pipeRemote on a stdio remote, at most

ASSUME MaxAssumption == MaxConn \in Nat /\ MaxCalls \in Nat \ {0}

VARIABLES
    link,       \* the tunnel has a connection
    made,       \* how many were made
    cancelled,  \* the context of the proxy is done
    loop,       \* the step of runTCP or runStdio
    npc,        \* the step of pipeRemote
    calls,      \* how often it was called
    hpc         \* the step of handleSSHChannel

tunnelVars == <<link, made, cancelled>>
proxyVars == <<loop, npc, calls>>
vars == <<pipeVars, tunnelVars, proxyVars, hpc>>

Init ==
    /\ PipeInit
    /\ link = FALSE /\ made = 0 /\ cancelled = FALSE
    /\ loop = IF stdio THEN "call" ELSE "accept"
    /\ npc = IF stdio THEN "get" ELSE "none"
    /\ calls = IF stdio THEN 1 ELSE 0
    /\ hpc = "none"

-----------------------------------------------------------------------------
(* The tunnel binds a connection, even after the cancellation; it is lost, *)
(* or closed because the context is cancelled (StopEndsAll of Endpoint).   *)
Bind ==
    /\ ~link /\ made < MaxConn
    /\ link' = TRUE
    /\ made' = made + 1
    /\ UNCHANGED <<pipeVars, cancelled, proxyVars, hpc>>

UsesLink == npc \in {"open", "opening", "pipe"} \/ hpc \in {"offered", "dial", "pipe"}

LoseLink ==
    /\ link
    /\ link' = FALSE
    /\ IF UsesLink /\ ~lost THEN LoseChannel ELSE UNCHANGED pipeVars
    /\ UNCHANGED <<made, cancelled, proxyVars, hpc>>

CloseLink == cancelled /\ LoseLink

Cancel ==
    /\ ~cancelled
    /\ cancelled' = TRUE
    /\ UNCHANGED <<pipeVars, link, made, proxyVars, hpc>>

-----------------------------------------------------------------------------
(* runTCP.                                                                 *)
Accept ==
    /\ loop = "accept" /\ npc = "none"
    /\ npc' = "get"
    /\ calls' = calls + 1
    /\ UNCHANGED <<pipeVars, tunnelVars, loop, hpc>>

(* Mutant: the context is looked at only when Accept fails by itself.      *)
AcceptEnds_NoWatch ==
    /\ FALSE
    /\ UNCHANGED vars

(* The context is done: a goroutine closes the listener, Accept fails, and *)
(* the loop finds the context done and returns.                            *)
AcceptEnds ==
    /\ loop = "accept" /\ cancelled
    /\ loop' = "returned"
    /\ UNCHANGED <<pipeVars, tunnelVars, npc, calls, hpc>>

(* Accept fails for another reason, of which nobody asks whether it will   *)
(* pass: the proxy fails, its listener stays open, and the errgroup of     *)
(* BindRemotes cancels its context.                                        *)
AcceptFails ==
    /\ loop = "accept" /\ ~cancelled
    /\ loop' = "failed"
    /\ cancelled' = TRUE
    /\ UNCHANGED <<pipeVars, link, made, npc, calls, hpc>>

(* runStdio looks at the context after each call, and calls again: with a  *)
(* new channel, and what has not been read from the standard input.  (Here *)
(* one handler runs at a time: the call waits for the last one to end.)    *)
CallAgain ==
    /\ loop = "call" /\ npc = "returned" /\ ~cancelled
    /\ calls < MaxCalls /\ hpc \in {"none", "rejected", "returned"}
    /\ calls' = calls + 1
    /\ npc' = "get"
    /\ hpc' = "none"
    /\ passed' = [passed EXCEPT
                    !["out"] = [Nothing EXCEPT ![1] = passed["out"][1] - passed["out"][2]],
                    !["in"] = Nothing]
    /\ fin' = fin \ {"far"}
    /\ gone' = {} /\ shut' = {} /\ closing' = {} /\ seen' = {} /\ lost' = FALSE
    /\ UNCHANGED <<stdio, copying, tunnelVars, loop>>

LoopEnds ==
    /\ loop = "call" /\ npc = "returned" /\ cancelled
    /\ loop' = "returned"
    /\ UNCHANGED <<pipeVars, tunnelVars, npc, calls, hpc>>

ProxyLoop == AcceptEnds \/ CallAgain \/ LoopEnds

-----------------------------------------------------------------------------
(* pipeRemote.  Its deferred call closes the user's socket.                *)
CloseUser == shut' = IF stdio THEN shut ELSE shut \cup {"near"}

(* getSSH looks at the context before it reads the connection, and the     *)
(* cancellation may come between the two.                                  *)
Get ==
    /\ npc = "get" /\ link
    /\ npc' = "open"
    /\ UNCHANGED <<pipeVars, tunnelVars, loop, calls, hpc>>

(* getSSH answers nil: the context is done, SSH_WAIT is over, or the group *)
(* is open without a connection.                                           *)
GetNothing ==
    /\ npc = "get" /\ (cancelled \/ ~link)
    /\ npc' = "returned"
    /\ CloseUser
    /\ UNCHANGED <<stdio, passed, fin, gone, closing, seen, lost, copying,
                   tunnelVars, loop, calls, hpc>>

Open ==
    /\ npc = "open" /\ ~lost
    /\ npc' = "opening"
    /\ hpc' = "offered"
    /\ UNCHANGED <<pipeVars, tunnelVars, loop, calls>>

(* Mutant: the user's socket is not closed.                                *)
OpenFails_KeepsUser ==
    /\ \/ npc = "open" /\ lost
       \/ npc = "opening" /\ (lost \/ hpc = "rejected")
    /\ npc' = "returned"
    /\ UNCHANGED <<pipeVars, tunnelVars, loop, calls, hpc>>

OpenFails ==
    /\ \/ npc = "open" /\ lost
       \/ npc = "opening" /\ (lost \/ hpc = "rejected")
    /\ npc' = "returned"
    /\ CloseUser
    /\ UNCHANGED <<stdio, passed, fin, gone, closing, seen, lost, copying,
                   tunnelVars, loop, calls, hpc>>

Opened ==
    /\ npc = "opening" /\ hpc \in {"dial", "pipe", "returned"}
    /\ npc' = "pipe"
    /\ StartPipe("near")
    /\ UNCHANGED <<stdio, passed, fin, gone, shut, closing, seen, lost,
                   tunnelVars, loop, calls, hpc>>

(* Mutant: Pipe returns when one of its goroutines has ended.              *)
CallReturns_FirstEnd ==
    /\ npc = "pipe" /\ \E d \in Dir : <<"near", d>> \notin copying
    /\ npc' = "returned"
    /\ CloseUser
    /\ UNCHANGED <<stdio, passed, fin, gone, closing, seen, lost, copying,
                   tunnelVars, loop, calls, hpc>>

CallReturns ==
    /\ npc = "pipe" /\ PipeReturned("near")
    /\ npc' = "returned"
    /\ CloseUser
    /\ UNCHANGED <<stdio, passed, fin, gone, closing, seen, lost, copying,
                   tunnelVars, loop, calls, hpc>>

PipeRemote == Get \/ GetNothing \/ Open \/ OpenFails \/ Opened \/ CallReturns

-----------------------------------------------------------------------------
(* handleSSHChannel.  A tunnel that is not an outbound one, or has no      *)
(* socks server, rejects the channel.                                      *)
Reject ==
    /\ hpc = "offered" /\ ~lost
    /\ hpc' = "rejected"
    /\ UNCHANGED <<pipeVars, tunnelVars, proxyVars>>

AcceptChannel ==
    /\ hpc = "offered" /\ ~lost
    /\ hpc' = "dial"
    /\ UNCHANGED <<pipeVars, tunnelVars, proxyVars>>

AcceptChannelFails ==
    /\ hpc = "offered" /\ lost
    /\ hpc' = "rejected"
    /\ UNCHANGED <<pipeVars, tunnelVars, proxyVars>>

Dial ==
    /\ hpc = "dial"
    /\ hpc' = "pipe"
    /\ StartPipe("far")
    /\ UNCHANGED <<stdio, passed, fin, gone, shut, closing, seen, lost,
                   tunnelVars, proxyVars>>

(* The deferred call closes the channel.                                   *)
HandlerReturns ==
    /\ hpc' = "returned"
    /\ closing' = closing \cup {"far"}
    /\ UNCHANGED <<stdio, passed, fin, gone, shut, seen, lost, copying,
                   tunnelVars, proxyVars>>

DialFails == hpc = "dial" /\ HandlerReturns

(* Mutant: Pipe does not wait for its goroutines.                          *)
HandlerEnds_NoWait == hpc = "pipe" /\ HandlerReturns

HandlerEnds == hpc = "pipe" /\ PipeReturned("far") /\ HandlerReturns

HandleSSHChannel ==
    Reject \/ AcceptChannel \/ AcceptChannelFails \/ Dial \/ DialFails \/ HandlerEnds

-----------------------------------------------------------------------------
(* The sides that have a user or target.                                   *)
Attached == {x \in Side : IF x = "near" THEN npc # "none"
                                        ELSE hpc = "pipe" \/ "far" \in shut}

Ends(x) == (Produce(x) \/ Finish(x) \/ Quit(x) \/ Reset(x)) /\ x \in Attached

Others == UNCHANGED <<tunnelVars, proxyVars, hpc>>

Closing == (\E x \in Side : SeeClose(x) \/ SeeLoss(x)) /\ Others

(* The goroutines of the program and of the SSH library.                   *)
System ==
    \/ CloseLink \/ ProxyLoop \/ PipeRemote \/ HandleSSHChannel \/ Closing
    \/ Copy /\ Others

Reading == (\E x \in Side : Receive(x)) /\ Others

Next ==
    \/ System
    \/ Bind \/ LoseLink \/ Cancel
    \/ Accept \/ AcceptFails
    \/ (\E x \in Side : Ends(x)) /\ Others
    \/ Reading

Spec == Init /\ [][Next]_vars

(* Every goroutine runs, each step of them brings the connection nearer to *)
(* its end, so that fairness for all of them together is enough; and the   *)
(* programs at the two ends read what reaches them.                        *)
FairSpec == Spec /\ WF_vars(System) /\ WF_vars(Reading)

-----------------------------------------------------------------------------
(* The variables are well formed.                                          *)
TypeOK ==
    /\ PipeTypeOK
    /\ link \in BOOLEAN /\ made \in 0..MaxConn /\ cancelled \in BOOLEAN
    /\ loop \in {"accept", "call", "returned", "failed"}
    /\ npc \in {"none", "get", "open", "opening", "pipe", "returned"}
    /\ calls \in 0..MaxCalls
    /\ hpc \in {"none", "offered", "rejected", "dial", "pipe", "returned"}
    /\ \A d \in Dir : /\ <<"near", d>> \in copying => npc = "pipe"
                      /\ <<"far", d>> \in copying => hpc = "pipe"

(* Nothing more will reach the sink of direction d.                        *)
Over(d) == Sink(d) \in shut /\ passed[d][5] = passed[d][6]

(* A stream that its source has ended reaches the sink whole, or else the  *)
(* connection under it was lost, or the other direction was not quiet: the *)
(* sink's own program had ended too, or had written what never arrived.    *)
(* The first copy that ends closes both directions, so a pipe may cut a    *)
(* stream short only for these reasons.                                    *)
WholeUnlessCrossed ==
    \A d \in Dir :
        Over(d) /\ Source(d) \in fin /\ passed[d][6] < passed[d][1] =>
            \/ lost
            \/ Sink(d) \in fin
            \/ passed[Back(d)][6] < passed[Back(d)][1]

Idle == npc \in {"none", "returned"} /\ hpc \in {"none", "rejected", "returned"}

Ending ==
    IF stdio THEN cancelled /\ "near" \in fin ELSE cancelled \/ lost \/ fin # {}

Ended ==
    /\ Idle
    /\ npc = "returned" /\ ~stdio => "near" \in shut
    /\ cancelled => loop \in {"returned", "failed"}

(* A TCP connection that one end closes, or whose tunnel is lost, is       *)
(* closed at both ends, and none of its goroutines is left behind; and a   *)
(* cancellation ends the accept loop and every connection, wherever they   *)
(* are.  A stdio remote needs the end of its input as well.                *)
EndsTogether == Ending ~> Ended

(* tunnel_in_proxy.go:72: Run "blocks while its active, close the proxy by *)
(* cancelling the context".                                                *)
StopEndsProxy == cancelled ~> loop \in {"returned", "failed"}
=============================================================================
