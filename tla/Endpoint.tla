------------------------------ MODULE Endpoint ------------------------------
(***************************************************************************)
(* The two users of a tunnel: the client, whose connectionLoop             *)
(* (client/client_connect.go) connects and binds again and again, with a   *)
(* context for each connection and another for its proxies; and the server *)
(* (server/server_handler.go), which binds one connection, with the        *)
(* context of the proxies.                                                 *)
(*                                                                         *)
(* A dial stands for the websocket dial, the SSH handshake and the config  *)
(* request.  It ends in one way or another, whatever happens to the        *)
(* context meanwhile.                                                      *)
(***************************************************************************)
EXTENDS Tunnel

CONSTANT MaxRetryCount      \* --max-retry-count; negative: no limit

ASSUME RetryAssumption == MaxRetryCount \in Int

VARIABLES
    role,       \* "client" or "server"
    loop,       \* the step of connectionLoop, or of the server's session
    attempt     \* backoff.Attempt()

endVars == <<role, loop, attempt>>
vars == <<tunnelVars, endVars>>

Init ==
    /\ New
    /\ role \in {"client", "server"}
    /\ loop = IF role = "client" THEN "retry" ELSE "dialing"
    /\ attempt = 0

-----------------------------------------------------------------------------
(* connectionOnce has returned, and the context of the connections in S    *)
(* has ended; connected tells whether the connection lasted more than five *)
(* seconds.  Give up, and close the client, or wait and try again.         *)
Verdict(connected, S) ==
    LET a == IF connected THEN 0 ELSE attempt
    IN  \/ /\ MaxRetryCount >= 0 /\ a >= MaxRetryCount
           /\ attempt' = a
           /\ loop' = "ended"
           /\ cancelled' = TRUE
           /\ over' = Conn
        \/ /\ MaxRetryCount < 0 \/ a < MaxRetryCount
           /\ attempt' = a + 1
           /\ loop' = "backoff"
           /\ over' = over \cup S
           /\ UNCHANGED cancelled

NoBinding == UNCHANGED <<wgVars, active, current, open, getVars, pc, val, role>>

(* connectionOnce starts, or finds the client already closed.              *)
Dial ==
    /\ role = "client" /\ loop = "retry"
    /\ ~cancelled
    /\ loop' = "dialing"
    /\ UNCHANGED <<tunnelVars, role, attempt>>

DialClosed ==
    /\ role = "client" /\ loop = "retry"
    /\ cancelled
    /\ Verdict(FALSE, {})
    /\ NoBinding

(* The dial, the handshake or the config request fails.                    *)
DialFails ==
    /\ role = "client" /\ loop = "dialing"
    /\ Verdict(FALSE, {})
    /\ NoBinding

(* It succeeds, and BindSSH is called.                                     *)
Connected ==
    /\ loop = "dialing"
    /\ Bind
    /\ loop' = "bound"
    /\ UNCHANGED <<role, attempt>>

(* BindSSH returns to connectionOnce, whose deferred cancel ends the       *)
(* connection's context.                                                   *)
Disconnected ==
    /\ role = "client" /\ loop = "bound"
    /\ pc[Binder] = "idle"
    /\ \E lasted \in BOOLEAN : Verdict(lasted, {current})
    /\ NoBinding

(* The wait is over, or a SIGHUP cuts it short.                            *)
RetryNow ==
    /\ role = "client" /\ loop = "backoff"
    /\ loop' = "retry"
    /\ UNCHANGED <<tunnelVars, role, attempt>>

StopWaiting ==
    /\ role = "client" /\ loop = "backoff"
    /\ cancelled
    /\ loop' = "ended"
    /\ UNCHANGED <<tunnelVars, role, attempt>>

(* On the server the error of BindSSH ends the context of the errgroup,    *)
(* the proxies' and the connection's.                                      *)
SessionEnds ==
    /\ role = "server" /\ loop = "bound"
    /\ pc[Binder] = "idle"
    /\ loop' = "ended"
    /\ cancelled' = TRUE
    /\ over' = Conn
    /\ UNCHANGED <<wgVars, active, current, open, getVars, pc, val, role, attempt>>

(* The client is closed, a proxy fails, or the server stops.               *)
Cancel ==
    /\ ~cancelled
    /\ cancelled' = TRUE
    /\ over' = Conn
    /\ UNCHANGED <<wgVars, active, current, open, getVars, pc, val, endVars>>

-----------------------------------------------------------------------------
LoopStep ==
    \/ Dial \/ DialClosed \/ DialFails \/ Connected
    \/ Disconnected \/ RetryNow \/ StopWaiting \/ SessionEnds

BinderStep == LoopStep \/ (BindSSHStep /\ UNCHANGED endVars)

Next ==
    /\ ~panicked
    /\ \/ BinderStep
       \/ Cancel
       \/ /\ \/ \E c \in Conn : WatcherStep(c) \/ Lose(c)
             \/ \E g \in Getter : GetterStep(g) \/ GetTimeout(g) \/ WaiterStep(g)
          /\ UNCHANGED endVars

Spec == Init /\ [][Next]_vars

(* Every goroutine that can run does, and a dial ends; nothing makes a     *)
(* time-out, a loss or a cancellation happen.                              *)
FairSpec ==
    /\ Spec
    /\ WF_vars(~panicked /\ BinderStep)
    /\ \A c \in Conn : WF_vars(~panicked /\ WatcherStep(c) /\ UNCHANGED endVars)
    /\ \A g \in Getter :
         /\ WF_vars(~panicked /\ GetterStep(g) /\ UNCHANGED endVars)
         /\ WF_vars(~panicked /\ WaiterStep(g) /\ UNCHANGED endVars)

-----------------------------------------------------------------------------
(* The variables are well formed.                                          *)
TypeOK ==
    /\ TunnelTypeOK
    /\ role \in {"client", "server"}
    /\ loop \in {"retry", "dialing", "bound", "backoff", "ended"}
    /\ attempt \in Nat

(* tunnel.go:107: "getSSH blocks while connecting".  It answers nil only   *)
(* when the context is cancelled, when SSH_WAIT is over, or when a         *)
(* connection was bound while it waited and is lost again.                 *)
GetBlocksWhileConnecting ==
    \A g \in Getter :
        gpc[g] = "returned" /\ answer[g] = NoConn =>
            cause[g] \in {"cancelled", "timeout"} \/ cancelled \/ g \in met

(* So it does on the server, which never connects again.                   *)
ServerGetBlocks == role = "server" => GetBlocksWhileConnecting

(* On either side, until a first connection is lost, it answers nil for    *)
(* the first two reasons only.                                             *)
FirstGetBlocks ==
    1..current \subseteq open =>
        \A g \in Getter :
            gpc[g] = "returned" /\ answer[g] = NoConn =>
                cause[g] \in {"cancelled", "timeout"}

(* The process dies of its wait group by two races only: the DoneAll of a  *)
(* context that ended comes between the two writes of Add, or a getter     *)
(* that was woken looks again when a connection was lost and the group is  *)
(* in use again.  No first connection that stays brings it about.          *)
PanicOnlyByRace ==
    panicked =>
        \/ inner < 0 /\ pc[Binder] = "addInner" /\ over # {}
        \/ /\ inner > 0 /\ \E g \in Getter : waiter[g] = "woken"
           /\ ~(1..current \subseteq open)

(* What the proxies see of all this is what module Link says.  A           *)
(* connection is made, for them, when BindSSH marks it active: they do not *)
(* see the one that is open before, and may be lost before.                *)
Marked == IF pc[Binder] = "set" THEN current - 1 ELSE current

Usable == IF pc[Binder] = "set" THEN {} ELSE open

Link == INSTANCE Link WITH made <- Marked, up <- Usable

LinkSpec == Link!Spec

(* A getter that waits while a connection is bound gets an answer, without *)
(* its time-out, unless the connection is lost first or the process dies.  *)
WaitingGetterServed ==
    \A g \in Getter :
        (gpc[g] = "select" /\ active # NoConn)
        ~> (gpc[g] = "returned" \/ active = NoConn \/ panicked)

(* Cancelling the context, or giving up, ends everything, at any moment of *)
(* the dial, the hand-over or the wait: the loop, the connections, and the *)
(* proxies' calls of getSSH.                                               *)
StopEndsAll ==
    cancelled ~> \/ panicked
                 \/ /\ loop = "ended" /\ open = {}
                    /\ \A g \in Getter : gpc[g] \in {"idle", "returned"}
=============================================================================
