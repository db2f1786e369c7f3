------------------------------- MODULE Server -------------------------------
(***************************************************************************)
(* The server: websocket sessions (server/server_handler.go,               *)
(* handleWebsocket), the tunnels they bind (share/tunnel/tunnel.go,        *)
(* BindSSH and BindRemotes), the control plane and the timer, over one     *)
(* PortAllocator and the listening ports of the host.                      *)
(*                                                                         *)
(* A session is a goroutine; its steps interleave with those of the other  *)
(* sessions, with the control plane and with the timer at every place      *)
(* where it gives up or does not hold pa.mu.  What happens before the      *)
(* config request arrives (upgrade, SSH handshake, the ten second wait)    *)
(* changes none of this state and is part of Connect.                      *)
(***************************************************************************)
EXTENDS PortAllocator

CONSTANTS
    RemoteLists,    \* the lists of remotes a client may send
    ReverseEnabled, \* the server runs with --reverse
    NoSession,      \* nobody listens on the port
    Leaked          \* a listener that was left open: no goroutine accepts on it

Remote == [reverse : BOOLEAN, clientPort : ClientPort, mappingPort : Port]

Request == [id : Identity \cup {NoIdentity}, remotes : Seq(Remote)]

ASSUME NoSessionAssumption == {NoSession, Leaked} \cap Session = {}
ASSUME RemotesAssumption == RemoteLists \subseteq Seq(Remote)
ASSUME ReverseAssumption == ReverseEnabled \in BOOLEAN

VARIABLES
    pc,         \* [Session -> step of handleWebsocket]
    request,    \* [Session -> what the client asked for]
    at,         \* [Session -> index of the remote at hand]
    linked,     \* [Session -> the SSH connection is up]
    bound,      \* [Port -> who listens on it]
    quiet       \* history: [Alloc -> time since a session on the record ended]

sessionVars == <<pc, request, at, linked, bound, quiet>>

vars == <<allocVars, sessionVars>>

ThisRemote(s) == request[s].remotes[at[s]]

(* Mutant: the loop runs one remote too far.                               *)
LastRemote_OffByOne(s) == at[s] > Len(request[s].remotes)

LastRemote(s) == at[s] = Len(request[s].remotes)

NoRequest == [id |-> NoIdentity, remotes |-> <<>>]

Init ==
    /\ AllocInit
    /\ pc = [s \in Session |-> "idle"]
    /\ request = [s \in Session |-> NoRequest]
    /\ at = [s \in Session |-> 1]
    /\ linked = [s \in Session |-> FALSE]
    /\ bound = [p \in Port |-> NoSession]
    /\ quiet = [a \in Alloc |-> Hold + 1]

GoTo(s, step) == pc' = [pc EXCEPT ![s] = step]

(* The handler has returned: forget what it asked for.                     *)
Leave(s) ==
    /\ GoTo(s, "idle")
    /\ request' = [request EXCEPT ![s] = NoRequest]
    /\ at' = [at EXCEPT ![s] = 1]
    /\ linked' = [linked EXCEPT ![s] = FALSE]

-----------------------------------------------------------------------------
(* A client has connected and sent its config.                             *)
Connect(s) ==
    /\ pc[s] = "idle"
    /\ \E id \in Identity \cup {NoIdentity}, rs \in RemoteLists :
         request' = [request EXCEPT ![s] = [id |-> id, remotes |-> rs]]
    /\ at' = [at EXCEPT ![s] = 1]
    /\ linked' = [linked EXCEPT ![s] = TRUE]
    /\ GoTo(s, IF request'[s].remotes = <<>> THEN "bind" ELSE "apply")
    /\ UNCHANGED <<allocVars, bound, quiet>>

(* handleRemote passes a remote over: it is not a reverse remote, or the   *)
(* record the session already holds is in use or is for other ports.  The  *)
(* record is read without pa.mu.                                           *)
PassedOver(s) ==
    LET r == ThisRemote(s)
        a == handle[s]
    IN  \/ ~r.reverse
        \/ /\ a # NoAlloc
           /\ \/ heap[a].status # Freed
              \/ heap[a].clientPort \notin {0, r.clientPort}
              \/ heap[a].mappingPort \notin {0, r.mappingPort}

(* The identity handleRemote passes on is that of the record at hand: the  *)
(* one made from the headers, or the one an earlier remote got.            *)
ActingIdentity(s) ==
    IF handle[s] = NoAlloc THEN request[s].id ELSE heap[handle[s]].id

PassOver(s) ==
    /\ pc[s] = "apply"
    /\ PassedOver(s)
    /\ GoTo(s, "check")
    /\ UNCHANGED <<allocVars, request, at, linked, bound, quiet>>

Apply(s) ==
    /\ pc[s] = "apply"
    /\ ~PassedOver(s)
    /\ OnConnected(s, ActingIdentity(s),
                   ThisRemote(s).clientPort, ThisRemote(s).mappingPort)
    /\ GoTo(s, "check")
    /\ UNCHANGED <<request, at, linked, bound, quiet>>

(* Mutant: the record is marked freed, and stays in the maps.              *)
Refuse_MarksFreed(s) ==
    /\ Leave(s)
    /\ handle' = [handle EXCEPT ![s] = NoAlloc]
    /\ heap' = [a \in Alloc |-> IF a = handle[s]
                                THEN [heap[a] EXCEPT !.status = Freed]
                                ELSE heap[a]]
    /\ UNCHANGED <<names, ports, bound, quiet>>

(* The failed() returns: the client gets an error and the handler drops    *)
(* its pointer; neither the record nor the SSH connection is touched.      *)
Refuse(s) ==
    /\ Leave(s)
    /\ handle' = [handle EXCEPT ![s] = NoAlloc]
    /\ UNCHANGED <<heap, names, ports, bound, quiet>>

(* Mutant: the error of OnConnected is not returned.                       *)
ApplyFails_GoesOn(s) ==
    /\ pc[s] = "apply"
    /\ ~PassedOver(s)
    /\ Refuses(ActingIdentity(s),
               ThisRemote(s).clientPort, ThisRemote(s).mappingPort)
    /\ GoTo(s, "check")
    /\ UNCHANGED <<allocVars, request, at, linked, bound, quiet>>

ApplyFails(s) ==
    /\ pc[s] = "apply"
    /\ ~PassedOver(s)
    /\ Refuses(ActingIdentity(s),
               ThisRemote(s).clientPort, ThisRemote(s).mappingPort)
    /\ Refuse(s)

(* CanListen opens and closes a listener: what it finds may be out of date *)
(* when BindRemotes listens.  The mapping port is 0 when Atoi does not     *)
(* read the port of the config: the system then finds a port of its own,   *)
(* which is not followed here, and nobody is in the way at 0.              *)
CanListen(p) == bound[p] = NoSession

(* The user has no access to the remote, or it is a reverse one and the    *)
(* server runs without --reverse or cannot listen; the first may be true   *)
(* of any remote.                                                          *)
CheckFails(s) == pc[s] = "check" /\ Refuse(s)

CheckPasses(s) ==
    /\ pc[s] = "check"
    /\ ThisRemote(s).reverse =>
          ReverseEnabled /\ CanListen(ThisRemote(s).mappingPort)
    /\ IF LastRemote(s)
       THEN GoTo(s, "bind") /\ at' = [at EXCEPT ![s] = 1]
       ELSE GoTo(s, "apply") /\ at' = [at EXCEPT ![s] = @ + 1]
    /\ UNCHANGED <<allocVars, request, linked, bound, quiet>>

-----------------------------------------------------------------------------
(* The connection is lost, or closed by the client or the keepalive loop.  *)
(* Only a bound tunnel notices.                                            *)
Disconnect(s) ==
    /\ linked[s]
    /\ linked' = [linked EXCEPT ![s] = FALSE]
    /\ UNCHANGED <<allocVars, pc, request, at, bound, quiet>>

(* Mutant: the server listens on the forward remotes too.                  *)
Listen_AllRemotes(s) ==
    /\ pc[s] = "bind"
    /\ at[s] <= Len(request[s].remotes)
    /\ CanListen(ThisRemote(s).mappingPort)
    /\ bound' = [bound EXCEPT ![ThisRemote(s).mappingPort] = s]
    /\ at' = [at EXCEPT ![s] = @ + 1]
    /\ UNCHANGED <<allocVars, pc, request, linked, quiet>>

(* BindRemotes listens on the reverse remotes in turn.                     *)
Listen(s) ==
    /\ pc[s] = "bind"
    /\ at[s] <= Len(request[s].remotes)
    /\ LET r == ThisRemote(s)
       IN  /\ r.reverse => CanListen(r.mappingPort)
           /\ bound' = IF r.reverse /\ r.mappingPort # 0
                       THEN [bound EXCEPT ![r.mappingPort] = s]
                       ELSE bound
    /\ at' = [at EXCEPT ![s] = @ + 1]
    /\ UNCHANGED <<allocVars, pc, request, linked, quiet>>

(* One listener fails, since somebody is listening there by now or for     *)
(* another reason the system has: BindRemotes returns at once, nothing     *)
(* refers to the listeners it had opened, and the error closes the SSH     *)
(* connection.                                                             *)
ListenFails(s) ==
    /\ pc[s] = "bind"
    /\ at[s] <= Len(request[s].remotes)
    /\ ThisRemote(s).reverse
    /\ bound' = [p \in Port |-> IF bound[p] = s THEN Leaked ELSE bound[p]]
    /\ linked' = [linked EXCEPT ![s] = FALSE]
    /\ GoTo(s, "serve")
    /\ UNCHANGED <<allocVars, request, at, quiet>>

(* Mutant: BindRemotes waits for a connection before it returns.           *)
Bound_WhenLinked(s) ==
    /\ pc[s] = "bind" /\ linked[s]
    /\ at[s] > Len(request[s].remotes)
    /\ GoTo(s, "serve")
    /\ UNCHANGED <<allocVars, request, at, linked, bound, quiet>>

Bound(s) ==
    /\ pc[s] = "bind"
    /\ at[s] > Len(request[s].remotes)
    /\ GoTo(s, "serve")
    /\ UNCHANGED <<allocVars, request, at, linked, bound, quiet>>

(* Accept fails of itself: runTCP closes `done`, the goroutine that was to *)
(* close the listener chooses that, even if the context is cancelled too,  *)
(* and nothing refers to the listener any more.  The error ends            *)
(* BindRemotes, and with it the SSH connection.                            *)
AcceptFails(s, p) ==
    /\ pc[s] = "serve"
    /\ bound[p] = s
    /\ bound' = [bound EXCEPT ![p] = Leaked]
    /\ linked' = [linked EXCEPT ![s] = FALSE]
    /\ UNCHANGED <<allocVars, pc, request, at, quiet>>

(* The connection is gone: BindSSH has returned, the errgroup's context is *)
(* cancelled and each proxy whose Accept has not failed closes its         *)
(* listener.                                                               *)
CloseListener(s, p) ==
    /\ pc[s] = "serve" /\ ~linked[s]
    /\ bound[p] = s
    /\ bound' = [bound EXCEPT ![p] = NoSession]
    /\ UNCHANGED <<allocVars, pc, request, at, linked, quiet>>

(* Mutant: the handler returns without waiting for the proxies.            *)
EndSession_NoWait(s) ==
    /\ pc[s] = "serve" /\ ~linked[s]
    /\ IF handle[s] = NoAlloc
       THEN UNCHANGED <<allocVars, quiet>>
       ELSE Detach(s) /\ quiet' = [quiet EXCEPT ![handle[s]] = 0]
    /\ Leave(s)
    /\ UNCHANGED bound

(* eg.Wait has returned; the last statement writes the status.             *)
EndSession(s) ==
    /\ pc[s] = "serve" /\ ~linked[s]
    /\ \A p \in Port : bound[p] # s
    /\ IF handle[s] = NoAlloc
       THEN UNCHANGED <<allocVars, quiet>>
       ELSE Detach(s) /\ quiet' = [quiet EXCEPT ![handle[s]] = 0]
    /\ Leave(s)
    /\ UNCHANGED bound

(* The runtime closes a listener nothing refers to when it collects it.    *)
Finalize(p) ==
    /\ bound[p] = Leaked
    /\ bound' = [bound EXCEPT ![p] = NoSession]
    /\ UNCHANGED <<allocVars, pc, request, at, linked, quiet>>

-----------------------------------------------------------------------------
(* POST and DELETE name all three parts of the identity, or fail.  GET     *)
(* reads.                                                                  *)
HandleCreatePort ==
    \E id \in Identity, cp \in ClientPort : AllocatePort(id, cp)

HandleDeletePort == \E id \in Identity : FreePort(id)

ControlPlane == (HandleCreatePort \/ HandleDeletePort) /\ UNCHANGED sessionVars

RunFreeHangingTimer == FreeHangingPorts /\ UNCHANGED sessionVars

Clock ==
    /\ Tick
    /\ quiet' = [a \in Alloc |-> IF quiet[a] > Hold THEN quiet[a] ELSE quiet[a] + 1]
    /\ UNCHANGED <<pc, request, at, linked, bound>>

(* The process stops and a new one starts.                                 *)
Crash ==
    /\ Restart
    /\ pc' = [s \in Session |-> "idle"]
    /\ request' = [s \in Session |-> NoRequest]
    /\ at' = [s \in Session |-> 1]
    /\ linked' = [s \in Session |-> FALSE]
    /\ bound' = [p \in Port |-> NoSession]
    /\ quiet' = [a \in Alloc |-> Hold + 1]

-----------------------------------------------------------------------------
SessionStep(s) ==
    \/ PassOver(s) \/ Apply(s) \/ ApplyFails(s)
    \/ CheckFails(s) \/ CheckPasses(s)
    \/ Listen(s) \/ ListenFails(s) \/ Bound(s)
    \/ \E p \in Port : CloseListener(s, p)
    \/ EndSession(s)

Next ==
    \/ \E s \in Session : Connect(s) \/ Disconnect(s) \/ SessionStep(s)
    \/ \E s \in Session, p \in Port : AcceptFails(s, p)
    \/ \E p \in Port : Finalize(p)
    \/ ControlPlane
    \/ RunFreeHangingTimer
    \/ Clock
    \/ Crash

Spec == Init /\ [][Next]_vars

(* Every goroutine keeps running.  Clients, the control plane and the      *)
(* clock promise nothing, and Accept need never fail.                      *)
FairSpec == Spec /\ \A s \in Session : WF_vars(SessionStep(s))

-----------------------------------------------------------------------------
(* The sessions' own state is well formed.                                 *)
TypeOK ==
    /\ AllocTypeOK
    /\ pc \in [Session -> {"idle", "apply", "check", "bind", "serve"}]
    /\ request \in [Session -> Request]
    /\ at \in [Session -> Nat \ {0}]
    /\ \A s \in Session : pc[s] \in {"apply", "check"} =>
                               at[s] <= Len(request[s].remotes)
    /\ linked \in [Session -> BOOLEAN]
    /\ bound \in [Port -> Session \cup {NoSession, Leaked}]
    /\ quiet \in [Alloc -> 0..Hold+1]

ReversePorts(s) ==
    {request[s].remotes[i].mappingPort :
        i \in {j \in 1..Len(request[s].remotes) : request[s].remotes[j].reverse}}

FirstReverse(s) ==
    CHOOSE i \in 1..Len(request[s].remotes) :
        /\ request[s].remotes[i].reverse
        /\ \A j \in 1..i-1 : ~request[s].remotes[j].reverse

(* A session past validation holds a record for one of the mapping ports   *)
(* it asked for, that of its first reverse remote unless this is 0, and,   *)
(* if it named an identity, under the key of that identity, whatever       *)
(* happened to the record since: the write at the end of the session goes  *)
(* to its own record.  (With 0 for the first port, the record a DELETE     *)
(* frees between two remotes gives way to one for another.)                *)
SessionHoldsItsRecord ==
    \A s \in Session :
        pc[s] \in {"bind", "serve"} /\ ReversePorts(s) # {} =>
            LET first == request[s].remotes[FirstReverse(s)].mappingPort
                port  == heap[handle[s]].mappingPort
            IN  /\ handle[s] # NoAlloc
                /\ port \in ReversePorts(s)
                /\ first # 0 => port = first
                /\ request[s].id # NoIdentity =>
                      KeyOf(heap[handle[s]].id) = KeyOf(request[s].id)

(* A session accepts on a port only from BindRemotes to eg.Wait, and only  *)
(* on a port its config named and --reverse allowed.  Of a listener that   *)
(* an error left open, which may outlive its session, it says nothing.     *)
ListenersHaveSession ==
    \A p \in Port :
        bound[p] \in Session =>
            /\ ReverseEnabled
            /\ pc[bound[p]] \in {"bind", "serve"}
            /\ p \in ReversePorts(bound[p])

(* The record a client that names its identity gets by connecting is not   *)
(* for the port of another key's record.  (Of who listens on that port it  *)
(* says nothing.)                                                          *)
NoTakeover ==
    [][\A s \in Session :
        handle'[s] \notin {NoAlloc, handle[s]} /\ request[s].id # NoIdentity =>
            \A k \in Key \ {KeyOf(request[s].id)} :
                names[k] # NoAlloc =>
                    heap[names[k]].mappingPort # heap'[handle'[s]].mappingPort]_vars

(* The record of a session stays connected while the session holds it,     *)
(* unless a POST or a DELETE names its key or another session ends that    *)
(* holds the same record: neither the timer nor a session that is refused  *)
(* takes the status away, and a session that ends takes it from no record  *)
(* but its own.                                                            *)
StatusKeptWhileHeld ==
    [][\A s \in Session :
        LET a == handle[s]
        IN  /\ a # NoAlloc /\ handle'[s] = a
            /\ heap[a].status = Connected /\ heap'[a].status # Connected
            => \/ \E id \in Identity :
                    /\ KeyOf(id) = KeyOf(heap[a].id)
                    /\ FreePort(id) \/ \E cp \in ClientPort : AllocatePort(id, cp)
               \/ \E t \in Session \ {s} : handle[t] = a /\ EndSession(t)]_vars

(* A session whose connection is lost comes to its end: its goroutines do  *)
(* not wait for each other for ever.                                       *)
LostSessionEnds ==
    \A s \in Session : (pc[s] # "idle" /\ ~linked[s]) ~> (pc[s] = "idle")

-----------------------------------------------------------------------------
(* What a comment of the code says, and the code does not do.              *)

(* port_allocator.go:171: "the tunnel is disconnected, the port is kept    *)
(* for this client for another 10 minutes".  The timer frees no record     *)
(* within Hold of the end of a session on it.                              *)
KeptAfterDisconnect == \A a \in Hanging : quiet[a] > Hold
=============================================================================
