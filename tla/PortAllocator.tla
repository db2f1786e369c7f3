--------------------------- MODULE PortAllocator ---------------------------
(***************************************************************************)
(* The port allocator of the server: server/port_allocator.go, with the    *)
(* record type of server/port_allocation.go.                               *)
(*                                                                         *)
(* Two maps index one set of heap records: names, by the key made from the *)
(* identity (clientId, userId, appName), and ports, by mapping port.  The  *)
(* maps hold pointers, and OnConnected hands a pointer out: the session    *)
(* that called it keeps reading and writing the record after pa.mu is      *)
(* released.  A record is therefore a cell of heap, and names, ports and   *)
(* handle hold addresses.  Every operation that takes pa.mu is one action; *)
(* the one write made without it, by the end of a session, is another.     *)
(*                                                                         *)
(* Left out: ClientVersion (written on a private copy only) and StartTime  *)
(* (reported, never read), the copies that AllocatePort, FreePort and      *)
(* QueryPorts return, and the error texts.                                 *)
(***************************************************************************)
EXTENDS Integers, Sequences

CONSTANTS
    Identity,       \* the (clientId, userId, appName) triples in use
    NoIdentity,     \* a client of an old version, whose headers name nobody
    ClientPort,     \* ports of the applications behind the clients
    Port,           \* mapping ports a client may name
    MinPort, MaxPort,
    Alloc,          \* addresses of PortAllocation records
    NoAlloc,        \* the nil pointer, or no entry in the map
    Session,        \* callers that keep the pointer OnConnected returned
    Hold            \* the ten minutes of FreeHangingPorts, in ticks

PoolPort == MinPort..MaxPort

(* A name is the sequence of its parts between dashes, so that joining     *)
(* three names with "-" is concatenation: "c-d","u","a" and "c","d-u","a"  *)
(* give the same key, as they do in the code.                              *)
KeyOf(id) == id.client \o id.user \o id.app

Key == {KeyOf(id) : id \in Identity}

ASSUME PortAssumption ==
    /\ MinPort \in Int /\ MaxPort \in Int
    /\ PoolPort \subseteq Port
    /\ Port \subseteq Int
ASSUME HoldAssumption == Hold \in Nat
ASSUME NullAssumption == NoAlloc \notin Alloc /\ NoIdentity \notin Identity
ASSUME NonEmptyAssumption == Identity # {} /\ ClientPort # {} /\ Port # {}

Freed     == "freed"
Allocated == "allocated"
Connected == "connected"

VARIABLES
    heap,       \* [Alloc -> Record]
    names,      \* [Key -> Alloc or NoAlloc]
    ports,      \* [Port -> Alloc or NoAlloc]
    handle      \* [Session -> Alloc or NoAlloc], the pointer a session keeps

allocVars == <<heap, names, ports, handle>>

(* age is the time since AllocTime; past Hold it makes no difference.      *)
Record == [id : Identity, clientPort : ClientPort, mappingPort : Port,
           status : {Freed, Allocated, Connected}, age : 0..Hold+1]

(* Mutant: the literal leaves Status out.                                  *)
NewRecord_NoStatus(id, cp, mp, st) ==
    [id |-> id, clientPort |-> cp, mappingPort |-> mp, status |-> "", age |-> 0]

NewRecord(id, cp, mp, st) ==
    [id |-> id, clientPort |-> cp, mappingPort |-> mp, status |-> st, age |-> 0]

Vacant == {p \in PoolPort : ports[p] = NoAlloc}

Recyclable ==
    {p \in PoolPort : ports[p] # NoAlloc /\ heap[ports[p]].status = Freed}

(* Addresses no pointer reaches: `new` may return any of them.             *)
Unreferenced ==
    {a \in Alloc : /\ \A k \in Key : names[k] # a
                   /\ \A p \in Port : ports[p] # a
                   /\ \A s \in Session : handle[s] # a}

BlankRecord == CHOOSE r \in Record : TRUE

AllocInit ==
    /\ heap = [a \in Alloc |-> BlankRecord]
    /\ names = [k \in Key |-> NoAlloc]
    /\ ports = [p \in Port |-> NoAlloc]
    /\ handle = [s \in Session |-> NoAlloc]

-----------------------------------------------------------------------------
(* Enter a new record in both maps.                                        *)
Enter(a, id, cp, mp, st) ==
    /\ a \in Unreferenced
    /\ heap' = [heap EXCEPT ![a] = NewRecord(id, cp, mp, st)]
    /\ names' = [names EXCEPT ![KeyOf(id)] = a]
    /\ ports' = [ports EXCEPT ![mp] = a]

(* A second request of the same key returns the same record, whatever its  *)
(* status.                                                                 *)
Renew(id, cp) ==
    LET a == names[KeyOf(id)]
    IN  /\ a # NoAlloc
        /\ heap' = [heap EXCEPT ![a].clientPort = cp,
                                ![a].status = Allocated,
                                ![a].age = 0]
        /\ UNCHANGED <<names, ports, handle>>

(* Mutant: the key's old record is not looked for.                         *)
AllocateIn_NoLookup(S, id, cp) ==
    /\ \E p \in S, a \in Alloc :
         /\ \A q \in S : p <= q
         /\ Enter(a, id, cp, p, Allocated)
    /\ UNCHANGED handle

AllocateIn(S, id, cp) ==
    /\ names[KeyOf(id)] = NoAlloc
    /\ \E p \in S, a \in Alloc :
         /\ \A q \in S : p <= q
         /\ Enter(a, id, cp, p, Allocated)
    /\ UNCHANGED handle

(* First an unused slot, then the slot of a freed record; otherwise the    *)
(* request fails and changes nothing.                                      *)
AllocatePort(id, cp) ==
    \/ Renew(id, cp)
    \/ AllocateIn(Vacant, id, cp)
    \/ Vacant = {} /\ AllocateIn(Recyclable, id, cp)

-----------------------------------------------------------------------------
(* Connect session s through the record at address a.                      *)
Attach(s, a) ==
    /\ heap' = [heap EXCEPT ![a].status = Connected]
    /\ handle' = [handle EXCEPT ![s] = a]
    /\ UNCHANGED <<names, ports>>

(* Mutant: the mapping port is not compared.                               *)
KnownFits_AnyPort(id, cp, mp) ==
    LET a == names[KeyOf(id)] IN a # NoAlloc /\ heap[a].clientPort = cp

(* The session names its identity and the identity has a record: the ports *)
(* must be those of the record.                                            *)
KnownFits(id, cp, mp) ==
    LET a == names[KeyOf(id)]
    IN  /\ a # NoAlloc
        /\ heap[a].clientPort = cp
        /\ heap[a].mappingPort = mp

(* Mutant: the port is not looked up.                                      *)
UnknownFits_AnyPort(id, mp) == names[KeyOf(id)] = NoAlloc

(* It has none: the server may have restarted.  The port must have no      *)
(* record, and may lie outside the pool.                                   *)
UnknownFits(id, mp) == names[KeyOf(id)] = NoAlloc /\ ports[mp] = NoAlloc

(* An old client is known by its ports alone.                              *)
OldFits(cp, mp) ==
    LET a == ports[mp]
    IN  /\ a # NoAlloc
        /\ heap[a].clientPort = cp
        /\ heap[a].status = Allocated

ApplyNew(s, id, cp, mp) ==
    \/ KnownFits(id, cp, mp) /\ Attach(s, names[KeyOf(id)])
    \/ /\ UnknownFits(id, mp)
       /\ \E a \in Alloc : /\ Enter(a, id, cp, mp, Connected)
                           /\ handle' = [handle EXCEPT ![s] = a]

ApplyOld(s, cp, mp) == OldFits(cp, mp) /\ Attach(s, ports[mp])

OnConnected(s, id, cp, mp) ==
    \/ id # NoIdentity /\ ApplyNew(s, id, cp, mp)
    \/ id = NoIdentity /\ ApplyOld(s, cp, mp)

(* When OnConnected returns an error instead.                              *)
Refuses(id, cp, mp) ==
    IF id = NoIdentity
    THEN ~OldFits(cp, mp)
    ELSE ~KnownFits(id, cp, mp) /\ ~UnknownFits(id, mp)

(* The end of a session writes the status through its pointer, without     *)
(* pa.mu and without touching AllocTime; the pointer may be to a record    *)
(* that has left the maps.                                                 *)
Detach(s) ==
    /\ handle[s] # NoAlloc
    /\ heap' = [heap EXCEPT ![handle[s]].status = Allocated]
    /\ handle' = [handle EXCEPT ![s] = NoAlloc]
    /\ UNCHANGED <<names, ports>>

(* A session that fails after OnConnected drops its pointer, nothing more. *)
Abandon(s) ==
    /\ handle[s] # NoAlloc
    /\ handle' = [handle EXCEPT ![s] = NoAlloc]
    /\ UNCHANGED <<heap, names, ports>>

(* The operation meant for the end of a session, which nothing calls.      *)
OnDisconnected(s) ==
    /\ handle[s] # NoAlloc
    /\ heap' = [heap EXCEPT ![handle[s]].status = Allocated,
                            ![handle[s]].age = 0]
    /\ UNCHANGED <<names, ports, handle>>

-----------------------------------------------------------------------------
(* Mutant: the entry of ports stays.                                       *)
Release_KeepsPorts(A) ==
    /\ heap' = [a \in Alloc |-> IF a \in A THEN [heap[a] EXCEPT !.status = Freed]
                                           ELSE heap[a]]
    /\ names' = [k \in Key |-> IF \E a \in A : KeyOf(heap[a].id) = k
                               THEN NoAlloc ELSE names[k]]
    /\ UNCHANGED <<ports, handle>>

(* Mark the records at A freed and delete their entries, by the key and    *)
(* the port each record carries.                                           *)
Release(A) ==
    /\ heap' = [a \in Alloc |-> IF a \in A THEN [heap[a] EXCEPT !.status = Freed]
                                           ELSE heap[a]]
    /\ names' = [k \in Key |-> IF \E a \in A : KeyOf(heap[a].id) = k
                               THEN NoAlloc ELSE names[k]]
    /\ ports' = [p \in Port |-> IF \E a \in A : heap[a].mappingPort = p
                                THEN NoAlloc ELSE ports[p]]
    /\ UNCHANGED handle

FreePort(id) ==
    LET a == names[KeyOf(id)]
    IN  a # NoAlloc /\ Release({a})

(* Mutant: the names of the client are deleted, its ports are not.         *)
FreeClient_DeletesNames(c) ==
    /\ names' = [k \in Key |-> IF /\ names[k] # NoAlloc
                                  /\ heap[names[k]].id.client = c
                               THEN NoAlloc ELSE names[k]]
    /\ UNCHANGED <<heap, ports, handle>>

(* With an empty appName or userId: the records of the client are marked   *)
(* freed, and stay in both maps.                                           *)
FreeClient(c) ==
    /\ heap' = [a \in Alloc |->
                  IF heap[a].id.client = c /\ \E k \in Key : names[k] = a
                  THEN [heap[a] EXCEPT !.status = Freed]
                  ELSE heap[a]]
    /\ UNCHANGED <<names, ports, handle>>

(* Mutant: a connected record hangs too.                                   *)
Hanging_AnyStatus ==
    {a \in Alloc : (\E k \in Key : names[k] = a) /\ heap[a].age > Hold}

(* Mutant: only a freed record hangs.                                      *)
Hanging_Freed ==
    {a \in Alloc : /\ \E k \in Key : names[k] = a
                   /\ heap[a].status = Freed
                   /\ heap[a].age > Hold}

Hanging ==
    {a \in Alloc : /\ \E k \in Key : names[k] = a
                   /\ heap[a].status = Allocated
                   /\ heap[a].age > Hold}

FreeHangingPorts == Hanging # {} /\ Release(Hanging)

(* Time passes.                                                            *)
Tick ==
    /\ heap' = [a \in Alloc |->
                  [heap[a] EXCEPT !.age = IF @ > Hold THEN @ ELSE @ + 1]]
    /\ UNCHANGED <<names, ports, handle>>

(* The server stops and starts again: the maps are in memory only.         *)
Restart ==
    /\ names' = [k \in Key |-> NoAlloc]
    /\ ports' = [p \in Port |-> NoAlloc]
    /\ handle' = [s \in Session |-> NoAlloc]
    /\ UNCHANGED heap

-----------------------------------------------------------------------------
(* What the server's handlers and its timer do with the allocator.         *)
AllocNext ==
    \/ \E id \in Identity, cp \in ClientPort : AllocatePort(id, cp)
    \/ \E s \in Session, id \in Identity \cup {NoIdentity},
          cp \in ClientPort, mp \in Port : OnConnected(s, id, cp, mp)
    \/ \E s \in Session : Detach(s) \/ Abandon(s)
    \/ \E id \in Identity : FreePort(id)
    \/ FreeHangingPorts
    \/ Tick
    \/ Restart

AllocSpec == AllocInit /\ [][AllocNext]_allocVars

(* The whole interface of the type, with the operations no handler uses.   *)
ApiNext ==
    \/ AllocNext
    \/ \E s \in Session : OnDisconnected(s)
    \/ \E id \in Identity : FreeClient(id.client)

ApiSpec == AllocInit /\ [][ApiNext]_allocVars

(* Fairness: time passes, and RunFreeHangingTimer runs as long as the      *)
(* server does.                                                            *)
TimerSpec ==
    /\ ApiSpec
    /\ WF_allocVars(Tick)
    /\ WF_allocVars(FreeHangingPorts)

-----------------------------------------------------------------------------
(* The maps hold pointers to well-formed records.                          *)
AllocTypeOK ==
    /\ heap \in [Alloc -> Record]
    /\ names \in [Key -> Alloc \cup {NoAlloc}]
    /\ ports \in [Port -> Alloc \cup {NoAlloc}]
    /\ handle \in [Session -> Alloc \cup {NoAlloc}]

(* Every entry of a map is under the key or port its record carries, and   *)
(* every record that ports knows is the one names has for its key.  Holds  *)
(* for the whole interface.  (It does not say that every key owns its      *)
(* port: after a FreePort with an empty name, which no handler calls, the  *)
(* slot of a freed record may go to another key while names keeps both.)   *)
IndexSound ==
    /\ \A k \in Key : names[k] # NoAlloc => KeyOf(heap[names[k]].id) = k
    /\ \A p \in Port : ports[p] # NoAlloc =>
          /\ heap[ports[p]].mappingPort = p
          /\ names[KeyOf(heap[ports[p]].id)] = ports[p]

(* Conversely the record of every key owns its port: no two keys are       *)
(* promised one mapping port, and no freed record is left in a map.  This  *)
(* needs that FreePort is never called with an empty name.                 *)
NamesOwnPorts ==
    \A k \in Key : names[k] # NoAlloc =>
        /\ ports[heap[names[k]].mappingPort] = names[k]
        /\ heap[names[k]].status # Freed

TablesAgree == IndexSound /\ NamesOwnPorts

(* A reservation that is not used does not block its port for ever: it is  *)
(* deleted, connected or renewed, or the timer frees it.                   *)
HangingEnds ==
    \A k \in Key :
        (/\ names[k] # NoAlloc
         /\ heap[names[k]].status = Allocated
         /\ heap[names[k]].age > 0)
        ~> (\/ names[k] = NoAlloc
            \/ heap[names[k]].status # Allocated
            \/ heap[names[k]].age = 0)

-----------------------------------------------------------------------------
(* The leases the two maps stand for.                                      *)
LeaseOf(k) ==
    IF names[k] = NoAlloc
    THEN {}
    ELSE {[port |-> heap[names[k]].mappingPort,
           live |-> heap[names[k]].status = Connected,
           age  |-> heap[names[k]].age]}

Leasing == INSTANCE PortLease WITH lease <- [k \in Key |-> LeaseOf(k)]

(* The allocator, as the server uses it, implements the leasing service,   *)
(* whatever the interleaving of requests, sessions, unlocked writes, timer *)
(* and restarts: no port is leased to two keys, and a key keeps its port   *)
(* for as long as its lease lasts.                                         *)
LeasingSpec == Leasing!Spec

(* As long as the maps agree, which wildcard deletions undo, each          *)
(* operation does to the leases what it is for, and nothing else.  A POST  *)
(* renews or grants from the pool; a named connection makes the lease of   *)
(* its own key live, or leases the port it asks for; DELETE ends one       *)
(* lease, its own; the timer ends just the overdue ones, none of them      *)
(* live; and the end of a session touches no lease but its record's.       *)
OperationsKeepLeases ==
    [][TablesAgree =>
       /\ \A id \in Identity, cp \in ClientPort :
             AllocatePort(id, cp) =>
                \/ Leasing!Renew(KeyOf(id))
                \/ \E p \in PoolPort : Leasing!Grant(KeyOf(id), p, FALSE)
       /\ \A s \in Session, id \in Identity, cp \in ClientPort, mp \in Port :
             OnConnected(s, id, cp, mp) =>
                \/ Leasing!SetLive(KeyOf(id), TRUE)
                \/ Leasing!Grant(KeyOf(id), mp, TRUE)
       /\ \A id \in Identity : FreePort(id) => Leasing!Cancel(KeyOf(id))
       /\ FreeHangingPorts => Leasing!Expire
       /\ \A s \in Session : Detach(s) =>
             \/ Leasing!SetLive(KeyOf(heap[handle[s]].id), FALSE)
             \/ \A k \in Key : LeaseOf(k)' = LeaseOf(k)]_allocVars
=============================================================================
