------------------------ MODULE PortAllocatorProofs ------------------------
(***************************************************************************)
(* Proofs about PortAllocator, for every set of identities (whether or not *)
(* their keys collide), every pool, every number of sessions and every     *)
(* Hold.                                                                   *)
(*                                                                         *)
(* ApiInv is inductive for the whole interface.  Inv adds NamesOwnPorts,   *)
(* which the operations the server uses preserve, and FreeClient does not. *)
(***************************************************************************)
EXTENDS PortAllocator, TLAPS

ApiInv == AllocTypeOK /\ IndexSound

Inv == ApiInv /\ NamesOwnPorts

-----------------------------------------------------------------------------
(* The key of an identity in use is one of the keys of the map.            *)
LEMMA KeyOfIdentity == \A id \in Identity : KeyOf(id) \in Key
BY DEF Key

(* A record made by a request or a connection is well formed.              *)
LEMMA NewRecordType ==
    ASSUME NEW id \in Identity, NEW cp \in ClientPort, NEW mp \in Port,
           NEW st \in {Allocated, Connected}
    PROVE  NewRecord(id, cp, mp, st) \in Record
BY HoldAssumption DEF NewRecord, Record, Freed, Allocated, Connected

(* The empty maps of NewPortAllocator satisfy the invariant.               *)
LEMMA InitInv == AllocInit => Inv
<1> SUFFICES ASSUME AllocInit PROVE Inv
  OBVIOUS
<1>1. Record # {}
  <2>1. PICK id \in Identity, cp \in ClientPort, mp \in Port : TRUE
    BY NonEmptyAssumption
  <2>2. NewRecord(id, cp, mp, Allocated) \in Record
    BY NewRecordType
  <2> QED BY <2>2
<1>2. BlankRecord \in Record
  BY <1>1 DEF BlankRecord
<1>3. AllocTypeOK
  BY <1>2 DEF AllocInit, AllocTypeOK
<1>4. IndexSound /\ NamesOwnPorts
  BY NullAssumption DEF AllocInit, IndexSound, NamesOwnPorts
<1> QED BY <1>3, <1>4 DEF Inv, ApiInv

-----------------------------------------------------------------------------
(* Entering a record under a key that has none, at a port that has no      *)
(* record or a freed one, keeps the maps sound; it keeps them in agreement *)
(* when the port has no record.                                            *)
LEMMA EnterInv ==
    ASSUME ApiInv,
           NEW a \in Alloc, NEW id \in Identity, NEW cp \in ClientPort,
           NEW mp \in Port, NEW st \in {Allocated, Connected},
           names[KeyOf(id)] = NoAlloc,
           Enter(a, id, cp, mp, st),
           handle' \in [Session -> Alloc \cup {NoAlloc}]
    PROVE  /\ ApiInv'
           /\ NamesOwnPorts /\ ports[mp] = NoAlloc => NamesOwnPorts'
<1> DEFINE r == NewRecord(id, cp, mp, st)
<1>1. r \in Record
  BY NewRecordType
<1>2. KeyOf(id) \in Key
  BY KeyOfIdentity
<1>3. AllocTypeOK'
  BY <1>1, <1>2 DEF ApiInv, AllocTypeOK, Enter
<1>4. /\ r.id = id /\ r.mappingPort = mp /\ r.status = st
  BY DEF NewRecord
<1>5. /\ \A k \in Key : names[k] # a
      /\ \A p \in Port : ports[p] # a
      /\ a # NoAlloc
  BY NullAssumption DEF Enter, Unreferenced
<1>6. /\ heap'[a] = r
      /\ \A b \in Alloc : b # a => heap'[b] = heap[b]
      /\ names'[KeyOf(id)] = a
      /\ \A k \in Key : k # KeyOf(id) => names'[k] = names[k]
      /\ ports'[mp] = a
      /\ \A p \in Port : p # mp => ports'[p] = ports[p]
  BY <1>2 DEF ApiInv, AllocTypeOK, Enter
<1>7. IndexSound'
  <2>1. ASSUME NEW k \in Key, names'[k] # NoAlloc
        PROVE  KeyOf(heap'[names'[k]].id) = k
    <3>1. CASE k = KeyOf(id)
      BY <1>4, <1>6, <3>1
    <3>2. CASE k # KeyOf(id)
      BY <1>5, <1>6, <2>1, <3>2 DEF ApiInv, IndexSound, AllocTypeOK
    <3> QED BY <3>1, <3>2
  <2>2. ASSUME NEW p \in Port, ports'[p] # NoAlloc
        PROVE  /\ heap'[ports'[p]].mappingPort = p
               /\ names'[KeyOf(heap'[ports'[p]].id)] = ports'[p]
    <3>1. CASE p = mp
      BY <1>4, <1>6, <3>1
    <3>2. CASE p # mp
      <4>1. /\ ports'[p] = ports[p] /\ ports[p] \in Alloc /\ ports[p] # a
            /\ heap'[ports[p]] = heap[ports[p]]
        BY <1>5, <1>6, <2>2, <3>2 DEF ApiInv, AllocTypeOK
      <4>2. /\ heap[ports[p]].mappingPort = p
            /\ names[KeyOf(heap[ports[p]].id)] = ports[p]
        BY <2>2, <4>1 DEF ApiInv, IndexSound
      <4>3. /\ KeyOf(heap[ports[p]].id) # KeyOf(id)
            /\ KeyOf(heap[ports[p]].id) \in Key
        BY <4>1, <4>2, NullAssumption, KeyOfIdentity
           DEF ApiInv, AllocTypeOK, Record
      <4> QED BY <1>6, <4>1, <4>2, <4>3
    <3> QED BY <3>1, <3>2
  <2> QED BY <2>1, <2>2 DEF IndexSound
<1>8. ASSUME NamesOwnPorts, ports[mp] = NoAlloc
      PROVE  NamesOwnPorts'
  <2>1. ASSUME NEW k \in Key, names'[k] # NoAlloc
        PROVE  /\ ports'[heap'[names'[k]].mappingPort] = names'[k]
               /\ heap'[names'[k]].status # Freed
    <3>1. CASE k = KeyOf(id)
      BY <1>4, <1>6, <3>1 DEF Freed, Allocated, Connected
    <3>2. CASE k # KeyOf(id)
      <4>1. /\ names'[k] = names[k] /\ names[k] \in Alloc /\ names[k] # a
            /\ heap'[names[k]] = heap[names[k]]
        BY <1>5, <1>6, <2>1, <3>2 DEF ApiInv, AllocTypeOK
      <4>2. /\ ports[heap[names[k]].mappingPort] = names[k]
            /\ heap[names[k]].status # Freed
            /\ heap[names[k]].mappingPort \in Port
        BY <1>8, <2>1, <4>1 DEF NamesOwnPorts, ApiInv, AllocTypeOK, Record
      <4>3. heap[names[k]].mappingPort # mp
        BY <1>8, <4>1, <4>2, NullAssumption
      <4> QED BY <1>6, <4>1, <4>2, <4>3
    <3> QED BY <3>1, <3>2
  <2> QED BY <2>1 DEF NamesOwnPorts
<1> QED BY <1>3, <1>7, <1>8 DEF ApiInv

(* Writing the status, the age or the client port of one record, to a      *)
(* status that is not freed, keeps the maps as they were.                  *)
LEMMA WriteInv ==
    ASSUME ApiInv, heap' \in [Alloc -> Record],
           \A b \in Alloc : /\ heap'[b].id = heap[b].id
                            /\ heap'[b].mappingPort = heap[b].mappingPort,
           handle' \in [Session -> Alloc \cup {NoAlloc}],
           names' = names, ports' = ports
    PROVE  /\ ApiInv'
           /\ (/\ NamesOwnPorts
               /\ \A b \in Alloc : heap[b].status # Freed => heap'[b].status # Freed)
              => NamesOwnPorts'
<1>1. AllocTypeOK'
  BY DEF ApiInv, AllocTypeOK
<1>2. IndexSound'
  BY DEF ApiInv, AllocTypeOK, IndexSound
<1>3. ASSUME NamesOwnPorts,
             \A b \in Alloc : heap[b].status # Freed => heap'[b].status # Freed
      PROVE  NamesOwnPorts'
  BY <1>3 DEF ApiInv, AllocTypeOK, NamesOwnPorts
<1> QED BY <1>1, <1>2, <1>3 DEF ApiInv

(* Deleting the entries of records of the names map, by the key and the    *)
(* port each carries, leaves no entry that is not sound.                   *)
LEMMA ReleaseInv ==
    ASSUME ApiInv, NEW A \in SUBSET Alloc,
           \A a \in A : \E k \in Key : names[k] = a,
           Release(A)
    PROVE  ApiInv' /\ (NamesOwnPorts => NamesOwnPorts')
<1>1. /\ \A a \in Alloc : /\ heap'[a].id = heap[a].id
                          /\ heap'[a].mappingPort = heap[a].mappingPort
                          /\ a \notin A => heap'[a] = heap[a]
      /\ heap' \in [Alloc -> Record]
  BY DEF ApiInv, AllocTypeOK, Release, Record
<1>2. AllocTypeOK'
  BY <1>1 DEF ApiInv, AllocTypeOK, Release
<1>3. ASSUME NEW k \in Key, names'[k] # NoAlloc
      PROVE  /\ names'[k] = names[k] /\ names[k] \in Alloc \ A
             /\ KeyOf(heap[names[k]].id) = k
  BY <1>3 DEF Release, ApiInv, AllocTypeOK, IndexSound
<1>4. ASSUME NEW p \in Port, ports'[p] # NoAlloc
      PROVE  /\ ports'[p] = ports[p] /\ ports[p] \in Alloc \ A
             /\ heap[ports[p]].mappingPort = p
             /\ names[KeyOf(heap[ports[p]].id)] = ports[p]
  BY <1>4 DEF Release, ApiInv, AllocTypeOK, IndexSound
<1>5. ASSUME NEW b \in Alloc \ A, KeyOf(heap[b].id) \in Key,
             names[KeyOf(heap[b].id)] = b
      PROVE  names'[KeyOf(heap[b].id)] = b
  <2>1. \A a \in A : KeyOf(heap[a].id) # KeyOf(heap[b].id)
    <3>1. SUFFICES ASSUME NEW a \in A, KeyOf(heap[a].id) = KeyOf(heap[b].id)
                   PROVE  FALSE
      OBVIOUS
    <3>2. PICK k \in Key : names[k] = a
      OBVIOUS
    <3>3. k = KeyOf(heap[a].id)
      BY <3>2, NullAssumption DEF ApiInv, IndexSound
    <3> QED BY <1>5, <3>1, <3>2, <3>3
  <2> QED BY <1>5, <2>1 DEF Release
<1>6. \A b \in Alloc : KeyOf(heap[b].id) \in Key
  BY KeyOfIdentity DEF ApiInv, AllocTypeOK, Record
<1>7. IndexSound'
  BY <1>1, <1>3, <1>4, <1>5, <1>6 DEF IndexSound
<1>8. ASSUME NamesOwnPorts PROVE NamesOwnPorts'
  <2>1. ASSUME NEW k \in Key, names'[k] # NoAlloc
        PROVE  /\ ports'[heap'[names'[k]].mappingPort] = names'[k]
               /\ heap'[names'[k]].status # Freed
    <3> DEFINE b == names[k]
               q == heap[b].mappingPort
    <3>1. /\ names'[k] = b /\ b \in Alloc \ A /\ heap'[b] = heap[b]
          /\ q \in Port /\ KeyOf(heap[b].id) = k
      BY <1>1, <1>3, <2>1 DEF ApiInv, AllocTypeOK, Record
    <3>2. ports[q] = b /\ heap[b].status # Freed
      BY <1>8, <3>1, NullAssumption DEF NamesOwnPorts
    <3>3. \A a \in A : heap[a].mappingPort # q
      <4>1. SUFFICES ASSUME NEW a \in A, heap[a].mappingPort = q PROVE FALSE
        OBVIOUS
      <4>2. PICK j \in Key : names[j] = a
        OBVIOUS
      <4>3. ports[q] = a
        BY <1>8, <4>1, <4>2, NullAssumption DEF NamesOwnPorts
      <4> QED BY <3>1, <3>2, <4>3
    <3>4. ports'[q] = b
      BY <3>1, <3>2, <3>3 DEF Release
    <3> QED BY <3>1, <3>2, <3>4
  <2> QED BY <2>1 DEF NamesOwnPorts
<1> QED BY <1>2, <1>7, <1>8 DEF ApiInv
-----------------------------------------------------------------------------
(* A POST, whether it renews a record, takes an unused slot or recycles a  *)
(* freed one, which NamesOwnPorts excludes.                                *)
LEMMA AllocatePortInv ==
    ASSUME ApiInv, NEW id \in Identity, NEW cp \in ClientPort,
           AllocatePort(id, cp)
    PROVE  ApiInv' /\ (NamesOwnPorts => NamesOwnPorts')
<1>1. KeyOf(id) \in Key
  BY KeyOfIdentity
<1>2. CASE Renew(id, cp)
  <2> DEFINE a == names[KeyOf(id)]
  <2>1. /\ a \in Alloc
        /\ heap' = [heap EXCEPT ![a].clientPort = cp,
                                ![a].status = Allocated,
                                ![a].age = 0]
        /\ names' = names /\ ports' = ports /\ handle' = handle
    BY <1>1, <1>2 DEF Renew, ApiInv, AllocTypeOK
  <2>2. heap' \in [Alloc -> Record]
    BY <2>1, HoldAssumption DEF ApiInv, AllocTypeOK, Record, Allocated
  <2> HIDE DEF a
  <2>3. \A b \in Alloc \ {a} : heap'[b] = heap[b]
    BY <2>1 DEF ApiInv, AllocTypeOK
  <2>4. heap'[a].id = heap[a].id
    BY <2>1 DEF ApiInv, AllocTypeOK, Record
  <2>5. heap'[a].mappingPort = heap[a].mappingPort
    BY <2>1 DEF ApiInv, AllocTypeOK, Record
  <2>6. heap'[a].status # Freed
    BY <2>1 DEF ApiInv, AllocTypeOK, Record, Allocated, Freed
  <2>7. \A b \in Alloc : /\ heap'[b].id = heap[b].id
                          /\ heap'[b].mappingPort = heap[b].mappingPort
    BY <2>3, <2>4, <2>5
  <2>8. \A b \in Alloc : heap[b].status # Freed => heap'[b].status # Freed
    BY <2>3, <2>6
  <2>9. handle' \in [Session -> Alloc \cup {NoAlloc}]
    BY <2>1 DEF ApiInv, AllocTypeOK
  <2>10. names' = names /\ ports' = ports
    BY <2>1
  <2> QED BY <2>2, <2>7, <2>8, <2>9, <2>10, WriteInv
<1>3. ASSUME NEW S \in {Vacant, Recyclable}, AllocateIn(S, id, cp)
      PROVE  ApiInv' /\ (NamesOwnPorts => NamesOwnPorts')
  <2>1. PICK p \in S, a \in Alloc : Enter(a, id, cp, p, Allocated)
    BY <1>3 DEF AllocateIn
  <2>2. p \in Port
    BY <1>3, PortAssumption DEF Vacant, Recyclable
  <2>3. names[KeyOf(id)] = NoAlloc
    BY <1>3 DEF AllocateIn
  <2>4. handle' \in [Session -> Alloc \cup {NoAlloc}]
    BY <1>3 DEF AllocateIn, ApiInv, AllocTypeOK
  <2>5. ApiInv' /\ (NamesOwnPorts /\ ports[p] = NoAlloc => NamesOwnPorts')
    BY <2>1, <2>2, <2>3, <2>4, EnterInv
  <2>6. NamesOwnPorts => ports[p] = NoAlloc
    <3>1. CASE S = Vacant
      BY <3>1 DEF Vacant
    <3>2. CASE S = Recyclable
      <4>1. SUFFICES ASSUME NamesOwnPorts, ports[p] # NoAlloc PROVE FALSE
        OBVIOUS
      <4>2. heap[ports[p]].status = Freed
        BY <3>2 DEF Recyclable
      <4>3. /\ names[KeyOf(heap[ports[p]].id)] = ports[p]
            /\ KeyOf(heap[ports[p]].id) \in Key
        BY <2>2, <4>1, KeyOfIdentity
           DEF ApiInv, IndexSound, AllocTypeOK, Record
      <4> QED BY <4>1, <4>2, <4>3 DEF NamesOwnPorts
    <3> QED BY <1>3, <3>1, <3>2
  <2> QED BY <2>5, <2>6
<1> QED BY <1>2, <1>3 DEF AllocatePort

(* Connecting through the record at address a.                             *)
LEMMA AttachInv ==
    ASSUME ApiInv, NEW s \in Session, NEW a \in Alloc, Attach(s, a)
    PROVE  ApiInv' /\ (NamesOwnPorts => NamesOwnPorts')
<1>1. heap' \in [Alloc -> Record]
  BY DEF Attach, ApiInv, AllocTypeOK, Record, Connected
<1>2. \A b \in Alloc : /\ heap'[b].id = heap[b].id
                        /\ heap'[b].mappingPort = heap[b].mappingPort
  BY DEF Attach, ApiInv, AllocTypeOK, Record
<1>3. \A b \in Alloc : heap[b].status # Freed => heap'[b].status # Freed
  BY DEF Attach, ApiInv, AllocTypeOK, Record, Connected, Freed
<1>4. handle' \in [Session -> Alloc \cup {NoAlloc}]
  BY DEF Attach, ApiInv, AllocTypeOK
<1>5. names' = names /\ ports' = ports
  BY DEF Attach
<1> QED BY <1>1, <1>2, <1>3, <1>4, <1>5, WriteInv

(* A reverse remote applied for by a new client or an old one.             *)
LEMMA OnConnectedInv ==
    ASSUME ApiInv, NEW s \in Session, NEW id \in Identity \cup {NoIdentity},
           NEW cp \in ClientPort, NEW mp \in Port, OnConnected(s, id, cp, mp)
    PROVE  ApiInv' /\ (NamesOwnPorts => NamesOwnPorts')
<1>1. CASE id # NoIdentity /\ KnownFits(id, cp, mp) /\ Attach(s, names[KeyOf(id)])
  <2>1. names[KeyOf(id)] \in Alloc
    BY <1>1, KeyOfIdentity DEF KnownFits, ApiInv, AllocTypeOK
  <2> QED BY <1>1, <2>1, AttachInv
<1>2. ASSUME id # NoIdentity, UnknownFits(id, mp),
             NEW a \in Alloc, Enter(a, id, cp, mp, Connected),
             handle' = [handle EXCEPT ![s] = a]
      PROVE  ApiInv' /\ (NamesOwnPorts => NamesOwnPorts')
  <2>1. handle' \in [Session -> Alloc \cup {NoAlloc}]
    BY <1>2 DEF ApiInv, AllocTypeOK
  <2>2. names[KeyOf(id)] = NoAlloc /\ ports[mp] = NoAlloc
    BY <1>2 DEF UnknownFits
  <2> QED BY <1>2, <2>1, <2>2, EnterInv
<1>3. CASE OldFits(cp, mp) /\ Attach(s, ports[mp])
  <2>1. ports[mp] \in Alloc
    BY <1>3 DEF OldFits, ApiInv, AllocTypeOK
  <2> QED BY <1>3, <2>1, AttachInv
<1> QED BY <1>1, <1>2, <1>3 DEF OnConnected, ApplyNew, ApplyOld

(* The writes a session makes through its pointer.                         *)
LEMMA HandleInv ==
    ASSUME ApiInv, NEW s \in Session,
           Detach(s) \/ Abandon(s) \/ OnDisconnected(s)
    PROVE  ApiInv' /\ (NamesOwnPorts => NamesOwnPorts')
<1>1. heap' \in [Alloc -> Record]
  BY HoldAssumption DEF Detach, Abandon, OnDisconnected, ApiInv, AllocTypeOK, Record, Allocated
<1>2. \A b \in Alloc : /\ heap'[b].id = heap[b].id
                        /\ heap'[b].mappingPort = heap[b].mappingPort
  BY DEF Detach, Abandon, OnDisconnected, ApiInv, AllocTypeOK, Record
<1>3. \A b \in Alloc : heap[b].status # Freed => heap'[b].status # Freed
  BY DEF Detach, Abandon, OnDisconnected, ApiInv, AllocTypeOK, Record, Allocated, Freed
<1>4. handle' \in [Session -> Alloc \cup {NoAlloc}]
  BY DEF Detach, Abandon, OnDisconnected, ApiInv, AllocTypeOK
<1>5. names' = names /\ ports' = ports
  BY DEF Detach, Abandon, OnDisconnected
<1> QED BY <1>1, <1>2, <1>3, <1>4, <1>5, WriteInv

(* DELETE of one record, and the timer's deletion of all that hang.        *)
LEMMA FreeInv ==
    ASSUME ApiInv, (\E id \in Identity : FreePort(id)) \/ FreeHangingPorts
    PROVE  ApiInv' /\ (NamesOwnPorts => NamesOwnPorts')
<1>1. ASSUME NEW id \in Identity, FreePort(id)
      PROVE  ApiInv' /\ (NamesOwnPorts => NamesOwnPorts')
  <2> DEFINE A == {names[KeyOf(id)]}
  <2>1. KeyOf(id) \in Key /\ names[KeyOf(id)] # NoAlloc /\ Release(A)
    BY <1>1, KeyOfIdentity DEF FreePort
  <2>2. A \in SUBSET Alloc /\ \A a \in A : \E k \in Key : names[k] = a
    BY <2>1 DEF ApiInv, AllocTypeOK
  <2> QED BY <2>1, <2>2, ReleaseInv
<1>2. CASE FreeHangingPorts
  <2>1. /\ Hanging \in SUBSET Alloc
        /\ \A a \in Hanging : \E k \in Key : names[k] = a
        /\ Release(Hanging)
    BY <1>2 DEF FreeHangingPorts, Hanging
  <2> QED BY <2>1, ReleaseInv
<1> QED BY <1>1, <1>2

(* Every step of the interface but FreeClient keeps Inv, time and restarts *)
(* included.                                                               *)
LEMMA AllocNextInv ==
    ASSUME ApiInv, AllocNext
    PROVE  ApiInv' /\ (NamesOwnPorts => NamesOwnPorts')
<1>1. ASSUME NEW id \in Identity, NEW cp \in ClientPort, AllocatePort(id, cp)
      PROVE  ApiInv' /\ (NamesOwnPorts => NamesOwnPorts')
  BY <1>1, AllocatePortInv
<1>2. ASSUME NEW s \in Session, NEW id \in Identity \cup {NoIdentity},
             NEW cp \in ClientPort, NEW mp \in Port, OnConnected(s, id, cp, mp)
      PROVE  ApiInv' /\ (NamesOwnPorts => NamesOwnPorts')
  BY <1>2, OnConnectedInv
<1>3. ASSUME NEW s \in Session, Detach(s) \/ Abandon(s)
      PROVE  ApiInv' /\ (NamesOwnPorts => NamesOwnPorts')
  BY <1>3, HandleInv
<1>4. CASE (\E id \in Identity : FreePort(id)) \/ FreeHangingPorts
  BY <1>4, FreeInv
<1>5. CASE Tick
  <2>1. heap' \in [Alloc -> Record]
    <3>1. ASSUME NEW a \in Alloc
          PROVE  [heap[a] EXCEPT !.age = IF @ > Hold THEN @ ELSE @ + 1] \in Record
      <4>1. heap[a] \in Record
        BY DEF ApiInv, AllocTypeOK
      <4> QED BY <4>1, HoldAssumption DEF Record
    <3> QED BY <1>5, <3>1 DEF Tick
  <2>2. \A b \in Alloc : /\ heap'[b].id = heap[b].id
                          /\ heap'[b].mappingPort = heap[b].mappingPort
    BY <1>5 DEF Tick, ApiInv, AllocTypeOK, Record
  <2>3. \A b \in Alloc : heap[b].status # Freed => heap'[b].status # Freed
    BY <1>5 DEF Tick, ApiInv, AllocTypeOK, Record
  <2>4. handle' \in [Session -> Alloc \cup {NoAlloc}]
    BY <1>5 DEF Tick, ApiInv, AllocTypeOK
  <2>5. names' = names /\ ports' = ports
    BY <1>5 DEF Tick
  <2> QED BY <2>1, <2>2, <2>3, <2>4, <2>5, WriteInv
<1>6. CASE Restart
  <2>1. AllocTypeOK'
    BY <1>6 DEF Restart, ApiInv, AllocTypeOK
  <2>2. IndexSound' /\ NamesOwnPorts'
    BY <1>6 DEF Restart, IndexSound, NamesOwnPorts
  <2> QED BY <2>1, <2>2 DEF ApiInv
<1> QED BY <1>1, <1>2, <1>3, <1>4, <1>5, <1>6 DEF AllocNext

(* The wildcard free marks records and leaves both maps alone.             *)
LEMMA FreeClientInv ==
    ASSUME ApiInv, NEW c, FreeClient(c)
    PROVE  ApiInv'
<1>1. /\ heap' \in [Alloc -> Record]
      /\ \A b \in Alloc : /\ heap'[b].id = heap[b].id
                            /\ heap'[b].mappingPort = heap[b].mappingPort
  BY DEF FreeClient, ApiInv, AllocTypeOK, Record, Freed
<1>2. handle' \in [Session -> Alloc \cup {NoAlloc}]
  BY DEF FreeClient, ApiInv, AllocTypeOK
<1>3. names' = names /\ ports' = ports
  BY DEF FreeClient
<1> QED BY <1>3, <1>1, <1>2, WriteInv

-----------------------------------------------------------------------------
(* ApiInv is an invariant of the whole interface.                          *)
LEMMA ApiInvariant == ApiSpec => []ApiInv
<1>1. AllocInit => ApiInv
  BY InitInv DEF Inv
<1>2. ApiInv /\ [ApiNext]_allocVars => ApiInv'
  <2> SUFFICES ASSUME ApiInv, [ApiNext]_allocVars PROVE ApiInv'
    OBVIOUS
  <2>1. CASE AllocNext
    BY <2>1, AllocNextInv
  <2>2. ASSUME NEW s \in Session, OnDisconnected(s) PROVE ApiInv'
    BY <2>2, HandleInv
  <2>3. ASSUME NEW id \in Identity, FreeClient(id.client) PROVE ApiInv'
    BY <2>3, FreeClientInv
  <2>4. CASE UNCHANGED allocVars
    BY <2>4 DEF allocVars, ApiInv, AllocTypeOK, IndexSound
  <2> QED BY <2>1, <2>2, <2>3, <2>4 DEF ApiNext
<1> QED BY <1>1, <1>2, PTL DEF ApiSpec

(* The whole interface, FreePort with empty names included, keeps every    *)
(* entry of the two maps under the key and port of its record, and keeps   *)
(* every record of ports the record of its key in names.                   *)
THEOREM ApiKeepsIndexSound == ApiSpec => []IndexSound
<1>1. ApiInv => IndexSound
  BY DEF ApiInv
<1> QED BY <1>1, ApiInvariant, PTL

(* Inv is an invariant of the allocator as the server uses it.             *)
LEMMA ServerUseInv == AllocSpec => []Inv
<1>1. AllocInit => Inv
  BY InitInv
<1>2. Inv /\ [AllocNext]_allocVars => Inv'
  <2>1. ASSUME Inv, AllocNext PROVE Inv'
    BY <2>1, AllocNextInv DEF Inv
  <2>2. ASSUME Inv, UNCHANGED allocVars PROVE Inv'
    BY <2>2 DEF allocVars, Inv, ApiInv, AllocTypeOK, IndexSound, NamesOwnPorts
  <2> QED BY <2>1, <2>2
<1> QED BY <1>1, <1>2, PTL DEF AllocSpec

(* The maps always hold well-formed records under addresses in use.        *)
THEOREM AllocTypeCorrect == AllocSpec => []AllocTypeOK
<1>1. Inv => AllocTypeOK
  BY DEF Inv, ApiInv
<1> QED BY <1>1, ServerUseInv, PTL

(* As the server uses the allocator, whatever the interleaving of POST,    *)
(* DELETE, connections, the unlocked status writes, the timer and          *)
(* restarts, the two maps agree on every record.                           *)
THEOREM TablesAlwaysAgree == AllocSpec => []TablesAgree
<1>1. Inv => TablesAgree
  BY DEF Inv, ApiInv, TablesAgree
<1> QED BY <1>1, ServerUseInv, PTL
=============================================================================
