----------------------------- MODULE LeaseProofs ----------------------------
(***************************************************************************)
(* The allocator implements the leasing service of PortLease, for every    *)
(* set of identities, every pool and every number of sessions.  As long as *)
(* the two maps agree, each operation does to the leases they stand for    *)
(* what it is for; the server never makes them disagree                    *)
(* (TablesAlwaysAgree), so its whole behaviour maps to one of PortLease.   *)
(*                                                                         *)
(* Three lemmas carry the argument, one for each thing an operation may do *)
(* to the maps: enter a record (GrantStep), write into one (WriteStep),    *)
(* delete some (ReleaseStep).                                              *)
(***************************************************************************)
EXTENDS PortAllocatorProofs

Sound == AllocTypeOK /\ TablesAgree

(* A lease read from a record.                                             *)
LeaseAt(a) == [port |-> heap[a].mappingPort,
               live |-> heap[a].status = Connected,
               age  |-> heap[a].age]

(* The lease of a key, as an expression of the record it has.              *)
LEMMA LeaseOfKey ==
    ASSUME NEW k \in Key
    PROVE  LeaseOf(k) = IF names[k] = NoAlloc THEN {} ELSE {LeaseAt(names[k])}
BY DEF LeaseOf, LeaseAt

-----------------------------------------------------------------------------
(* A record entered under a key that has none, at a port that has none, is *)
(* a lease granted.                                                        *)
LEMMA GrantStep ==
    ASSUME Sound,
           NEW a \in Alloc, NEW id \in Identity, NEW cp \in ClientPort,
           NEW mp \in Port, NEW st \in {Allocated, Connected},
           names[KeyOf(id)] = NoAlloc, ports[mp] = NoAlloc,
           Enter(a, id, cp, mp, st)
    PROVE  Leasing!Grant(KeyOf(id), mp, st = Connected)
<1>1. KeyOf(id) \in Key
  BY KeyOfIdentity
<1>2. /\ heap'[a] = NewRecord(id, cp, mp, st)
      /\ \A b \in Alloc : b # a => heap'[b] = heap[b]
      /\ names'[KeyOf(id)] = a
      /\ \A k \in Key : k # KeyOf(id) => names'[k] = names[k]
      /\ a # NoAlloc
      /\ \A k \in Key : names[k] # a
  BY <1>1, NullAssumption DEF Sound, AllocTypeOK, Enter, Unreferenced
<1>3. LeaseOf(KeyOf(id)) = {}
  BY DEF LeaseOf
<1>4. ASSUME NEW k \in Key, NEW l \in LeaseOf(k) PROVE l.port # mp
  <2>1. names[k] # NoAlloc /\ l.port = heap[names[k]].mappingPort
    BY <1>4 DEF LeaseOf
  <2>2. ports[heap[names[k]].mappingPort] = names[k]
    BY <2>1 DEF Sound, TablesAgree, NamesOwnPorts
  <2> QED BY <2>1, <2>2
<1>5. LeaseOf(KeyOf(id))' = {Leasing!NewLease(mp, st = Connected)}
  BY <1>2 DEF LeaseOf, NewRecord, Leasing!NewLease
<1>6. ASSUME NEW k \in Key, k # KeyOf(id) PROVE LeaseOf(k)' = LeaseOf(k)
  <2>1. names'[k] = names[k] /\ names[k] # a /\ names[k] \in Alloc \cup {NoAlloc}
    BY <1>2, <1>6 DEF Sound, AllocTypeOK
  <2>2. names[k] # NoAlloc => heap'[names[k]] = heap[names[k]]
    BY <1>2, <2>1
  <2> QED BY <2>1, <2>2 DEF LeaseOf
<1>7. [k \in Key |-> LeaseOf(k)]' =
        [[k \in Key |-> LeaseOf(k)] EXCEPT
            ![KeyOf(id)] = {Leasing!NewLease(mp, st = Connected)}]
  <2> DEFINE new == {Leasing!NewLease(mp, st = Connected)}
  <2>1. \A k \in Key : LeaseOf(k)' = IF k = KeyOf(id) THEN new ELSE LeaseOf(k)
    BY <1>5, <1>6
  <2> HIDE DEF new
  <2>2. [k \in Key |-> LeaseOf(k)]' = [[k \in Key |-> LeaseOf(k)] EXCEPT ![KeyOf(id)] = new]
    BY <1>1, <2>1
  <2> QED BY <2>2 DEF new
<1> QED BY <1>1, <1>3, <1>4, <1>7
        DEF Leasing!Grant, Leasing!Leased, Leasing!LeasedPorts, Leasing!Change

(* A write into one record leaves the leases of all other keys alone.      *)
LEMMA OtherLeases ==
    ASSUME Sound, NEW a \in Alloc, names' = names,
           \A b \in Alloc : b # a => heap'[b] = heap[b],
           NEW k \in Key, names[k] # a
    PROVE  LeaseOf(k)' = LeaseOf(k)
BY DEF LeaseOf, Sound, AllocTypeOK

(* A record that a key has is its own: no other key has it.                *)
LEMMA OneKey ==
    ASSUME Sound, NEW k \in Key, names[k] # NoAlloc,
           NEW j \in Key, names[j] = names[k]
    PROVE  j = k
BY DEF Sound, TablesAgree, IndexSound

(* A write into the record of a key is a change of the lease of that key.  *)
LEMMA WriteStep ==
    ASSUME Sound, NEW a \in Alloc, NEW k \in Key, names[k] = a,
           names' = names,
           \A b \in Alloc : b # a => heap'[b] = heap[b]
    PROVE  /\ Leasing!Leased(k)
           /\ LeaseOf(k) = {LeaseAt(a)}
           /\ [j \in Key |-> LeaseOf(j)]' =
                 [[j \in Key |-> LeaseOf(j)] EXCEPT ![k] = {LeaseAt(a)'}]
<1>1. a # NoAlloc
  BY NullAssumption
<1>2. LeaseOf(k) = {LeaseAt(a)} /\ LeaseOf(k)' = {LeaseAt(a)'}
  BY <1>1 DEF LeaseOf, LeaseAt
<1>3. ASSUME NEW j \in Key, j # k PROVE LeaseOf(j)' = LeaseOf(j)
  BY <1>1, <1>3, OneKey, OtherLeases
<1> QED BY <1>2, <1>3 DEF Leasing!Leased

(* Deleting the records at A, all of the names map, ends the leases of     *)
(* their keys and leaves the others as they were.                          *)
LEMMA ReleaseStep ==
    ASSUME Sound, NEW A \in SUBSET Alloc,
           \A a \in A : \E k \in Key : names[k] = a,
           Release(A)
    PROVE  \A k \in Key :
              LeaseOf(k)' = IF names[k] \in A THEN {} ELSE LeaseOf(k)
<1> SUFFICES ASSUME NEW k \in Key
             PROVE  LeaseOf(k)' = IF names[k] \in A THEN {} ELSE LeaseOf(k)
  OBVIOUS
<1>1. CASE names[k] \in A
  <2>1. KeyOf(heap[names[k]].id) = k
    BY <1>1, NullAssumption DEF Sound, TablesAgree, IndexSound
  <2>2. names'[k] = NoAlloc
    BY <1>1, <2>1 DEF Release
  <2> QED BY <1>1, <2>2 DEF LeaseOf
<1>2. CASE names[k] \notin A
  <2>1. ASSUME NEW a \in A PROVE KeyOf(heap[a].id) # k
    <3>1. PICK j \in Key : names[j] = a
      OBVIOUS
    <3>2. KeyOf(heap[a].id) = j
      BY <3>1, NullAssumption DEF Sound, TablesAgree, IndexSound
    <3> QED BY <1>2, <3>1, <3>2
  <2>2. names'[k] = names[k]
    BY <2>1 DEF Release
  <2>3. names[k] # NoAlloc => heap'[names[k]] = heap[names[k]]
    BY <1>2 DEF Release, Sound, AllocTypeOK
  <2> QED BY <1>2, <2>2, <2>3 DEF LeaseOf
<1> QED BY <1>1, <1>2

-----------------------------------------------------------------------------
(* A POST renews the lease of its key, or grants one from the pool.        *)
LEMMA AllocateStep ==
    ASSUME Sound, NEW id \in Identity, NEW cp \in ClientPort,
           AllocatePort(id, cp)
    PROVE  \/ Leasing!Renew(KeyOf(id))
           \/ \E p \in PoolPort : Leasing!Grant(KeyOf(id), p, FALSE)
<1>1. KeyOf(id) \in Key
  BY KeyOfIdentity
<1>2. CASE Renew(id, cp)
  <2> DEFINE a == names[KeyOf(id)]
  <2>1. /\ a \in Alloc /\ names' = names
        /\ heap' = [heap EXCEPT ![a].clientPort = cp,
                                ![a].status = Allocated,
                                ![a].age = 0]
    BY <1>1, <1>2 DEF Renew, Sound, AllocTypeOK
  <2>2. \A b \in Alloc : b # a => heap'[b] = heap[b]
    BY <2>1 DEF Sound, AllocTypeOK
  <2>3. LeaseAt(a)' = Leasing!NewLease(heap[a].mappingPort, FALSE)
    <3>1. heap'[a].mappingPort = heap[a].mappingPort
      BY <2>1 DEF Sound, AllocTypeOK, Record
    <3>2. (heap'[a].status = Connected) = FALSE
      BY <2>1 DEF Sound, AllocTypeOK, Record, Allocated, Connected
    <3>3. heap'[a].age = 0
      BY <2>1 DEF Sound, AllocTypeOK, Record
    <3>4. LeaseAt(a)' = [port |-> heap'[a].mappingPort,
                         live |-> heap'[a].status = Connected,
                         age  |-> heap'[a].age]
      BY <2>1 DEF LeaseAt
    <3> QED BY <3>1, <3>2, <3>3, <3>4 DEF Leasing!NewLease
  <2>4. LeaseAt(a).port = heap[a].mappingPort
    BY DEF LeaseAt
  <2>5. {Leasing!NewLease(l.port, FALSE) : l \in {LeaseAt(a)}} = {LeaseAt(a)'}
    BY <2>3, <2>4
  <2> QED BY <1>1, <2>1, <2>2, <2>5, WriteStep DEF Leasing!Renew, Leasing!Change
<1>3. ASSUME NEW S \in {Vacant, Recyclable}, AllocateIn(S, id, cp)
      PROVE  \E p \in PoolPort : Leasing!Grant(KeyOf(id), p, FALSE)
  <2>1. PICK p \in S, a \in Alloc : Enter(a, id, cp, p, Allocated)
    BY <1>3 DEF AllocateIn
  <2>2. p \in PoolPort /\ p \in Port
    BY PortAssumption DEF Vacant, Recyclable
  <2>3. names[KeyOf(id)] = NoAlloc
    BY <1>3 DEF AllocateIn
  <2>4. ports[p] = NoAlloc
    <3>1. SUFFICES ASSUME ports[p] # NoAlloc PROVE FALSE
      OBVIOUS
    <3>2. heap[ports[p]].status = Freed /\ ports[p] \in Alloc
      BY <2>2, <3>1 DEF Vacant, Recyclable, Sound, AllocTypeOK
    <3>3. /\ KeyOf(heap[ports[p]].id) \in Key
          /\ names[KeyOf(heap[ports[p]].id)] = ports[p]
      BY <2>2, <3>1, <3>2, KeyOfIdentity
         DEF Sound, AllocTypeOK, Record, TablesAgree, IndexSound
    <3> QED BY <3>1, <3>2, <3>3 DEF Sound, TablesAgree, NamesOwnPorts
  <2>5. Leasing!Grant(KeyOf(id), p, Allocated = Connected)
    BY <2>1, <2>2, <2>3, <2>4, GrantStep
  <2>6. (Allocated = Connected) = FALSE
    BY DEF Allocated, Connected
  <2> QED BY <2>2, <2>5, <2>6
<1> QED BY <1>2, <1>3 DEF AllocatePort

(* The status written through a pointer makes the lease of the record's    *)
(* key live or not, if the record is still in the maps.                    *)
LEMMA StatusStep ==
    ASSUME Sound, NEW a \in Alloc, NEW k \in Key, names[k] = a,
           NEW st \in {Allocated, Connected},
           heap' = [heap EXCEPT ![a].status = st], names' = names
    PROVE  Leasing!SetLive(k, st = Connected)
<1>1. \A b \in Alloc : b # a => heap'[b] = heap[b]
  BY DEF Sound, AllocTypeOK
<1>2. LeaseAt(a)' = [LeaseAt(a) EXCEPT !.live = (st = Connected)]
  BY DEF LeaseAt, Sound, AllocTypeOK, Record
<1>3. {[l EXCEPT !.live = (st = Connected)] : l \in {LeaseAt(a)}} = {LeaseAt(a)'}
  BY <1>2
<1> QED BY <1>1, <1>3, WriteStep DEF Leasing!SetLive, Leasing!Change

(* A session that names its identity makes the lease of its own key live,  *)
(* or is granted the port it asks for.                                     *)
LEMMA ConnectStep ==
    ASSUME Sound, NEW s \in Session, NEW id \in Identity,
           NEW cp \in ClientPort, NEW mp \in Port, OnConnected(s, id, cp, mp)
    PROVE  \/ Leasing!SetLive(KeyOf(id), TRUE)
           \/ Leasing!Grant(KeyOf(id), mp, TRUE)
<1>1. KeyOf(id) \in Key /\ id # NoIdentity
  BY KeyOfIdentity, NullAssumption
<1>2. CASE KnownFits(id, cp, mp) /\ Attach(s, names[KeyOf(id)])
  <2>1. names[KeyOf(id)] \in Alloc
    BY <1>1, <1>2 DEF KnownFits, Sound, AllocTypeOK
  <2>2. Leasing!SetLive(KeyOf(id), Connected = Connected)
    BY <1>1, <1>2, <2>1, StatusStep DEF Attach
  <2> QED BY <2>2
<1>3. ASSUME UnknownFits(id, mp), NEW a \in Alloc, Enter(a, id, cp, mp, Connected)
      PROVE  Leasing!Grant(KeyOf(id), mp, TRUE)
  <2>1. Leasing!Grant(KeyOf(id), mp, Connected = Connected)
    BY <1>3, GrantStep DEF UnknownFits
  <2> QED BY <2>1
<1> QED BY <1>1, <1>2, <1>3 DEF OnConnected, ApplyNew

(* A session of an old client makes live the lease of the port it names.   *)
LEMMA ConnectOldStep ==
    ASSUME Sound, NEW s \in Session, NEW cp \in ClientPort, NEW mp \in Port,
           ApplyOld(s, cp, mp)
    PROVE  \E k \in Key : Leasing!SetLive(k, TRUE)
<1> DEFINE k == KeyOf(heap[ports[mp]].id)
<1>1. ports[mp] \in Alloc /\ names[k] = ports[mp] /\ k \in Key
  BY KeyOfIdentity
     DEF ApplyOld, OldFits, Sound, AllocTypeOK, Record, TablesAgree, IndexSound
<1>2. Leasing!SetLive(k, Connected = Connected)
  BY <1>1, StatusStep DEF ApplyOld, Attach
<1> QED BY <1>1, <1>2

(* The end of a session touches no lease but that of its record's key.     *)
LEMMA DetachStep ==
    ASSUME Sound, NEW s \in Session, Detach(s)
    PROVE  \/ /\ KeyOf(heap[handle[s]].id) \in Key
              /\ Leasing!SetLive(KeyOf(heap[handle[s]].id), FALSE)
           \/ \A k \in Key : LeaseOf(k)' = LeaseOf(k)
<1> DEFINE a == handle[s]
           k == KeyOf(heap[a].id)
<1>1. /\ a \in Alloc /\ a # NoAlloc /\ k \in Key
      /\ heap' = [heap EXCEPT ![a].status = Allocated] /\ names' = names
  BY KeyOfIdentity DEF Detach, Sound, AllocTypeOK, Record
<1>2. CASE names[k] = a
  <2>1. Leasing!SetLive(k, Allocated = Connected)
    BY <1>1, <1>2, StatusStep
  <2>2. (Allocated = Connected) = FALSE
    BY DEF Allocated, Connected
  <2> QED BY <1>1, <2>1, <2>2
<1>3. CASE names[k] # a
  <2>1. \A b \in Alloc : b # a => heap'[b] = heap[b]
    BY <1>1 DEF Sound, AllocTypeOK
  <2>2. ASSUME NEW j \in Key PROVE names[j] # a
    BY <1>1, <1>3 DEF Sound, TablesAgree, IndexSound
  <2> QED BY <1>1, <2>1, <2>2, OtherLeases
<1> QED BY <1>2, <1>3

(* DELETE cancels one lease, that of the key it names.                     *)
LEMMA FreeStep ==
    ASSUME Sound, NEW id \in Identity, FreePort(id)
    PROVE  Leasing!Cancel(KeyOf(id))
<1> DEFINE k == KeyOf(id)
<1>1. k \in Key /\ names[k] # NoAlloc /\ Release({names[k]})
  BY KeyOfIdentity DEF FreePort
<1>2. \A j \in Key : LeaseOf(j)' = IF names[j] \in {names[k]} THEN {} ELSE LeaseOf(j)
  BY <1>1, ReleaseStep DEF Sound, AllocTypeOK
<1>3. \A j \in Key : LeaseOf(j)' = IF j = k THEN {} ELSE LeaseOf(j)
  BY <1>1, <1>2, OneKey
<1>4. LeaseOf(k) # {}
  BY <1>1 DEF LeaseOf
<1> QED BY <1>1, <1>3, <1>4 DEF Leasing!Cancel, Leasing!Leased, Leasing!Change

(* The timer ends just the overdue leases.                                 *)
LEMMA ExpireStep ==
    ASSUME Sound, FreeHangingPorts
    PROVE  Leasing!Expire
<1>1. /\ Hanging \in SUBSET Alloc
      /\ \A a \in Hanging : \E k \in Key : names[k] = a
      /\ Release(Hanging)
  BY DEF FreeHangingPorts, Hanging
<1>2. \A k \in Key :
         LeaseOf(k)' = IF names[k] \in Hanging THEN {} ELSE LeaseOf(k)
  BY <1>1, ReleaseStep
<1>3. ASSUME NEW k \in Key
      PROVE  names[k] \in Hanging <=> \E l \in LeaseOf(k) : ~l.live /\ l.age > Hold
  <2>1. CASE names[k] = NoAlloc
    BY <2>1, NullAssumption DEF LeaseOf, Hanging
  <2>2. CASE names[k] # NoAlloc
    <3>1. names[k] \in Alloc /\ heap[names[k]].status # Freed
      BY <2>2 DEF Sound, AllocTypeOK, TablesAgree, NamesOwnPorts
    <3>2. heap[names[k]].status = Allocated <=> heap[names[k]].status # Connected
      BY <3>1 DEF Sound, AllocTypeOK, Record, Allocated, Connected, Freed
    <3>3. LeaseOf(k) = {LeaseAt(names[k])}
      BY <2>2 DEF LeaseOf, LeaseAt
    <3>4. /\ LeaseAt(names[k]).live <=> heap[names[k]].status = Connected
          /\ LeaseAt(names[k]).age = heap[names[k]].age
      BY DEF LeaseAt
    <3>5. names[k] \in Hanging <=> /\ heap[names[k]].status = Allocated
                                   /\ heap[names[k]].age > Hold
      BY <3>1 DEF Hanging
    <3> QED BY <3>2, <3>3, <3>4, <3>5
  <2> QED BY <2>1, <2>2
<1> QED BY <1>2, <1>3 DEF Leasing!Expire, Leasing!Overdue

(* Time passes for all leases.                                             *)
LEMMA TickStep ==
    ASSUME Sound, Tick
    PROVE  Leasing!Pass
<1>1. ASSUME NEW k \in Key
      PROVE  LeaseOf(k)' =
               {[l EXCEPT !.age = IF @ > Hold THEN @ ELSE @ + 1] : l \in LeaseOf(k)}
  <2>1. CASE names[k] = NoAlloc
    BY <2>1 DEF LeaseOf, Tick
  <2>2. CASE names[k] # NoAlloc
    <3>1. /\ names[k] \in Alloc /\ names'[k] = names[k]
          /\ heap'[names[k]] =
               [heap[names[k]] EXCEPT !.age = IF @ > Hold THEN @ ELSE @ + 1]
      BY <2>2 DEF Sound, AllocTypeOK, Tick
    <3>2. LeaseAt(names[k])' =
            [LeaseAt(names[k]) EXCEPT !.age = IF @ > Hold THEN @ ELSE @ + 1]
      <4> DEFINE r == heap[names[k]]
                 n == IF r.age > Hold THEN r.age ELSE r.age + 1
      <4>1. r \in Record
        BY <3>1 DEF Sound, AllocTypeOK
      <4>2. heap'[names[k]].mappingPort = r.mappingPort
        BY <3>1, <4>1 DEF Record
      <4>3. heap'[names[k]].status = r.status
        BY <3>1, <4>1 DEF Record
      <4>4. heap'[names[k]].age = n
        BY <3>1, <4>1 DEF Record
      <4>5. LeaseAt(names[k])' = [port |-> r.mappingPort,
                                  live |-> r.status = Connected, age |-> n]
        BY <3>1, <4>2, <4>3, <4>4 DEF LeaseAt
      <4>6. LeaseAt(names[k]) = [port |-> r.mappingPort,
                                 live |-> r.status = Connected, age |-> r.age]
        BY DEF LeaseAt
      <4> HIDE DEF r
      <4> QED BY <4>5, <4>6
    <3>3. LeaseOf(k) = {LeaseAt(names[k])} /\ LeaseOf(k)' = {LeaseAt(names[k])'}
      BY <2>2, <3>1 DEF LeaseOf, LeaseAt
    <3> QED BY <3>2, <3>3
  <2> QED BY <2>1, <2>2
<1> QED BY <1>1 DEF Leasing!Pass

-----------------------------------------------------------------------------
(* A step of the allocator is a step of the leasing service, or changes no *)
(* lease.                                                                  *)
LEMMA StepKeepsLeases ==
    ASSUME Sound, [AllocNext]_allocVars
    PROVE  [Leasing!Next]_[k \in Key |-> LeaseOf(k)]
<1>1. ASSUME NEW id \in Identity, NEW cp \in ClientPort, AllocatePort(id, cp)
      PROVE  Leasing!Next
  <2>1. KeyOf(id) \in Key /\ PoolPort \subseteq Port
    BY KeyOfIdentity, PortAssumption
  <2> QED BY <1>1, <2>1, AllocateStep DEF Leasing!Next
<1>2. ASSUME NEW s \in Session, NEW id \in Identity \cup {NoIdentity},
             NEW cp \in ClientPort, NEW mp \in Port, OnConnected(s, id, cp, mp)
      PROVE  Leasing!Next
  <2>1. CASE id = NoIdentity
    <3>1. ApplyOld(s, cp, mp)
      BY <1>2, <2>1 DEF OnConnected
    <3> QED BY <3>1, ConnectOldStep DEF Leasing!Next
  <2>2. CASE id \in Identity
    BY <1>2, <2>2, ConnectStep, KeyOfIdentity DEF Leasing!Next
  <2> QED BY <2>1, <2>2
<1>3. ASSUME NEW s \in Session, Detach(s)
      PROVE  [Leasing!Next]_[k \in Key |-> LeaseOf(k)]
  BY <1>3, DetachStep DEF Leasing!Next
<1>4. ASSUME NEW s \in Session, Abandon(s)
      PROVE  UNCHANGED [k \in Key |-> LeaseOf(k)]
  BY <1>4 DEF Abandon, LeaseOf
<1>5. ASSUME NEW id \in Identity, FreePort(id) PROVE Leasing!Next
  BY <1>5, FreeStep, KeyOfIdentity DEF Leasing!Next
<1>6. CASE FreeHangingPorts
  BY <1>6, ExpireStep DEF Leasing!Next
<1>7. CASE Tick
  BY <1>7, TickStep DEF Leasing!Next
<1>8. CASE Restart
  <2>1. \A k \in Key : LeaseOf(k)' = {}
    BY <1>8 DEF Restart, LeaseOf
  <2> QED BY <2>1 DEF Leasing!Next, Leasing!Forget
<1>9. CASE UNCHANGED allocVars
  BY <1>9 DEF allocVars, LeaseOf
<1> QED BY <1>1, <1>2, <1>3, <1>4, <1>5, <1>6, <1>7, <1>8, <1>9 DEF AllocNext

(* The allocator, with every use the server makes of it, implements the    *)
(* leasing service: a key keeps its port until its lease is cancelled or   *)
(* runs out while it is not live, and no port is leased twice.             *)
THEOREM AllocatorImplementsLeases == AllocSpec => LeasingSpec
<1>1. AllocInit => Leasing!Init
  BY DEF AllocInit, Leasing!Init, LeaseOf
<1>2. Inv /\ [AllocNext]_allocVars
         => [Leasing!Next]_[k \in Key |-> LeaseOf(k)]
  BY StepKeepsLeases DEF Inv, ApiInv, Sound, TablesAgree
<1> QED BY <1>1, <1>2, ServerUseInv, PTL DEF AllocSpec, LeasingSpec, Leasing!Spec

(* Whatever wildcard deletions have done before, an operation that finds   *)
(* the maps in agreement does to the leases just what it is for: POST      *)
(* renews or grants, a connection makes its own key's lease live, DELETE   *)
(* ends its own, the timer ends the overdue ones.                          *)
THEOREM ApiOperationsKeepLeases == ApiSpec => OperationsKeepLeases
<1> DEFINE Kept ==
      TablesAgree =>
       /\ \A id \in Identity, cp \in ClientPort :
             AllocatePort(id, cp) =>
                \/ Leasing!Renew(KeyOf(id))
                \/ \E p \in PoolPort : Leasing!Grant(KeyOf(id), p, FALSE)
       /\ \A s \in Session, id \in Identity, cp \in ClientPort, mp \in Port :
             OnConnected(s, id, cp, mp) =>
                \/ Leasing!SetLive(KeyOf(id), TRUE)
                \/ Leasing!Grant(KeyOf(id), mp, TRUE)
       /\ \A id \in Identity : FreePort(id) => Leasing!Cancel(KeyOf(id))
       /\ FreeHangingPorts => Leasing!Expire
       /\ \A s \in Session : Detach(s) =>
             \/ Leasing!SetLive(KeyOf(heap[handle[s]].id), FALSE)
             \/ \A k \in Key : LeaseOf(k)' = LeaseOf(k)
<1>1. AllocTypeOK => Kept
  BY AllocateStep, ConnectStep, FreeStep, ExpireStep, DetachStep DEF Sound
<1>2. ApiInv => AllocTypeOK
  BY DEF ApiInv
<1> HIDE DEF Kept
<1>3. ApiSpec => [][Kept]_allocVars
  BY <1>1, <1>2, ApiInvariant, PTL DEF ApiSpec
<1> QED BY <1>3 DEF Kept, OperationsKeepLeases
=============================================================================
