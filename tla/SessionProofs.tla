---------------------------- MODULE SessionProofs ---------------------------
(***************************************************************************)
(* What a session holds, for every list of remotes and every number of     *)
(* sessions: the record of its first reverse remote, or of a later one if  *)
(* the first names no port, and the listeners it was allowed.  Both rest   *)
(* on what the loop over the remotes has done so far, which the invariants *)
(* state for the remotes of Taken and Checked.                             *)
(***************************************************************************)
EXTENDS ServerProofs

(* A step of session s, or of its client or its listeners.                 *)
Moves(s) ==
    \/ Connect(s) \/ Disconnect(s) \/ SessionStep(s)
    \/ \E p \in Port : AcceptFails(s, p)

Reverse(s, i) == request[s].remotes[i].reverse

(* The remotes that session s has passed over or taken a record for, and   *)
(* those whose checks it has passed.                                       *)
Checked(s) ==
    {i \in 1..Len(request[s].remotes) :
        \/ pc[s] \in {"apply", "check"} /\ i < at[s]
        \/ pc[s] \in {"bind", "serve"}}

Taken(s) ==
    {i \in 1..Len(request[s].remotes) : i \in Checked(s) \/ (pc[s] = "check" /\ i = at[s])}

First(s, i) ==
    /\ i \in 1..Len(request[s].remotes)
    /\ Reverse(s, i)
    /\ \A j \in 1..i-1 : ~Reverse(s, j)

PortOf(s, i) == request[s].remotes[i].mappingPort

(* The record is for the port of some remote taken, that of remote i if it *)
(* names one, and for the session's own identity.                          *)
Fits(s, i) ==
    /\ \E j \in Taken(s) : /\ Reverse(s, j)
                            /\ heap[handle[s]].mappingPort = PortOf(s, j)
    /\ PortOf(s, i) # 0 => heap[handle[s]].mappingPort = PortOf(s, i)
    /\ request[s].id # NoIdentity =>
          KeyOf(heap[handle[s]].id) = KeyOf(request[s].id)

HoldsFirst(s) ==
    IF handle[s] = NoAlloc
    THEN \A i \in Taken(s) : ~Reverse(s, i)
    ELSE \E i \in Taken(s) : First(s, i) /\ Fits(s, i)

ListenersAllowed ==
    /\ \A s \in Session : \A i \in Checked(s) : Reverse(s, i) => ReverseEnabled
    /\ ListenersHaveSession

HInv == Inv /\ TypeOK /\ (\A s \in Session : HoldsFirst(s)) /\ ListenersAllowed

-----------------------------------------------------------------------------
(* A record that a session points to keeps its identity and its mapping    *)
(* port, whatever is written into it.                                      *)
LEMMA PointedRecordStays ==
    ASSUME AllocTypeOK, [AllocNext]_allocVars,
           NEW s \in Session, handle[s] # NoAlloc
    PROVE  /\ heap'[handle[s]].id = heap[handle[s]].id
           /\ heap'[handle[s]].mappingPort = heap[handle[s]].mappingPort
<1> DEFINE a == handle[s]
           Stays == /\ heap'[a].id = heap[a].id
                    /\ heap'[a].mappingPort = heap[a].mappingPort
<1>1. a \in Alloc /\ heap[a] \in Record /\ DOMAIN heap = Alloc
  BY DEF AllocTypeOK
<1>2. ASSUME NEW b \in Alloc, NEW id, NEW cp, NEW mp, NEW st, Enter(b, id, cp, mp, st)
      PROVE  Stays
  BY <1>1, <1>2 DEF Enter, Unreferenced, AllocTypeOK
<1>3. ASSUME NEW id \in Identity, NEW cp \in ClientPort, AllocatePort(id, cp)
      PROVE  Stays
  <2>1. CASE Renew(id, cp)
    BY <1>1, <2>1 DEF Renew, AllocTypeOK, Record
  <2> QED BY <1>2, <1>3, <2>1 DEF AllocatePort, AllocateIn
<1>4. ASSUME NEW t \in Session, NEW b, Attach(t, b) PROVE Stays
  BY <1>1, <1>4 DEF Attach, AllocTypeOK, Record
<1>5. ASSUME NEW t \in Session, NEW id, NEW cp, NEW mp, OnConnected(t, id, cp, mp)
      PROVE  Stays
  BY <1>2, <1>4, <1>5 DEF OnConnected, ApplyNew, ApplyOld
<1>6. ASSUME NEW t \in Session, Detach(t) \/ Abandon(t) PROVE Stays
  BY <1>1, <1>6 DEF Detach, Abandon, AllocTypeOK, Record
<1>7. ASSUME NEW A, Release(A) PROVE Stays
  BY <1>1, <1>7 DEF Release, AllocTypeOK, Record
<1>8. CASE Tick
  BY <1>1, <1>8 DEF Tick, AllocTypeOK, Record
<1>9. CASE Restart
  BY <1>9 DEF Restart
<1>10. CASE UNCHANGED allocVars
  BY <1>10 DEF allocVars
<1> QED BY <1>3, <1>5, <1>6, <1>7, <1>8, <1>9, <1>10
        DEF AllocNext, FreePort, FreeHangingPorts

(* The record OnConnected hands out is for the port asked for and, when    *)
(* the caller has an identity, under its key.                              *)
LEMMA ConnectedRecord ==
    ASSUME ApiInv, NEW s \in Session, NEW id \in Identity \cup {NoIdentity},
           NEW cp \in ClientPort, NEW mp \in Port, OnConnected(s, id, cp, mp)
    PROVE  /\ handle' = [handle EXCEPT ![s] = handle'[s]]
           /\ handle'[s] \in Alloc
           /\ heap'[handle'[s]].mappingPort = mp
           /\ id # NoIdentity => KeyOf(heap'[handle'[s]].id) = KeyOf(id)
<1>1. ASSUME NEW a \in Alloc, Attach(s, a)
      PROVE  /\ handle' = [handle EXCEPT ![s] = handle'[s]]
             /\ handle'[s] = a
             /\ heap'[a].mappingPort = heap[a].mappingPort
             /\ heap'[a].id = heap[a].id
  BY <1>1 DEF Attach, ApiInv, AllocTypeOK, Record
<1>2. CASE id # NoIdentity /\ KnownFits(id, cp, mp) /\ Attach(s, names[KeyOf(id)])
  <2> DEFINE a == names[KeyOf(id)]
  <2>1. KeyOf(id) \in Key
    BY <1>2, KeyOfIdentity
  <2>2. a \in Alloc /\ heap[a].mappingPort = mp /\ KeyOf(heap[a].id) = KeyOf(id)
    BY <1>2, <2>1 DEF KnownFits, ApiInv, AllocTypeOK, IndexSound
  <2> QED BY <1>1, <1>2, <2>2
<1>3. ASSUME id # NoIdentity, NEW a \in Alloc, Enter(a, id, cp, mp, Connected),
             handle' = [handle EXCEPT ![s] = a]
      PROVE  /\ handle' = [handle EXCEPT ![s] = handle'[s]]
             /\ handle'[s] \in Alloc
             /\ heap'[handle'[s]].mappingPort = mp
             /\ KeyOf(heap'[handle'[s]].id) = KeyOf(id)
  BY <1>3 DEF Enter, NewRecord, ApiInv, AllocTypeOK
<1>4. CASE id = NoIdentity /\ OldFits(cp, mp) /\ Attach(s, ports[mp])
  <2>1. ports[mp] \in Alloc /\ heap[ports[mp]].mappingPort = mp
    BY <1>4 DEF OldFits, ApiInv, AllocTypeOK, IndexSound
  <2> QED BY <1>1, <1>4, <2>1
<1> QED BY <1>2, <1>3, <1>4 DEF OnConnected, ApplyNew, ApplyOld

-----------------------------------------------------------------------------
(* A session that does not move keeps what it holds.                       *)
LEMMA UnmovedHolds ==
    ASSUME HInv, [Next]_vars, NEW t \in Session,
           handle'[t] = handle[t], request'[t] = request[t],
           Taken(t)' = Taken(t)
    PROVE  HoldsFirst(t)'
<1>1. [AllocNext]_allocVars /\ AllocTypeOK
  BY StepMapsToAllocator DEF HInv, Inv, ApiInv, SInv
<1>2. CASE handle[t] = NoAlloc
  BY <1>2 DEF HInv, HoldsFirst, Reverse
<1>3. CASE handle[t] # NoAlloc
  <2>1. PICK i \in Taken(t) : First(t, i) /\ Fits(t, i)
    BY <1>3 DEF HInv, HoldsFirst
  <2>2. First(t, i)'
    BY <2>1 DEF First, Reverse
  <2>3. Fits(t, i)'
    BY <1>1, <1>3, <2>1, PointedRecordStays DEF Fits, PortOf, Reverse
  <2> QED BY <1>3, <2>1, <2>2, <2>3 DEF HoldsFirst
<1> QED BY <1>2, <1>3

(* A session that has left holds nothing, and needs nothing.               *)
LEMMA IdleHolds ==
    ASSUME NEW t \in Session, pc'[t] = "idle", handle'[t] = NoAlloc
    PROVE  HoldsFirst(t)' /\ Checked(t)' = {}
BY DEF HoldsFirst, Taken, Checked

(* Only the session that steps moves.                                      *)
LEMMA OnlyOneMoves ==
    ASSUME HInv, NEW s \in Session,
           Moves(s),
           NEW t \in Session, t # s
    PROVE  /\ pc'[t] = pc[t] /\ request'[t] = request[t]
           /\ at'[t] = at[t] /\ handle'[t] = handle[t]
<1>1. CASE Connect(s) \/ Disconnect(s)
  BY <1>1 DEF Connect, Disconnect, GoTo, allocVars, HInv, TypeOK, AllocTypeOK
<1>2. CASE Apply(s)
  BY <1>2 DEF Apply, GoTo, OnConnected, ApplyNew, ApplyOld, Attach, HInv,
              TypeOK, AllocTypeOK
<1>3. CASE PassOver(s) \/ CheckPasses(s) \/ Listen(s) \/ ListenFails(s) \/ Bound(s)
           \/ \E p \in Port : AcceptFails(s, p) \/ CloseListener(s, p)
  BY <1>3 DEF PassOver, CheckPasses, Listen, ListenFails, Bound, AcceptFails, CloseListener,
              GoTo, allocVars, HInv, TypeOK, AllocTypeOK
<1>4. CASE Refuse(s)
  BY <1>4 DEF Refuse, Leave, GoTo, HInv, TypeOK, AllocTypeOK
<1>5. CASE EndSession(s)
  BY <1>5 DEF EndSession, Detach, Leave, GoTo, allocVars, HInv, TypeOK, AllocTypeOK
<1> QED BY <1>1, <1>2, <1>3, <1>4, <1>5 DEF Moves, SessionStep, ApplyFails, CheckFails

(* Where a session is in its list.                                         *)
LEMMA Places ==
    ASSUME TypeOK, NEW s \in Session
    PROVE  /\ Len(request[s].remotes) \in Nat
           /\ at[s] \in Nat \ {0}
           /\ pc[s] \in {"apply", "check"} => at[s] \in 1..Len(request[s].remotes)
           /\ \A i \in 1..Len(request[s].remotes) : request[s].remotes[i] \in Remote
<1>1. request[s].remotes \in Seq(Remote) /\ at[s] \in Nat \ {0}
  BY DEF TypeOK, Request
<1> QED BY <1>1 DEF TypeOK

(* The loop over the remotes: a remote that is passed over is a forward    *)
(* one, or the session has the record of an earlier one; a record taken is *)
(* for the first reverse remote, also when it replaces one that was freed. *)
LEMMA PassOverHolds ==
    ASSUME HInv, NEW s \in Session, PassOver(s)
    PROVE  HoldsFirst(s)'
<1>1. /\ pc[s] = "apply" /\ pc'[s] = "check" /\ at' = at /\ request' = request
      /\ handle' = handle /\ heap' = heap
  BY DEF PassOver, GoTo, allocVars, HInv, TypeOK
<1>2. Taken(s)' = Taken(s) \cup {at[s]}
  BY <1>1, Places DEF Taken, Checked, HInv
<1>3. CASE handle[s] = NoAlloc
  <2>1. ~Reverse(s, at[s])
    BY <1>3 DEF PassOver, PassedOver, ThisRemote, Reverse
  <2> QED BY <1>1, <1>2, <1>3, <2>1 DEF HInv, HoldsFirst, Reverse
<1>4. CASE handle[s] # NoAlloc
  <2>1. PICK i \in Taken(s) : First(s, i) /\ Fits(s, i)
    BY <1>4 DEF HInv, HoldsFirst
  <2>2. First(s, i)' /\ Fits(s, i)'
    BY <1>1, <1>2, <2>1 DEF First, Reverse, Fits, PortOf
  <2> QED BY <1>1, <1>2, <1>4, <2>1, <2>2 DEF HoldsFirst
<1> QED BY <1>3, <1>4

(* Apply: a session takes its record, or one more of its remotes is passed.*)
LEMMA ApplyHolds ==
    ASSUME HInv, NEW s \in Session, Apply(s)
    PROVE  HoldsFirst(s)'
<1> DEFINE r == ThisRemote(s)
           id == ActingIdentity(s)
<1>1. /\ pc[s] = "apply" /\ pc'[s] = "check" /\ at' = at /\ request' = request
      /\ at[s] \in 1..Len(request[s].remotes)
  BY Places DEF Apply, GoTo, HInv, TypeOK
<1>2. Taken(s)' = Taken(s) \cup {at[s]} /\ Taken(s) = 1..at[s]-1
  BY <1>1, Places DEF Taken, Checked, HInv
<1>3. r \in Remote /\ r = request[s].remotes[at[s]]
  BY <1>1, Places DEF ThisRemote, HInv
<1>4. id \in Identity \cup {NoIdentity}
  BY ActingIdentityType DEF HInv, Inv, ApiInv, SInv
<1>5. /\ handle'[s] \in Alloc /\ handle'[s] # NoAlloc
      /\ heap'[handle'[s]].mappingPort = r.mappingPort
      /\ id # NoIdentity => KeyOf(heap'[handle'[s]].id) = KeyOf(id)
  BY <1>3, <1>4, ConnectedRecord, NullAssumption DEF Apply, HInv, Inv, Remote
<1>6. CASE handle[s] = NoAlloc
  <2>1. id = request[s].id
    BY <1>6 DEF ActingIdentity
  <2>2. Reverse(s, at[s])
    BY <1>3 DEF Apply, PassedOver, Reverse
  <2>3. \A j \in 1..at[s]-1 : ~Reverse(s, j)
    BY <1>2, <1>6 DEF HInv, HoldsFirst
  <2>4. First(s, at[s])'
    BY <1>1, <2>2, <2>3 DEF First, Reverse
  <2>5. Fits(s, at[s])'
    BY <1>1, <1>2, <1>3, <1>5, <2>1, <2>2 DEF Fits, PortOf, Reverse
  <2> QED BY <1>1, <1>2, <1>5, <2>4, <2>5 DEF HoldsFirst
<1>7. CASE handle[s] # NoAlloc
  <2>1. PICK i \in Taken(s) : First(s, i) /\ Fits(s, i)
    BY <1>7 DEF HInv, HoldsFirst
  <2>2. id = heap[handle[s]].id /\ id \in Identity /\ id # NoIdentity
    BY <1>7, NullAssumption DEF ActingIdentity, HInv, TypeOK, AllocTypeOK, Record
  <2>3. PortOf(s, i) # 0 => r.mappingPort = PortOf(s, i)
    BY <1>7, <2>1 DEF Apply, PassedOver, Fits
  <2>4. First(s, i)'
    BY <1>1, <2>1 DEF First, Reverse
  <2>5. Reverse(s, at[s])
    BY <1>3 DEF Apply, PassedOver, Reverse
  <2>6. Fits(s, i)'
    BY <1>1, <1>2, <1>3, <1>5, <2>1, <2>2, <2>3, <2>5 DEF Fits, PortOf, Reverse
  <2> QED BY <1>2, <1>5, <2>1, <2>4, <2>6 DEF HoldsFirst
<1> QED BY <1>6, <1>7

(* What a check that passes has established of its remote.                 *)
LEMMA CheckHolds ==
    ASSUME HInv, NEW s \in Session, CheckPasses(s)
    PROVE  /\ Checked(s)' = Checked(s) \cup {at[s]}
           /\ Taken(s)' = Taken(s)
           /\ Reverse(s, at[s]) => ReverseEnabled
<1>1. /\ pc[s] = "check" /\ at[s] \in 1..Len(request[s].remotes)
      /\ request' = request
      /\ Len(request[s].remotes) \in Nat
  BY Places DEF CheckPasses, HInv
<1>2. Reverse(s, at[s]) => ReverseEnabled
  BY DEF CheckPasses, ThisRemote, Reverse
<1>3. CASE LastRemote(s)
  <2>1. pc'[s] = "bind" /\ at[s] = Len(request[s].remotes)
    BY <1>3 DEF CheckPasses, LastRemote, GoTo, HInv, TypeOK
  <2> QED BY <1>1, <1>2, <2>1 DEF Checked, Taken
<1>4. CASE ~LastRemote(s)
  <2>1. pc'[s] = "apply" /\ at'[s] = at[s] + 1 /\ at[s] < Len(request[s].remotes)
    BY <1>1, <1>4 DEF CheckPasses, LastRemote, GoTo, HInv, TypeOK
  <2> QED BY <1>1, <1>2, <2>1 DEF Checked, Taken
<1> QED BY <1>3, <1>4

(* The sessions that BindRemotes runs for, and after: nothing moves in     *)
(* their lists.                                                            *)
LEMMA BoundHolds ==
    ASSUME HInv, NEW s \in Session,
           \/ Disconnect(s) \/ Listen(s) \/ ListenFails(s) \/ Bound(s)
           \/ \E p \in Port : AcceptFails(s, p) \/ CloseListener(s, p)
    PROVE  /\ handle' = handle /\ request' = request
           /\ Taken(s)' = Taken(s) /\ Checked(s)' = Checked(s)
<1>1. CASE Disconnect(s)
  BY <1>1 DEF Disconnect, Taken, Checked, allocVars
<1>2. CASE Listen(s)
  BY <1>2 DEF Listen, Taken, Checked, allocVars
<1>3. CASE ListenFails(s) \/ Bound(s)
  BY <1>3 DEF ListenFails, Bound, GoTo, Taken, Checked, allocVars, HInv, TypeOK
<1>4. CASE \E p \in Port : AcceptFails(s, p) \/ CloseListener(s, p)
  BY <1>4 DEF AcceptFails, CloseListener, Taken, Checked, allocVars
<1> QED BY <1>1, <1>2, <1>3, <1>4

-----------------------------------------------------------------------------
(* Every step keeps what the sessions hold.                                *)
LEMMA StepHolds ==
    ASSUME HInv, [Next]_vars, NEW t \in Session
    PROVE  HoldsFirst(t)'
<1>1. ASSUME NEW s \in Session, Moves(s), t # s
      PROVE  HoldsFirst(t)'
  <2>1. /\ pc'[t] = pc[t] /\ request'[t] = request[t]
        /\ at'[t] = at[t] /\ handle'[t] = handle[t]
    BY <1>1, OnlyOneMoves
  <2>2. Taken(t)' = Taken(t)
    BY <2>1 DEF Taken, Checked
  <2> QED BY <2>1, <2>2, UnmovedHolds
<1>2. CASE Connect(t)
  <2>1. handle'[t] = NoAlloc /\ pc[t] = "idle" /\ handle' = handle
    <3>1. pc[t] = "idle" /\ handle' = handle
      BY <1>2 DEF Connect, allocVars
    <3>2. Taken(t) = {}
      BY <3>1 DEF Taken, Checked
    <3> QED BY <3>1, <3>2 DEF HInv, HoldsFirst
  <2>2. at'[t] = 1 /\ (pc'[t] = "apply" \/ (request'[t].remotes = <<>> /\ pc'[t] = "bind"))
    BY <1>2 DEF Connect, GoTo, HInv, TypeOK
  <2>3. Taken(t)' = {}
    BY <2>2 DEF Taken, Checked
  <2> QED BY <2>1, <2>3 DEF HoldsFirst
<1>3. CASE PassOver(t)
  BY <1>3, PassOverHolds
<1>4. CASE Apply(t)
  BY <1>4, ApplyHolds
<1>5. CASE CheckPasses(t)
  <2>1. handle' = handle /\ request' = request
    BY <1>5 DEF CheckPasses, allocVars
  <2> QED BY <1>5, <2>1, CheckHolds, UnmovedHolds
<1>6. CASE \/ Disconnect(t) \/ Listen(t) \/ ListenFails(t) \/ Bound(t)
           \/ \E p \in Port : AcceptFails(t, p) \/ CloseListener(t, p)
  BY <1>6, BoundHolds, UnmovedHolds
<1>7. CASE Refuse(t) \/ EndSession(t)
  <2>1. pc'[t] = "idle" /\ handle'[t] = NoAlloc
    BY <1>7 DEF Refuse, EndSession, Detach, Leave, GoTo, allocVars, HInv, TypeOK, AllocTypeOK
  <2> QED BY <2>1, IdleHolds
<1>8. CASE Crash
  <2>1. pc'[t] = "idle" /\ handle'[t] = NoAlloc
    BY <1>8 DEF Crash, Restart
  <2> QED BY <2>1, IdleHolds
<1>9. CASE \/ \E p \in Port : Finalize(p)
           \/ ControlPlane \/ RunFreeHangingTimer \/ Clock \/ UNCHANGED vars
  <2>1. handle' = handle /\ request' = request /\ pc' = pc /\ at' = at
    BY <1>9 DEF Finalize, ControlPlane, HandleCreatePort, HandleDeletePort,
                AllocatePort, Renew, AllocateIn, FreePort, RunFreeHangingTimer,
                FreeHangingPorts, Release, Clock, Tick, sessionVars, allocVars, vars
  <2>2. Taken(t)' = Taken(t)
    BY <2>1 DEF Taken, Checked
  <2> QED BY <2>1, <2>2, UnmovedHolds
<1> QED BY <1>1, <1>2, <1>3, <1>4, <1>5, <1>6, <1>7, <1>8, <1>9
        DEF Next, Moves, SessionStep, ApplyFails, CheckFails

(* Every step keeps the listeners allowed.                                 *)
LEMMA StepAllowed ==
    ASSUME HInv, [Next]_vars
    PROVE  ListenersAllowed'
<1>1. ASSUME NEW t \in Session, NEW i \in Checked(t)', Reverse(t, i)'
      PROVE  ReverseEnabled
  <2>1. ASSUME request'[t] = request[t], i \in Checked(t) PROVE ReverseEnabled
    BY <1>1, <2>1 DEF HInv, ListenersAllowed, Reverse
  <2>2. ASSUME NEW s \in Session, Moves(s), t # s
        PROVE  ReverseEnabled
    <3>1. pc'[t] = pc[t] /\ request'[t] = request[t] /\ at'[t] = at[t]
      BY <2>2, OnlyOneMoves
    <3> QED BY <1>1, <2>1, <3>1 DEF Checked
  <2>3. CASE Connect(t)
    <3>1. at'[t] = 1 /\ (pc'[t] = "apply" \/ (request'[t].remotes = <<>> /\ pc'[t] = "bind"))
      BY <2>3 DEF Connect, GoTo, HInv, TypeOK
    <3> QED BY <1>1, <3>1 DEF Checked
  <2>4. CASE PassOver(t) \/ Apply(t)
    <3>1. pc[t] = "apply" /\ pc'[t] = "check" /\ at' = at /\ request' = request
      BY <2>4 DEF PassOver, Apply, GoTo, HInv, TypeOK
    <3> QED BY <1>1, <2>1, <3>1 DEF Checked
  <2>5. CASE CheckPasses(t)
    <3>1. request' = request
      BY <2>5 DEF CheckPasses
    <3> QED BY <1>1, <2>1, <2>5, <3>1, CheckHolds DEF Reverse
  <2>6. CASE \/ Disconnect(t) \/ Listen(t) \/ ListenFails(t) \/ Bound(t)
             \/ \E p \in Port : AcceptFails(t, p) \/ CloseListener(t, p)
    BY <1>1, <2>1, <2>6, BoundHolds
  <2>7. CASE Refuse(t) \/ EndSession(t) \/ Crash
    <3>1. pc'[t] = "idle"
      BY <2>7 DEF Refuse, EndSession, Leave, GoTo, Crash, HInv, TypeOK
    <3> QED BY <1>1, <3>1 DEF Checked
  <2>8. CASE \/ \E p \in Port : Finalize(p)
             \/ ControlPlane \/ RunFreeHangingTimer \/ Clock \/ UNCHANGED vars
    <3>1. request' = request /\ pc' = pc /\ at' = at
      BY <2>8 DEF Finalize, ControlPlane, RunFreeHangingTimer, Clock, sessionVars, vars
    <3> QED BY <1>1, <2>1, <3>1 DEF Checked
  <2> QED BY <2>2, <2>3, <2>4, <2>5, <2>6, <2>7, <2>8
          DEF Next, Moves, SessionStep, ApplyFails, CheckFails
<1>2. ASSUME NEW p \in Port, NEW t \in Session, bound'[p] = t
      PROVE  /\ ReverseEnabled
             /\ pc'[t] \in {"bind", "serve"}
             /\ p \in ReversePorts(t)'
  <2>1. ASSUME bound[p] = t, request'[t] = request[t]
        PROVE  ReverseEnabled /\ p \in ReversePorts(t)'
    <3>1. ReverseEnabled /\ p \in ReversePorts(t)
      BY <1>2, <2>1 DEF HInv, ListenersAllowed, ListenersHaveSession
    <3>2. ReversePorts(t)' = ReversePorts(t)
      BY <2>1 DEF ReversePorts
    <3> QED BY <3>1, <3>2
  <2>2. bound[p] = t => pc[t] \in {"bind", "serve"}
    BY <1>2 DEF HInv, ListenersAllowed, ListenersHaveSession
  <2>3. ASSUME NEW s \in Session, Moves(s), t # s,
               bound[p] = t
        PROVE  pc'[t] \in {"bind", "serve"} /\ request'[t] = request[t]
    BY <2>2, <2>3, OnlyOneMoves
  <2>4. ASSUME NEW s \in Session,
               \/ Connect(s) \/ PassOver(s) \/ Apply(s) \/ ApplyFails(s)
               \/ CheckFails(s) \/ CheckPasses(s) \/ EndSession(s)
        PROVE  /\ bound[p] = t /\ pc'[t] \in {"bind", "serve"}
               /\ request'[t] = request[t]
    <3>1. bound' = bound
      BY <2>4 DEF Connect, PassOver, Apply, ApplyFails, CheckFails, CheckPasses,
                  Refuse, EndSession
    <3>2. \/ pc[s] \in {"idle", "apply", "check"}
          \/ \A q \in Port : bound[q] # s
      BY <2>4 DEF Connect, PassOver, Apply, ApplyFails, CheckFails, CheckPasses, EndSession
    <3>3. bound[p] = t /\ t # s
      BY <1>2, <2>2, <3>1, <3>2
    <3> QED BY <2>3, <2>4, <3>3 DEF Moves, SessionStep
  <2>5. ASSUME NEW s \in Session, Disconnect(s) \/ Listen(s)
        PROVE  request' = request /\ pc' = pc
    BY <2>5 DEF Disconnect, Listen
  <2>6. ASSUME NEW s \in Session, \/ ListenFails(s) \/ Bound(s)
                                  \/ \E q \in Port : AcceptFails(s, q) \/ CloseListener(s, q)
        PROVE  request' = request /\ (pc'[t] = pc[t] \/ pc'[t] = "serve")
    BY <2>6 DEF ListenFails, Bound, AcceptFails, CloseListener, GoTo, HInv, TypeOK
  <2>7. ASSUME NEW s \in Session, Listen(s), bound[p] # t
        PROVE  t = s /\ pc'[t] = "bind" /\ ReverseEnabled /\ p \in ReversePorts(t)'
    <3> DEFINE r == ThisRemote(s)
    <3>1. /\ pc[s] = "bind" /\ pc' = pc /\ request' = request
          /\ at[s] \in 1..Len(request[s].remotes)
      BY <2>7, Places DEF Listen, HInv
    <3>2. r.reverse /\ p = r.mappingPort /\ t = s
      BY <1>2, <2>7 DEF Listen, HInv, TypeOK
    <3>3. at[s] \in Checked(s) /\ Reverse(s, at[s])
      BY <3>1, <3>2 DEF Checked, Reverse, ThisRemote
    <3>4. ReverseEnabled
      BY <3>3 DEF HInv, ListenersAllowed
    <3>5. p \in ReversePorts(s)
      BY <3>1, <3>2, <3>3 DEF ReversePorts, Reverse, ThisRemote
    <3>6. ReversePorts(s)' = ReversePorts(s)
      BY <3>1 DEF ReversePorts
    <3> QED BY <3>1, <3>2, <3>4, <3>5, <3>6
  <2>8. ASSUME NEW s \in Session,
               \/ Disconnect(s) \/ ListenFails(s) \/ Bound(s)
               \/ \E q \in Port : AcceptFails(s, q) \/ CloseListener(s, q)
        PROVE  bound[p] = t
    BY <1>2, <2>8, NoSessionAssumption
       DEF Disconnect, ListenFails, Bound, AcceptFails, CloseListener, HInv, TypeOK
  <2>9. ~Crash
    BY <1>2, NoSessionAssumption DEF Crash
  <2>10. ASSUME \/ \E q \in Port : Finalize(q)
                \/ ControlPlane \/ RunFreeHangingTimer \/ Clock \/ UNCHANGED vars
         PROVE  bound[p] = t /\ request' = request /\ pc' = pc
    BY <1>2, <2>10, NoSessionAssumption
       DEF Finalize, ControlPlane, RunFreeHangingTimer, Clock, sessionVars, vars,
           HInv, TypeOK
  <2> QED BY <2>1, <2>2, <2>4, <2>5, <2>6, <2>7, <2>8, <2>9, <2>10
          DEF Next, Moves, SessionStep
<1> QED BY <1>1, <1>2 DEF ListenersAllowed, ListenersHaveSession

(* HInv is an invariant of the server.                                     *)
LEMMA HoldInv == Spec => []HInv
<1>1. ASSUME Init PROVE HInv
  <2>1. Inv
    BY <1>1, InitInv DEF Init
  <2>2. TypeOK
    <3>1. Hold + 1 \in 0..Hold+1
      BY HoldAssumption
    <3> QED BY <1>1, <2>1, <3>1, NoRequestType DEF Init, TypeOK, Inv, ApiInv
  <2>3. \A s \in Session : handle[s] = NoAlloc /\ Checked(s) = {} /\ Taken(s) = {}
    BY <1>1 DEF Init, AllocInit, Checked, Taken
  <2>4. ListenersHaveSession
    BY <1>1, NoSessionAssumption DEF Init, ListenersHaveSession
  <2> QED BY <2>1, <2>2, <2>3, <2>4 DEF HInv, HoldsFirst, ListenersAllowed
<1>2. ASSUME HInv, [Next]_vars PROVE HInv'
  <2>1. SInv
    BY <1>2 DEF HInv, Inv, ApiInv, SInv
  <2>2. Inv'
    <3>1. [AllocNext]_allocVars
      BY <1>2, <2>1, StepMapsToAllocator
    <3>2. CASE AllocNext
      BY <1>2, <3>2, AllocNextInv DEF HInv, Inv
    <3>3. CASE UNCHANGED allocVars
      BY <1>2, <3>3
         DEF HInv, allocVars, Inv, ApiInv, AllocTypeOK, IndexSound, NamesOwnPorts
    <3> QED BY <3>1, <3>2, <3>3
  <2>3. TypeOK'
    <3>1. SessionTypeOK'
      BY <1>2, <2>1, StepKeepsSessionType
    <3> QED BY <2>2, <3>1 DEF TypeOK, SessionTypeOK, Inv, ApiInv
  <2> QED BY <1>2, <2>2, <2>3, StepHolds, StepAllowed DEF HInv
<1> QED BY <1>1, <1>2, PTL DEF Spec

-----------------------------------------------------------------------------
(* A session that serves holds a record of its own key for a port it asked *)
(* for, that of its first reverse remote unless this is 0, so that the     *)
(* unlocked write at its end goes to a record it was given, whatever POST, *)
(* DELETE, the timer or other sessions did meanwhile.                      *)
THEOREM SessionsHoldTheirRecords == Spec => []SessionHoldsItsRecord
<1>1. HInv => SessionHoldsItsRecord
  <2> SUFFICES ASSUME HInv, NEW s \in Session, pc[s] \in {"bind", "serve"},
                      ReversePorts(s) # {}
               PROVE  /\ handle[s] # NoAlloc
                      /\ Fits(s, FirstReverse(s))
                      /\ Taken(s) = 1..Len(request[s].remotes)
    BY DEF SessionHoldsItsRecord, Fits, PortOf, ReversePorts, Reverse
  <2>1. Taken(s) = 1..Len(request[s].remotes)
    BY DEF Taken, Checked
  <2>2. PICK i \in 1..Len(request[s].remotes) : Reverse(s, i)
    BY DEF ReversePorts, Reverse
  <2>3. handle[s] # NoAlloc
    BY <2>1, <2>2 DEF HInv, HoldsFirst
  <2>4. PICK f \in Taken(s) : First(s, f) /\ Fits(s, f)
    BY <2>3 DEF HInv, HoldsFirst
  <2>5. FirstReverse(s) = f
    <3>1. f \in 1..Len(request[s].remotes)
      BY <2>4 DEF First
    <3>2. ASSUME NEW g \in 1..Len(request[s].remotes), First(s, g) PROVE g = f
      <4>1. ~(g < f) /\ ~(f < g)
        BY <2>4, <3>1, <3>2 DEF First
      <4> QED BY <3>1, <4>1
    <3> QED BY <2>4, <3>1, <3>2 DEF FirstReverse, First, Reverse
  <2> QED BY <2>1, <2>3, <2>4, <2>5
<1> QED BY <1>1, HoldInv, PTL

(* The server accepts only for sessions between BindRemotes and eg.Wait,   *)
(* on ports their config named, and only with --reverse.  (A listener an   *)
(* error left open, on which nobody accepts, is out of its reach.)         *)
THEOREM ListenersAlwaysHaveSession == Spec => []ListenersHaveSession
<1>1. HInv => ListenersHaveSession
  BY DEF HInv, ListenersAllowed
<1> QED BY <1>1, HoldInv, PTL

(* Connecting under an identity never gives a record for the port of       *)
(* another key's record.                                                   *)
THEOREM NobodyTakesOver == Spec => NoTakeover
<1>1. ASSUME HInv, [Next]_vars, NEW s \in Session,
             handle'[s] \notin {NoAlloc, handle[s]}, request[s].id # NoIdentity,
             NEW k \in Key \ {KeyOf(request[s].id)}, names[k] # NoAlloc
      PROVE  heap[names[k]].mappingPort # heap'[handle'[s]].mappingPort
  <2>1. Apply(s)
    <3>1. ASSUME NEW t \in Session, Moves(t)
          PROVE  t = s
      BY <1>1, <3>1, OnlyOneMoves
    <3>2. ~\E t \in Session : Connect(t) \/ Disconnect(t)
      BY <1>1 DEF Connect, Disconnect, allocVars
    <3>3. ~(Refuse(s) \/ EndSession(s))
      BY <1>1 DEF Refuse, EndSession, Detach, allocVars, HInv, TypeOK, AllocTypeOK
    <3>4. ~(PassOver(s) \/ CheckPasses(s) \/ Listen(s) \/ ListenFails(s) \/ Bound(s)
               \/ \E p \in Port : AcceptFails(s, p) \/ CloseListener(s, p))
      BY <1>1 DEF PassOver, CheckPasses, Listen, ListenFails, Bound, AcceptFails, CloseListener, allocVars
    <3>5. ~(\/ \E p \in Port : Finalize(p)
            \/ ControlPlane \/ RunFreeHangingTimer \/ Clock \/ Crash \/ UNCHANGED vars)
      BY <1>1 DEF Finalize, ControlPlane, HandleCreatePort, HandleDeletePort,
                  AllocatePort, Renew, AllocateIn, FreePort, RunFreeHangingTimer,
                  FreeHangingPorts, Release, Clock, Tick, Crash, Restart,
                  allocVars, vars
    <3> QED BY <1>1, <3>1, <3>2, <3>3, <3>4, <3>5
            DEF Next, Moves, SessionStep, ApplyFails, CheckFails
  <2> DEFINE r == ThisRemote(s)
             id == ActingIdentity(s)
  <2>2. r \in Remote
    BY <1>1, <2>1, Places DEF Apply, ThisRemote, HInv
  <2>3. id \in Identity /\ KeyOf(id) = KeyOf(request[s].id)
    <3>1. CASE handle[s] = NoAlloc
      BY <1>1, <3>1 DEF ActingIdentity, HInv, TypeOK, Request
    <3>2. CASE handle[s] # NoAlloc
      BY <1>1, <3>2 DEF ActingIdentity, HInv, HoldsFirst, Fits, TypeOK, AllocTypeOK, Record
    <3> QED BY <3>1, <3>2
  <2> HIDE DEF id
  <2>4. OnConnected(s, id, r.clientPort, r.mappingPort)
    BY <2>1 DEF Apply, id
  <2>5. heap'[handle'[s]].mappingPort = r.mappingPort
    BY <1>1, <2>2, <2>3, <2>4, ConnectedRecord DEF HInv, Inv, Remote
  <2>6. \/ ports[r.mappingPort] = NoAlloc
        \/ ports[r.mappingPort] = names[KeyOf(id)] /\ names[KeyOf(id)] # NoAlloc
    BY <1>1, <2>3, <2>4, NullAssumption, KeyOfIdentity
       DEF OnConnected, ApplyNew, KnownFits, UnknownFits, HInv, Inv, NamesOwnPorts
  <2>7. ports[heap[names[k]].mappingPort] = names[k]
    BY <1>1 DEF HInv, Inv, NamesOwnPorts
  <2>8. names[k] # names[KeyOf(id)]
    BY <1>1, <2>3, KeyOfIdentity DEF HInv, Inv, ApiInv, IndexSound
  <2> QED BY <1>1, <2>5, <2>6, <2>7, <2>8
<1> DEFINE Kept ==
      \A s \in Session :
        handle'[s] \notin {NoAlloc, handle[s]} /\ request[s].id # NoIdentity =>
            \A k \in Key \ {KeyOf(request[s].id)} :
                names[k] # NoAlloc =>
                    heap[names[k]].mappingPort # heap'[handle'[s]].mappingPort
<1>2. HInv /\ [Next]_vars => Kept
  BY <1>1
<1> HIDE DEF Kept
<1>3. Spec => [][Kept]_vars
  BY <1>2, HoldInv, PTL DEF Spec
<1> QED BY <1>3 DEF Kept, NoTakeover

-----------------------------------------------------------------------------
(* Who takes the status from a connected record: a request of the control  *)
(* plane that names its key, or the end of a session that holds it.        *)
LEMMA StatusTakenBy ==
    ASSUME HInv, [Next]_vars, NEW s \in Session, NEW a,
           handle[s] = a, a # NoAlloc, handle'[s] = a,
           heap[a].status = Connected, heap'[a].status # Connected
    PROVE  \/ \E id \in Identity :
                /\ KeyOf(id) = KeyOf(heap[a].id)
                /\ FreePort(id) \/ \E cp \in ClientPort : AllocatePort(id, cp)
           \/ \E t \in Session \ {s} : handle[t] = a /\ EndSession(t)
<1>1. AllocTypeOK /\ a \in Alloc /\ a \notin Unreferenced /\ DOMAIN heap = Alloc
  BY DEF HInv, TypeOK, AllocTypeOK, Unreferenced
<1>2. ASSUME NEW b, NEW id, NEW cp, NEW mp, NEW st, Enter(b, id, cp, mp, st)
      PROVE  FALSE
  BY <1>1, <1>2 DEF Enter, AllocTypeOK
<1>3. ASSUME NEW id \in Identity, names[KeyOf(id)] = a
      PROVE  KeyOf(id) = KeyOf(heap[a].id)
  BY <1>3, KeyOfIdentity DEF HInv, Inv, ApiInv, IndexSound
<1>4. CASE HandleCreatePort
  <2>1. PICK id \in Identity, cp \in ClientPort : AllocatePort(id, cp)
    BY <1>4 DEF HandleCreatePort
  <2>2. Renew(id, cp)
    BY <1>2, <2>1 DEF AllocatePort, AllocateIn
  <2>3. names[KeyOf(id)] = a
    BY <1>1, <2>2 DEF Renew, AllocTypeOK, Record
  <2> QED BY <1>3, <2>1, <2>3
<1>5. CASE HandleDeletePort
  <2>1. PICK id \in Identity : FreePort(id)
    BY <1>5 DEF HandleDeletePort
  <2>2. names[KeyOf(id)] = a
    BY <1>1, <2>1 DEF FreePort, Release, AllocTypeOK
  <2> QED BY <1>3, <2>1, <2>2
<1>6. ~RunFreeHangingTimer
  BY <1>1 DEF RunFreeHangingTimer, FreeHangingPorts, Release, Hanging, Connected, Allocated
<1>7. ASSUME NEW t \in Session, Apply(t) PROVE FALSE
  <2>1. ASSUME NEW b, Attach(t, b) PROVE FALSE
    BY <1>1, <2>1 DEF Attach, AllocTypeOK, Record
  <2> QED BY <1>2, <1>7, <2>1 DEF Apply, OnConnected, ApplyNew, ApplyOld
<1>8. ASSUME NEW t \in Session, EndSession(t)
      PROVE  \E u \in Session \ {s} : handle[u] = a /\ EndSession(u)
  <2>1. Detach(t)
    BY <1>8 DEF EndSession, allocVars
  <2>2. handle[t] = a
    BY <1>1, <2>1 DEF Detach, AllocTypeOK, Record
  <2>3. t # s
    BY <1>1, <2>1 DEF Detach, AllocTypeOK
  <2> QED BY <1>8, <2>2, <2>3
<1>9. ~Clock /\ ~Crash
  BY <1>1 DEF Clock, Tick, Crash, Restart, AllocTypeOK, Record
<1>10. ASSUME NEW t \in Session,
              \/ Connect(t) \/ Disconnect(t) \/ PassOver(t) \/ Refuse(t)
              \/ CheckPasses(t) \/ Listen(t) \/ ListenFails(t) \/ Bound(t)
              \/ \E p \in Port : AcceptFails(t, p) \/ CloseListener(t, p)
       PROVE  FALSE
  BY <1>10 DEF Connect, Disconnect, PassOver, Refuse, CheckPasses, Listen,
               ListenFails, Bound, AcceptFails, CloseListener, allocVars
<1>11. ~((\E p \in Port : Finalize(p)) \/ UNCHANGED vars)
  BY DEF Finalize, allocVars, vars
<1> QED BY <1>4, <1>5, <1>6, <1>7, <1>8, <1>9, <1>10, <1>11
        DEF Next, SessionStep, ApplyFails, CheckFails, ControlPlane

(* A connected record keeps its status while a session holds it, but for   *)
(* the control plane and the sessions that share it.                       *)
THEOREM StatusAlwaysKept == Spec => StatusKeptWhileHeld
<1> DEFINE Kept ==
      \A s \in Session :
        LET a == handle[s]
        IN  /\ a # NoAlloc /\ handle'[s] = a
            /\ heap[a].status = Connected /\ heap'[a].status # Connected
            => \/ \E id \in Identity :
                    /\ KeyOf(id) = KeyOf(heap[a].id)
                    /\ FreePort(id) \/ \E cp \in ClientPort : AllocatePort(id, cp)
               \/ \E t \in Session \ {s} : handle[t] = a /\ EndSession(t)
<1>1. HInv /\ [Next]_vars => Kept
  BY StatusTakenBy
<1> HIDE DEF Kept
<1>2. Spec => [][Kept]_vars
  BY <1>1, HoldInv, PTL DEF Spec
<1> QED BY <1>2 DEF Kept, StatusKeptWhileHeld
=============================================================================
