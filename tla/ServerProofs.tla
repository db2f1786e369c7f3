---------------------------- MODULE ServerProofs ----------------------------
(***************************************************************************)
(* The server uses its allocator only through the operations of AllocNext: *)
(* every step of a session, of the control plane, of the timer or of the   *)
(* environment is a step of the allocator or leaves it alone.  So what is  *)
(* proved of AllocSpec holds of the server, for every list of remotes.     *)
(***************************************************************************)
EXTENDS Server, LeaseProofs

SInv == TypeOK /\ IndexSound

(* Types of the variables of Server alone.                                 *)
SessionTypeOK ==
    /\ pc \in [Session -> {"idle", "apply", "check", "bind", "serve"}]
    /\ request \in [Session -> Request]
    /\ at \in [Session -> Nat \ {0}]
    /\ \A s \in Session : pc[s] \in {"apply", "check"} =>
                               at[s] <= Len(request[s].remotes)
    /\ linked \in [Session -> BOOLEAN]
    /\ bound \in [Port -> Session \cup {NoSession, Leaked}]
    /\ quiet \in [Alloc -> 0..Hold+1]

(* The type invariant of the server is two.                                *)
LEMMA TypeSplit == TypeOK <=> AllocTypeOK /\ SessionTypeOK
BY DEF TypeOK, SessionTypeOK

(* No request is an element of its type.                                   *)
LEMMA NoRequestType == NoRequest \in Request
BY DEF NoRequest, Request

-----------------------------------------------------------------------------
(* The remote a session is looking at is one of its list.                  *)
LEMMA ThisRemoteType ==
    ASSUME SessionTypeOK, NEW s \in Session, at[s] <= Len(request[s].remotes)
    PROVE  ThisRemote(s) \in Remote
<1>1. request[s].remotes \in Seq(Remote) /\ at[s] \in Nat \ {0}
  BY DEF SessionTypeOK, Request
<1> QED BY <1>1 DEF ThisRemote

(* The identity a session acts under is one in use, or none.               *)
LEMMA ActingIdentityType ==
    ASSUME SInv, NEW s \in Session
    PROVE  ActingIdentity(s) \in Identity \cup {NoIdentity}
<1>1. /\ request[s].id \in Identity \cup {NoIdentity}
      /\ handle[s] # NoAlloc => heap[handle[s]].id \in Identity
  BY DEF SInv, TypeOK, AllocTypeOK, Request, Record
<1> QED BY <1>1 DEF ActingIdentity

(* The return of the handler keeps the types of what it resets.            *)
LEMMA LeaveType ==
    ASSUME SessionTypeOK, NEW s \in Session, Leave(s),
           bound' \in [Port -> Session \cup {NoSession, Leaked}],
           quiet' \in [Alloc -> 0..Hold+1]
    PROVE  SessionTypeOK'
BY NoRequestType DEF SessionTypeOK, Leave, GoTo

-----------------------------------------------------------------------------
(* Every step of the server is a step of its allocator, or none.           *)
LEMMA StepMapsToAllocator ==
    ASSUME SInv, [Next]_vars
    PROVE  [AllocNext]_allocVars
<1>1. ASSUME NEW s \in Session, Apply(s) PROVE AllocNext
  <2>1. ThisRemote(s) \in Remote
    BY <1>1, ThisRemoteType, TypeSplit DEF Apply, SInv, SessionTypeOK
  <2>2. /\ ThisRemote(s).clientPort \in ClientPort
        /\ ThisRemote(s).mappingPort \in Port
    BY <2>1 DEF Remote
  <2>3. OnConnected(s, ActingIdentity(s),
                    ThisRemote(s).clientPort, ThisRemote(s).mappingPort)
    BY <1>1 DEF Apply
  <2> QED BY <2>2, <2>3, ActingIdentityType DEF AllocNext
<1>2. ASSUME NEW s \in Session, Refuse(s) PROVE [AllocNext]_allocVars
  <2>1. CASE handle[s] = NoAlloc
    BY <1>2, <2>1 DEF Refuse, allocVars, SInv, TypeOK, AllocTypeOK
  <2>2. CASE handle[s] # NoAlloc
    <3>1. Abandon(s)
      BY <1>2, <2>2 DEF Refuse, Abandon
    <3> QED BY <3>1 DEF AllocNext
  <2> QED BY <2>1, <2>2
<1>3. ASSUME NEW s \in Session, EndSession(s) PROVE [AllocNext]_allocVars
  <2>1. CASE handle[s] = NoAlloc
    BY <1>3, <2>1 DEF EndSession
  <2>2. CASE Detach(s)
    BY <2>2 DEF AllocNext
  <2> QED BY <1>3, <2>1, <2>2 DEF EndSession
<1>4. ASSUME NEW s \in Session,
             \/ Connect(s) \/ Disconnect(s) \/ PassOver(s) \/ CheckPasses(s)
             \/ Listen(s) \/ ListenFails(s) \/ Bound(s)
             \/ \E p \in Port : AcceptFails(s, p) \/ CloseListener(s, p)
      PROVE  UNCHANGED allocVars
  BY <1>4 DEF Connect, Disconnect, PassOver, CheckPasses, Listen,
              ListenFails, Bound, AcceptFails, CloseListener
<1>5. ASSUME NEW p \in Port, Finalize(p) PROVE UNCHANGED allocVars
  BY <1>5 DEF Finalize
<1>6. CASE ControlPlane \/ RunFreeHangingTimer \/ Clock \/ Crash
  BY <1>6 DEF ControlPlane, HandleCreatePort, HandleDeletePort,
              RunFreeHangingTimer, Clock, Crash, AllocNext
<1>7. CASE UNCHANGED vars
  BY <1>7 DEF vars
<1> QED BY <1>1, <1>2, <1>3, <1>4, <1>5, <1>6, <1>7
        DEF Next, SessionStep, ApplyFails, CheckFails

-----------------------------------------------------------------------------
(* Every step keeps the types of what the sessions are made of.            *)
LEMMA StepKeepsSessionType ==
    ASSUME SInv, [Next]_vars
    PROVE  SessionTypeOK'
<1>0. SessionTypeOK
  BY TypeSplit DEF SInv
<1>1. ASSUME NEW s \in Session, Connect(s) PROVE SessionTypeOK'
  <2>1. PICK id \in Identity \cup {NoIdentity}, rs \in RemoteLists :
           request' = [request EXCEPT ![s] = [id |-> id, remotes |-> rs]]
    BY <1>1 DEF Connect
  <2>2. [id |-> id, remotes |-> rs] \in Request /\ rs \in Seq(Remote)
    BY RemotesAssumption DEF Request
  <2>3. request' \in [Session -> Request] /\ request'[s].remotes = rs
    BY <1>0, <2>1, <2>2 DEF SessionTypeOK
  <2>4. rs # <<>> => Len(rs) \in Nat /\ 1 <= Len(rs)
    BY <2>2
  <2>5. /\ pc' \in [Session -> {"idle", "apply", "check", "bind", "serve"}]
        /\ at' \in [Session -> Nat \ {0}]
        /\ linked' \in [Session -> BOOLEAN]
        /\ bound' = bound /\ quiet' = quiet
    BY <1>0, <1>1 DEF Connect, GoTo, SessionTypeOK
  <2>6. ASSUME NEW t \in Session, pc'[t] \in {"apply", "check"}
        PROVE  at'[t] <= Len(request'[t].remotes)
    <3>1. CASE t = s
      BY <1>0, <1>1, <2>3, <2>4, <2>6, <3>1 DEF Connect, GoTo, SessionTypeOK
    <3>2. CASE t # s
      BY <1>0, <1>1, <2>1, <2>6, <3>2 DEF Connect, GoTo, SessionTypeOK
    <3> QED BY <3>1, <3>2
  <2> QED BY <1>0, <2>3, <2>5, <2>6 DEF SessionTypeOK
<1>2. ASSUME NEW s \in Session, PassOver(s) \/ Apply(s) PROVE SessionTypeOK'
  BY <1>0, <1>2 DEF PassOver, Apply, GoTo, SessionTypeOK
<1>3. ASSUME NEW s \in Session, Refuse(s) PROVE SessionTypeOK'
  BY <1>0, <1>3, LeaveType DEF Refuse, SessionTypeOK
<1>4. ASSUME NEW s \in Session, CheckPasses(s) PROVE SessionTypeOK'
  <2>1. Len(request[s].remotes) \in Nat /\ at[s] \in Nat \ {0}
    BY <1>0 DEF SessionTypeOK, Request
  <2>2. ~LastRemote(s) => at[s] + 1 <= Len(request[s].remotes)
    BY <1>0, <1>4, <2>1 DEF CheckPasses, LastRemote, SessionTypeOK
  <2>3. /\ request' = request /\ linked' = linked
        /\ bound' = bound /\ quiet' = quiet
    BY <1>4 DEF CheckPasses
  <2>4. CASE LastRemote(s)
    <3>1. pc' = [pc EXCEPT ![s] = "bind"] /\ at' = [at EXCEPT ![s] = 1]
      BY <1>4, <2>4 DEF CheckPasses, GoTo
    <3> QED BY <1>0, <2>3, <3>1 DEF SessionTypeOK
  <2>5. CASE ~LastRemote(s)
    <3>1. pc' = [pc EXCEPT ![s] = "apply"] /\ at' = [at EXCEPT ![s] = @ + 1]
      BY <1>4, <2>5 DEF CheckPasses, GoTo
    <3> QED BY <1>0, <2>1, <2>2, <2>3, <2>5, <3>1 DEF SessionTypeOK
  <2> QED BY <2>4, <2>5
<1>5. ASSUME NEW s \in Session, Disconnect(s) PROVE SessionTypeOK'
  BY <1>0, <1>5 DEF Disconnect, SessionTypeOK
<1>6. ASSUME NEW s \in Session, Listen(s) PROVE SessionTypeOK'
  <2>1. ThisRemote(s).mappingPort \in Port
    BY <1>0, <1>6, ThisRemoteType DEF Listen, Remote
  <2>2. bound' \in [Port -> Session \cup {NoSession, Leaked}]
    BY <1>0, <1>6, <2>1 DEF Listen, SessionTypeOK
  <2> QED BY <1>0, <1>6, <2>2 DEF Listen, SessionTypeOK
<1>7. ASSUME NEW s \in Session,
             \/ ListenFails(s) \/ Bound(s)
             \/ \E p \in Port : AcceptFails(s, p) \/ CloseListener(s, p)
      PROVE  SessionTypeOK'
  BY <1>0, <1>7
     DEF ListenFails, Bound, AcceptFails, CloseListener, GoTo, SessionTypeOK
<1>8. ASSUME NEW s \in Session, EndSession(s) PROVE SessionTypeOK'
  <2>1. quiet' \in [Alloc -> 0..Hold+1]
    BY <1>0, <1>8, HoldAssumption DEF EndSession, SessionTypeOK
  <2> QED BY <1>0, <1>8, <2>1, LeaveType DEF EndSession, SessionTypeOK
<1>9. ASSUME NEW p \in Port, Finalize(p) PROVE SessionTypeOK'
  BY <1>0, <1>9 DEF Finalize, SessionTypeOK
<1>10. CASE ControlPlane \/ RunFreeHangingTimer
  BY <1>0, <1>10 DEF ControlPlane, RunFreeHangingTimer, sessionVars, SessionTypeOK
<1>11. CASE Clock
  <2>1. quiet' \in [Alloc -> 0..Hold+1]
    BY <1>0, <1>11, HoldAssumption DEF Clock, SessionTypeOK
  <2> QED BY <1>0, <1>11, <2>1 DEF Clock, SessionTypeOK
<1>12. CASE Crash
  <2>1. Hold + 1 \in 0..Hold+1
    BY HoldAssumption
  <2> QED BY <1>0, <1>12, <2>1, NoRequestType DEF Crash, SessionTypeOK
<1>13. CASE UNCHANGED vars
  BY <1>0, <1>13 DEF vars, sessionVars, SessionTypeOK
<1> QED BY <1>1, <1>2, <1>3, <1>4, <1>5, <1>6, <1>7, <1>8, <1>9, <1>10,
           <1>11, <1>12, <1>13
        DEF Next, SessionStep, ApplyFails, CheckFails

(* SInv is an invariant of the server.                                     *)
LEMMA ServerInv == Spec => []SInv
<1>1. Init => SInv
  <2> SUFFICES ASSUME Init PROVE SInv
    OBVIOUS
  <2>1. AllocTypeOK /\ IndexSound
    BY InitInv DEF Init, Inv, ApiInv
  <2>2. Hold + 1 \in 0..Hold+1
    BY HoldAssumption
  <2>3. SessionTypeOK
    BY <2>2, NoRequestType DEF Init, SessionTypeOK
  <2> QED BY <2>1, <2>3, TypeSplit DEF SInv
<1>2. SInv /\ [Next]_vars => SInv'
  <2> SUFFICES ASSUME SInv, [Next]_vars PROVE SInv'
    OBVIOUS
  <2>1. ApiInv
    BY DEF SInv, TypeOK, ApiInv
  <2>2. [AllocNext]_allocVars
    BY StepMapsToAllocator
  <2>3. ApiInv'
    <3>1. CASE AllocNext
      BY <2>1, <3>1, AllocNextInv
    <3>2. CASE UNCHANGED allocVars
      BY <2>1, <3>2 DEF allocVars, ApiInv, AllocTypeOK, IndexSound
    <3> QED BY <2>2, <3>1, <3>2
  <2>4. SessionTypeOK'
    BY StepKeepsSessionType
  <2>5. TypeOK'
    BY <2>3, <2>4 DEF TypeOK, SessionTypeOK, ApiInv
  <2> QED BY <2>3, <2>5 DEF SInv, ApiInv
<1> QED BY <1>1, <1>2, PTL DEF Spec

(* The sessions, their remotes and the listeners keep their types.         *)
THEOREM ServerTypeCorrect == Spec => []TypeOK
<1>1. SInv => TypeOK
  BY DEF SInv
<1> QED BY <1>1, ServerInv, PTL

(* The server implements the allocator specification: no handler changes   *)
(* the two maps or a record but by an operation of the allocator, or by    *)
(* the status write at the end of a session.                               *)
THEOREM ServerImplementsAllocator == Spec => AllocSpec
<1>1. Init => AllocInit
  BY DEF Init
<1>2. SInv /\ [Next]_vars => [AllocNext]_allocVars
  BY StepMapsToAllocator
<1> QED BY <1>1, <1>2, ServerInv, PTL DEF Spec, AllocSpec

(* So the maps agree whatever the sessions do.                             *)
THEOREM ServerTablesAgree == Spec => []TablesAgree
BY ServerImplementsAllocator, TablesAlwaysAgree, PTL

(* And the leases it hands out are kept: a key keeps its port while its    *)
(* lease lasts, and no port is leased to two keys.                         *)
THEOREM ServerImplementsLeases == Spec => LeasingSpec
BY ServerImplementsAllocator, AllocatorImplementsLeases, PTL
=============================================================================
