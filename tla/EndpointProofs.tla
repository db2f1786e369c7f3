--------------------------- MODULE EndpointProofs ---------------------------
(***************************************************************************)
(* Proofs about the hand-over of connections, for every number of          *)
(* connections and of getters, and for the client and the server.          *)
(***************************************************************************)
EXTENDS Endpoint, FiniteSetTheorems, TLAPS

-----------------------------------------------------------------------------
(* The inductive invariant.                                                *)

(* How many threads are inside a count-down, and whether the binder is     *)
(* between the two writes of Add.                                          *)
Counting == At({"count"})
Adding == At({"addInner"})

(* CountersAgree, in these words.                                          *)
Agree == inner + Adding = n + Counting

(* The binder has a connection from its call of BindSSH on, and the        *)
(* connections to come have no watcher yet; watchers never add.           *)
Rounds ==
    /\ pc[Binder] # "idle" \/ loop = "bound" => current \in Conn
    /\ \A c \in Conn : /\ c > current => pc[c] = "off"
                       /\ pc[c] # "addInner"

(* n is 0 or 1, so that Done can only race a Done that did its work: a     *)
(* binder past Done leaves the group at zero.                              *)
AtMostOne ==
    /\ n \in {0, 1}
    /\ \A t \in Thread : pc[t] = "swap" => val[t] = 1
    /\ pc[Binder] \in {"count", "wait", "add"} => n = 0

(* Whoever brings the counter to zero wakes everybody.                     *)
ZeroWakes == inner = 0 => \A g \in Getter : waiter[g] # "asleep"

(* A connection is active from the binding to the return of BindSSH.       *)
ActiveWhileBound == active = NoConn <=> pc[Binder] \in {"idle", "set"}

EInv ==
    /\ TypeOK
    /\ Agree
    /\ Rounds
    /\ AtMostOne
    /\ ZeroWakes
    /\ ActiveWhileBound

-----------------------------------------------------------------------------
(* The threads are finitely many, and can be counted.                      *)
LEMMA ThreadsFinite ==
    /\ IsFiniteSet(Thread)
    /\ Binder \in Thread
    /\ \A c \in Conn : c \in Thread /\ c # Binder
PROOF
  <1>1. IsFiniteSet(Conn)
    BY MaxConnAssumption, FS_Interval DEF Conn
  <1> QED
    BY <1>1, FS_AddElement, NameAssumption DEF Thread

(* How many threads p has at s.                                            *)
CountIn(p, s) == Cardinality({u \in Thread : p[u] \in {s}})

(* What one change of a function does to it.                               *)
LEMMA OneMoves ==
    ASSUME NEW p, NEW q, NEW t \in Thread, NEW step, NEW s,
           p = [u \in Thread |-> p[u]],
           q = [p EXCEPT ![t] = step]
    PROVE  /\ CountIn(p, s) \in Nat /\ CountIn(q, s) \in Nat
           /\ step = p[t] \/ (step # s /\ p[t] # s) => CountIn(q, s) = CountIn(p, s)
           /\ step = s /\ p[t] # s => CountIn(q, s) = CountIn(p, s) + 1
           /\ step # s /\ p[t] = s => CountIn(q, s) = CountIn(p, s) - 1
PROOF
  <1> DEFINE Old == {u \in Thread : p[u] \in {s}}
             New1 == {u \in Thread : q[u] \in {s}}
  <1>1. IsFiniteSet(Old) /\ IsFiniteSet(New1)
    BY ThreadsFinite, FS_Subset
  <1>2. Cardinality(Old) \in Nat /\ Cardinality(New1) \in Nat
    BY <1>1, FS_CardinalityType
  <1>3. step = p[t] \/ (step # s /\ p[t] # s) => New1 = Old
    OBVIOUS
  <1>4. ASSUME step = s, p[t] # s
        PROVE  Cardinality(New1) = Cardinality(Old) + 1
    <2>1. New1 = Old \cup {t} /\ t \notin Old
      BY <1>4
    <2> QED
      BY <2>1, <1>1, FS_AddElement
  <1>5. ASSUME step # s, p[t] = s
        PROVE  Cardinality(New1) = Cardinality(Old) - 1
    <2>1. New1 = Old \ {t} /\ t \in Old
      BY <1>5
    <2> QED
      BY <2>1, <1>1, FS_RemoveElement
  <1> QED
    BY <1>2, <1>3, <1>4, <1>5 DEF CountIn

(* What a jump does to the two.                                            *)
LEMMA JumpCounts ==
    ASSUME TypeOK, NEW t \in Thread, NEW step, Jump(t, step)
    PROVE  /\ Counting \in Nat /\ Counting' \in Nat
           /\ Adding \in Nat /\ Adding' \in Nat
           /\ step # "count" /\ pc[t] # "count" => Counting' = Counting
           /\ step = "count" /\ pc[t] # "count" => Counting' = Counting + 1
           /\ step # "count" /\ pc[t] = "count" => Counting' = Counting - 1
           /\ step # "addInner" /\ pc[t] # "addInner" => Adding' = Adding
           /\ step = "addInner" /\ pc[t] # "addInner" => Adding' = Adding + 1
           /\ step # "addInner" /\ pc[t] = "addInner" => Adding' = Adding - 1
PROOF
  <1>1. pc = [u \in Thread |-> pc[u]] /\ pc' = [pc EXCEPT ![t] = step]
    BY DEF TypeOK, TunnelTypeOK, Jump
  <1>2. /\ Counting = CountIn(pc, "count") /\ Counting' = CountIn(pc', "count")
        /\ Adding = CountIn(pc, "addInner") /\ Adding' = CountIn(pc', "addInner")
    BY DEF Counting, Adding, At, CountIn
  <1> QED
    BY <1>1, <1>2, OneMoves

(* They are numbers, and a step that moves no thread keeps them.           *)
LEMMA StayCounts ==
    /\ Counting \in Nat /\ Adding \in Nat
    /\ pc' = pc => Counting' = Counting /\ Adding' = Adding
PROOF
  <1>1. \A S : Cardinality({t \in Thread : pc[t] \in S}) \in Nat
    BY ThreadsFinite, FS_Subset, FS_CardinalityType
  <1> QED
    BY <1>1 DEF Counting, Adding, At

(* Nobody has started: one Add, and no thread at either of the steps.      *)
LEMMA EndpointInit == Init => EInv
PROOF
  <1> SUFFICES ASSUME Init PROVE EInv
    OBVIOUS
  <1> USE DEF Init, New, StartWith
  <1>1. TypeOK
    <2>1. current \in 0..MaxConn
      BY MaxConnAssumption
    <2>2. pc \in [Thread -> {"idle", "off"}]
      OBVIOUS
    <2>3. role \in {"client", "server"} /\ loop \in {"retry", "dialing"}
      OBVIOUS
    <2>4. /\ n \in Nat /\ inner \in Int /\ active \in Conn \cup {NoConn}
          /\ open \subseteq Conn /\ over \subseteq Conn /\ met \subseteq Getter
      OBVIOUS
    <2>5. panicked \in BOOLEAN /\ cancelled \in BOOLEAN
      OBVIOUS
    <2>6. /\ val \in [Thread -> Nat]
          /\ gpc \in [Getter -> {"idle", "read", "select", "returned"}]
          /\ waiter \in [Getter -> {"off", "enter", "asleep", "woken", "done"}]
          /\ answer \in [Getter -> Conn \cup {NoConn}]
          /\ cause \in [Getter -> {"none", "cancelled", "active", "timeout", "ready"}]
      OBVIOUS
    <2>7. TunnelTypeOK
      BY <2>1, <2>2, <2>4, <2>5, <2>6 DEF TunnelTypeOK
    <2> QED
      BY <2>3, <2>7 DEF TypeOK
  <1>2. Agree
    <2>1. /\ {t \in Thread : pc[t] \in {"addInner"}} = {}
          /\ {t \in Thread : pc[t] \in {"count"}} = {}
      BY ThreadsFinite
    <2> QED
      BY <2>1, FS_EmptySet DEF Agree, Counting, Adding, At
  <1>3. Rounds /\ AtMostOne /\ ZeroWakes /\ ActiveWhileBound
    BY ThreadsFinite DEF Rounds, AtMostOne, ZeroWakes, ActiveWhileBound
  <1> QED
    BY <1>1, <1>2, <1>3 DEF EInv

-----------------------------------------------------------------------------
(* The wait group.                                                         *)

(* Done, by the binder or by DoneAll of a watcher.                         *)
LEMMA DoneKeeps ==
    ASSUME EInv, NEW t \in Thread, Done(t), UNCHANGED endVars,
           t = Binder \/ t \in Conn
    PROVE  EInv'
PROOF
  <1> USE DEF EInv, endVars, connVars, getVars, wgVars, AfterDone
  <1>0. TypeOK
    OBVIOUS
  <1>1. CASE DoneLoad(t)
    <2>1. Jump(t, IF n > 0 THEN "swap" ELSE AfterDone(t)) /\ pc[t] = "load"
      BY <1>1 DEF DoneLoad
    <2>2. Agree'
      BY <1>0, <1>1, <2>1, JumpCounts DEF DoneLoad, Agree
    <2>3. TypeOK'
      BY <1>1 DEF DoneLoad, TypeOK, TunnelTypeOK, Jump
    <2>4. Rounds' /\ AtMostOne' /\ ZeroWakes' /\ ActiveWhileBound'
      BY <1>1, ThreadsFinite
         DEF DoneLoad, Rounds, AtMostOne, ZeroWakes, ActiveWhileBound,
             TypeOK, TunnelTypeOK, Jump
    <2> QED
      BY <2>2, <2>3, <2>4
  <1>2. CASE DoneSwap(t)
    <2>1. PICK step : Jump(t, step)
                      /\ \/ step = "count" /\ n = val[t] /\ n' = n - 1
                         \/ step = AfterDone(t) /\ n # val[t] /\ n' = n
      BY <1>2 DEF DoneSwap
    <2>2. pc[t] = "swap" /\ val[t] = 1 /\ n \in {0, 1}
      BY <1>2 DEF DoneSwap, AtMostOne
    <2>3. Agree'
      <3>1. /\ Adding' = Adding
            /\ step = "count" => Counting' = Counting + 1
            /\ step # "count" => Counting' = Counting
            /\ Counting \in Nat /\ Adding \in Nat
        BY <1>0, <2>1, <2>2, JumpCounts
      <3>2. inner' = inner /\ inner \in Int
        BY <1>2 DEF DoneSwap, TypeOK, TunnelTypeOK
      <3> QED
        BY <2>1, <2>2, <3>1, <3>2 DEF Agree
    <2>4. TypeOK'
      BY <1>2, <2>1, <2>2 DEF DoneSwap, TypeOK, TunnelTypeOK, Jump
    <2>5. Rounds' /\ AtMostOne' /\ ZeroWakes' /\ ActiveWhileBound'
      BY <1>2, <2>1, <2>2, ThreadsFinite
         DEF DoneSwap, Rounds, AtMostOne, ZeroWakes, ActiveWhileBound,
             TypeOK, TunnelTypeOK, Jump
    <2> QED
      BY <2>3, <2>4, <2>5
  <1>3. CASE DoneCount(t)
    <2>1. Jump(t, AfterDone(t)) /\ pc[t] = "count" /\ inner' = inner - 1
      BY <1>3 DEF DoneCount, InnerAdd, TypeOK, TunnelTypeOK
    <2>2. Agree'
      <3>1. /\ Adding' = Adding
            /\ Counting' = Counting - 1
            /\ Counting \in Nat /\ Adding \in Nat
        BY <1>0, <2>1, JumpCounts
      <3> QED
        BY <1>3, <2>1, <3>1 DEF DoneCount, Agree, TypeOK, TunnelTypeOK
    <2>3. TypeOK'
      BY <1>3, <2>1 DEF DoneCount, InnerAdd, TypeOK, TunnelTypeOK, Jump
    <2>4. Rounds' /\ AtMostOne' /\ ZeroWakes' /\ ActiveWhileBound'
      BY <1>3, <2>1, ThreadsFinite
         DEF DoneCount, InnerAdd, Rounds, AtMostOne, ZeroWakes, ActiveWhileBound,
             TypeOK, TunnelTypeOK, Jump
    <2> QED
      BY <2>2, <2>3, <2>4
  <1> QED
    BY <1>1, <1>2, <1>3 DEF Done

(* The other steps of BindSSH.                                             *)
LEMMA BindSSHKeeps ==
    ASSUME EInv, BindSSHStep, UNCHANGED endVars
    PROVE  EInv'
PROOF
  <1> USE DEF EInv, endVars, connVars, getVars, wgVars
  <1>0. TypeOK /\ Binder \in Thread
    BY ThreadsFinite
  <1>a. Counting \in Nat /\ Adding \in Nat
    BY StayCounts
  <1>1. CASE SetActive
    <2>1. Agree'
      <3>1. Jump(Binder, "load") /\ pc[Binder] = "set"
        BY <1>1 DEF SetActive
      <3>2. /\ Adding' = Adding
            /\ Counting' = Counting
        BY <1>0, <3>1, JumpCounts
      <3> QED
        BY <1>1, <3>2 DEF SetActive, Agree
    <2>2. TypeOK' /\ Rounds' /\ AtMostOne' /\ ZeroWakes' /\ ActiveWhileBound'
      BY <1>1, ThreadsFinite, NameAssumption
         DEF SetActive, Rounds, AtMostOne, ZeroWakes, ActiveWhileBound,
             TypeOK, TunnelTypeOK, Jump
    <2> QED
      BY <2>1, <2>2
  <1>2. CASE Done(Binder)
    BY <1>0, <1>2, DoneKeeps
  <1>3. CASE Closed
    <2>1. Agree'
      <3>1. Jump(Binder, "add") /\ pc[Binder] = "wait"
        BY <1>3 DEF Closed
      <3>2. /\ Adding' = Adding
            /\ Counting' = Counting
        BY <1>0, <3>1, JumpCounts
      <3> QED
        BY <1>3, <3>2 DEF Closed, Agree
    <2>2. TypeOK' /\ Rounds' /\ AtMostOne' /\ ZeroWakes' /\ ActiveWhileBound'
      BY <1>3, ThreadsFinite
         DEF Closed, Rounds, AtMostOne, ZeroWakes, ActiveWhileBound,
             TypeOK, TunnelTypeOK, Jump
    <2> QED
      BY <2>1, <2>2
  <1>4. CASE AddSelf
    <2>1. Agree'
      <3>1. Jump(Binder, "addInner") /\ pc[Binder] = "add"
        BY <1>4 DEF AddSelf
      <3>2. /\ Adding' = Adding + 1
            /\ Counting' = Counting
        BY <1>0, <3>1, JumpCounts
      <3> QED
        BY <1>4, <1>a, <3>2 DEF AddSelf, Agree, TypeOK, TunnelTypeOK
    <2>2. TypeOK' /\ Rounds' /\ AtMostOne' /\ ZeroWakes' /\ ActiveWhileBound'
      BY <1>4, ThreadsFinite
         DEF AddSelf, Rounds, AtMostOne, ZeroWakes, ActiveWhileBound,
             TypeOK, TunnelTypeOK, Jump
    <2> QED
      BY <2>1, <2>2
  <1>5. CASE AddInner
    <2>1. Agree'
      <3>1. Jump(Binder, "clear") /\ pc[Binder] = "addInner"
        BY <1>5 DEF AddInner
      <3>2. /\ Adding' = Adding - 1
            /\ Counting' = Counting
        BY <1>0, <3>1, JumpCounts
      <3> QED
        BY <1>5, <1>a, <3>2
           DEF AddInner, InnerAdd, Agree, TypeOK, TunnelTypeOK
    <2>2. TypeOK' /\ Rounds' /\ AtMostOne' /\ ZeroWakes' /\ ActiveWhileBound'
      BY <1>5, ThreadsFinite
         DEF AddInner, InnerAdd, Rounds, AtMostOne, ZeroWakes, ActiveWhileBound,
             TypeOK, TunnelTypeOK, Jump
    <2> QED
      BY <2>1, <2>2
  <1>6. CASE ClearActive
    <2>1. Agree'
      <3>1. Jump(Binder, "idle") /\ pc[Binder] = "clear"
        BY <1>6 DEF ClearActive
      <3>2. /\ Adding' = Adding
            /\ Counting' = Counting
        BY <1>0, <3>1, JumpCounts
      <3> QED
        BY <1>6, <3>2 DEF ClearActive, Agree
    <2>2. TypeOK' /\ Rounds' /\ AtMostOne' /\ ZeroWakes' /\ ActiveWhileBound'
      BY <1>6, ThreadsFinite, NameAssumption
         DEF ClearActive, Rounds, AtMostOne, ZeroWakes, ActiveWhileBound,
             TypeOK, TunnelTypeOK, Jump
    <2> QED
      BY <2>1, <2>2
  <1> QED
    BY <1>1, <1>2, <1>3, <1>4, <1>5, <1>6 DEF BindSSHStep

(* The watcher of a connection, whose DoneAll may meet the Add of BindSSH. *)
LEMMA WatcherKeeps ==
    ASSUME EInv, NEW c \in Conn, WatcherStep(c), UNCHANGED endVars
    PROVE  EInv'
PROOF
  <1> USE DEF EInv, endVars, connVars, getVars, wgVars
  <1>0. TypeOK /\ c \in Thread /\ c # Binder
    BY ThreadsFinite
  <1>1. CASE Watch(c)
    <2>1. Agree'
      <3>1. Jump(c, "test") /\ pc[c] = "watch"
        BY <1>1 DEF Watch
      <3>2. /\ Adding' = Adding
            /\ Counting' = Counting
        BY <1>0, <3>1, JumpCounts
      <3> QED
        BY <1>1, <3>2 DEF Watch, Agree
    <2>2. TypeOK' /\ Rounds' /\ AtMostOne' /\ ZeroWakes' /\ ActiveWhileBound'
      BY <1>0, <1>1
         DEF Watch, Rounds, AtMostOne, ZeroWakes, ActiveWhileBound,
             TypeOK, TunnelTypeOK, Jump
    <2> QED
      BY <2>1, <2>2
  <1>2. CASE DoneAllTest(c)
    <2>1. Agree'
      <3>1. Jump(c, IF n > 0 THEN "load" ELSE "end") /\ pc[c] = "test"
        BY <1>2 DEF DoneAllTest
      <3>2. /\ Adding' = Adding
            /\ Counting' = Counting
        BY <1>0, <3>1, JumpCounts
      <3> QED
        BY <1>2, <3>2 DEF DoneAllTest, Agree
    <2>2. TypeOK' /\ Rounds' /\ AtMostOne' /\ ZeroWakes' /\ ActiveWhileBound'
      BY <1>0, <1>2
         DEF DoneAllTest, Rounds, AtMostOne, ZeroWakes, ActiveWhileBound,
             TypeOK, TunnelTypeOK, Jump
    <2> QED
      BY <2>1, <2>2
  <1>3. CASE Done(c)
    BY <1>0, <1>3, DoneKeeps
  <1> QED
    BY <1>1, <1>2, <1>3 DEF WatcherStep

-----------------------------------------------------------------------------
(* getSSH and the loss of a connection move no thread.                     *)
LEMMA GetterKeeps ==
    ASSUME EInv, NEW g \in Getter, UNCHANGED endVars,
           GetterStep(g) \/ GetTimeout(g) \/ WaiterStep(g)
    PROVE  EInv'
PROOF
  <1> USE DEF EInv, endVars, connVars, getVars, wgVars, Answer
  <1>1. /\ pc' = pc /\ val' = val /\ n' = n /\ inner' = inner
        /\ active' = active /\ current' = current /\ open' = open
        /\ over' = over /\ cancelled' = cancelled
    BY DEF GetterStep, GetStart, GetRead, GetCancelled, GetReady, GetTimeout,
           WaiterStep, WaitEnter, WaitWake
  <1>2. Agree'
    BY <1>1, StayCounts DEF Agree
  <1>3. TypeOK'
    <2>1. /\ gpc' \in [Getter -> {"idle", "read", "select", "returned"}]
          /\ answer' \in [Getter -> Conn \cup {NoConn}]
          /\ cause' \in [Getter -> {"none", "cancelled", "active", "timeout", "ready"}]
          /\ met' = met
          /\ waiter' \in [Getter -> {"off", "enter", "asleep", "woken", "done"}]
          /\ panicked' \in BOOLEAN
      <3>1. CASE GetStart(g)
        BY <3>1 DEF GetStart, TypeOK, TunnelTypeOK
      <3>2. CASE GetRead(g)
        BY <3>2 DEF GetRead, TypeOK, TunnelTypeOK
      <3>3. CASE GetCancelled(g) \/ GetReady(g) \/ GetTimeout(g)
        BY <3>3 DEF GetCancelled, GetReady, GetTimeout, TypeOK, TunnelTypeOK
      <3>4. CASE WaiterStep(g)
        BY <3>4 DEF WaiterStep, WaitEnter, WaitWake, TypeOK, TunnelTypeOK
      <3> QED
        BY <3>1, <3>2, <3>3, <3>4 DEF GetterStep
    <2> QED
      BY <1>1, <2>1 DEF TypeOK, TunnelTypeOK
  <1>4. ZeroWakes'
    BY <1>1 DEF ZeroWakes, TypeOK, TunnelTypeOK, GetterStep, GetStart, GetRead,
                GetCancelled, GetReady, GetTimeout, WaiterStep, WaitEnter, WaitWake
  <1>5. Rounds' /\ AtMostOne' /\ ActiveWhileBound'
    BY <1>1 DEF Rounds, AtMostOne, ActiveWhileBound
  <1> QED
    BY <1>2, <1>3, <1>4, <1>5

(* The loss of a connection.                                               *)
LEMMA LoseKeeps ==
    ASSUME EInv, NEW c \in Conn, Lose(c), UNCHANGED endVars
    PROVE  EInv'
PROOF
  <1> USE DEF EInv, Lose, endVars, connVars, getVars, wgVars
  <1>1. Agree'
    BY StayCounts DEF Agree
  <1> QED
    BY <1>1 DEF Rounds, AtMostOne, ZeroWakes, ActiveWhileBound, TypeOK, TunnelTypeOK

-----------------------------------------------------------------------------
(* The loop of the client, or the session of the server.                   *)
LEMMA LoopKeeps ==
    ASSUME EInv, LoopStep \/ Cancel
    PROVE  EInv'
PROOF
  <1> USE DEF EInv, endVars, connVars, getVars, wgVars, tunnelVars
  <1>0. TypeOK
    OBVIOUS
  <1>1. CASE Connected
    <2>1. /\ pc[Binder] = "idle" /\ current < MaxConn /\ current' = current + 1
          /\ open' = open \cup {current'}
          /\ pc' = [pc EXCEPT ![Binder] = "set", ![current'] = "watch"]
          /\ UNCHANGED <<wgVars, active, cancelled, over, getVars, val>>
          /\ loop' = "bound" /\ UNCHANGED <<role, attempt>>
      BY <1>1 DEF Connected, Bind
    <2>2. current' \in Conn /\ pc[current'] = "off" /\ current' # Binder
          /\ current' \in Thread /\ Binder \in Thread
      BY <2>1, MaxConnAssumption, ThreadsFinite
         DEF TypeOK, TunnelTypeOK, Conn, Rounds
    <2>3. Agree'
      <3>1. /\ {t \in Thread : pc'[t] \in {"addInner"}}
                   = {t \in Thread : pc[t] \in {"addInner"}}
            /\ {t \in Thread : pc'[t] \in {"count"}}
                   = {t \in Thread : pc[t] \in {"count"}}
        BY <2>1, <2>2 DEF TypeOK, TunnelTypeOK
      <3> QED
        BY <2>1, <3>1 DEF Agree, Counting, Adding, At
    <2>4. TypeOK'
      BY <2>1, <2>2, MaxConnAssumption DEF TypeOK, TunnelTypeOK, Conn
    <2>5. Rounds' /\ AtMostOne' /\ ZeroWakes' /\ ActiveWhileBound'
      BY <2>1, <2>2, ThreadsFinite
         DEF Rounds, AtMostOne, ZeroWakes, ActiveWhileBound, TypeOK, TunnelTypeOK, Conn
    <2> QED
      BY <2>3, <2>4, <2>5
  <1>2. CASE Dial \/ RetryNow \/ StopWaiting
    <2>1. UNCHANGED <<tunnelVars, role, attempt>>
          /\ loop' \in {"dialing", "retry", "ended"}
      BY <1>2 DEF Dial, RetryNow, StopWaiting
    <2>2. Agree'
      BY <1>0, <2>1, StayCounts DEF Agree
    <2> QED
      BY <2>1, <2>2
         DEF Rounds, AtMostOne, ZeroWakes, ActiveWhileBound, TypeOK, TunnelTypeOK
  <1>3. CASE DialClosed \/ DialFails \/ Disconnected \/ SessionEnds \/ Cancel
    <2>1. /\ UNCHANGED <<wgVars, active, current, open, getVars, pc, val, role>>
          /\ attempt' \in Nat /\ cancelled' \in BOOLEAN /\ over' \subseteq Conn
          /\ loop' = loop \/ loop' \in {"ended", "backoff"}
      <3>1. ASSUME NEW connected \in BOOLEAN, NEW S \in SUBSET Conn,
                   Verdict(connected, S)
            PROVE  /\ attempt' \in Nat /\ cancelled' \in BOOLEAN
                   /\ over' \subseteq Conn
                   /\ loop' \in {"ended", "backoff"}
        <4>1. attempt \in Nat /\ cancelled \in BOOLEAN /\ over \subseteq Conn
          BY DEF TypeOK, TunnelTypeOK
        <4> DEFINE a == IF connected THEN 0 ELSE attempt
        <4>2. a \in Nat
          BY <4>1
        <4>3. \/ /\ attempt' = a /\ loop' = "ended"
                 /\ cancelled' = TRUE /\ over' = Conn
              \/ /\ attempt' = a + 1 /\ loop' = "backoff"
                 /\ over' = over \cup S /\ cancelled' = cancelled
          BY <3>1 DEF Verdict
        <4> HIDE DEF a
        <4>4. cancelled' \in BOOLEAN
          BY <4>1, <4>3, Zenon
        <4>5. attempt' \in Nat
          BY <4>2, <4>3
        <4>6. over' \subseteq Conn /\ loop' \in {"ended", "backoff"}
          BY <4>1, <4>3
        <4> QED
          BY <4>4, <4>5, <4>6
      <3>2. CASE DialClosed \/ DialFails
        BY <3>1, <3>2 DEF DialClosed, DialFails, NoBinding
      <3>3. CASE Disconnected
        BY <3>1, <3>3 DEF Disconnected, NoBinding, Rounds
      <3>4. CASE SessionEnds \/ Cancel
        BY <3>4 DEF SessionEnds, Cancel, TypeOK, TunnelTypeOK
      <3> QED
        BY <1>3, <3>2, <3>3, <3>4
    <2>2. Agree'
      BY <1>0, <2>1, StayCounts DEF Agree
    <2> QED
      BY <2>1, <2>2
         DEF Rounds, AtMostOne, ZeroWakes, ActiveWhileBound, TypeOK, TunnelTypeOK
  <1> QED
    BY <1>1, <1>2, <1>3 DEF LoopStep

-----------------------------------------------------------------------------
(* Every step keeps the invariant.                                         *)
LEMMA EndpointStep == EInv /\ [Next]_vars => EInv'
PROOF
  <1> SUFFICES ASSUME EInv, [Next]_vars PROVE EInv'
    OBVIOUS
  <1>1. CASE LoopStep \/ Cancel
    BY <1>1, LoopKeeps
  <1>2. CASE BindSSHStep /\ UNCHANGED endVars
    BY <1>2, BindSSHKeeps
  <1>3. CASE \E c \in Conn : WatcherStep(c) /\ UNCHANGED endVars
    BY <1>3, WatcherKeeps
  <1>4. CASE \E c \in Conn : Lose(c) /\ UNCHANGED endVars
    BY <1>4, LoseKeeps
  <1>5. CASE \E g \in Getter : /\ GetterStep(g) \/ GetTimeout(g) \/ WaiterStep(g)
                               /\ UNCHANGED endVars
    BY <1>5, GetterKeeps
  <1>6. CASE UNCHANGED vars
    <2>1. Agree'
      BY <1>6, StayCounts
         DEF EInv, Agree, vars, tunnelVars, wgVars
    <2> QED
      BY <1>6, <2>1
         DEF EInv, vars, tunnelVars, endVars, wgVars, connVars, getVars,
             Rounds, AtMostOne, ZeroWakes, ActiveWhileBound, TypeOK, TunnelTypeOK
  <1> QED
    BY <1>1, <1>2, <1>3, <1>4, <1>5, <1>6 DEF Next, BinderStep

(* The invariant holds throughout.                                         *)
LEMMA EndpointInvariant == Spec => []EInv
PROOF
  BY EndpointInit, EndpointStep, PTL DEF Spec

(* The state of the tunnel and of the loop is well formed; in particular   *)
(* waitGroup.n never goes below zero.                                      *)
THEOREM EndpointTypeCorrect == Spec => []TypeOK
PROOF
  <1>1. EInv => TypeOK
    BY DEF EInv
  <1> QED
    BY <1>1, EndpointInvariant, PTL

(* No Done of BindSSH or of DoneAll is lost or counted twice (wg.go),      *)
(* however many watchers run beside the binder.                            *)
THEOREM CountersAlwaysAgree == Spec => []CountersAgree
PROOF
  <1>1. EInv => CountersAgree
    BY DEF EInv, Agree, Counting, Adding, CountersAgree
  <1> QED
    BY <1>1, EndpointInvariant, PTL

(* With a connection bound and no count under way, the group is at zero    *)
(* and no proxy sleeps in getSSH (tunnel.go: "mark active and unblock").   *)
THEOREM BoundAlwaysReady == Spec => []BoundMeansReady
PROOF
  <1>1. EInv => BoundMeansReady
    <2> SUFFICES ASSUME EInv, pc[Binder] = "wait", Counting = 0
                 PROVE  inner = 0 /\ \A g \in Getter : waiter[g] # "asleep"
      BY DEF BoundMeansReady, Counting
    <2>1. n = 0 /\ inner \in Int
      BY DEF EInv, AtMostOne, TypeOK, TunnelTypeOK
    <2>2. {t \in Thread : pc[t] \in {"addInner"}} = {}
      BY ThreadsFinite DEF EInv, Rounds, Thread
    <2>3. Adding = 0
      BY <2>2, FS_EmptySet DEF Adding, At
    <2> QED
      BY <2>1, <2>3 DEF EInv, Agree, ZeroWakes
  <1> QED
    BY <1>1, EndpointInvariant, PTL

(* The panic "double bind ssh" (tunnel.go:78) is never reached.            *)
THEOREM NeverDoubleBound == Spec => []NoDoubleBind
PROOF
  <1>1. EInv => NoDoubleBind
    BY DEF EInv, ActiveWhileBound, NoDoubleBind
  <1> QED
    BY <1>1, EndpointInvariant, PTL
-----------------------------------------------------------------------------
(* The server binds once, and until it is cancelled only the binder writes *)
(* the wait group: a getter is let through after a connection is bound.    *)
OnlyBinder ==
    role = "server" /\ ~cancelled =>
        /\ over = {}
        /\ loop \in {"dialing", "bound"}
        /\ loop = "dialing" => pc[Binder] = "idle"
        /\ \A c \in Conn : pc[c] \in {"off", "watch"}
        /\ n = IF pc[Binder] \in {"count", "wait", "add"} THEN 0 ELSE 1
        /\ inner = IF pc[Binder] \in {"wait", "add", "addInner"} THEN 0 ELSE 1
        /\ \A g \in Getter :
              gpc[g] = "select" =>
                  \/ g \in met
                  \/ pc[Binder] \in {"idle", "set"} /\ waiter[g] \in {"enter", "asleep"}

ServerInv == EInv /\ OnlyBinder /\ ServerGetBlocks

(* One Add, one thread, no call of getSSH.                                 *)
LEMMA ServerInit == Init => ServerInv
PROOF
  <1> SUFFICES ASSUME Init PROVE ServerInv
    OBVIOUS
  <1>1. EInv
    BY EndpointInit
  <1> QED
    BY <1>1, ThreadsFinite
       DEF ServerInv, OnlyBinder, ServerGetBlocks, GetBlocksWhileConnecting, Init,
           New, StartWith

(* The steps of the binder and of the watchers.                            *)
LEMMA ServerThreads ==
    ASSUME ServerInv, UNCHANGED endVars,
           BindSSHStep \/ \E c \in Conn : WatcherStep(c) \/ Lose(c)
    PROVE  OnlyBinder' /\ ServerGetBlocks'
PROOF
  <1> USE DEF endVars, connVars, getVars, wgVars, AfterDone, Jump
  <1>0. /\ OnlyBinder /\ ServerGetBlocks /\ TypeOK /\ AtMostOne
        /\ Binder \in Thread
    BY ThreadsFinite DEF ServerInv, EInv
  <1>1. CASE SetActive
    BY <1>0, <1>1, ThreadsFinite
       DEF SetActive, OnlyBinder, ServerGetBlocks, GetBlocksWhileConnecting, TypeOK,
           TunnelTypeOK
  <1>2. CASE Done(Binder)
    <2>1. CASE DoneLoad(Binder)
      BY <1>0, <2>1, ThreadsFinite
         DEF DoneLoad, OnlyBinder, ServerGetBlocks, GetBlocksWhileConnecting, TypeOK,
             TunnelTypeOK
    <2>2. CASE DoneSwap(Binder)
      BY <1>0, <2>2, ThreadsFinite
         DEF DoneSwap, AtMostOne, OnlyBinder, ServerGetBlocks,
             GetBlocksWhileConnecting, TypeOK, TunnelTypeOK
    <2>3. CASE DoneCount(Binder)
      BY <1>0, <2>3, ThreadsFinite
         DEF DoneCount, InnerAdd, OnlyBinder, ServerGetBlocks,
             GetBlocksWhileConnecting, TypeOK, TunnelTypeOK
    <2> QED
      BY <1>2, <2>1, <2>2, <2>3 DEF Done
  <1>3. CASE Closed
    BY <1>0, <1>3, ThreadsFinite
       DEF Closed, OnlyBinder, ServerGetBlocks, GetBlocksWhileConnecting, TypeOK,
           TunnelTypeOK
  <1>4. CASE AddSelf
    BY <1>0, <1>4, ThreadsFinite
       DEF AddSelf, OnlyBinder, ServerGetBlocks, GetBlocksWhileConnecting, TypeOK,
           TunnelTypeOK
  <1>5. CASE AddInner
    BY <1>0, <1>5, ThreadsFinite
       DEF AddInner, InnerAdd, OnlyBinder, ServerGetBlocks, GetBlocksWhileConnecting,
           TypeOK, TunnelTypeOK
  <1>6. CASE ClearActive
    BY <1>0, <1>6, ThreadsFinite
       DEF ClearActive, OnlyBinder, ServerGetBlocks, GetBlocksWhileConnecting, TypeOK,
           TunnelTypeOK
  <1>7. ASSUME NEW c \in Conn, WatcherStep(c)
        PROVE  OnlyBinder' /\ ServerGetBlocks'
    <2>1. ~(role = "server" /\ ~cancelled)
      BY <1>0, <1>7
         DEF WatcherStep, Watch, DoneAllTest, Done, DoneLoad, DoneSwap, DoneCount,
             OnlyBinder
    <2>2. UNCHANGED <<role, cancelled, getVars>>
      BY <1>7 DEF WatcherStep, Watch, DoneAllTest, Done, DoneLoad, DoneSwap, DoneCount
    <2> QED
      BY <1>0, <2>1, <2>2 DEF OnlyBinder, ServerGetBlocks, GetBlocksWhileConnecting
  <1>8. ASSUME NEW c \in Conn, Lose(c)
        PROVE  OnlyBinder' /\ ServerGetBlocks'
    BY <1>0, <1>8 DEF Lose, OnlyBinder, ServerGetBlocks, GetBlocksWhileConnecting
  <1> QED
    BY <1>1, <1>2, <1>3, <1>4, <1>5, <1>6, <1>7, <1>8 DEF BindSSHStep

(* The steps of the session.                                               *)
LEMMA ServerLoop ==
    ASSUME ServerInv, LoopStep \/ Cancel
    PROVE  OnlyBinder' /\ ServerGetBlocks'
PROOF
  <1> USE DEF endVars, connVars, getVars, wgVars, tunnelVars
  <1>0. OnlyBinder /\ ServerGetBlocks /\ TypeOK /\ Rounds
    BY DEF ServerInv, EInv
  <1>1. CASE role = "client"
    <2>1. role' = "client"
      BY <1>1 DEF LoopStep, Dial, DialClosed, DialFails, Connected, Disconnected, NoBinding,
             RetryNow, StopWaiting, SessionEnds, Cancel
    <2> QED
      BY <2>1 DEF OnlyBinder, ServerGetBlocks
  <1>2. CASE Cancel \/ SessionEnds
    <2>1. cancelled' = TRUE /\ UNCHANGED <<getVars, role>>
      BY <1>2 DEF Cancel, SessionEnds
    <2> QED
      BY <1>0, <2>1 DEF OnlyBinder, ServerGetBlocks, GetBlocksWhileConnecting
  <1>3. CASE role = "server" /\ Connected
    <2>1. current' \in Conn /\ current' \in Thread /\ Binder \in Thread
          /\ current' # Binder
      BY <1>0, <1>3, MaxConnAssumption, ThreadsFinite
         DEF Connected, Bind, TypeOK, TunnelTypeOK, Conn
    <2> QED
      BY <1>0, <1>3, <2>1, ThreadsFinite
         DEF Connected, Bind, OnlyBinder, ServerGetBlocks, GetBlocksWhileConnecting,
             TypeOK, TunnelTypeOK
  <1> QED
    BY <1>0, <1>1, <1>2, <1>3
       DEF LoopStep, Dial, DialClosed, DialFails, Disconnected, RetryNow,
           StopWaiting, TypeOK

(* The steps of getSSH.                                                    *)
LEMMA ServerGetters ==
    ASSUME ServerInv, NEW g \in Getter, UNCHANGED endVars,
           GetterStep(g) \/ GetTimeout(g) \/ WaiterStep(g)
    PROVE  OnlyBinder' /\ ServerGetBlocks'
PROOF
  <1> USE DEF endVars, connVars, getVars, wgVars, Answer
  <1>0. OnlyBinder /\ ServerGetBlocks /\ TypeOK /\ ActiveWhileBound
    BY DEF ServerInv, EInv
  <1>1. CASE GetStart(g)
    BY <1>0, <1>1
       DEF GetStart, OnlyBinder, ServerGetBlocks, GetBlocksWhileConnecting, TypeOK,
           TunnelTypeOK
  <1>2. CASE GetRead(g)
    BY <1>0, <1>2
       DEF GetRead, ActiveWhileBound, OnlyBinder, ServerGetBlocks,
           GetBlocksWhileConnecting, TypeOK, TunnelTypeOK
  <1>3. CASE GetCancelled(g) \/ GetTimeout(g)
    BY <1>0, <1>3
       DEF GetCancelled, GetTimeout, OnlyBinder, ServerGetBlocks,
           GetBlocksWhileConnecting, TypeOK, TunnelTypeOK
  <1>4. CASE GetReady(g)
    BY <1>0, <1>4
       DEF GetReady, OnlyBinder, ServerGetBlocks, GetBlocksWhileConnecting, TypeOK,
           TunnelTypeOK
  <1>5. CASE WaitEnter(g)
    BY <1>0, <1>5
       DEF WaitEnter, OnlyBinder, ServerGetBlocks, GetBlocksWhileConnecting, TypeOK,
           TunnelTypeOK
  <1>6. CASE WaitWake(g)
    BY <1>0, <1>6
       DEF WaitWake, OnlyBinder, ServerGetBlocks, GetBlocksWhileConnecting, TypeOK,
           TunnelTypeOK
  <1> QED
    BY <1>1, <1>2, <1>3, <1>4, <1>5, <1>6 DEF GetterStep, WaiterStep

(* Every step keeps the invariant of the server.                           *)
LEMMA ServerStep == ServerInv /\ [Next]_vars => ServerInv'
PROOF
  <1> SUFFICES ASSUME ServerInv, [Next]_vars PROVE ServerInv'
    OBVIOUS
  <1>1. EInv'
    BY EndpointStep DEF ServerInv
  <1>2. CASE LoopStep \/ Cancel
    BY <1>1, <1>2, ServerLoop DEF ServerInv
  <1>3. CASE /\ UNCHANGED endVars
             /\ BindSSHStep \/ \E c \in Conn : WatcherStep(c) \/ Lose(c)
    BY <1>1, <1>3, ServerThreads DEF ServerInv
  <1>4. CASE \E g \in Getter : /\ GetterStep(g) \/ GetTimeout(g) \/ WaiterStep(g)
                               /\ UNCHANGED endVars
    BY <1>1, <1>4, ServerGetters DEF ServerInv
  <1>5. CASE UNCHANGED vars
    BY <1>1, <1>5
       DEF ServerInv, vars, tunnelVars, endVars, wgVars, connVars, getVars, OnlyBinder,
           ServerGetBlocks, GetBlocksWhileConnecting
  <1> QED
    BY <1>2, <1>3, <1>4, <1>5 DEF Next, BinderStep

(* On the server getSSH blocks while connecting (tunnel.go:107): it has no *)
(* connection to give only when it is cancelled, timed out or came late.   *)
THEOREM ServerAlwaysBlocks == Spec => []ServerGetBlocks
PROOF
  <1>1. ServerInv => ServerGetBlocks
    BY DEF ServerInv
  <1> QED
    BY <1>1, ServerInit, ServerStep, PTL DEF Spec

-----------------------------------------------------------------------------
(* The wait group dies of two races only.                                  *)

(* One connection is open at most: that of the present round, and none     *)
(* after c.Wait has returned.                                              *)
OneOpen ==
    /\ open \subseteq {current}
    /\ pc[Binder] \in {"idle", "add", "addInner", "clear"} => open = {}
    /\ active \in {NoConn, current}

(* A watcher that runs has seen its context end.                           *)
WatchersOver == \A c \in Conn : pc[c] \notin {"off", "watch"} => c \in over

(* While the first connection stays, or before it, only Done of BindSSH    *)
(* has written the wait group.                                             *)
FirstStays ==
    1..current \subseteq open =>
        /\ \A c \in Conn : pc[c] \in {"off", "watch"}
        /\ pc[Binder] \in {"idle", "set", "load", "swap", "count", "wait"}
        /\ n = IF pc[Binder] \in {"count", "wait"} THEN 0 ELSE 1
        /\ inner = IF pc[Binder] = "wait" THEN 0 ELSE 1
        /\ pc[Binder] # "wait" => \A g \in Getter : waiter[g] # "woken"

RaceInv ==
    /\ EInv
    /\ OneOpen
    /\ WatchersOver
    /\ FirstStays
    /\ inner < 0 => panicked
    /\ PanicOnlyByRace

(* The rest of it, which each step has to keep.                            *)
Races ==
    /\ OneOpen
    /\ WatchersOver
    /\ FirstStays
    /\ inner < 0 => panicked
    /\ PanicOnlyByRace

(* No connection, no watcher, and one Add.                                 *)
LEMMA RaceInit == Init => RaceInv
PROOF
  <1> SUFFICES ASSUME Init PROVE RaceInv
    OBVIOUS
  <1>1. EInv
    BY EndpointInit
  <1> QED
    BY <1>1, ThreadsFinite
       DEF RaceInv, OneOpen, WatchersOver, FirstStays, PanicOnlyByRace, Init, New,
           StartWith

(* A count-down below zero comes of DoneAll, while the binder is between   *)
(* the two writes of Add.                                                  *)
LEMMA CountBelowZero ==
    ASSUME RaceInv, ~panicked, NEW t \in Thread, DoneCount(t)
    PROVE  /\ panicked' <=> inner' < 0
           /\ inner' = inner - 1
           /\ inner' < 0 => t # Binder /\ pc[Binder] = "addInner" /\ t \in over
PROOF
  <1>0. TypeOK /\ Agree /\ AtMostOne /\ Rounds /\ WatchersOver
    BY DEF RaceInv, EInv
  <1>1. inner \in Int /\ n \in Nat /\ (panicked' <=> inner' < 0) /\ inner' = inner - 1
    BY <1>0 DEF DoneCount, InnerAdd, TypeOK, TunnelTypeOK
  <1>2. inner >= 0
    BY <1>1 DEF RaceInv
  <1>3. ASSUME inner' < 0
        PROVE  t # Binder /\ pc[Binder] = "addInner" /\ t \in over
    <2>1. inner = 0
      BY <1>1, <1>2, <1>3
    <2>2. pc[t] = "count"
      BY DEF DoneCount
    <2>3. Counting \in Nat /\ Adding \in Nat
      BY StayCounts
    <2>4. Counting # 0
      <3>1. t \in {u \in Thread : pc[u] \in {"count"}}
        BY <2>2
      <3>2. IsFiniteSet({u \in Thread : pc[u] \in {"count"}})
        BY ThreadsFinite, FS_Subset
      <3> QED
        BY <3>1, <3>2, FS_EmptySet DEF Counting, At
    <2>5. Adding # 0
      BY <1>0, <1>1, <2>1, <2>3, <2>4 DEF Agree
    <2>6. {u \in Thread : pc[u] \in {"addInner"}} # {}
      BY <2>5, FS_EmptySet DEF Adding, At
    <2>7. pc[Binder] = "addInner"
      BY <1>0, <2>6 DEF Rounds, Thread
    <2>8. t # Binder /\ t \in Conn
      BY <2>2, <2>7 DEF Thread
    <2> QED
      BY <1>0, <2>2, <2>7, <2>8 DEF WatchersOver
  <1> QED
    BY <1>1, <1>3

(* The steps of the binder.                                                *)
LEMMA RaceBinder ==
    ASSUME RaceInv, ~panicked, BindSSHStep, UNCHANGED endVars
    PROVE  Races'
PROOF
  <1> USE DEF endVars, connVars, getVars, wgVars, AfterDone, Jump
  <1>0. /\ OneOpen /\ WatchersOver /\ FirstStays /\ (inner < 0 => panicked)
        /\ TypeOK /\ AtMostOne /\ ActiveWhileBound /\ Rounds
        /\ Binder \in Thread
    BY ThreadsFinite DEF RaceInv, EInv
  <1>1. CASE SetActive
    BY <1>0, <1>1, ThreadsFinite, NameAssumption
       DEF SetActive, Races, OneOpen, WatchersOver, FirstStays, PanicOnlyByRace,
           ActiveWhileBound, TypeOK, TunnelTypeOK
  <1>2. CASE DoneLoad(Binder)
    BY <1>0, <1>2, ThreadsFinite
       DEF DoneLoad, Races, OneOpen, WatchersOver, FirstStays, PanicOnlyByRace,
           TypeOK, TunnelTypeOK
  <1>3. CASE DoneSwap(Binder)
    BY <1>0, <1>3, ThreadsFinite
       DEF DoneSwap, AtMostOne, Races, OneOpen, WatchersOver, FirstStays, PanicOnlyByRace,
           TypeOK, TunnelTypeOK
  <1>4. CASE DoneCount(Binder)
    <2>1. ~panicked' /\ inner' = inner - 1 /\ ~(inner' < 0)
      BY <1>0, <1>4, CountBelowZero
    <2> QED
      BY <1>0, <1>4, <2>1, ThreadsFinite
         DEF DoneCount, InnerAdd, Races, OneOpen, WatchersOver, FirstStays,
             PanicOnlyByRace, TypeOK, TunnelTypeOK
  <1>5. CASE Closed
    BY <1>0, <1>5, ThreadsFinite
       DEF Closed, Rounds, Races, OneOpen, WatchersOver, FirstStays, PanicOnlyByRace,
           TypeOK, TunnelTypeOK, Conn
  <1>6. CASE AddSelf
    BY <1>0, <1>6, ThreadsFinite
       DEF AddSelf, Races, OneOpen, WatchersOver, FirstStays, PanicOnlyByRace,
           TypeOK, TunnelTypeOK
  <1>7. CASE AddInner
    BY <1>0, <1>7, ThreadsFinite
       DEF AddInner, InnerAdd, Races, OneOpen, WatchersOver, FirstStays, PanicOnlyByRace,
           TypeOK, TunnelTypeOK
  <1>8. CASE ClearActive
    BY <1>0, <1>8, ThreadsFinite
       DEF ClearActive, Races, OneOpen, WatchersOver, FirstStays, PanicOnlyByRace,
           TypeOK, TunnelTypeOK
  <1> QED
    BY <1>1, <1>2, <1>3, <1>4, <1>5, <1>6, <1>7, <1>8 DEF BindSSHStep, Done

(* Those of the watchers, and the loss of a connection.                    *)
LEMMA RaceWatchers ==
    ASSUME RaceInv, ~panicked, NEW c \in Conn, WatcherStep(c) \/ Lose(c),
           UNCHANGED endVars
    PROVE  Races'
PROOF
  <1> USE DEF endVars, connVars, getVars, wgVars, AfterDone, Jump
  <1>0. /\ OneOpen /\ WatchersOver /\ FirstStays /\ (inner < 0 => panicked)
        /\ TypeOK /\ Rounds /\ c \in Thread /\ c # Binder /\ Binder \in Thread
    BY ThreadsFinite DEF RaceInv, EInv
  <1>1. CASE Watch(c)
    <2>1. c \in 1..current
      BY <1>0, <1>1 DEF Watch, Rounds, Conn, TypeOK, TunnelTypeOK
    <2> QED
      BY <1>0, <1>1, <2>1, ThreadsFinite
         DEF Watch, Races, OneOpen, WatchersOver, FirstStays, PanicOnlyByRace,
             TypeOK, TunnelTypeOK
  <1>2. CASE DoneAllTest(c)
    BY <1>0, <1>2, ThreadsFinite
       DEF DoneAllTest, Races, OneOpen, WatchersOver, FirstStays, PanicOnlyByRace,
           TypeOK, TunnelTypeOK
  <1>3. CASE DoneLoad(c)
    BY <1>0, <1>3, ThreadsFinite
       DEF DoneLoad, Races, OneOpen, WatchersOver, FirstStays, PanicOnlyByRace,
           TypeOK, TunnelTypeOK
  <1>4. CASE DoneSwap(c)
    BY <1>0, <1>4, ThreadsFinite
       DEF DoneSwap, Races, OneOpen, WatchersOver, FirstStays, PanicOnlyByRace,
           TypeOK, TunnelTypeOK
  <1>5. CASE DoneCount(c)
    <2>1. /\ panicked' <=> inner' < 0
          /\ inner' = inner - 1
          /\ inner' < 0 => pc[Binder] = "addInner" /\ over # {}
      BY <1>0, <1>5, CountBelowZero
    <2> QED
      BY <1>0, <1>5, <2>1, ThreadsFinite
         DEF DoneCount, InnerAdd, Races, OneOpen, WatchersOver, FirstStays,
             PanicOnlyByRace, TypeOK, TunnelTypeOK
  <1>6. CASE Lose(c)
    BY <1>0, <1>6, ThreadsFinite
       DEF Lose, Races, OneOpen, WatchersOver, FirstStays, PanicOnlyByRace,
           TypeOK, TunnelTypeOK
  <1> QED
    BY <1>1, <1>2, <1>3, <1>4, <1>5, <1>6 DEF WatcherStep, Done

(* Those of the loop and of getSSH.                                        *)
LEMMA RaceLoop ==
    ASSUME RaceInv, ~panicked, LoopStep \/ Cancel
    PROVE  Races'
PROOF
  <1> USE DEF endVars, connVars, getVars, wgVars, tunnelVars
  <1>0. /\ OneOpen /\ WatchersOver /\ FirstStays /\ (inner < 0 => panicked)
        /\ TypeOK /\ Rounds /\ ActiveWhileBound
    BY DEF RaceInv, EInv
  <1>1. CASE Connected
    <2>1. /\ current' \in Conn /\ current' = current + 1 /\ current' \in Thread
          /\ Binder \in Thread /\ current' # Binder
      BY <1>0, <1>1, MaxConnAssumption, ThreadsFinite
         DEF Connected, Bind, TypeOK, TunnelTypeOK, Conn
    <2>2. /\ pc[Binder] = "idle" /\ open = {} /\ open' = {current'}
          /\ pc' = [pc EXCEPT ![Binder] = "set", ![current'] = "watch"]
      BY <1>0, <1>1 DEF Connected, Bind, OneOpen
    <2>3. UNCHANGED <<wgVars, active, over>> /\ active = NoConn
      BY <1>0, <1>1 DEF Connected, Bind, ActiveWhileBound
    <2>4. /\ pc'[Binder] = "set" /\ pc'[current'] = "watch"
          /\ \A c \in Conn : c # current' => pc'[c] = pc[c]
      BY <1>0, <2>1, <2>2, ThreadsFinite DEF TypeOK, TunnelTypeOK
    <2>5. OneOpen'
      BY <2>2, <2>3, <2>4 DEF OneOpen
    <2>6. WatchersOver' /\ (inner' < 0 => panicked') /\ PanicOnlyByRace'
      BY <1>0, <2>3, <2>4 DEF WatchersOver, PanicOnlyByRace
    <2>7. FirstStays'
      <3>1. CASE current = 0
        <4>1. 1..current = {}
          BY <3>1
        <4> QED
          BY <1>0, <2>2, <2>3, <2>4, <4>1 DEF FirstStays
      <3>2. CASE current # 0
        <4>1. 1 \in 1..current' /\ 1 # current'
          BY <1>0, <2>1, <3>2 DEF TypeOK, TunnelTypeOK
        <4> QED
          BY <2>2, <4>1 DEF FirstStays
      <3> QED
        BY <3>1, <3>2
    <2> QED
      BY <2>5, <2>6, <2>7 DEF Races
  <1>2. CASE (LoopStep /\ ~Connected) \/ Cancel
    <2>1. /\ UNCHANGED <<wgVars, active, current, open, pc>>
          /\ over \subseteq over'
      <3>1. CASE Cancel \/ SessionEnds
        BY <1>0, <3>1 DEF Cancel, SessionEnds, TypeOK, TunnelTypeOK
      <3>2. CASE Dial \/ RetryNow \/ StopWaiting
        BY <3>2 DEF Dial, RetryNow, StopWaiting
      <3>3. CASE DialClosed \/ DialFails \/ Disconnected
        BY <1>0, <3>3
           DEF DialClosed, DialFails, Disconnected, Verdict, NoBinding, TypeOK,
               TunnelTypeOK
      <3> QED
        BY <1>2, <3>1, <3>2, <3>3 DEF LoopStep
    <2> QED
      BY <1>0, <2>1 DEF Races, OneOpen, WatchersOver, FirstStays, PanicOnlyByRace
  <1> QED
    BY <1>1, <1>2

LEMMA RaceGetters ==
    ASSUME RaceInv, ~panicked, NEW g \in Getter, UNCHANGED endVars,
           GetterStep(g) \/ GetTimeout(g) \/ WaiterStep(g)
    PROVE  Races'
PROOF
  <1> USE DEF endVars, connVars, getVars, wgVars, Answer
  <1>0. /\ OneOpen /\ WatchersOver /\ FirstStays /\ (inner < 0 => panicked)
        /\ TypeOK /\ ZeroWakes
    BY DEF RaceInv, EInv
  <1>1. /\ UNCHANGED <<n, inner, connVars, pc, val>>
    BY DEF GetterStep, GetStart, GetRead, GetCancelled, GetReady, GetTimeout,
           WaiterStep, WaitEnter, WaitWake
  <1>2. CASE GetRead(g)
    BY <1>0, <1>1, <1>2
       DEF GetRead, Races, OneOpen, WatchersOver, FirstStays, PanicOnlyByRace, TypeOK,
           TunnelTypeOK
  <1>3. CASE GetStart(g) \/ GetCancelled(g) \/ GetReady(g) \/ GetTimeout(g)
    <2>1. UNCHANGED <<waiter, panicked>>
      BY <1>3 DEF GetStart, GetCancelled, GetReady, GetTimeout
    <2> QED
      BY <1>0, <1>1, <2>1
         DEF Races, OneOpen, WatchersOver, FirstStays, PanicOnlyByRace
  <1>4. CASE WaitEnter(g)
    BY <1>0, <1>1, <1>4
       DEF WaitEnter, Races, OneOpen, WatchersOver, FirstStays, PanicOnlyByRace, TypeOK,
           TunnelTypeOK
  <1>5. CASE WaitWake(g)
    <2>1. inner \in Int /\ ~(inner < 0) /\ waiter[g] = "woken"
      BY <1>0, <1>5 DEF WaitWake, TypeOK, TunnelTypeOK
    <2>2. CASE inner # 0
      <3>1. ~(1..current \subseteq open)
        BY <1>0, <2>1, <2>2 DEF FirstStays
      <3> QED
        BY <1>0, <1>1, <1>5, <2>1, <2>2, <3>1
           DEF WaitWake, Races, OneOpen, WatchersOver, FirstStays, PanicOnlyByRace
    <2>3. CASE inner = 0
      BY <1>0, <1>1, <1>5, <2>1, <2>3
         DEF WaitWake, ZeroWakes, Races, OneOpen, WatchersOver, FirstStays,
             PanicOnlyByRace, TypeOK, TunnelTypeOK
    <2> QED
      BY <2>2, <2>3
  <1> QED
    BY <1>2, <1>3, <1>4, <1>5 DEF GetterStep, WaiterStep

(* Every step keeps it.                                                    *)
LEMMA RaceStep == RaceInv /\ [Next]_vars => RaceInv'
PROOF
  <1> SUFFICES ASSUME RaceInv, [Next]_vars PROVE RaceInv'
    OBVIOUS
  <1>1. EInv'
    BY EndpointStep DEF RaceInv
  <1> SUFFICES Races'
    BY <1>1 DEF RaceInv, Races
  <1>2. CASE ~panicked /\ (LoopStep \/ Cancel)
    BY <1>2, RaceLoop
  <1>3. CASE ~panicked /\ BindSSHStep /\ UNCHANGED endVars
    BY <1>3, RaceBinder
  <1>4. CASE \E c \in Conn : ~panicked /\ (WatcherStep(c) \/ Lose(c)) /\ UNCHANGED endVars
    BY <1>4, RaceWatchers
  <1>5. CASE \E g \in Getter : /\ GetterStep(g) \/ GetTimeout(g) \/ WaiterStep(g)
                               /\ ~panicked /\ UNCHANGED endVars
    BY <1>5, RaceGetters
  <1>6. CASE UNCHANGED vars
    BY <1>6
       DEF RaceInv, Races, vars, tunnelVars, endVars, wgVars, connVars, getVars, OneOpen,
           WatchersOver, FirstStays, PanicOnlyByRace
  <1> QED
    BY <1>2, <1>3, <1>4, <1>5, <1>6 DEF Next, BinderStep

(* The process dies of its wait group (wg.go:15) only when a context ends  *)
(* between the two writes of Add, or when a connection was lost before a   *)
(* getter that it woke had looked again.                                   *)
THEOREM PanicAlwaysByRace == Spec => []PanicOnlyByRace
PROOF
  <1>1. RaceInv => PanicOnlyByRace
    BY DEF RaceInv
  <1> QED
    BY <1>1, RaceInit, RaceStep, PTL DEF Spec

-----------------------------------------------------------------------------
(* Until a first connection is lost.                                       *)

(* Only the binder's own Done wakes a getter then, and it is past it.      *)
DoneWhileBound ==
    1..current \subseteq open =>
        \A g \in Getter : waiter[g] = "done" => pc[Binder] = "wait"

FirstInv == RaceInv /\ DoneWhileBound /\ FirstGetBlocks

(* A first connection that has stayed stayed before as well.               *)
LEMMA StayedBefore ==
    ASSUME RaceInv, [Next]_vars, 1..current' \subseteq open'
    PROVE  1..current \subseteq open
PROOF
  <1>0. TypeOK
    BY DEF RaceInv, EInv
  <1>1. CASE Connected
    <2>1. current' = current + 1 /\ open' = open \cup {current'}
      BY <1>1 DEF Connected, Bind
    <2>2. current \in Nat
      BY <1>0 DEF TypeOK, TunnelTypeOK
    <2> QED
      BY <2>1, <2>2
  <1>2. CASE ~Connected
    <2>1. current' = current /\ open' \subseteq open
      BY <1>2
         DEF Next, BinderStep, LoopStep, Dial, DialClosed, DialFails, Disconnected, RetryNow,
             StopWaiting, SessionEnds, Cancel, Verdict, NoBinding, BindSSHStep, SetActive,
             Done, DoneLoad, DoneSwap, DoneCount, Closed, AddSelf, AddInner, ClearActive,
             WatcherStep, Watch, DoneAllTest, Lose, GetterStep, GetStart, GetRead,
             GetCancelled, GetReady, GetTimeout, WaiterStep, WaitEnter, WaitWake, vars,
             tunnelVars, connVars
    <2> QED
      BY <2>1
  <1> QED
    BY <1>1, <1>2

(* The getters: what they answer is what they found.                       *)
LEMMA FirstGetters ==
    ASSUME FirstInv, 1..current \subseteq open, NEW g \in Getter,
           GetterStep(g) \/ GetTimeout(g) \/ WaiterStep(g)
    PROVE  DoneWhileBound' /\ FirstGetBlocks'
PROOF
  <1>0. TypeOK /\ FirstStays /\ ActiveWhileBound /\ pc' = pc
    BY DEF FirstInv, RaceInv, EInv, GetterStep, GetStart, GetRead, GetCancelled, GetReady,
           GetTimeout, WaiterStep, WaitEnter, WaitWake
  <1>1. CASE GetStart(g) \/ GetRead(g) \/ GetCancelled(g) \/ GetTimeout(g)
    <2>1. \A h \in Getter : waiter'[h] = "done" => waiter[h] = "done"
      BY <1>0, <1>1
         DEF GetStart, GetRead, GetCancelled, GetTimeout, wgVars, TypeOK, TunnelTypeOK
    <2>2. ASSUME NEW h \in Getter, gpc'[h] = "returned", answer'[h] = NoConn
          PROVE  cause'[h] \in {"cancelled", "timeout"}
      <3>1. CASE h # g \/ gpc' = [gpc EXCEPT ![g] = "read"] \/ gpc' = [gpc EXCEPT ![g] = "select"]
        BY <1>0, <1>1, <2>2, <3>1
           DEF GetStart, GetRead, GetCancelled, GetTimeout, Answer, FirstInv, FirstGetBlocks,
               TypeOK, TunnelTypeOK
      <3>2. CASE /\ h = g
                 /\ \/ Answer(g, NoConn, "cancelled")
                    \/ Answer(g, NoConn, "timeout")
                    \/ active # NoConn /\ Answer(g, active, "active")
        BY <1>0, <2>2, <3>2 DEF Answer, TypeOK, TunnelTypeOK
      <3> QED
        BY <1>1, <3>1, <3>2 DEF GetStart, GetRead, GetCancelled, GetTimeout
    <2> QED
      BY <1>0, <2>1, <2>2 DEF FirstInv, DoneWhileBound, FirstGetBlocks
  <1>2. CASE GetReady(g)
    <2>1. active # NoConn
      BY <1>0, <1>2 DEF GetReady, FirstInv, DoneWhileBound, ActiveWhileBound
    <2>2. waiter' = waiter
      BY <1>2 DEF GetReady, wgVars
    <2>3. ASSUME NEW h \in Getter, gpc'[h] = "returned", answer'[h] = NoConn
          PROVE  cause'[h] \in {"cancelled", "timeout"}
      BY <1>0, <1>2, <2>1, <2>3
         DEF GetReady, Answer, FirstInv, FirstGetBlocks, TypeOK, TunnelTypeOK
    <2> QED
      BY <1>0, <2>2, <2>3 DEF FirstInv, DoneWhileBound, FirstGetBlocks
  <1>3. CASE WaiterStep(g)
    <2>1. UNCHANGED <<gpc, answer, cause, current, open>>
      BY <1>3 DEF WaiterStep, WaitEnter, WaitWake, getVars, connVars
    <2>2. ASSUME NEW h \in Getter, waiter'[h] = "done", pc[Binder] # "wait"
          PROVE  waiter[h] = "done"
      BY <1>0, <1>3, <2>2
         DEF WaiterStep, WaitEnter, WaitWake, FirstStays, TypeOK, TunnelTypeOK
    <2> QED
      BY <1>0, <2>1, <2>2 DEF FirstInv, DoneWhileBound, FirstGetBlocks
  <1> QED
    BY <1>1, <1>2, <1>3 DEF GetterStep

(* Everybody else: no getter is done that was not, and the binder leaves   *)
(* its wait when the connection is lost.                                   *)
LEMMA FirstOthers ==
    ASSUME FirstInv, 1..current \subseteq open,
           \/ LoopStep \/ Cancel \/ BindSSHStep
           \/ \E c \in Conn : WatcherStep(c) \/ Lose(c)
           \/ UNCHANGED vars
    PROVE  DoneWhileBound' /\ FirstGetBlocks'
PROOF
  <1>0. TypeOK /\ FirstStays /\ Rounds
    BY DEF FirstInv, RaceInv, EInv
  <1>1. UNCHANGED <<gpc, answer, cause>>
    BY DEF LoopStep, Dial, DialClosed, DialFails, Connected, Bind, Disconnected, RetryNow,
           StopWaiting, SessionEnds, Cancel, NoBinding, BindSSHStep, SetActive,
           Done, DoneLoad, DoneSwap, DoneCount, Closed, AddSelf, AddInner, ClearActive,
           WatcherStep, Watch, DoneAllTest, Lose, vars, tunnelVars, getVars
  <1>2. \A g \in Getter : waiter'[g] = "done" => waiter[g] = "done"
    BY DEF LoopStep, Dial, DialClosed, DialFails, Connected, Bind, Disconnected, RetryNow,
           StopWaiting, SessionEnds, Cancel, NoBinding, BindSSHStep, SetActive,
           Done, DoneLoad, DoneSwap, DoneCount, InnerAdd, Closed, AddSelf, AddInner,
           ClearActive, WatcherStep, Watch, DoneAllTest, Lose, vars, tunnelVars, wgVars
  <1>3. pc[Binder] = "wait" /\ 1..current' \subseteq open' => pc'[Binder] = "wait"
    <2> SUFFICES ASSUME pc[Binder] = "wait", 1..current' \subseteq open'
                 PROVE  pc'[Binder] = "wait"
      OBVIOUS
    <2>1. current \in Conn /\ current \in open
      BY <1>0 DEF Rounds, Conn
    <2>2. CASE LoopStep \/ Cancel
      BY <2>2
         DEF LoopStep, Dial, DialClosed, DialFails, Connected, Bind, Disconnected, RetryNow,
             StopWaiting, SessionEnds, Cancel, NoBinding, tunnelVars
    <2>3. CASE BindSSHStep
      BY <2>1, <2>3
         DEF BindSSHStep, SetActive, Done, DoneLoad, DoneSwap, DoneCount, Closed, AddSelf,
             AddInner, ClearActive
    <2>4. ASSUME NEW c \in Conn, WatcherStep(c) \/ Lose(c) PROVE pc'[Binder] = "wait"
      BY <1>0, <2>4, ThreadsFinite
         DEF WatcherStep, Watch, DoneAllTest, Done, DoneLoad, DoneSwap, DoneCount, Lose,
             Jump, TypeOK, TunnelTypeOK
    <2>5. CASE UNCHANGED vars
      BY <2>5 DEF vars, tunnelVars
    <2> QED
      BY <2>2, <2>3, <2>4, <2>5
  <1> QED
    BY <1>1, <1>2, <1>3 DEF FirstInv, DoneWhileBound, FirstGetBlocks

(* Every step keeps it.                                                    *)
LEMMA FirstStep == FirstInv /\ [Next]_vars => FirstInv'
PROOF
  <1> SUFFICES ASSUME FirstInv, [Next]_vars PROVE FirstInv'
    OBVIOUS
  <1>1. RaceInv'
    BY RaceStep DEF FirstInv
  <1>2. CASE ~(1..current' \subseteq open')
    BY <1>1, <1>2 DEF FirstInv, DoneWhileBound, FirstGetBlocks
  <1>3. CASE 1..current' \subseteq open'
    <2>1. 1..current \subseteq open
      BY <1>3, StayedBefore DEF FirstInv
    <2>2. DoneWhileBound' /\ FirstGetBlocks'
      BY <2>1, FirstGetters, FirstOthers DEF Next, BinderStep
    <2> QED
      BY <1>1, <2>2 DEF FirstInv
  <1> QED
    BY <1>2, <1>3

(* "getSSH blocks while connecting" (tunnel.go:107), until a first         *)
(* connection is lost: on the client too, for which it does not hold       *)
(* afterwards.                                                             *)
THEOREM FirstAlwaysBlocks == Spec => []FirstGetBlocks
PROOF
  <1>1. Init => FirstInv
    <2>1. ASSUME Init, NEW g \in Getter PROVE gpc[g] = "idle" /\ waiter[g] = "off"
      BY <2>1 DEF Init, New, StartWith
    <2> QED
      BY <2>1, RaceInit DEF FirstInv, DoneWhileBound, FirstGetBlocks
  <1>2. FirstInv => FirstGetBlocks
    BY DEF FirstInv
  <1> QED
    BY <1>1, <1>2, FirstStep, PTL DEF Spec

-----------------------------------------------------------------------------
(* The refinement of Link.                                                 *)

(* What the proxies see of a step that changes no more than the context.   *)
LEMMA CancelsOrStutters ==
    ASSUME TypeOK, cancelled' = TRUE \/ cancelled' = cancelled,
           UNCHANGED <<active, current, open, pc>>
    PROVE  [Link!Next]_(Link!linkVars)
PROOF
  <1>1. UNCHANGED <<active, Marked, Usable>>
    BY DEF Marked, Usable
  <1>2. CASE cancelled' = cancelled
    BY <1>1, <1>2 DEF Link!linkVars
  <1>3. CASE cancelled' = TRUE /\ ~cancelled
    BY <1>1, <1>3 DEF Link!Next, Link!Cancel
  <1>4. CASE cancelled' = TRUE /\ cancelled
    <2>1. cancelled' = cancelled
      BY <1>4, Zenon DEF TypeOK, TunnelTypeOK
    <2> QED
      BY <1>2, <2>1
  <1> QED
    BY <1>2, <1>3, <1>4

(* The loops: a connection that is dialed is not seen before it is marked. *)
LEMMA LoopLinks ==
    ASSUME RaceInv, LoopStep \/ Cancel
    PROVE  [Link!Next]_(Link!linkVars)
PROOF
  <1>0. TypeOK /\ OneOpen
    BY DEF RaceInv, EInv
  <1>1. CASE Connected
    <2>1. /\ pc[Binder] = "idle" /\ current' = current + 1
          /\ UNCHANGED <<active, cancelled>>
      BY <1>1 DEF Connected, Bind
    <2>2. pc'[Binder] = "set"
      BY <1>0, <1>1, NameAssumption, ThreadsFinite
         DEF Connected, Bind, TypeOK, TunnelTypeOK, Conn
    <2>3. Marked' = Marked /\ Usable' = Usable
      BY <1>0, <2>1, <2>2 DEF Marked, Usable, OneOpen, TypeOK, TunnelTypeOK
    <2> QED
      BY <2>1, <2>3 DEF Link!linkVars
  <1>2. CASE Dial \/ DialClosed \/ DialFails \/ Disconnected \/ RetryNow \/ StopWaiting
             \/ SessionEnds \/ Cancel
    <2>1. cancelled' = TRUE \/ cancelled' = cancelled
      BY <1>2, Zenon
         DEF Dial, DialClosed, DialFails, Disconnected, RetryNow, StopWaiting, SessionEnds,
             Cancel, Verdict, NoBinding, tunnelVars, connVars
    <2>2. UNCHANGED <<active, current, open, pc>>
      BY <1>2
         DEF Dial, DialClosed, DialFails, Disconnected, RetryNow, StopWaiting, SessionEnds,
             Cancel, NoBinding, tunnelVars, connVars
    <2> QED
      BY <1>0, <2>1, <2>2, CancelsOrStutters
  <1> QED
    BY <1>1, <1>2 DEF LoopStep

(* BindSSH: the connection it marks active is the next one, and the one    *)
(* it clears is lost.                                                      *)
LEMMA BinderLinks ==
    ASSUME RaceInv, BindSSHStep
    PROVE  [Link!Next]_(Link!linkVars)
PROOF
  <1>0. TypeOK /\ OneOpen /\ Rounds /\ ActiveWhileBound
    BY DEF RaceInv, EInv
  <1>1. /\ current \in 0..MaxConn /\ MaxConn \in Nat
        /\ pc = [t \in Thread |-> pc[t]] /\ Binder \in Thread
    BY <1>0, MaxConnAssumption, ThreadsFinite DEF TypeOK, TunnelTypeOK
  <1>2. CASE SetActive
    <2>1. pc[Binder] = "set" /\ active = NoConn /\ current \in Conn
      BY <1>0, <1>2 DEF SetActive, ActiveWhileBound, Rounds
    <2>2. active' = current /\ UNCHANGED <<current, open, cancelled>>
      BY <1>2, <2>1 DEF SetActive
    <2>3. pc'[Binder] = "load"
      BY <1>1, <1>2 DEF SetActive, Jump
    <2>4. /\ Marked = current - 1 /\ Marked' = current
          /\ Usable = {} /\ Usable' = open
      BY <2>1, <2>2, <2>3 DEF Marked, Usable
    <2>5. open \in {{}, {current}}
      BY <1>0 DEF OneOpen
    <2>6. Marked < MaxConn /\ Marked' = Marked + 1
      BY <1>1, <2>4
    <2>7. Usable' \in {Usable, Usable \cup {Marked'}}
      BY <2>4, <2>5
    <2>8. Link!Bind
      BY <2>1, <2>2, <2>4, <2>6, <2>7 DEF Link!Bind
    <2> QED
      BY <2>8 DEF Link!Next
  <1>3. CASE ClearActive
    <2>1. /\ pc[Binder] = "clear" /\ active' = NoConn
          /\ UNCHANGED <<current, open, cancelled>>
      BY <1>3 DEF ClearActive
    <2>2. pc'[Binder] = "idle"
      BY <1>1, <1>3 DEF ClearActive, Jump
    <2>3. active # NoConn /\ open = {}
      BY <1>0, <2>1 DEF ActiveWhileBound, OneOpen
    <2>4. Marked' = Marked /\ Usable = {} /\ Usable' = Usable
      BY <2>1, <2>2, <2>3 DEF Marked, Usable
    <2>5. Link!Clear
      BY <2>1, <2>3, <2>4 DEF Link!Clear
    <2> QED
      BY <2>5 DEF Link!Next
  <1>4. CASE Done(Binder) \/ Closed \/ AddSelf \/ AddInner
    <2>1. UNCHANGED <<active, current, open, cancelled>>
      BY <1>4
         DEF Done, DoneLoad, DoneSwap, DoneCount, Closed, AddSelf, AddInner, connVars
    <2>2. pc[Binder] # "set" /\ pc'[Binder] # "set"
      BY <1>1, <1>4
         DEF Done, DoneLoad, DoneSwap, DoneCount, Closed, AddSelf, AddInner, Jump,
             AfterDone
    <2> QED
      BY <2>1, <2>2 DEF Marked, Usable, Link!linkVars
  <1> QED
    BY <1>2, <1>3, <1>4 DEF BindSSHStep

(* A connection that closes before it is marked is never seen.             *)
LEMMA CloseLinks ==
    ASSUME TypeOK, NEW c \in Conn, WatcherStep(c) \/ Lose(c)
    PROVE  [Link!Next]_(Link!linkVars)
PROOF
  <1>1. open' \in {open, open \ {c}} /\ UNCHANGED <<active, current, cancelled>>
    BY DEF WatcherStep, Watch, DoneAllTest, Done, DoneLoad, DoneSwap, DoneCount, Lose,
           connVars
  <1>2. pc'[Binder] = pc[Binder]
    BY ThreadsFinite
       DEF WatcherStep, Watch, DoneAllTest, Done, DoneLoad, DoneSwap, DoneCount, Lose,
           Jump, TypeOK, TunnelTypeOK
  <1>3. Marked' = Marked
    BY <1>1, <1>2 DEF Marked
  <1>4. CASE Usable' = Usable
    BY <1>1, <1>3, <1>4 DEF Link!linkVars
  <1>5. CASE Usable' # Usable
    <2>1. c \in Usable /\ Usable' = Usable \ {c}
      BY <1>1, <1>2, <1>5 DEF Usable
    <2>2. Link!Lose(c)
      BY <1>1, <1>3, <2>1 DEF Link!Lose
    <2> QED
      BY <2>1, <2>2 DEF Link!Next
  <1> QED
    BY <1>4, <1>5

(* Every step is one of Link, or changes nothing that the proxies see.     *)
LEMMA LinkStep == RaceInv /\ [Next]_vars => [Link!Next]_(Link!linkVars)
PROOF
  <1> SUFFICES ASSUME RaceInv, [Next]_vars PROVE [Link!Next]_(Link!linkVars)
    OBVIOUS
  <1>0. TypeOK
    BY DEF RaceInv, EInv
  <1>1. CASE LoopStep \/ Cancel
    BY <1>1, LoopLinks
  <1>2. CASE BindSSHStep
    BY <1>2, BinderLinks
  <1>3. CASE \E c \in Conn : WatcherStep(c) \/ Lose(c)
    BY <1>0, <1>3, CloseLinks
  <1>4. ASSUME NEW g \in Getter, GetterStep(g) \/ GetTimeout(g) \/ WaiterStep(g)
        PROVE  [Link!Next]_(Link!linkVars)
    BY <1>4
       DEF GetterStep, GetStart, GetRead, GetCancelled, GetReady, GetTimeout, WaiterStep,
           WaitEnter, WaitWake, connVars, Marked, Usable, Link!linkVars
  <1>5. CASE UNCHANGED vars
    BY <1>5 DEF vars, tunnelVars, connVars, Marked, Usable, Link!linkVars
  <1> QED
    BY <1>1, <1>2, <1>3, <1>4, <1>5 DEF Next, BinderStep

(* What the proxies see of BindSSH (tunnel.go:72), of its callers and  *)
(* of its watchers is what Link says: numbered connections one after the   *)
(* other, none of which is cleared before it is lost or replaced before it *)
(* is cleared, for the client and the server and any number of them.       *)
THEOREM EndpointImplementsLink == Spec => LinkSpec
PROOF
  <1>1. Init => Link!Init
    <2>1. ASSUME Init PROVE pc[Binder] = "idle" /\ current = 0 /\ open = {}
      BY <2>1, ThreadsFinite DEF Init, New, StartWith
    <2>2. ASSUME Init PROVE Marked = 0 /\ Usable = {}
      BY <2>1, <2>2 DEF Marked, Usable
    <2> QED
      BY <2>2, Zenon DEF Init, New, StartWith, Link!Init
  <1> QED
    BY <1>1, RaceInit, RaceStep, LinkStep, PTL DEF Spec, LinkSpec, Link!Spec
=============================================================================
