------------------------------- MODULE Tunnel -------------------------------
(***************************************************************************)
(* The hand-over of SSH connections to the proxies of a tunnel:            *)
(* share/tunnel/tunnel.go (BindSSH, getSSH) and share/tunnel/wg.go, at the *)
(* grain of the atomic operations of wg.go.                                *)
(*                                                                         *)
(* The binder is the goroutine that calls BindSSH, for one connection      *)
(* after the other; module Endpoint says when it does and when contexts    *)
(* end.  Each call of BindSSH starts a watcher.  A getter is one call of   *)
(* getSSH by a proxy, with the goroutine that activatingConnWait starts    *)
(* for it.  sync.WaitGroup is modelled by its counter, its sleeping        *)
(* waiters and the misuse it panics on.                                    *)
(***************************************************************************)
EXTENDS Integers, FiniteSets

CONSTANTS
    MaxConn,        \* connections the binder binds, at most
    Getter,
    NoConn,
    Binder

Conn == 1..MaxConn

Thread == {Binder} \cup Conn      \* a watcher is named by its connection

ASSUME MaxConnAssumption == MaxConn \in Nat \ {0}
ASSUME NameAssumption == NoConn \notin Conn /\ Binder \notin Conn

VARIABLES
    n,          \* waitGroup.n
    inner,      \* the counter of waitGroup.inner
    panicked,   \* sync.WaitGroup or BindSSH has panicked: the process is gone
    active,     \* Tunnel.activeConn
    current,    \* the connection of the binder's present or last round
    open,       \* the connections that are open
    cancelled,  \* the context of the proxies is done
    over,       \* connections whose context is done
    pc,         \* [Thread -> its next step]
    val,        \* [Thread -> the n that Done has loaded]
    gpc,        \* [Getter -> its next step]
    waiter,     \* [Getter -> its goroutine in inner.Wait]
    answer,     \* [Getter -> what getSSH returned]
    cause,      \* history: [Getter -> the branch of getSSH that returned]
    met         \* history: getters during whose wait a connection was bound

wgVars == <<n, inner, panicked, waiter>>
connVars == <<active, current, open, cancelled, over>>
getVars == <<gpc, answer, cause, met>>
tunnelVars == <<wgVars, connVars, getVars, pc, val>>

StartWith(k) ==
    /\ n = k /\ inner = k
    /\ panicked = FALSE
    /\ active = NoConn /\ current = 0
    /\ open = {} /\ over = {}
    /\ cancelled = FALSE
    /\ pc = [t \in Thread |-> IF t = Binder THEN "idle" ELSE "off"]
    /\ val = [t \in Thread |-> 0]
    /\ gpc = [g \in Getter |-> "idle"]
    /\ waiter = [g \in Getter |-> "off"]
    /\ answer = [g \in Getter |-> NoConn]
    /\ cause = [g \in Getter |-> "none"]
    /\ met = {}

(* Mutant: New does not call Add.                                          *)
New_NoAdd == StartWith(0)

(* activatingConn.Add(1): proxies wait for the first connection.           *)
New == StartWith(1)

Jump(t, step) == pc' = [pc EXCEPT ![t] = step]

-----------------------------------------------------------------------------
(* sync.WaitGroup: Add(d), with the waiters it wakes at zero.              *)
InnerAdd(d) ==
    /\ inner' = inner + d
    /\ panicked' = (inner + d < 0)
    /\ waiter' = [g \in Getter |-> IF inner + d = 0 /\ waiter[g] = "asleep"
                                   THEN "woken" ELSE waiter[g]]

(* waitGroup.Done: load n, swap it for n - 1, count down.  It gives up     *)
(* when n is not positive or the swap fails.                               *)
AfterDone(t) == IF t = Binder THEN "wait" ELSE "test"

(* Mutant: n > 0 is not tested.                                            *)
DoneLoad_NoTest(t) ==
    /\ pc[t] = "load"
    /\ Jump(t, "swap")
    /\ val' = [val EXCEPT ![t] = n]
    /\ UNCHANGED <<wgVars, connVars, getVars>>

DoneLoad(t) ==
    /\ pc[t] = "load"
    /\ Jump(t, IF n > 0 THEN "swap" ELSE AfterDone(t))
    /\ val' = [val EXCEPT ![t] = n]
    /\ UNCHANGED <<wgVars, connVars, getVars>>

(* Mutant: a store in place of the compare-and-swap.                       *)
DoneSwap_Store(t) ==
    /\ pc[t] = "swap"
    /\ n' = val[t] - 1
    /\ Jump(t, "count")
    /\ UNCHANGED <<inner, panicked, waiter, connVars, getVars, val>>

DoneSwap(t) ==
    /\ pc[t] = "swap"
    /\ IF n = val[t]
       THEN n' = n - 1 /\ Jump(t, "count")
       ELSE n' = n /\ Jump(t, AfterDone(t))
    /\ UNCHANGED <<inner, panicked, waiter, connVars, getVars, val>>

DoneCount(t) ==
    /\ pc[t] = "count"
    /\ InnerAdd(-1)
    /\ Jump(t, AfterDone(t))
    /\ UNCHANGED <<n, connVars, getVars, val>>

Done(t) == DoneLoad(t) \/ DoneSwap(t) \/ DoneCount(t)

(* waitGroup.Add(1): n first, the counter after it.                        *)
AddSelf ==
    /\ pc[Binder] = "add"
    /\ n' = n + 1
    /\ Jump(Binder, "addInner")
    /\ UNCHANGED <<inner, panicked, waiter, connVars, getVars, val>>

AddInner ==
    /\ pc[Binder] = "addInner"
    /\ InnerAdd(1)
    /\ Jump(Binder, "clear")
    /\ UNCHANGED <<n, connVars, getVars, val>>

-----------------------------------------------------------------------------
(* BindSSH.                                                                *)

(* BindSSH is called, and starts its watcher.                              *)
Bind ==
    /\ pc[Binder] = "idle"
    /\ current < MaxConn
    /\ current' = current + 1
    /\ open' = open \cup {current'}
    /\ pc' = [pc EXCEPT ![Binder] = "set", ![current'] = "watch"]
    /\ UNCHANGED <<wgVars, active, cancelled, over, getVars, val>>

(* Mutant: active is marked, and nothing unblocked.                        *)
SetActive_NoUnblock ==
    /\ pc[Binder] = "set"
    /\ active' = current
    /\ met' = met \cup {g \in Getter : gpc[g] = "select"}
    /\ Jump(Binder, "wait")
    /\ UNCHANGED <<n, inner, panicked, waiter, current, open, cancelled, over,
                   gpc, answer, cause, val>>

(* Mutant: the group is unblocked, and nothing marked.                     *)
SetActive_NoMark ==
    /\ pc[Binder] = "set"
    /\ met' = met \cup {g \in Getter : gpc[g] = "select"}
    /\ Jump(Binder, "load")
    /\ UNCHANGED <<wgVars, connVars, gpc, answer, cause, val>>

(* "mark active and unblock"; the panic "double bind ssh".                 *)
SetActive ==
    /\ pc[Binder] = "set"
    /\ IF active = NoConn
       THEN active' = current /\ UNCHANGED panicked
       ELSE panicked' = TRUE /\ UNCHANGED active
    /\ met' = met \cup {g \in Getter : gpc[g] = "select"}
    /\ Jump(Binder, "load")
    /\ UNCHANGED <<n, inner, waiter, current, open, cancelled, over,
                   gpc, answer, cause, val>>

(* Mutant: BindSSH does not wait for the end of the connection.            *)
Closed_NoWait ==
    /\ pc[Binder] = "wait"
    /\ Jump(Binder, "add")
    /\ UNCHANGED <<wgVars, connVars, getVars, val>>

(* c.Wait returns.                                                         *)
Closed ==
    /\ pc[Binder] = "wait"
    /\ current \notin open
    /\ Jump(Binder, "add")
    /\ UNCHANGED <<wgVars, connVars, getVars, val>>

(* Mutant: the lost connection stays active.                               *)
ClearActive_Keeps ==
    /\ pc[Binder] = "clear"
    /\ Jump(Binder, "idle")
    /\ UNCHANGED <<wgVars, connVars, getVars, val>>

(* BindSSH returns.                                                        *)
ClearActive ==
    /\ pc[Binder] = "clear"
    /\ active' = NoConn
    /\ Jump(Binder, "idle")
    /\ UNCHANGED <<wgVars, current, open, cancelled, over, getVars, val>>

(* Mutant: the watcher does not close the connection.                      *)
Watch_NoClose(c) ==
    /\ pc[c] = "watch"
    /\ c \in over
    /\ Jump(c, "test")
    /\ UNCHANGED <<wgVars, connVars, getVars, val>>

(* The watcher: <-ctx.Done, close the connection, DoneAll.                 *)
Watch(c) ==
    /\ pc[c] = "watch"
    /\ c \in over
    /\ open' = open \ {c}
    /\ Jump(c, "test")
    /\ UNCHANGED <<wgVars, active, current, cancelled, over, getVars, val>>

DoneAllTest(c) ==
    /\ pc[c] = "test"
    /\ Jump(c, IF n > 0 THEN "load" ELSE "end")
    /\ UNCHANGED <<wgVars, connVars, getVars, val>>

BindSSHStep ==
    \/ SetActive \/ Done(Binder) \/ Closed
    \/ AddSelf \/ AddInner \/ ClearActive

WatcherStep(c) == Watch(c) \/ DoneAllTest(c) \/ Done(c)

-----------------------------------------------------------------------------
(* getSSH.                                                                 *)
Answer(g, c, why) ==
    /\ gpc' = [gpc EXCEPT ![g] = "returned"]
    /\ answer' = [answer EXCEPT ![g] = c]
    /\ cause' = [cause EXCEPT ![g] = why]
    /\ UNCHANGED met

GetStart(g) ==
    /\ gpc[g] = "idle"
    /\ IF cancelled
       THEN Answer(g, NoConn, "cancelled")
       ELSE gpc' = [gpc EXCEPT ![g] = "read"] /\ UNCHANGED <<answer, cause, met>>
    /\ UNCHANGED <<wgVars, connVars, pc, val>>

GetRead(g) ==
    /\ gpc[g] = "read"
    /\ IF active # NoConn
       THEN Answer(g, active, "active") /\ UNCHANGED waiter
       ELSE /\ gpc' = [gpc EXCEPT ![g] = "select"]
            /\ waiter' = [waiter EXCEPT ![g] = "enter"]
            /\ UNCHANGED <<answer, cause, met>>
    /\ UNCHANGED <<n, inner, panicked, connVars, pc, val>>

GetCancelled(g) ==
    /\ gpc[g] = "select" /\ cancelled
    /\ Answer(g, NoConn, "cancelled")
    /\ UNCHANGED <<wgVars, connVars, pc, val>>

(* SSH_WAIT.                                                               *)
GetTimeout(g) ==
    /\ gpc[g] = "select"
    /\ Answer(g, NoConn, "timeout")
    /\ UNCHANGED <<wgVars, connVars, pc, val>>

GetReady(g) ==
    /\ gpc[g] = "select" /\ waiter[g] = "done"
    /\ Answer(g, active, "ready")
    /\ UNCHANGED <<wgVars, connVars, pc, val>>

(* inner.Wait: return at zero, or sleep.                                   *)
WaitEnter(g) ==
    /\ waiter[g] = "enter"
    /\ waiter' = [waiter EXCEPT ![g] = IF inner = 0 THEN "done" ELSE "asleep"]
    /\ UNCHANGED <<n, inner, panicked, connVars, getVars, pc, val>>

(* A woken waiter finds the group reused before it has returned, and       *)
(* panics, or returns.                                                     *)
WaitWake(g) ==
    /\ waiter[g] = "woken"
    /\ IF inner # 0 \/ \E h \in Getter : waiter[h] = "asleep"
       THEN panicked' = TRUE /\ UNCHANGED waiter
       ELSE waiter' = [waiter EXCEPT ![g] = "done"] /\ UNCHANGED panicked
    /\ UNCHANGED <<n, inner, connVars, getVars, pc, val>>

GetterStep(g) ==
    GetStart(g) \/ GetRead(g) \/ GetCancelled(g) \/ GetReady(g)

WaiterStep(g) == WaitEnter(g) \/ WaitWake(g)

-----------------------------------------------------------------------------
(* The peer, the network or the keepalive loop closes a connection.        *)
Lose(c) ==
    /\ c \in open
    /\ open' = open \ {c}
    /\ UNCHANGED <<wgVars, active, current, cancelled, over, getVars, pc, val>>

-----------------------------------------------------------------------------
At(steps) == Cardinality({t \in Thread : pc[t] \in steps})

(* The variables are well formed.                                          *)
TunnelTypeOK ==
    /\ n \in Nat /\ inner \in Int
    /\ panicked \in BOOLEAN /\ cancelled \in BOOLEAN
    /\ active \in Conn \cup {NoConn} /\ current \in 0..MaxConn
    /\ open \subseteq Conn /\ over \subseteq Conn
    /\ pc \in [Thread -> {"idle", "set", "load", "swap", "count", "wait", "add",
                          "addInner", "clear", "off", "watch", "test", "end"}]
    /\ val \in [Thread -> Nat]
    /\ gpc \in [Getter -> {"idle", "read", "select", "returned"}]
    /\ waiter \in [Getter -> {"off", "enter", "asleep", "woken", "done"}]
    /\ answer \in [Getter -> Conn \cup {NoConn}]
    /\ met \subseteq Getter
    /\ cause \in [Getter -> {"none", "cancelled", "active", "timeout", "ready"}]

(* The two counters of waitGroup, which are written one after the other,   *)
(* differ only by the operations under way, whatever Add, Done and DoneAll *)
(* run at once: no Done is lost and none is counted twice.                 *)
CountersAgree ==
    inner + At({"addInner"}) = n + At({"count"})

(* While nothing is under way and a connection is bound, the group is at   *)
(* zero: no getter is left asleep beside a connection it could have.       *)
BoundMeansReady ==
    pc[Binder] = "wait" /\ active # NoConn /\ At({"count"}) = 0 =>
        inner = 0 /\ \A g \in Getter : waiter[g] # "asleep"

(* The panic "double bind ssh" is never reached.                           *)
NoDoubleBind ==
    pc[Binder] = "set" => active = NoConn
=============================================================================
