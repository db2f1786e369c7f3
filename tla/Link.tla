-------------------------------- MODULE Link --------------------------------
(***************************************************************************)
(* What BindSSH promises to the proxies of a tunnel: connections that are  *)
(* active one after the other, under their numbers.  The active one may be *)
(* lost already when it is made active, and stays active for a while after *)
(* it is lost; the next one waits for that.  The context of the proxies    *)
(* ends once, and a connection may still become active after it has.       *)
(*                                                                         *)
(* Module Endpoint implements it; a UDP remote (module Udp) is built on    *)
(* it.                                                                     *)
(***************************************************************************)
EXTENDS Naturals

CONSTANTS MaxConn, NoConn

VARIABLES
    active,     \* the connection of the tunnel, or NoConn
    made,       \* how many were made active
    up,         \* the connections that are open
    cancelled   \* the context of the proxies is done

linkVars == <<active, made, up, cancelled>>

Init ==
    /\ active = NoConn /\ made = 0
    /\ up = {}
    /\ cancelled = FALSE

(* BindSSH makes the next connection active.                               *)
Bind ==
    /\ active = NoConn /\ made < MaxConn
    /\ made' = made + 1
    /\ active' = made'
    /\ up' \in {up, up \cup {made'}}
    /\ UNCHANGED cancelled

(* A connection is lost, or closed because its context is done; BindSSH    *)
(* sees it later.                                                          *)
Lose(c) ==
    /\ c \in up
    /\ up' = up \ {c}
    /\ UNCHANGED <<active, made, cancelled>>

(* BindSSH has seen that the active connection is lost.                    *)
Clear ==
    /\ active # NoConn /\ active \notin up
    /\ active' = NoConn
    /\ UNCHANGED <<made, up, cancelled>>

Cancel ==
    /\ ~cancelled
    /\ cancelled' = TRUE
    /\ UNCHANGED <<active, made, up>>

Next == Bind \/ Clear \/ Cancel \/ \E c \in up : Lose(c)

Spec == Init /\ [][Next]_linkVars
=============================================================================
