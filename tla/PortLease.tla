----------------------------- MODULE PortLease -----------------------------
(***************************************************************************)
(* What the port allocator promises, without its maps and pointers: a      *)
(* service that leases mapping ports to keys.  A key holds at most one     *)
(* port and keeps that port for as long as its lease lasts; a port is      *)
(* leased to one key at a time; a lease ends by cancellation, or by expiry *)
(* after more than Hold ticks during which it was neither renewed nor, at  *)
(* the end of them, live.                                                  *)
(***************************************************************************)
EXTENDS Integers

CONSTANTS Key, Port, Hold

VARIABLE lease      \* [Key -> set of at most one Lease]

Lease == [port : Port, live : BOOLEAN, age : 0..Hold+1]

NewLease(p, live) == [port |-> p, live |-> live, age |-> 0]

Leased(k) == lease[k] # {}

LeasedPorts == UNION {{l.port : l \in lease[k]} : k \in Key}

Change(k, L) == lease' = [lease EXCEPT ![k] = L]

Init == lease = [k \in Key |-> {}]

Grant(k, p, live) ==
    /\ ~Leased(k)
    /\ p \notin LeasedPorts
    /\ Change(k, {NewLease(p, live)})

(* A renewed lease starts its time again and is no longer live.            *)
Renew(k) ==
    /\ Leased(k)
    /\ Change(k, {NewLease(l.port, FALSE) : l \in lease[k]})

SetLive(k, live) ==
    /\ Leased(k)
    /\ Change(k, {[l EXCEPT !.live = live] : l \in lease[k]})

Cancel(k) == Leased(k) /\ Change(k, {})

Overdue(k) == \E l \in lease[k] : ~l.live /\ l.age > Hold

Expire == lease' = [k \in Key |-> IF Overdue(k) THEN {} ELSE lease[k]]

Pass ==
    lease' = [k \in Key |->
                {[l EXCEPT !.age = IF @ > Hold THEN @ ELSE @ + 1] : l \in lease[k]}]

(* The service forgets everything when it stops.                           *)
Forget == lease' = [k \in Key |-> {}]

Next ==
    \/ \E k \in Key :
          \/ \E p \in Port, live \in BOOLEAN : Grant(k, p, live)
          \/ Renew(k)
          \/ \E live \in BOOLEAN : SetLive(k, live)
          \/ Cancel(k)
    \/ Expire
    \/ Pass
    \/ Forget

Spec == Init /\ [][Next]_lease

=============================================================================
