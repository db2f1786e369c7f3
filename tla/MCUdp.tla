-------------------------------- MODULE MCUdp -------------------------------
(* Udp with two sources, of which one has a reader at a time, and two      *)
(* connections one after the other.                                        *)
EXTENDS Udp

(* Answers on a channel that has ended, that is not cached and that no     *)
(* loop holds are never read, and no step depends on the source of an      *)
(* answer: states that differ only in them are one state of the view.      *)
Unread(c) == Ended(c) /\ outbound # c /\ \A l \in Loop : using[l] # c

MCView ==
    << up, shut, there, traffic, listenerVars, handlerVars,
       [c \in Conn |-> IF Unread(c) THEN 0 ELSE Len(back[c])] >>
=============================================================================
