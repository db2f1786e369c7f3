-------------------------- MODULE MCPortAllocator --------------------------
(* PortAllocator on a pool of one port and two ports outside it, with      *)
(* three identities of which two share a key.                              *)
EXTENDS PortAllocator, FiniteSets

MCIdentity ==
    { [client |-> <<"c">>,      user |-> <<"d", "u">>, app |-> <<"a">>],
      [client |-> <<"c", "d">>, user |-> <<"u">>,      app |-> <<"a">>],
      [client |-> <<"c">>,      user |-> <<"u">>,      app |-> <<"a">>] }

MCPort == 1..3

(* Addresses appear in the view only by what they stand for: the record,   *)
(* the entries that point to it and the number of sessions that hold it.   *)
(* What a record that has left the maps contains makes no difference.      *)
Cell(a) ==
    << IF \E k \in Key : names[k] = a THEN heap[a] ELSE NoAlloc,
       {k \in Key : names[k] = a},
       {p \in Port : ports[p] = a},
       Cardinality({s \in Session : handle[s] = a}) >>

MCView ==
    LET Cells == {Cell(a) : a \in Alloc \ Unreferenced}
    IN  [c \in Cells |-> Cardinality({a \in Alloc \ Unreferenced : Cell(a) = c})]
=============================================================================
