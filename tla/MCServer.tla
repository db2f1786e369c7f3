----------------------------- MODULE MCServer ------------------------------
(* Server with two identities and a pool of two ports, of which sessions   *)
(* ask for one; and with one identity, a pool of one port, and clients     *)
(* that send a forward remote or two reverse ones, the first without a     *)
(* mapping port that Atoi reads.                                           *)
EXTENDS Server, FiniteSets, TLC

MCIdentity ==
    { [client |-> <<"c">>, user |-> <<"u">>, app |-> <<"a">>],
      [client |-> <<"c">>, user |-> <<"u">>, app |-> <<"b">>] }

OneIdentity == { [client |-> <<"c">>, user |-> <<"u">>, app |-> <<"a">>] }

MCPort == 1..2

ZeroAndOne == 0..1

Rev(cp, mp) == [reverse |-> TRUE, clientPort |-> cp, mappingPort |-> mp]

Fwd(cp) == [reverse |-> FALSE, clientPort |-> cp, mappingPort |-> 1]

OneRemoteLists == { <<Rev(80, 1)>> }

MixedRemoteLists == { <<Fwd(80)>>, <<Rev(80, 0), Rev(80, 1)>> }

(* States that differ only in which address holds which record, or in      *)
(* which session plays which part, are one state of the view: addresses    *)
(* and sessions appear as bags of what they stand for.  Of a record that   *)
(* has left the maps a session still reads all but the age; a record no    *)
(* pointer reaches does not appear.                                        *)
BagOf(T(_), S) ==
    LET P == {<<x, T(x)>> : x \in S}
    IN  [t \in {p[2] : p \in P} |-> Cardinality({p \in P : p[2] = t})]

Part(s) ==
    <<pc[s], request[s], at[s], linked[s], {p \in Port : bound[p] = s}>>

Known(a) == \E k \in Key : names[k] = a

Cell(a) ==
    << IF Known(a) THEN heap[a] ELSE [heap[a] EXCEPT !.age = 0],
       {k \in Key : names[k] = a},
       {p \in Port : ports[p] = a},
       BagOf(Part, {s \in Session : handle[s] = a}) >>

MCView ==
    << BagOf(Cell, Alloc \ Unreferenced),
       BagOf(Part, {s \in Session : handle[s] = NoAlloc}),
       {p \in Port : bound[p] = Leaked} >>

(* The same with the history variable, for the property about it.          *)
CellHistory(a) == <<Cell(a), quiet[a]>>

MCViewHistory ==
    << BagOf(CellHistory, Alloc \ Unreferenced),
       BagOf(Part, {s \in Session : handle[s] = NoAlloc}),
       {p \in Port : bound[p] = Leaked} >>

(* For liveness sessions keep their names, which the property and its      *)
(* fairness mention; addresses do not, and differ in who points to them.   *)
(* Of a record that has left the maps no session reads the status when it  *)
(* is through with its list, and where it was in the list does not matter  *)
(* then.                                                                   *)
Applying(s) == pc[s] \in {"apply", "check"}

NamedCell(a) ==
    << IF Known(a) THEN heap[a]
       ELSE [heap[a] EXCEPT !.age = 0,
                 !.status = IF \E s \in Session : handle[s] = a /\ Applying(s)
                            THEN @ ELSE Freed],
       {k \in Key : names[k] = a},
       {p \in Port : ports[p] = a},
       {s \in Session : handle[s] = a} >>

MCSessionView ==
    << {NamedCell(a) : a \in Alloc \ Unreferenced},
       pc, request, [s \in Session |-> IF pc[s] = "serve" THEN 1 ELSE at[s]],
       linked, bound >>
=============================================================================
