---------------------------- MODULE ForwardProofs ---------------------------
(***************************************************************************)
(* Proofs about a forwarded connection, for every length of the request    *)
(* and of the answer, every window, and every number of connections and    *)
(* calls.                                                                  *)
(***************************************************************************)
EXTENDS Forward, TLAPS

-----------------------------------------------------------------------------
(* The inductive invariant.  Its parts speak of a channel whose connection *)
(* is not lost: for the others nothing is promised.                        *)

(* What a side sends, and what it is sent.                                 *)
Mine(x) == IF x = "near" THEN "out" ELSE "in"
Theirs(x) == IF x = "near" THEN "in" ELSE "out"

(* The pipe of a side has been started.                                    *)
Piped(x) ==
    IF x = "near" THEN npc = "pipe" \/ (npc = "returned" /\ hpc \in {"dial", "pipe", "returned"})
                  ELSE hpc = "pipe" \/ "far" \in shut

(* The first copy of its pipe has ended.                                   *)
OneEnded(x) == Piped(x) /\ \E d \in Dir : <<x, d>> \notin copying

(* pipeRemote opens a channel before the far handler has it, and returns   *)
(* without a pipe only if there is no handler.                             *)
StepsAgree ==
    /\ npc \in {"none", "get", "open"} => hpc = "none"
    /\ npc = "pipe" => hpc \in {"dial", "pipe", "returned"}
    /\ npc = "returned" => hpc # "offered"
    /\ "far" \in fin => Piped("far")
    /\ "far" \in shut => hpc \in {"pipe", "returned"}

(* A pipe closes its channel and its socket when its first copy ends, and  *)
(* nobody else closes the socket, unless there is no pipe.                 *)
ClosedByPipe ==
    \A x \in Side :
        /\ OneEnded(x) => x \in closing /\ (x \in shut \/ (stdio /\ x = "near"))
        /\ x \in shut =>
              \/ OneEnded(x)
              \/ x = "near" /\ npc = "returned" /\ hpc \in {"none", "rejected"}
        /\ x \in seen => Other(x) \in closing

(* Why a side closes the channel of its own accord: its user or target has *)
(* ended and everything from there is on the channel; it has gone and      *)
(* something for it is in its socket, or in the copy's hands; or there was *)
(* no target.                                                              *)
Reason(x) ==
    \/ x \in fin /\ passed[Mine(x)][1] = passed[Mine(x)][3]
    \/ x \in gone /\ passed[Theirs(x)][5] > passed[Theirs(x)][6]
    \/ /\ x \in gone /\ Piped(x) /\ <<x, Theirs(x)>> \notin copying
       /\ passed[Theirs(x)][4] > passed[Theirs(x)][5]
    \/ x = "far" /\ hpc = "returned" /\ "far" \notin shut

ClosedForReason == closing # {} => \E x \in Side : Reason(x)

(* Why a side has closed its socket: its user or target has ended, or      *)
(* something from there cannot be sent, or all that came on the channel    *)
(* has been written (and if the socket was reset, then because something   *)
(* was in it that will not be read).                                       *)
SocketClosedForReason ==
    \A x \in Side :
        x \in shut /\ Piped(x) =>
            \/ x \in fin
            \/ <<x, Mine(x)>> \notin copying /\ passed[Mine(x)][2] > passed[Mine(x)][3]
            \/ /\ x \in seen /\ <<x, Theirs(x)>> \notin copying
               /\ passed[Theirs(x)][3] = passed[Theirs(x)][4]
               /\ \/ passed[Theirs(x)][4] = passed[Theirs(x)][5]
                  \/ passed[Mine(x)][1] > passed[Mine(x)][2]

FInv ==
    /\ TypeOK
    /\ npc = "none" => calls = 0
    /\ ~lost => StepsAgree /\ ClosedByPipe /\ ClosedForReason /\ SocketClosedForReason

-----------------------------------------------------------------------------
(* The names of the sides, directions and points.                          *)
LEMMA Names ==
    /\ Side = {"near", "far"} /\ Dir = {"out", "in"}
    /\ 1 \in Point /\ 2 \in Point /\ 3 \in Point
    /\ 4 \in Point /\ 5 \in Point /\ 6 \in Point
    /\ \A i \in Point : i \in {1, 2, 3, 4, 5, 6}
    /\ \A x \in Side : /\ Mine(x) \in Dir /\ Theirs(x) \in Dir
                       /\ Mine(x) # Theirs(x)
                       /\ \A d \in Dir : d = Mine(x) \/ d = Theirs(x)
                       /\ Other(x) \in Side /\ Other(x) # x
                       /\ Mine(Other(x)) = Theirs(x) /\ Theirs(Other(x)) = Mine(x)
                       /\ Back(Mine(x)) = Theirs(x) /\ Back(Theirs(x)) = Mine(x)
                       /\ From(x, Mine(x)) = 1 /\ From(x, Theirs(x)) = 3
                       /\ \A d \in Dir : /\ Source(d) = x <=> d = Mine(x)
                                         /\ Sink(d) = x <=> d = Theirs(x)
    /\ \A d \in Dir : Source(d) \in Side /\ Sink(d) \in Side
PROOF
  BY DEF Side, Dir, Point, Mine, Theirs, Other, Back, From, Source, Sink

(* The counts of a direction do not grow along the way.                    *)
Chain(p) ==
    /\ \A i \in Point : p[i] \in Nat
    /\ p[1] >= p[2] /\ p[2] >= p[3] /\ p[3] >= p[4] /\ p[4] >= p[5] /\ p[5] >= p[6]

(* The types say so,                                                       *)
LEMMA ChainOfType ==
    ASSUME PipeTypeOK, NEW d \in Dir
    PROVE  Chain(passed[d]) /\ passed[d][1] <= Chunks[d]
PROOF
  <1>1. \A i \in 1..5 : passed[d][i] >= passed[d][i+1]
    BY DEF PipeTypeOK
  <1>2. /\ passed[d][1] >= passed[d][1+1] /\ passed[d][2] >= passed[d][2+1]
        /\ passed[d][3] >= passed[d][3+1] /\ passed[d][4] >= passed[d][4+1]
        /\ passed[d][5] >= passed[d][5+1]
    BY <1>1
  <1>3. \A i \in Point : passed[d][i] \in Nat
    BY DEF PipeTypeOK
  <1> QED
    BY <1>2, <1>3 DEF Chain, PipeTypeOK

(* and are established by it.                                              *)
LEMMA TypeOfChain ==
    ASSUME NEW p, p \in [Dir -> [Point -> Nat]],
           \A d \in Dir : Chain(p[d])
    PROVE  \A d \in Dir, i \in 1..5 : p[d][i] >= p[d][i+1]
PROOF
  <1> SUFFICES ASSUME NEW d \in Dir, NEW i \in 1..5 PROVE p[d][i] >= p[d][i+1]
    OBVIOUS
  <1>1. i = 1 \/ i = 2 \/ i = 3 \/ i = 4 \/ i = 5
    OBVIOUS
  <1> QED
    BY <1>1 DEF Chain

(* One more chunk has come past point i.                                   *)
LEMMA PassValues ==
    ASSUME PipeTypeOK, NEW d \in Dir, NEW i \in Point, Pass(d, i)
    PROVE  /\ passed' \in [Dir -> [Point -> Nat]]
           /\ passed'[d][i] = passed[d][i] + 1
           /\ \A e \in Dir, j \in Point :
                 e # d \/ j # i => passed'[e][j] = passed[e][j]
PROOF
  BY DEF PipeTypeOK, Pass

(* The property of the end of a connection is in the invariant.            *)
LEMMA WholeOfInv == FInv => WholeUnlessCrossed
PROOF
  <1> SUFFICES ASSUME FInv, NEW d \in Dir, Over(d), Source(d) \in fin, ~lost,
                      Sink(d) \notin fin,
                      ~(passed[Back(d)][6] < passed[Back(d)][1]),
                      passed[d][6] < passed[d][1]
               PROVE  FALSE
    BY DEF WholeUnlessCrossed
  <1> DEFINE x == Sink(d)
             y == Source(d)
  <1>1. /\ x \in Side /\ y \in Side /\ y = Other(x) /\ x = Other(y)
        /\ d = Theirs(x) /\ d = Mine(y) /\ Back(d) = Mine(x) /\ Back(d) = Theirs(y)
        /\ Mine(x) \in Dir /\ \A z \in Side : z = x \/ z = y
    BY Names DEF Source, Sink, Mine, Theirs, Other, Back, Side, Dir
  <1>2. /\ StepsAgree /\ ClosedByPipe /\ ClosedForReason /\ SocketClosedForReason
        /\ PipeTypeOK
    BY DEF FInv, TypeOK
  <1>3. /\ Chain(passed[d]) /\ Chain(passed[Mine(x)])
    BY <1>1, <1>2, ChainOfType
  <1>4. /\ passed[Mine(x)][1] = passed[Mine(x)][2] /\ passed[Mine(x)][2] = passed[Mine(x)][3]
        /\ passed[Mine(x)][4] = passed[Mine(x)][5] /\ passed[Mine(x)][5] = passed[Mine(x)][6]
    BY <1>1, <1>3, Names DEF Chain
  <1>5. x \in shut /\ passed[d][5] = passed[d][6]
    BY DEF Over
  <1>6. Piped(x)
    <2>1. CASE x = "far"
      BY <1>5, <2>1 DEF Piped
    <2>2. CASE x = "near"
      <3>1. y = "far"
        BY <1>1, <2>2 DEF Other
      <3>2. hpc = "pipe" \/ hpc = "returned"
        BY <1>2, <3>1 DEF StepsAgree, Piped
      <3> QED
        BY <1>1, <1>2, <1>5, <2>2, <3>2 DEF ClosedByPipe, OneEnded
    <2> QED
      BY <1>1, <2>1, <2>2 DEF Side
  <1>7. /\ x \in seen
        /\ passed[d][3] = passed[d][4] /\ passed[d][4] = passed[d][5]
    BY <1>1, <1>2, <1>3, <1>4, <1>5, <1>6, Names DEF SocketClosedForReason, Chain
  <1>8. closing # {}
    BY <1>1, <1>2, <1>7 DEF ClosedByPipe
  <1>9. PICK z \in Side : Reason(z)
    BY <1>2, <1>8 DEF ClosedForReason
  <1>10. z = y
    <2>1. CASE z = x
      <3>1. x = "far" /\ hpc = "returned" /\ "far" \notin shut
        BY <1>2, <1>9, <2>1 DEF Reason, TypeOK, PipeTypeOK
      <3> QED
        BY <1>5, <3>1
    <2> QED
      BY <1>1, <2>1
  <1>11. passed[d][1] = passed[d][3]
    <2>1. ~(z = "far" /\ hpc = "returned" /\ "far" \notin shut)
      BY <1>2, <1>10 DEF StepsAgree, Piped
    <2> QED
      BY <1>1, <1>4, <1>9, <1>10, <2>1, <1>3, Names DEF Reason, Chain
  <1> QED
    BY <1>3, <1>5, <1>7, <1>11, Names DEF Chain
-----------------------------------------------------------------------------
(* Nothing has been sent, and nobody is there yet.                         *)
LEMMA ForwardInit == Init => FInv
PROOF
  <1> SUFFICES ASSUME Init PROVE FInv
    OBVIOUS
  <1> USE DEF Init, PipeInit
  <1>1. PipeTypeOK
    <2>1. passed \in [Dir -> [Point -> Nat]]
      BY DEF Nothing
    <2>2. \A d \in Dir : Chain(passed[d]) /\ passed[d][1] <= Chunks[d]
      BY Names, ChunksAssumption DEF Chain, Nothing
    <2>3. \A d \in Dir, i \in 1..5 : passed[d][i] >= passed[d][i+1]
      BY <2>1, <2>2, TypeOfChain
    <2>4. stdio \in BOOLEAN /\ lost \in BOOLEAN
      OBVIOUS
    <2> QED
      BY <2>1, <2>2, <2>3, <2>4 DEF PipeTypeOK
  <1>2. TypeOK
    <2>1. /\ loop \in {"call", "accept"} /\ npc \in {"get", "none"}
          /\ calls \in {0, 1}
      OBVIOUS
    <2>2. calls \in 0..MaxCalls /\ made \in 0..MaxConn
      BY <2>1, MaxAssumption
    <2>3. link \in BOOLEAN /\ cancelled \in BOOLEAN
      OBVIOUS
    <2> QED
      BY <1>1, <2>1, <2>2, <2>3 DEF TypeOK
  <1>3. StepsAgree /\ ClosedByPipe /\ ClosedForReason /\ SocketClosedForReason
    <2>1. npc \in {"none", "get"}
      OBVIOUS
    <2> QED
      BY <2>1 DEF StepsAgree, ClosedByPipe, ClosedForReason, SocketClosedForReason,
                  OneEnded, Piped
  <1> QED
    BY <1>2, <1>3 DEF FInv

(* The four parts of the invariant that are about a channel.               *)
ChannelInv == StepsAgree /\ ClosedByPipe /\ ClosedForReason /\ SocketClosedForReason

(* Steps of the tunnel and of the proxy's loop, which touch neither the    *)
(* pipes nor the step of pipeRemote.                                       *)
LEMMA LoopKeeps ==
    ASSUME FInv, UNCHANGED <<pipeVars, npc, hpc>>,
           calls' = calls, made' \in 0..MaxConn,
           link' \in BOOLEAN, cancelled' \in BOOLEAN,
           loop' \in {"accept", "call", "returned", "failed"}
    PROVE  FInv'
PROOF
  <1> USE DEF FInv, pipeVars
  <1>1. PipeTypeOK'
    <2>1. stdio' \in BOOLEAN /\ lost' \in BOOLEAN
      BY Zenon DEF TypeOK, PipeTypeOK
    <2> QED
      BY <2>1 DEF TypeOK, PipeTypeOK
  <1>2. TypeOK'
    BY <1>1 DEF TypeOK
  <1>3. ASSUME ~lost' PROVE ChannelInv'
    <2>1. StepsAgree'
      BY <1>3 DEF StepsAgree, Piped
    <2>2. ClosedByPipe'
      BY <1>3 DEF ClosedByPipe, OneEnded, Piped
    <2>3. ClosedForReason'
      BY <1>3 DEF ClosedForReason, Reason, OneEnded, Piped
    <2>4. SocketClosedForReason'
      BY <1>3 DEF SocketClosedForReason, OneEnded, Piped
    <2> QED
      BY <2>1, <2>2, <2>3, <2>4 DEF ChannelInv
  <1> QED
    BY <1>2, <1>3 DEF ChannelInv

(* The connections under a forwarded one, and the loops of the proxy.      *)
LEMMA TunnelKeeps ==
    ASSUME FInv,
           Bind \/ LoseLink \/ Cancel \/ AcceptEnds \/ AcceptFails \/ LoopEnds
    PROVE  FInv'
PROOF
  <1>0. /\ made \in 0..MaxConn /\ link \in BOOLEAN /\ cancelled \in BOOLEAN
        /\ loop \in {"accept", "call", "returned", "failed"}
    BY DEF FInv, TypeOK
  <1>1. CASE LoseLink /\ LoseChannel
    <2>1. PipeTypeOK /\ Chain(passed["out"]) /\ Chain(passed["in"])
      BY ChainOfType, Names DEF FInv, TypeOK
    <2>2. PICK o \in passed["out"][4]..passed["out"][3],
               i \in passed["in"][4]..passed["in"][3] :
                  passed' = [passed EXCEPT !["out"][3] = o, !["in"][3] = i]
      BY <1>1 DEF LoseChannel
    <2>3. /\ passed["out"][3] \in Nat /\ passed["out"][4] \in Nat
          /\ passed["in"][3] \in Nat /\ passed["in"][4] \in Nat
      BY <2>1, Names DEF Chain
    <2>4. /\ o \in Nat /\ o >= passed["out"][4] /\ o <= passed["out"][3]
          /\ i \in Nat /\ i >= passed["in"][4] /\ i <= passed["in"][3]
      BY <2>3
    <2>5. passed' \in [Dir -> [Point -> Nat]]
      BY <2>1, <2>2, <2>4, Names DEF PipeTypeOK
    <2>6. /\ passed'["out"] = [passed["out"] EXCEPT ![3] = o]
          /\ passed'["in"] = [passed["in"] EXCEPT ![3] = i]
      BY <2>1, <2>2, Names DEF PipeTypeOK
    <2>7. ASSUME NEW p \in [Point -> Nat], NEW k \in Nat, Chain(p), k >= p[4], k <= p[3]
          PROVE  Chain([p EXCEPT ![3] = k]) /\ [p EXCEPT ![3] = k][1] = p[1]
      BY <2>7, Names DEF Chain
    <2>8. passed["out"] \in [Point -> Nat] /\ passed["in"] \in [Point -> Nat]
      BY <2>1, Names DEF PipeTypeOK
    <2>9. /\ Chain(passed'["out"]) /\ passed'["out"][1] = passed["out"][1]
          /\ Chain(passed'["in"]) /\ passed'["in"][1] = passed["in"][1]
      BY <2>1, <2>4, <2>6, <2>7, <2>8
    <2>10. \A d \in Dir : Chain(passed'[d]) /\ passed'[d][1] <= Chunks[d]
      BY <2>1, <2>9, Names DEF PipeTypeOK
    <2>11. \A d \in Dir, j \in 1..5 : passed'[d][j] >= passed'[d][j+1]
      BY <2>5, <2>10, TypeOfChain
    <2>12. lost' = TRUE /\ UNCHANGED <<stdio, fin, gone, shut, closing, seen, copying,
                                       made, cancelled, proxyVars, hpc>>
           /\ link' = FALSE
      BY <1>1 DEF LoseLink, LoseChannel
    <2>13. stdio' \in BOOLEAN /\ lost' \in BOOLEAN
      BY <2>1, <2>12, Zenon DEF PipeTypeOK
    <2>14. PipeTypeOK'
      BY <2>1, <2>5, <2>10, <2>11, <2>12, <2>13 DEF PipeTypeOK
    <2>15. cancelled' \in BOOLEAN
      BY <1>0, <2>12, Zenon
    <2> QED
      BY <2>12, <2>14, <2>15 DEF FInv, TypeOK, proxyVars
  <1>2. CASE LoseLink /\ UNCHANGED pipeVars
    <2>1. cancelled' \in BOOLEAN
      BY <1>0, <1>2, Zenon DEF LoseLink
    <2> QED
      BY <1>0, <1>2, <2>1, LoopKeeps DEF LoseLink, proxyVars
  <1>3. CASE Bind
    <2>1. made' \in 0..MaxConn
      BY <1>0, <1>3, MaxAssumption DEF Bind
    <2>2. cancelled' \in BOOLEAN /\ link' \in BOOLEAN
      BY <1>0, <1>3, Zenon DEF Bind
    <2> QED
      BY <1>0, <1>3, <2>1, <2>2, LoopKeeps DEF Bind, proxyVars
  <1>4. CASE Cancel \/ AcceptEnds \/ AcceptFails \/ LoopEnds
    <2>1. cancelled' \in BOOLEAN /\ link' \in BOOLEAN
      BY <1>0, <1>4, Zenon DEF Cancel, AcceptEnds, AcceptFails, LoopEnds, tunnelVars
    <2> QED
      BY <1>0, <1>4, <2>1, LoopKeeps
         DEF Cancel, AcceptEnds, AcceptFails, LoopEnds, proxyVars, tunnelVars
  <1> QED
    BY <1>1, <1>2, <1>3, <1>4 DEF LoseLink

-----------------------------------------------------------------------------
(* A step of pipeRemote or of the handler, or the start of a connection,   *)
(* counts no chunk.                                                        *)
LEMMA StepTypes ==
    ASSUME TypeOK, UNCHANGED <<stdio, passed, fin, gone, seen, lost>>,
           shut' \subseteq Side, seen \subseteq closing', closing' \subseteq Side,
           copying' \subseteq Side \X Dir,
           UNCHANGED <<tunnelVars, loop>>, calls' \in 0..MaxCalls,
           npc' \in {"none", "get", "open", "opening", "pipe", "returned"},
           hpc' \in {"none", "offered", "rejected", "dial", "pipe", "returned"},
           \A d \in Dir : /\ <<"near", d>> \in copying' => npc' = "pipe"
                          /\ <<"far", d>> \in copying' => hpc' = "pipe"
    PROVE  TypeOK'
PROOF
  <1> USE DEF tunnelVars
  <1>1. stdio' \in BOOLEAN /\ lost' \in BOOLEAN
    BY Zenon DEF TypeOK, PipeTypeOK
  <1>2. PipeTypeOK'
    BY <1>1 DEF TypeOK, PipeTypeOK
  <1>3. link' \in BOOLEAN /\ cancelled' \in BOOLEAN
    BY Zenon DEF TypeOK
  <1> QED
    BY <1>2, <1>3 DEF TypeOK

(* pipeRemote.                                                             *)
LEMMA RemoteKeeps ==
    ASSUME FInv, PipeRemote \/ Accept
    PROVE  FInv'
PROOF
  <1>0. TypeOK /\ (~lost => ChannelInv) /\ PipeTypeOK
    BY DEF FInv, ChannelInv, TypeOK
  <1>1. /\ UNCHANGED <<stdio, passed, fin, gone, closing, seen, lost, hpc>> \/ Open
        /\ UNCHANGED <<stdio, passed, fin, gone, closing, seen, lost>>
        /\ UNCHANGED <<tunnelVars, loop>>
    BY DEF PipeRemote, Get, GetNothing, Open, OpenFails, Opened, CallReturns, Accept,
           pipeVars
  <1>2. /\ calls' \in 0..MaxCalls /\ (npc' = "none" => calls' = 0)
        /\ npc' \in {"get", "open", "opening", "pipe", "returned"}
    <2>1. CASE Accept
      BY <1>0, <2>1, MaxAssumption DEF Accept, FInv, TypeOK
    <2> QED
      BY <1>0, <2>1
         DEF PipeRemote, Get, GetNothing, Open, OpenFails, Opened, CallReturns, TypeOK
  <1>a. shut' = shut \/ shut' = shut \cup {"near"}
    BY DEF PipeRemote, Get, GetNothing, Open, OpenFails, Opened, CallReturns, Accept,
           CloseUser, pipeVars
  <1>b. \/ copying' = copying /\ (npc = "pipe" => PipeReturned("near"))
        \/ /\ copying' = copying \cup {<<"near", d>> : d \in Dir}
           /\ npc' = "pipe" /\ hpc' = hpc
    BY DEF PipeRemote, Get, GetNothing, Open, OpenFails, Opened, CallReturns, Accept,
           StartPipe, pipeVars
  <1>3. shut' \subseteq Side /\ copying' \subseteq Side \X Dir
    <2>1. shut' \subseteq Side
      BY <1>0, <1>a, Names DEF PipeTypeOK
    <2>2. copying' \subseteq Side \X Dir
      BY <1>0, <1>b, Names DEF PipeTypeOK
    <2> QED
      BY <2>1, <2>2
  <1>c. hpc = "pipe" => hpc' = "pipe"
    BY DEF PipeRemote, Get, GetNothing, Open, OpenFails, Opened, CallReturns, Accept,
           FInv, StepsAgree
  <1>4. \A d \in Dir : /\ <<"near", d>> \in copying' => npc' = "pipe"
                       /\ <<"far", d>> \in copying' => hpc' = "pipe"
    <2>1. CASE copying' = copying /\ (npc = "pipe" => PipeReturned("near"))
      BY <1>0, <1>c, <2>1 DEF TypeOK, PipeReturned
    <2>2. CASE /\ copying' = copying \cup {<<"near", d>> : d \in Dir}
               /\ npc' = "pipe" /\ hpc' = hpc
      BY <1>0, <2>2 DEF TypeOK
    <2> QED
      BY <1>b, <2>1, <2>2
  <1>5. hpc' \in {"none", "offered", "rejected", "dial", "pipe", "returned"}
    BY <1>0
       DEF PipeRemote, Get, GetNothing, Open, OpenFails, Opened, CallReturns, Accept, TypeOK
  <1>6. TypeOK'
    BY <1>0, <1>1, <1>2, <1>3, <1>4, <1>5, StepTypes DEF PipeTypeOK
  <1>7. ASSUME ~lost' PROVE ChannelInv'
    <2>0. ~lost /\ StepsAgree /\ ClosedByPipe /\ ClosedForReason /\ SocketClosedForReason
      BY <1>0, <1>1, <1>7 DEF ChannelInv
    <2> USE DEF StepsAgree, ClosedByPipe, ClosedForReason, SocketClosedForReason,
                OneEnded, Piped, Reason
    <2>1. CASE Get \/ Accept
      BY <1>0, <2>0, <2>1, Names DEF Get, Accept, ChannelInv, pipeVars, TypeOK
    <2>2. CASE GetNothing
      BY <1>0, <2>0, <2>2, Names DEF GetNothing, CloseUser, ChannelInv, TypeOK
    <2>3. CASE Open
      BY <1>0, <2>0, <2>3, Names DEF Open, ChannelInv, pipeVars, TypeOK
    <2>4. CASE OpenFails
      BY <1>0, <2>0, <2>4, Names DEF OpenFails, CloseUser, ChannelInv, TypeOK
    <2>5. CASE Opened
      BY <1>0, <2>0, <2>5, Names DEF Opened, StartPipe, ChannelInv, TypeOK, PipeTypeOK
    <2>6. CASE CallReturns
      BY <1>0, <2>0, <2>6, Names
         DEF CallReturns, CloseUser, PipeReturned, ChannelInv, TypeOK
    <2> QED
      BY <2>1, <2>2, <2>3, <2>4, <2>5, <2>6 DEF PipeRemote
  <1> QED
    BY <1>2, <1>6, <1>7 DEF FInv, ChannelInv

(* The far handler.                                                        *)
LEMMA HandlerKeeps ==
    ASSUME FInv, HandleSSHChannel
    PROVE  FInv'
PROOF
  <1>0. TypeOK /\ (~lost => ChannelInv) /\ PipeTypeOK
    BY DEF FInv, ChannelInv, TypeOK
  <1> USE DEF HandleSSHChannel, Reject, AcceptChannel, AcceptChannelFails, Dial,
              DialFails, HandlerEnds, HandlerReturns, proxyVars
  <1>1. /\ UNCHANGED <<stdio, passed, fin, gone, shut, seen, lost>>
        /\ UNCHANGED <<tunnelVars, proxyVars>>
    BY DEF pipeVars
  <1>2. hpc' \in {"rejected", "dial", "pipe", "returned"}
    OBVIOUS
  <1>3. closing' = closing \/ closing' = closing \cup {"far"}
    BY DEF pipeVars
  <1>4. \/ copying' = copying /\ (hpc = "pipe" => PipeReturned("far"))
        \/ /\ copying' = copying \cup {<<"far", d>> : d \in Dir}
           /\ hpc' = "pipe"
    BY DEF StartPipe, pipeVars
  <1>5. seen \subseteq closing' /\ closing' \subseteq Side
    BY <1>0, <1>3, Names DEF PipeTypeOK
  <1>6. copying' \subseteq Side \X Dir
    BY <1>0, <1>4, Names DEF PipeTypeOK
  <1>7. \A d \in Dir : /\ <<"near", d>> \in copying' => npc' = "pipe"
                       /\ <<"far", d>> \in copying' => hpc' = "pipe"
    BY <1>0, <1>1, <1>4 DEF TypeOK, PipeReturned
  <1>8. TypeOK'
    <2>1. /\ shut' \subseteq Side /\ calls' \in 0..MaxCalls
          /\ npc' \in {"none", "get", "open", "opening", "pipe", "returned"}
          /\ UNCHANGED loop
      BY <1>0, <1>1 DEF TypeOK, PipeTypeOK
    <2> QED
      BY <1>0, <1>1, <1>2, <1>5, <1>6, <1>7, <2>1, StepTypes
  <1>9. ASSUME ~lost' PROVE ChannelInv'
    <2>0. ~lost /\ StepsAgree /\ ClosedByPipe /\ ClosedForReason /\ SocketClosedForReason
      BY <1>0, <1>1, <1>9 DEF ChannelInv
    <2> USE DEF StepsAgree, ClosedByPipe, ClosedForReason, SocketClosedForReason,
                OneEnded, Piped, Reason, ChannelInv
    <2>1. CASE Reject
      BY <1>0, <2>0, <2>1, Names DEF pipeVars, TypeOK
    <2>2. CASE AcceptChannel
      BY <1>0, <2>0, <2>2, Names DEF pipeVars, TypeOK
    <2>3. CASE AcceptChannelFails
      BY <1>0, <2>0, <2>3, Names DEF pipeVars, TypeOK
    <2>4. CASE Dial
      BY <1>0, <2>0, <2>4, Names DEF StartPipe, TypeOK, PipeTypeOK
    <2>5. CASE DialFails
      BY <1>0, <2>0, <2>5, Names DEF TypeOK
    <2>6. CASE HandlerEnds
      BY <1>0, <2>0, <2>6, Names DEF PipeReturned, TypeOK
    <2> QED
      BY <2>1, <2>2, <2>3, <2>4, <2>5, <2>6
  <1> QED
    BY <1>1, <1>8, <1>9 DEF FInv, ChannelInv

(* The next call of pipeRemote begins with nothing on its way.             *)
LEMMA CallAgainKeeps ==
    ASSUME FInv, CallAgain
    PROVE  FInv'
PROOF
  <1>0. TypeOK /\ PipeTypeOK
    BY DEF FInv, TypeOK
  <1>1. copying = {}
    BY <1>0, Names DEF CallAgain, TypeOK, PipeTypeOK
  <1>2. /\ npc' = "get" /\ hpc' = "none" /\ calls' = calls + 1
        /\ gone' = {} /\ shut' = {} /\ closing' = {} /\ seen' = {} /\ lost' = FALSE
        /\ fin' = fin \ {"far"} /\ UNCHANGED <<stdio, copying, tunnelVars, loop>>
    BY DEF CallAgain
  <1> DEFINE o == [Nothing EXCEPT ![1] = passed["out"][1] - passed["out"][2]]
  <1>3. /\ passed' \in [Dir -> [Point -> Nat]]
        /\ passed'["out"] = o /\ passed'["in"] = Nothing
        /\ o \in [Point -> Nat] /\ Chain(o) /\ o[1] <= passed["out"][1]
    <2>1. Chain(passed["out"])
      BY <1>0, ChainOfType, Names
    <2>2. passed["out"][1] - passed["out"][2] \in Nat
      BY <2>1, Names DEF Chain
    <2>3. o \in [Point -> Nat] /\ Nothing \in [Point -> Nat]
      BY <2>2 DEF Nothing
    <2>4. Chain(o) /\ o[1] <= passed["out"][1]
      BY <2>1, <2>2, Names DEF Chain, Nothing
    <2> QED
      BY <1>0, <2>3, <2>4, Names DEF CallAgain, PipeTypeOK
  <1>4. \A d \in Dir : Chain(passed'[d]) /\ passed'[d][1] <= Chunks[d]
    <2>1. Chain(Nothing) /\ Nothing[1] = 0
      BY Names DEF Chain, Nothing
    <2>2. passed["out"][1] <= Chunks["out"] /\ passed["out"][1] \in Nat
          /\ Chunks["out"] \in Nat /\ Chunks["in"] \in Nat /\ o[1] \in Nat
      BY <1>0, <1>3, Names, ChunksAssumption DEF PipeTypeOK
    <2>3. o[1] <= Chunks["out"]
      BY <1>3, <2>2
    <2>4. Chain(passed'["out"]) /\ passed'["out"][1] <= Chunks["out"]
      BY <1>3, <2>3
    <2>5. Chain(passed'["in"]) /\ passed'["in"][1] <= Chunks["in"]
      BY <1>3, <2>1, <2>2
    <2> HIDE DEF o
    <2> QED
      BY <2>4, <2>5, Names
  <1>5. PipeTypeOK'
    <2>1. \A d \in Dir, i \in 1..5 : passed'[d][i] >= passed'[d][i+1]
      BY <1>3, <1>4, TypeOfChain
    <2>2. stdio' \in BOOLEAN /\ lost' \in BOOLEAN
      BY <1>0, <1>2, Zenon DEF PipeTypeOK
    <2> QED
      BY <1>0, <1>1, <1>2, <1>3, <1>4, <2>1, <2>2 DEF PipeTypeOK
  <1>6. TypeOK'
    <2>1. calls' \in 0..MaxCalls
      BY <1>0, MaxAssumption DEF CallAgain, TypeOK
    <2>2. link' \in BOOLEAN /\ cancelled' \in BOOLEAN
      BY <1>0, <1>2, Zenon DEF tunnelVars, TypeOK
    <2> QED
      BY <1>0, <1>1, <1>2, <1>5, <2>1, <2>2 DEF TypeOK, tunnelVars
  <1>7. ChannelInv'
    BY <1>0, <1>1, <1>2
       DEF ChannelInv, StepsAgree, ClosedByPipe, ClosedForReason, SocketClosedForReason,
           OneEnded, Piped, TypeOK, PipeTypeOK
  <1> QED
    BY <1>2, <1>6, <1>7 DEF FInv, ChannelInv

-----------------------------------------------------------------------------
(* The steps at the sockets and channels.                                  *)

(* A step of the pipes leaves the steps of the program alone.              *)
LEMMA PipeTypes ==
    ASSUME TypeOK, PipeTypeOK', Others, UNCHANGED stdio, copying' \subseteq copying
    PROVE  TypeOK'
PROOF
  <1> USE DEF Others, tunnelVars, proxyVars
  <1>1. link' \in BOOLEAN /\ cancelled' \in BOOLEAN
    BY Zenon DEF TypeOK
  <1> QED
    BY <1>1 DEF TypeOK

(* A count that goes up by one, and is smaller than what comes before it,  *)
(* keeps the counts in order.                                              *)
LEMMA PassKeepsType ==
    ASSUME PipeTypeOK, NEW d \in Dir, NEW i \in Point, Pass(d, i),
           i = 1 => passed[d][1] < Chunks[d],
           \A j \in Point : j + 1 = i => passed[d][j] > passed[d][i],
           UNCHANGED <<stdio, fin, gone, shut, closing, seen, lost, copying>>
    PROVE  PipeTypeOK'
PROOF
  <1>1. /\ passed' \in [Dir -> [Point -> Nat]]
        /\ passed'[d][i] = passed[d][i] + 1
        /\ \A e \in Dir, j \in Point :
              e # d \/ j # i => passed'[e][j] = passed[e][j]
    BY PassValues
  <1>2. \A e \in Dir : Chain(passed'[e]) /\ passed'[e][1] <= Chunks[e]
    <2>1. SUFFICES ASSUME NEW e \in Dir
                   PROVE  Chain(passed'[e]) /\ passed'[e][1] <= Chunks[e]
      OBVIOUS
    <2>2. Chain(passed[e]) /\ passed[e][1] <= Chunks[e]
      BY ChainOfType
    <2>3. CASE e # d
      BY <1>1, <2>2, <2>3, Names DEF Chain
    <2>4. CASE e = d
      <3>1. /\ i = 2 => passed[d][1] > passed[d][2]
            /\ i = 3 => passed[d][2] > passed[d][3]
            /\ i = 4 => passed[d][3] > passed[d][4]
            /\ i = 5 => passed[d][4] > passed[d][5]
            /\ i = 6 => passed[d][5] > passed[d][6]
        BY Names
      <3>2. Chain(passed'[e])
        BY <1>1, <2>2, <2>4, <3>1, Names DEF Chain
      <3>3. passed'[e][1] <= Chunks[e]
        BY <1>1, <2>2, <2>4, Names, ChunksAssumption DEF Chain
      <3> QED
        BY <3>2, <3>3
    <2> QED
      BY <2>3, <2>4
  <1>3. \A e \in Dir, j \in 1..5 : passed'[e][j] >= passed'[e][j+1]
    BY <1>1, <1>2, TypeOfChain
  <1>4. stdio' \in BOOLEAN /\ lost' \in BOOLEAN
    BY Zenon DEF PipeTypeOK
  <1> QED
    BY <1>1, <1>2, <1>3, <1>4 DEF PipeTypeOK

(* A chunk that passes a point, and nothing else.                          *)
LEMMA PassKeepsChannel ==
    ASSUME TypeOK, ChannelInv, NEW x \in Side, NEW d \in Dir, NEW i \in Point,
           Pass(d, i),
           UNCHANGED <<stdio, fin, gone, shut, closing, seen, lost, copying>>,
           UNCHANGED <<npc, calls, hpc>>,
           \/ i = 1 /\ d = Mine(x) /\ x \notin fin
           \/ i = 2 /\ d = Mine(x) /\ x \notin shut /\ <<x, d>> \in copying
                    /\ passed[d][1] > passed[d][2]
           \/ i = 3 /\ d = Mine(x) /\ x \notin closing /\ <<x, d>> \in copying
                    /\ passed[d][2] > passed[d][3]
           \/ i = 4 /\ d = Theirs(x) /\ <<x, d>> \in copying
           \/ i = 5 /\ d = Theirs(x) /\ x \notin shut /\ <<x, d>> \in copying
           \/ i = 6 /\ d = Theirs(x) /\ x \notin gone
    PROVE  ChannelInv'
PROOF
  <1>1. /\ passed'[d][i] = passed[d][i] + 1
        /\ \A e \in Dir, j \in Point :
              e # d \/ j # i => passed'[e][j] = passed[e][j]
    BY PassValues DEF TypeOK
  <1>2. Chain(passed[d])
    BY ChainOfType DEF TypeOK
  <1>3. StepsAgree' /\ ClosedByPipe'
    BY DEF ChannelInv, StepsAgree, ClosedByPipe, OneEnded, Piped
  <1>4. ClosedForReason'
    <2>1. SUFFICES ASSUME NEW z \in Side, Reason(z) PROVE Reason(z)'
      BY DEF ChannelInv, ClosedForReason
    <2>2. z = x \/ z = Other(x)
      BY Names DEF Other
    <2> QED
      BY <1>1, <1>2, <2>1, <2>2, Names DEF Reason, Piped, Chain
  <1>5. SocketClosedForReason'
    <2>1. SUFFICES ASSUME NEW z \in Side, z \in shut, Piped(z)
                   PROVE  \/ z \in fin
                          \/ /\ <<z, Mine(z)>> \notin copying
                             /\ passed'[Mine(z)][2] > passed'[Mine(z)][3]
                          \/ /\ z \in seen /\ <<z, Theirs(z)>> \notin copying
                             /\ passed'[Theirs(z)][3] = passed'[Theirs(z)][4]
                             /\ \/ passed'[Theirs(z)][4] = passed'[Theirs(z)][5]
                                \/ passed'[Mine(z)][1] > passed'[Mine(z)][2]
      BY DEF SocketClosedForReason, Piped, Mine, Theirs
    <2>2. \/ z \in fin
          \/ <<z, Mine(z)>> \notin copying /\ passed[Mine(z)][2] > passed[Mine(z)][3]
          \/ /\ z \in seen /\ <<z, Theirs(z)>> \notin copying
             /\ passed[Theirs(z)][3] = passed[Theirs(z)][4]
             /\ \/ passed[Theirs(z)][4] = passed[Theirs(z)][5]
                \/ passed[Mine(z)][1] > passed[Mine(z)][2]
      BY <2>1 DEF ChannelInv, SocketClosedForReason
    <2>3. z \in seen => Other(z) \in closing
      BY DEF ChannelInv, ClosedByPipe
    <2>4. z = x \/ z = Other(x)
      BY Names DEF Other
    <2>5. Chain(passed[Mine(z)]) /\ Chain(passed[Theirs(z)])
      BY Names, ChainOfType DEF TypeOK
    <2>6. Other(Other(x)) = x
      BY Names DEF Other
    <2> QED
      BY <1>1, <1>2, <2>1, <2>2, <2>3, <2>4, <2>5, <2>6, Names DEF Chain
  <1> QED
    BY <1>3, <1>4, <1>5 DEF ChannelInv

(* Chunks that pass.                                                       *)
LEMMA PassingKeeps ==
    ASSUME FInv, NEW x \in Side, Others,
           \/ \E d \in Dir : Read(x, d) \/ Write(x, d)
           \/ Produce(x) \/ Receive(x)
    PROVE  FInv'
PROOF
  <1>0. TypeOK /\ PipeTypeOK /\ (~lost => ChannelInv)
    BY DEF FInv, TypeOK, ChannelInv
  <1>1. UNCHANGED <<stdio, fin, gone, shut, closing, seen, lost, copying>>
        /\ UNCHANGED <<npc, calls, hpc>>
    BY DEF Read, Write, Produce, Receive, Others, proxyVars
  <1>2. ASSUME NEW d \in Dir, NEW i \in Point, Pass(d, i),
               i = 1 => passed[d][1] < Chunks[d],
               \A j \in Point : j + 1 = i => passed[d][j] > passed[d][i],
               ~lost => ChannelInv'
        PROVE  FInv'
    <2>1. PipeTypeOK'
      BY <1>0, <1>1, <1>2, PassKeepsType
    <2>2. TypeOK'
      BY <1>0, <1>1, <2>1, PipeTypes
    <2> QED
      BY <1>1, <1>2, <2>2 DEF FInv, ChannelInv
  <1>3. \A d \in Dir : Chain(passed[d])
    BY <1>0, ChainOfType
  <1>4. ASSUME NEW d \in Dir, Read(x, d) PROVE FInv'
    <2>1. CASE d = Mine(x)
      <3>1. /\ Pass(d, 2) /\ passed[d][1] > passed[d][2] /\ x \notin shut
            /\ <<x, d>> \in copying
        BY <1>4, <2>1, Names DEF Read, Waiting, Readable
      <3>2. ~lost => ChannelInv'
        BY <1>0, <1>1, <2>1, <3>1, PassKeepsChannel, Names
      <3>3. \A j \in Point : j + 1 = 2 => passed[d][j] > passed[d][2]
        BY <3>1, Names
      <3> QED
        BY <1>2, <3>1, <3>2, <3>3, Names
    <2>2. CASE d = Theirs(x)
      <3>1. /\ Pass(d, 4) /\ passed[d][3] > passed[d][4] /\ <<x, d>> \in copying
        BY <1>4, <2>2, Names DEF Read, Waiting
      <3>2. ~lost => ChannelInv'
        BY <1>0, <1>1, <2>2, <3>1, PassKeepsChannel, Names
      <3>3. \A j \in Point : j + 1 = 4 => passed[d][j] > passed[d][4]
        BY <3>1, Names
      <3> QED
        BY <1>2, <3>1, <3>2, <3>3, Names
    <2> QED
      BY <2>1, <2>2, Names
  <1>5. ASSUME NEW d \in Dir, Write(x, d) PROVE FInv'
    <2>1. CASE d = Mine(x)
      <3>1. /\ Pass(d, 3) /\ passed[d][2] > passed[d][3] /\ x \notin closing
            /\ <<x, d>> \in copying
        BY <1>5, <2>1, Names DEF Write, Holds, Writable
      <3>2. ~lost => ChannelInv'
        BY <1>0, <1>1, <2>1, <3>1, PassKeepsChannel, Names
      <3>3. \A j \in Point : j + 1 = 3 => passed[d][j] > passed[d][3]
        BY <3>1, Names
      <3> QED
        BY <1>2, <3>1, <3>2, <3>3, Names
    <2>2. CASE d = Theirs(x)
      <3>1. /\ Pass(d, 5) /\ passed[d][4] > passed[d][5] /\ <<x, d>> \in copying
            /\ x \notin shut
        BY <1>5, <2>2, Names DEF Write, Holds, Writable
      <3>2. ~lost => ChannelInv'
        BY <1>0, <1>1, <2>2, <3>1, PassKeepsChannel, Names
      <3>3. \A j \in Point : j + 1 = 5 => passed[d][j] > passed[d][5]
        BY <3>1, Names
      <3> QED
        BY <1>2, <3>1, <3>2, <3>3, Names
    <2> QED
      BY <2>1, <2>2, Names
  <1>6. CASE Produce(x)
    <2>1. PICK d \in Dir : Source(d) = x /\ passed[d][1] < Chunks[d] /\ Pass(d, 1)
      BY <1>6 DEF Produce
    <2>2. d = Mine(x) /\ x \notin fin
      BY <1>6, <2>1, Names DEF Produce
    <2>3. ~lost => ChannelInv'
      BY <1>0, <1>1, <2>1, <2>2, PassKeepsChannel, Names
    <2>4. \A j \in Point : j + 1 = 1 => passed[d][j] > passed[d][1]
      BY Names
    <2> QED
      BY <1>2, <2>1, <2>3, <2>4, Names
  <1>7. CASE Receive(x)
    <2>1. PICK d \in Dir : Sink(d) = x /\ passed[d][5] > passed[d][6] /\ Pass(d, 6)
      BY <1>7 DEF Receive
    <2>2. d = Theirs(x) /\ x \notin gone
      BY <1>7, <2>1, Names DEF Receive
    <2>3. ~lost => ChannelInv'
      BY <1>0, <1>1, <2>1, <2>2, PassKeepsChannel, Names
    <2>4. \A j \in Point : j + 1 = 6 => passed[d][j] > passed[d][6]
      BY <2>1, Names
    <2> QED
      BY <1>2, <2>1, <2>3, <2>4, Names
  <1> QED
    BY <1>4, <1>5, <1>6, <1>7

-----------------------------------------------------------------------------
(* A copy that ends.  What is read of a socket ends for the reasons of a   *)
(* program; what is read of a channel, because that is closed, and for     *)
(* this there is a reason already.                                         *)
LEMMA CopyEndsKeeps ==
    ASSUME FInv, NEW x \in Side, NEW d \in Dir, CopyEnds(x, d), Others
    PROVE  FInv'
PROOF
  <1>0. TypeOK /\ PipeTypeOK /\ (~lost => ChannelInv)
    BY DEF FInv, TypeOK, ChannelInv
  <1>1. /\ <<x, d>> \in copying /\ copying' = copying \ {<<x, d>>}
        /\ UNCHANGED <<stdio, passed, fin, gone, seen, lost, npc, calls, hpc>>
    BY DEF CopyEnds, Others, proxyVars
  <1>2. /\ shut' = shut \/ shut' = shut \cup {x}
        /\ closing' = closing \/ closing' = closing \cup {x}
    BY DEF CopyEnds, CloseBoth
  <1>3. TypeOK'
    <2>1. stdio' \in BOOLEAN /\ lost' \in BOOLEAN
      BY <1>0, <1>1, Zenon DEF PipeTypeOK
    <2>2. PipeTypeOK'
      BY <1>0, <1>1, <1>2, <2>1 DEF PipeTypeOK
    <2> QED
      BY <1>0, <1>1, <2>2, PipeTypes
  <1>4. ASSUME ~lost PROVE ChannelInv'
    <2>0. ChannelInv
      BY <1>0, <1>4
    <2>1. /\ Piped(x)
          /\ x = "near" => npc = "pipe"
          /\ x = "far" => hpc = "pipe"
      BY <1>0, <1>1, Names DEF TypeOK, Piped
    <2>2. CASE <<x, Back(d)>> \in copying
      <3>1. /\ x \notin shut
            /\ closing' = closing \cup {x}
            /\ shut' = IF stdio /\ x = "near" THEN shut ELSE shut \cup {x}
        <4>1. \A e \in Dir : e = d \/ e = Back(d)
          BY Names DEF Back
        <4> QED
          BY <1>1, <2>0, <2>1, <2>2, <4>1, Names
             DEF CopyEnds, CloseBoth, ChannelInv, ClosedByPipe, OneEnded
      <3>2. StepsAgree' /\ ClosedByPipe'
        BY <1>1, <2>0, <2>1, <3>1, Names
           DEF ChannelInv, StepsAgree, ClosedByPipe, OneEnded, Piped
      <3>3. ClosedForReason'
        <4>1. ASSUME NEW z \in Side, Reason(z) PROVE Reason(z)'
          BY <1>1, <2>0, <2>1, <3>1, <4>1, Names DEF Reason, Piped
        <4>2. CASE closing # {}
          BY <2>0, <4>1, <4>2 DEF ChannelInv, ClosedForReason
        <4>3. CASE closing = {}
          <5>1. x \notin closing /\ x \notin seen
            BY <1>0, <4>3 DEF PipeTypeOK
          <5>2. Chain(passed[d])
            BY <1>0, ChainOfType
          <5>3. CASE d = Mine(x)
            <6>1. ~Holds(x, d) /\ ReadEnds(x, d)
              BY <5>1, <5>3, Names DEF CopyEnds, WriteFails
            <6>2. \/ x \in gone /\ passed[Theirs(x)][5] > passed[Theirs(x)][6]
                  \/ x \in fin /\ passed[d][1] = passed[d][3]
              BY <3>1, <5>2, <5>3, <6>1, Names DEF ReadEnds, Holds, Waiting, Chain
            <6> QED
              BY <1>1, <5>3, <6>2 DEF Reason, ClosedForReason
          <5>4. CASE d = Theirs(x)
            <6>1. Holds(x, d) /\ x \in gone
              BY <3>1, <5>1, <5>4, Names DEF CopyEnds, ReadEnds, WriteFails
            <6>2. passed[d][4] > passed[d][5]
              BY <5>4, <6>1, Names DEF Holds
            <6>3. Piped(x)' /\ <<x, Theirs(x)>> \notin copying'
              BY <1>1, <2>1, <5>4, Names DEF Piped
            <6>4. Reason(x)'
              BY <1>1, <5>4, <6>1, <6>2, <6>3 DEF Reason
            <6> QED
              BY <6>4 DEF ClosedForReason
          <5> QED
            BY <5>3, <5>4, Names
        <4> QED
          BY <4>2, <4>3
      <3>4. SocketClosedForReason'
        <4>1. ASSUME NEW z \in Side, z # x, z \in shut', Piped(z)'
              PROVE  z \in shut /\ Piped(z)
          BY <1>1, <3>1, <4>1, Names DEF Piped
        <4>2. \/ x \in fin
              \/ <<x, Mine(x)>> \notin copying' /\ passed[Mine(x)][2] > passed[Mine(x)][3]
              \/ /\ x \in seen /\ <<x, Theirs(x)>> \notin copying'
                 /\ passed[Theirs(x)][3] = passed[Theirs(x)][4]
                 /\ passed[Theirs(x)][4] = passed[Theirs(x)][5]
          <5>1. Chain(passed[d])
            BY <1>0, ChainOfType
          <5>2. CASE d = Mine(x)
            BY <1>0, <1>1, <3>1, <5>1, <5>2, Names
               DEF CopyEnds, Holds, ReadEnds, Waiting, Chain, PipeTypeOK
          <5>3. CASE d = Theirs(x)
            BY <1>0, <1>1, <3>1, <5>1, <5>3, Names
               DEF CopyEnds, Holds, ReadEnds, WriteFails, Waiting, Chain, PipeTypeOK
          <5> QED
            BY <5>2, <5>3, Names
        <4> QED
          BY <1>1, <2>0, <4>1, <4>2 DEF ChannelInv, SocketClosedForReason
      <3> QED
        BY <3>2, <3>3, <3>4 DEF ChannelInv
    <2>3. CASE <<x, Back(d)>> \notin copying
      <3>1. shut' = shut /\ closing' = closing
        BY <2>3 DEF CopyEnds
      <3>2. Back(d) \in Dir
        BY DEF Back, Dir
      <3>3. StepsAgree' /\ ClosedByPipe'
        BY <1>1, <2>0, <2>1, <2>3, <3>1, <3>2
           DEF ChannelInv, StepsAgree, ClosedByPipe, OneEnded, Piped
      <3>4. ClosedForReason' /\ SocketClosedForReason'
        BY <1>1, <2>0, <3>1
           DEF ChannelInv, ClosedForReason, SocketClosedForReason, Reason, Piped
      <3> QED
        BY <3>3, <3>4 DEF ChannelInv
    <2> QED
      BY <2>2, <2>3
  <1> QED
    BY <1>1, <1>3, <1>4 DEF FInv, ChannelInv

(* The end of a channel is seen.                                           *)
LEMMA SeeKeeps ==
    ASSUME FInv, NEW x \in Side, SeeClose(x) \/ SeeLoss(x), Others
    PROVE  FInv'
PROOF
  <1>0. TypeOK /\ PipeTypeOK /\ (~lost => ChannelInv)
    BY DEF FInv, TypeOK, ChannelInv
  <1>1. /\ seen' = seen \cup {x} /\ closing' = closing \cup {x}
        /\ UNCHANGED <<stdio, passed, fin, gone, shut, lost, copying, npc, calls, hpc>>
        /\ ~lost => Other(x) \in closing
    BY DEF SeeClose, SeeLoss, Others, proxyVars
  <1>2. TypeOK'
    <2>1. stdio' \in BOOLEAN /\ lost' \in BOOLEAN
      BY <1>0, <1>1, Zenon DEF PipeTypeOK
    <2>2. PipeTypeOK'
      BY <1>0, <1>1, <2>1 DEF PipeTypeOK
    <2> QED
      BY <1>0, <1>1, <2>2, PipeTypes
  <1>3. ASSUME ~lost PROVE ChannelInv'
    BY <1>0, <1>1, <1>3
       DEF ChannelInv, StepsAgree, ClosedByPipe, ClosedForReason, SocketClosedForReason,
           OneEnded, Piped, Reason
  <1> QED
    BY <1>1, <1>2, <1>3 DEF FInv, ChannelInv

(* A program ends its writing, or goes.                                    *)
LEMMA EndKeeps ==
    ASSUME FInv, NEW x \in Attached, Finish(x) \/ Quit(x), Others
    PROVE  FInv'
PROOF
  <1>0. TypeOK /\ PipeTypeOK /\ (~lost => ChannelInv) /\ x \in Side
    BY DEF FInv, TypeOK, ChannelInv, Attached
  <1>1. /\ fin' = fin \cup {x} /\ (gone' = gone \/ gone' = gone \cup {x})
        /\ UNCHANGED <<stdio, passed, shut, closing, seen, lost, copying,
                       npc, calls, hpc>>
        /\ x = "far" => Piped("far")
    BY DEF Finish, Quit, Others, proxyVars, Attached, Piped
  <1>2. TypeOK'
    <2>1. stdio' \in BOOLEAN /\ lost' \in BOOLEAN
      BY <1>0, <1>1, Zenon DEF PipeTypeOK
    <2>2. PipeTypeOK'
      BY <1>0, <1>1, <2>1 DEF PipeTypeOK
    <2> QED
      BY <1>0, <1>1, <2>2, PipeTypes
  <1>3. ASSUME ~lost PROVE ChannelInv'
    BY <1>0, <1>1, <1>3
       DEF ChannelInv, StepsAgree, ClosedByPipe, ClosedForReason, SocketClosedForReason,
           OneEnded, Piped, Reason
  <1> QED
    BY <1>1, <1>2, <1>3 DEF FInv, ChannelInv

(* A socket that was closed with something unread is reset.                *)
LEMMA ResetKeeps ==
    ASSUME FInv, NEW x \in Side, Reset(x), Others
    PROVE  FInv'
PROOF
  <1>0. TypeOK /\ PipeTypeOK /\ (~lost => ChannelInv)
    BY DEF FInv, TypeOK, ChannelInv
  <1>1. PICK d \in Dir : /\ Sink(d) = x
                         /\ passed[Back(d)][1] > passed[Back(d)][2]
                         /\ Cut(d, 5)
    BY DEF Reset
  <1>2. /\ d = Theirs(x) /\ Back(d) = Mine(x)
        /\ UNCHANGED <<stdio, fin, gone, shut, closing, seen, lost, copying,
                       npc, calls, hpc>>
        /\ x \in shut /\ x \notin gone
    BY <1>1, Names DEF Reset, Others, proxyVars
  <1>3. PICK k \in passed[d][5+1]..passed[d][5] : passed' = [passed EXCEPT ![d][5] = k]
    BY <1>1 DEF Cut
  <1>4. Chain(passed[d])
    BY <1>0, ChainOfType
  <1>5. k \in Nat /\ k >= passed[d][6] /\ k <= passed[d][5]
    BY <1>4, Names DEF Chain
  <1>6. /\ passed' \in [Dir -> [Point -> Nat]]
        /\ passed'[d][5] = k
        /\ \A e \in Dir, j \in Point : e # d \/ j # 5 => passed'[e][j] = passed[e][j]
    BY <1>0, <1>3, <1>5, Names DEF PipeTypeOK
  <1>7. TypeOK'
    <2>1. \A e \in Dir : Chain(passed'[e]) /\ passed'[e][1] <= Chunks[e]
      <3>1. SUFFICES ASSUME NEW e \in Dir
                     PROVE  Chain(passed'[e]) /\ passed'[e][1] <= Chunks[e]
        OBVIOUS
      <3>2. Chain(passed[e]) /\ passed[e][1] <= Chunks[e]
        BY <1>0, ChainOfType
      <3> QED
        BY <1>5, <1>6, <3>2, Names DEF Chain
    <2>2. \A e \in Dir, j \in 1..5 : passed'[e][j] >= passed'[e][j+1]
      BY <1>6, <2>1, TypeOfChain
    <2>3. stdio' \in BOOLEAN /\ lost' \in BOOLEAN
      BY <1>0, <1>2, Zenon DEF PipeTypeOK
    <2>4. PipeTypeOK'
      BY <1>0, <1>2, <1>6, <2>1, <2>2, <2>3 DEF PipeTypeOK
    <2> QED
      BY <1>0, <1>2, <2>4, PipeTypes
  <1>8. ASSUME ~lost PROVE ChannelInv'
    <2>0. ChannelInv
      BY <1>0, <1>8
    <2>1. StepsAgree' /\ ClosedByPipe'
      BY <1>2, <2>0 DEF ChannelInv, StepsAgree, ClosedByPipe, OneEnded, Piped
    <2>2. ClosedForReason'
      <3>1. SUFFICES ASSUME NEW z \in Side, Reason(z) PROVE Reason(z)'
        BY <1>2, <2>0 DEF ChannelInv, ClosedForReason
      <3>2. z = x \/ z = Other(x)
        BY Names DEF Other
      <3> QED
        BY <1>2, <1>6, <3>1, <3>2, Names DEF Reason, Piped
    <2>3. SocketClosedForReason'
      <3>1. SUFFICES ASSUME NEW z \in Side, z \in shut, Piped(z)
                     PROVE  \/ z \in fin
                            \/ /\ <<z, Mine(z)>> \notin copying
                               /\ passed'[Mine(z)][2] > passed'[Mine(z)][3]
                            \/ /\ z \in seen /\ <<z, Theirs(z)>> \notin copying
                               /\ passed'[Theirs(z)][3] = passed'[Theirs(z)][4]
                               /\ \/ passed'[Theirs(z)][4] = passed'[Theirs(z)][5]
                                  \/ passed'[Mine(z)][1] > passed'[Mine(z)][2]
        BY <1>2 DEF SocketClosedForReason, Piped, Mine, Theirs
      <3>2. z = x \/ z = Other(x)
        BY Names DEF Other
      <3> QED
        BY <1>1, <1>2, <1>6, <2>0, <3>1, <3>2, Names DEF ChannelInv, SocketClosedForReason
    <2> QED
      BY <2>1, <2>2, <2>3 DEF ChannelInv
  <1> QED
    BY <1>2, <1>7, <1>8 DEF FInv, ChannelInv

-----------------------------------------------------------------------------
(* Every step keeps the invariant.                                         *)
LEMMA ForwardStep == FInv /\ [Next]_vars => FInv'
PROOF
  <1> SUFFICES ASSUME FInv, [Next]_vars PROVE FInv'
    OBVIOUS
  <1>1. CASE Bind \/ LoseLink \/ Cancel \/ AcceptEnds \/ AcceptFails \/ LoopEnds
    BY <1>1, TunnelKeeps
  <1>2. CASE CallAgain
    BY <1>2, CallAgainKeeps
  <1>3. CASE PipeRemote \/ Accept
    BY <1>3, RemoteKeeps
  <1>4. CASE HandleSSHChannel
    BY <1>4, HandlerKeeps
  <1>5. CASE Closing
    BY <1>5, SeeKeeps DEF Closing
  <1>6. CASE Copy /\ Others
    BY <1>6, PassingKeeps, CopyEndsKeeps DEF Copy
  <1>7. CASE (\E x \in Side : Ends(x)) /\ Others
    BY <1>7, PassingKeeps, EndKeeps, ResetKeeps DEF Ends
  <1>8. CASE Reading
    BY <1>8, PassingKeeps DEF Reading
  <1>9. CASE UNCHANGED vars
    <2>1. link' \in BOOLEAN /\ cancelled' \in BOOLEAN
      BY <1>9, Zenon DEF vars, tunnelVars, FInv, TypeOK
    <2>2. UNCHANGED <<pipeVars, npc, hpc, calls, made, loop>>
      BY <1>9 DEF vars, tunnelVars, proxyVars
    <2>3. made' \in 0..MaxConn /\ loop' \in {"accept", "call", "returned", "failed"}
      BY <2>2 DEF FInv, TypeOK
    <2> QED
      BY <2>1, <2>2, <2>3, LoopKeeps
  <1> QED
    BY <1>1, <1>2, <1>3, <1>4, <1>5, <1>6, <1>7, <1>8, <1>9
       DEF Next, System, CloseLink, ProxyLoop

(* The invariant holds throughout.                                         *)
LEMMA ForwardInvariant == Spec => []FInv
PROOF
  BY ForwardInit, ForwardStep, PTL DEF Spec

(* The state of a connection is well formed; in particular no point has    *)
(* seen more chunks than the one before it, and the goroutines of a pipe   *)
(* (pipe.go) run only while pipeRemote or the handler waits for them.      *)
THEOREM ForwardTypeCorrect == Spec => []TypeOK
PROOF
  <1>1. FInv => TypeOK
    BY DEF FInv
  <1> QED
    BY <1>1, ForwardInvariant, PTL

(* cio.Pipe, at both ends of a channel, closes both directions when the    *)
(* first ends (pipe.go:14-40): this cuts short a stream whose source has   *)
(* ended only if the connection was lost or the other direction was busy.  *)
THEOREM StreamsWholeUnlessCrossed == Spec => []WholeUnlessCrossed
PROOF
  BY ForwardInvariant, WholeOfInv, PTL
=============================================================================
