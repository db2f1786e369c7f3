------------------------------ MODULE UdpProofs -----------------------------
(***************************************************************************)
(* Proofs about a UDP remote, for every set of sources, every number of    *)
(* connections, every window and every bound on the readers.               *)
(***************************************************************************)
EXTENDS Udp, FiniteSetTheorems, TLAPS

(* What the assumptions say of the constants.                              *)
LEMMA Types ==
    /\ NoConn \notin Conn /\ Conn \subseteq Nat
    /\ Window \in Nat /\ MaxTraffic \in Nat
BY MaxConnAssumption, WindowAssumption DEF Conn

-----------------------------------------------------------------------------
(* outboundMut is held by a loop just while it asks for a connection or    *)
(* opens a channel, and nothing is cached then.                            *)
MutexHeld ==
    /\ \A l \in Loop : pc[l] \in {"ssh", "open"} <=> mutex = l
    /\ mutex # Nobody => outbound = NoConn

LInv == ListenerTypeOK /\ MutexHeld /\ OneUnsetter

(* The steps of the listener keep the cache and its unsetters in step.     *)
LEMMA NearKeepsCache ==
    ASSUME LInv, NEW l \in Loop,
           Top(l) \/ Get(l) \/ GetSSH(l) \/ Nil(l) \/ OpenFails(l) \/ OpenChannel(l)
              \/ SocketFails(l)
    PROVE  LInv'
<1>1. CASE Top(l)
  BY <1>1 DEF Top, ListenerGoTo, LInv, ListenerTypeOK, MutexHeld, OneUnsetter, tunnelVars, chanVars
<1>2. CASE Get(l)
  BY <1>2, NobodyAssumption
     DEF Get, ListenerGoTo, LInv, ListenerTypeOK, MutexHeld, OneUnsetter, tunnelVars, streamVars
<1>3. CASE GetSSH(l)
  BY <1>3 DEF GetSSH, ListenerGoTo, LInv, ListenerTypeOK, MutexHeld, OneUnsetter, tunnelVars, chanVars
<1>4. CASE Nil(l)
  BY <1>4, NobodyAssumption, Types
     DEF Nil, Fail, Leave, ListenerGoTo, LInv, ListenerTypeOK, MutexHeld, OneUnsetter, tunnelVars
<1>5. CASE OpenFails(l)
  BY <1>5, NobodyAssumption, Types
     DEF OpenFails, Again, Fail, Leave, ListenerGoTo, LInv, ListenerTypeOK, MutexHeld,
         OneUnsetter, tunnelVars
<1>6. CASE OpenChannel(l)
  BY <1>6, NobodyAssumption, Types
     DEF OpenChannel, ListenerGoTo, LInv, ListenerTypeOK, MutexHeld, OneUnsetter, tunnelVars
<1>7. CASE SocketFails(l)
  BY <1>7, Types
     DEF SocketFails, Fail, Leave, ListenerGoTo, LInv, ListenerTypeOK, MutexHeld,
         OneUnsetter, tunnelVars, chanVars
<1> QED BY <1>1, <1>2, <1>3, <1>4, <1>5, <1>6, <1>7

(* The loops at their work, and what comes and goes around them.           *)
LEMMA UseKeepsCache ==
    ASSUME LInv, InboundEncode \/ InboundEOF \/ OutboundDecode \/ OutboundEOF
    PROVE  LInv'
<1>1. PICK l \in Loop : /\ pc[l] = "use" /\ (Again(l) \/ Fail(l))
                        /\ UNCHANGED <<tunnelVars, chanVars>>
  BY DEF InboundEncode, InboundEOF, OutboundDecode, OutboundEOF, Loop
<1> QED BY <1>1, Types
        DEF Again, Fail, Leave, ListenerGoTo, LInv, ListenerTypeOK, MutexHeld,
            OneUnsetter, tunnelVars, chanVars

(* A goroutine of unsetUDPChan runs when its connection is gone; that it   *)
(* is the one of the cached channel is the invariant.                      *)
LEMMA UnsetKeepsCache ==
    ASSUME LInv, NEW c \in Conn, Unset(c)
    PROVE  LInv'
<1>1. outbound = c /\ outbound' = NoConn /\ unsetters' = [unsetters EXCEPT ![c] = @ - 1]
  BY DEF Unset, LInv, OneUnsetter
<1>2. OneUnsetter'
  BY <1>1, Types DEF LInv, ListenerTypeOK, OneUnsetter
<1>3. unsetters[c] = 1
  BY <1>1 DEF LInv, OneUnsetter
<1>4. unsetters' \in [Conn -> Nat]
  BY <1>1, <1>3 DEF LInv, ListenerTypeOK
<1> QED BY <1>1, <1>2, <1>4
        DEF Unset, LInv, ListenerTypeOK, MutexHeld, tunnelVars, loopVars

(* The tunnel changes nothing of the cache.                                *)
LEMMA TunnelKeepsCache ==
    ASSUME LInv, StreamsTypeOK, BindConn \/ ClearConn \/ Cancel \/ RunFails
    PROVE  LInv'
<1>1. UNCHANGED <<loopVars, chanVars>>
  BY DEF BindConn, ClearConn, Cancel, RunFails, Unlinked
<1>2. /\ active' \in Conn \cup {NoConn} /\ made' \in 0..MaxConn
      /\ cancelled' \in BOOLEAN
  <2>1. CASE BindConn
    BY <2>1, MaxConnAssumption DEF BindConn, Link!Bind, Conn, LInv, ListenerTypeOK
  <2>2. CASE ClearConn \/ Cancel \/ RunFails
    BY <2>2 DEF ClearConn, Link!Clear, Cancel, Link!Cancel, RunFails, LInv, ListenerTypeOK
  <2> QED BY <2>1, <2>2
<1> QED BY <1>1, <1>2
        DEF LInv, ListenerTypeOK, MutexHeld, OneUnsetter, loopVars, chanVars

-----------------------------------------------------------------------------
(* The packets under way.                                                  *)
LEMMA EncodeType ==
    ASSUME NEW stream \in [Conn -> Seq(Source)],
           \A d \in Conn : Len(stream[d]) <= Window,
           NEW stream2, NEW c \in Conn, NEW p \in Source,
           Len(stream[c]) < Window,
           stream2 = [stream EXCEPT ![c] = Append(@, p)]
    PROVE  /\ stream2 \in [Conn -> Seq(Source)]
           /\ \A d \in Conn : Len(stream2[d]) <= Window
<1>1. /\ Append(stream[c], p) \in Seq(Source)
      /\ Len(Append(stream[c], p)) = Len(stream[c]) + 1
      /\ Len(stream[c]) \in Nat
  OBVIOUS
<1> QED BY <1>1, Types

(* A packet that is decoded leaves the others.                             *)
LEMMA DecodeType ==
    ASSUME NEW stream \in [Conn -> Seq(Source)],
           \A d \in Conn : Len(stream[d]) <= Window,
           NEW stream2, NEW c \in Conn, stream[c] # <<>>,
           stream2 = [stream EXCEPT ![c] = Tail(@)]
    PROVE  /\ stream2 \in [Conn -> Seq(Source)]
           /\ \A d \in Conn : Len(stream2[d]) <= Window
           /\ Head(stream[c]) \in Source
<1>1. /\ Tail(stream[c]) \in Seq(Source) /\ Head(stream[c]) \in Source
      /\ Len(Tail(stream[c])) = Len(stream[c]) - 1
      /\ Len(stream[c]) \in Nat
  OBVIOUS
<1> QED BY <1>1, Types

-----------------------------------------------------------------------------
(* The far end.  A source is at hand from the decode to the write, and the *)
(* flow that is being counted is in the table with those it is counted     *)
(* among.  A table is finite, as it grows by one flow at a time.           *)
AtHand ==
    \A c \in Conn :
        /\ hpc[c] \in {"dial", "count", "write"} => hsrc[c] \in Source
        /\ hpc[c] = "count" => flow[c][hsrc[c]] = "fresh"

Readers(c) == {s \in Source : flow[c][s] \in {"reading", "ending"}}

TablesFinite == \A c \in Conn : IsFiniteSet(Table(c))

HInv == HandlerTypeOK /\ AtHand /\ TablesFinite /\ ReadersBounded

(* Readers are in the table.                                               *)
LEMMA ReadersInTable ==
    ASSUME NEW c \in Conn, IsFiniteSet(Table(c))
    PROVE  /\ IsFiniteSet(Readers(c))
           /\ Cardinality(Readers(c)) <= Cardinality(Table(c))
           /\ Cardinality(Readers(c)) \in Nat /\ Cardinality(Table(c)) \in Nat
<1>1. Readers(c) \in SUBSET Table(c)
  BY DEF Readers, Table
<1> QED BY <1>1, FS_Subset, FS_CardinalityType

(* What a step needs of the flows of the one channel it changes.           *)
LEMMA OneChannel ==
    ASSUME HInv, NEW c \in Conn, HandlerTypeOK', AtHand',
           \A d \in Conn : d # c => flow'[d] = flow[d],
           IsFiniteSet(Table(c)'),
           Cardinality(Readers(c)') <= MaxReaders
    PROVE  HInv'
<1>1. ASSUME NEW d \in Conn, d # c
      PROVE  Table(d)' = Table(d) /\ Readers(d)' = Readers(d)
  BY <1>1 DEF Table, Readers
<1> QED BY <1>1 DEF HInv, TablesFinite, ReadersBounded, Readers

(* A step that leaves every flow of a channel in its place in the table.   *)
LEMMA SameFlows ==
    ASSUME HInv, HandlerTypeOK', AtHand', flow' = flow
    PROVE  HInv'
BY DEF HInv, TablesFinite, ReadersBounded, Table

(* The handler reads a packet: its source is at hand.                      *)
LEMMA DecodeKeeps ==
    ASSUME HInv, StreamsTypeOK, NEW c \in Conn, HandlerDecode(c)
    PROVE  HInv'
<1>1. Head(there[c]) \in Source
  BY DecodeType DEF HandlerDecode, Decode, StreamsTypeOK
<1>2. HandlerTypeOK' /\ AtHand' /\ flow' = flow
  BY <1>1 DEF HandlerDecode, HandlerGoTo, HInv, HandlerTypeOK, AtHand
<1> QED BY <1>2, SameFlows

(* It dials for a source, or finds the socket.                             *)
LEMMA DialKeeps ==
    ASSUME HInv, NEW c \in Conn, Dial(c)
    PROVE  HInv'
<1> DEFINE s == hsrc[c]
<1>1. s \in Source /\ hpc[c] = "dial"
  BY DEF Dial, HInv, AtHand
<1>2. CASE flow[c][s] = "none"
  <2>1. /\ flow' = [flow EXCEPT ![c][s] = "fresh"]
        /\ hpc' = [hpc EXCEPT ![c] = "count"] /\ hsrc' = hsrc
    BY <1>2 DEF Dial, SetFlow, HandlerGoTo
  <2>2. HandlerTypeOK' /\ AtHand'
    BY <1>1, <2>1 DEF HInv, HandlerTypeOK, AtHand
  <2>3. Table(c)' = Table(c) \cup {s}
    BY <1>1, <2>1 DEF Table, HInv, HandlerTypeOK
  <2>4. Readers(c)' = Readers(c)
    BY <1>1, <1>2, <2>1 DEF Readers, HInv, HandlerTypeOK
  <2>5. IsFiniteSet(Table(c)')
    BY <2>3, FS_AddElement DEF HInv, TablesFinite
  <2>6. \A d \in Conn : d # c => flow'[d] = flow[d]
    BY <2>1 DEF HInv, HandlerTypeOK
  <2> QED BY <2>2, <2>4, <2>5, <2>6, OneChannel DEF HInv, ReadersBounded, Readers
<1>3. CASE flow[c][s] # "none"
  <2>1. hpc' = [hpc EXCEPT ![c] = "write"] /\ hsrc' = hsrc /\ flow' = flow
    BY <1>3 DEF Dial, HandlerGoTo
  <2>2. HandlerTypeOK' /\ AtHand'
    BY <1>1, <2>1 DEF HInv, HandlerTypeOK, AtHand
  <2> QED BY <2>1, <2>2, SameFlows
<1> QED BY <1>2, <1>3

(* The count includes the new flow: with it the readers are no more than   *)
(* the flows of the table, and those no more than MaxReaders.              *)
LEMMA StartReaderKeeps ==
    ASSUME HInv, NEW c \in Conn, StartReader(c)
    PROVE  HInv'
<1> DEFINE s == hsrc[c]
           state == IF Cardinality(Table(c)) <= MaxReaders THEN "reading" ELSE "unread"
<1>1. s \in Source /\ hpc[c] = "count" /\ flow[c][s] = "fresh"
  BY DEF StartReader, HInv, AtHand
<1>2. /\ flow' = [flow EXCEPT ![c][s] = state]
      /\ hpc' = [hpc EXCEPT ![c] = "write"] /\ hsrc' = hsrc
  BY DEF StartReader, SetFlow, HandlerGoTo
<1>3. state \in {"reading", "unread"}
  OBVIOUS
<1>4. HandlerTypeOK' /\ AtHand'
  BY <1>1, <1>2, <1>3 DEF HInv, HandlerTypeOK, AtHand
<1>5. Table(c)' = Table(c)
  BY <1>1, <1>2, <1>3 DEF Table, HInv, HandlerTypeOK
<1>6. IsFiniteSet(Table(c)) /\ IsFiniteSet(Table(c)')
  BY <1>5 DEF HInv, TablesFinite
<1>7. \A d \in Conn : d # c => flow'[d] = flow[d]
  BY <1>2 DEF HInv, HandlerTypeOK
<1>8. Cardinality(Readers(c)') <= MaxReaders
  <2>1. CASE Cardinality(Table(c)) <= MaxReaders
    <3>1. Readers(c)' \in SUBSET Table(c)
      BY <1>5 DEF Readers, Table
    <3>2. /\ Cardinality(Readers(c)') <= Cardinality(Table(c))
          /\ Cardinality(Readers(c)') \in Nat /\ Cardinality(Table(c)) \in Nat
      BY <1>6, <3>1, FS_Subset, FS_CardinalityType
    <3> QED BY <2>1, <3>2, MaxReadersAssumption
  <2>2. CASE ~(Cardinality(Table(c)) <= MaxReaders)
    <3>1. Readers(c)' = Readers(c)
      BY <1>1, <1>2, <2>2 DEF Readers, HInv, HandlerTypeOK
    <3> QED BY <3>1 DEF HInv, ReadersBounded, Readers
  <2> QED BY <2>1, <2>2
<1> QED BY <1>4, <1>6, <1>7, <1>8, OneChannel

(* It writes to the socket.                                                *)
LEMMA WriteKeeps ==
    ASSUME HInv, NEW c \in Conn, Write(c)
    PROVE  HInv'
<1>1. HandlerTypeOK' /\ AtHand' /\ flow' = flow
  BY DEF Write, HandlerGoTo, Forget, HInv, HandlerTypeOK, AtHand
<1> QED BY <1>1, SameFlows

(* It returns, and forgets its sockets.                                    *)
LEMMA ReturnKeeps ==
    ASSUME HInv, NEW c \in Conn, HandlerReturns(c)
    PROVE  HInv'
<1>1. /\ flow' = [flow EXCEPT ![c] = NoFlows]
      /\ hpc' = [hpc EXCEPT ![c] = "returned"]
      /\ hsrc' = [hsrc EXCEPT ![c] = NoSource]
  BY DEF HandlerReturns, HandlerGoTo, Forget
<1>2. HandlerTypeOK' /\ AtHand'
  BY <1>1 DEF HInv, HandlerTypeOK, AtHand, NoFlows
<1>3. Table(c)' = {} /\ Readers(c)' = {}
  BY <1>1 DEF HInv, HandlerTypeOK, Table, Readers, NoFlows
<1>4. \A d \in Conn : d # c => flow'[d] = flow[d]
  BY <1>1 DEF HInv, HandlerTypeOK
<1> QED BY <1>2, <1>3, <1>4, OneChannel, FS_EmptySet, MaxReadersAssumption

(* A reader ends, and removes its socket.                                  *)
LEMMA ReaderKeeps ==
    ASSUME HInv, NEW c \in Conn, NEW s \in Source, ReaderStops(c, s) \/ Remove(c, s)
    PROVE  HInv'
<1>1. PICK state \in {"ending", "none"} :
         /\ flow' = [flow EXCEPT ![c][s] = state]
         /\ flow[c][s] \in {"reading", "ending"}
         /\ hpc' = hpc /\ hsrc' = hsrc
  BY DEF ReaderStops, Remove, SetFlow
<1>2. HandlerTypeOK' /\ AtHand'
  BY <1>1 DEF HInv, HandlerTypeOK, AtHand
<1>3. Table(c)' \in SUBSET Table(c) /\ Readers(c)' \in SUBSET Readers(c)
  BY <1>1 DEF HInv, HandlerTypeOK, Table, Readers
<1>4. /\ IsFiniteSet(Table(c)) /\ IsFiniteSet(Readers(c))
      /\ Cardinality(Readers(c)) \in Nat /\ Cardinality(Readers(c)) <= MaxReaders
  BY ReadersInTable DEF HInv, TablesFinite, ReadersBounded, Readers
<1>5. /\ IsFiniteSet(Table(c)') /\ Cardinality(Readers(c)') <= Cardinality(Readers(c))
      /\ Cardinality(Readers(c)') \in Nat
  BY <1>3, <1>4, FS_Subset, FS_CardinalityType
<1>6. Cardinality(Readers(c)') <= MaxReaders
  BY <1>4, <1>5, MaxReadersAssumption
<1>7. \A d \in Conn : d # c => flow'[d] = flow[d]
  BY <1>1 DEF HInv, HandlerTypeOK
<1> QED BY <1>2, <1>5, <1>6, <1>7, OneChannel

-----------------------------------------------------------------------------
(* What is under way.  A packet goes to the far end.                       *)
LEMMA OutKeepsStreams ==
    ASSUME StreamsTypeOK, NEW c \in Conn, UNCHANGED <<up, shut, back, traffic>>,
           Decode(there, c) \/ \E p \in Source : Encode(there, c, p)
    PROVE  StreamsTypeOK'
<1>1. /\ there' \in [Conn -> Seq(Source)]
      /\ \A d \in Conn : Len(there'[d]) <= Window
  BY EncodeType, DecodeType DEF StreamsTypeOK, Encode, Decode
<1> QED BY <1>1 DEF StreamsTypeOK

(* A packet comes back.                                                    *)
LEMMA BackKeepsStreams ==
    ASSUME StreamsTypeOK, NEW c \in Conn, UNCHANGED <<up, shut, there, traffic>>,
           Decode(back, c) \/ \E s \in Source : Encode(back, c, s)
    PROVE  StreamsTypeOK'
<1>1. /\ back' \in [Conn -> Seq(Source)]
      /\ \A d \in Conn : Len(back'[d]) <= Window
  BY EncodeType, DecodeType DEF StreamsTypeOK, Encode, Decode
<1> QED BY <1>1 DEF StreamsTypeOK

(* The steps of the far end.                                               *)
LEMMA FarKeepsStreams ==
    ASSUME StreamsTypeOK, NEW c \in Conn,
           Far(c) \/ \E s \in Source : FarReader(c, s)
    PROVE  StreamsTypeOK'
<1>1. CASE HandlerDecode(c)
  BY <1>1, OutKeepsStreams DEF HandlerDecode
<1>2. CASE HandlerReturns(c)
  <2>1. <<>> \in Seq(Source) /\ Len(<<>>) <= Window
    BY WindowAssumption
  <2> QED BY <1>2, <2>1 DEF HandlerReturns, StreamsTypeOK
<1>3. ASSUME NEW s \in Source, Reply(c, s) PROVE StreamsTypeOK'
  BY <1>3, BackKeepsStreams DEF Reply
<1>4. CASE \/ Dial(c) \/ StartReader(c) \/ Write(c)
           \/ \E s \in Source : ReaderStops(c, s) \/ Remove(c, s)
  BY <1>4 DEF Dial, StartReader, Write, ReaderStops, Remove, streamVars,
              StreamsTypeOK
<1> QED BY <1>1, <1>2, <1>3, <1>4 DEF Far, FarReader

(* The steps of the near end.                                              *)
LEMMA NearKeepsStreams ==
    ASSUME StreamsTypeOK, ListenerTypeOK,
           \/ \E l \in Loop : \/ Top(l) \/ Get(l) \/ GetSSH(l) \/ Nil(l)
                              \/ OpenFails(l) \/ OpenChannel(l) \/ SocketFails(l)
           \/ InboundEncode \/ InboundEOF \/ OutboundDecode \/ OutboundEOF
           \/ \E c \in Conn : Unset(c)
           \/ RunFails
    PROVE  StreamsTypeOK'
<1>1. ASSUME NEW l \in Loop, Top(l) PROVE StreamsTypeOK'
  <2>1. traffic' \in 0..MaxTraffic
    BY <1>1, WindowAssumption DEF Top, Datagram, StreamsTypeOK
  <2> QED BY <1>1, <2>1 DEF Top, StreamsTypeOK
<1>2. CASE InboundEncode
  BY <1>2, OutKeepsStreams DEF InboundEncode, ListenerTypeOK, Loop
<1>3. CASE OutboundDecode
  BY <1>3, BackKeepsStreams DEF OutboundDecode, ListenerTypeOK, Loop
<1>4. ASSUME \/ \E l \in Loop : \/ Get(l) \/ GetSSH(l) \/ Nil(l)
                                \/ OpenFails(l) \/ OpenChannel(l) \/ SocketFails(l)
             \/ InboundEOF \/ OutboundEOF \/ RunFails
             \/ \E c \in Conn : Unset(c)
      PROVE  UNCHANGED streamVars
  BY <1>4 DEF Get, GetSSH, Nil, OpenFails, OpenChannel, SocketFails, InboundEOF,
              OutboundEOF, RunFails, Unset
<1> QED BY <1>1, <1>2, <1>3, <1>4 DEF streamVars, StreamsTypeOK

(* The connections under the streams.                                      *)
LEMMA ConnKeepsStreams ==
    ASSUME StreamsTypeOK, ListenerTypeOK,
           BindConn \/ ClearConn \/ Cancel \/ \E c \in Conn : LoseConn(c)
    PROVE  StreamsTypeOK'
<1>1. CASE BindConn
  <2>1. made' \in Conn
    BY <1>1, MaxConnAssumption DEF BindConn, Link!Bind, Conn, ListenerTypeOK
  <2>2. up' \subseteq Conn /\ UNCHANGED <<shut, there, back, traffic>>
    BY <1>1, <2>1 DEF BindConn, Link!Bind, StreamsTypeOK
  <2> QED BY <2>2 DEF StreamsTypeOK
<1>2. CASE ClearConn \/ Cancel \/ \E c \in Conn : LoseConn(c)
  BY <1>2 DEF ClearConn, Cancel, LoseConn, Link!Clear, Link!Cancel, Link!Lose,
              StreamsTypeOK
<1> QED BY <1>1, <1>2

-----------------------------------------------------------------------------
(* All together.                                                           *)
UInv == StreamsTypeOK /\ LInv /\ HInv

(* A channel that is opened starts a handler without sockets.              *)
LEMMA OpenKeepsHandler ==
    ASSUME UInv, NEW l \in Loop, Open(l)
    PROVE  HInv'
<1>1. using[l] \in Conn
  BY DEF Open, OpenChannel, UInv, LInv, ListenerTypeOK
<1>2. HandlerTypeOK' /\ AtHand' /\ flow' = flow
  BY <1>1 DEF Open, UInv, HInv, HandlerTypeOK, AtHand
<1> QED BY <1>2, SameFlows DEF UInv

(* Every step keeps the invariant.                                         *)
LEMMA UdpStep ==
    ASSUME UInv, [Next]_vars
    PROVE  UInv'
<1>1. ASSUME listenerVars' = listenerVars PROVE LInv'
  BY <1>1 DEF UInv, LInv, ListenerTypeOK, MutexHeld, OneUnsetter, listenerVars,
              tunnelVars, loopVars, chanVars
<1>2. ASSUME handlerVars' = handlerVars PROVE HInv'
  <2>1. hpc' = hpc /\ hsrc' = hsrc /\ flow' = flow
    BY <1>2 DEF handlerVars
  <2>2. HandlerTypeOK' /\ AtHand'
    BY <2>1 DEF UInv, HInv, HandlerTypeOK, AtHand
  <2> QED BY <2>1, <2>2, SameFlows DEF UInv
<1>3. CASE BindConn \/ ClearConn \/ Cancel
  <2>1. StreamsTypeOK' /\ LInv'
    BY <1>3, ConnKeepsStreams, TunnelKeepsCache DEF UInv, StreamsTypeOK, LInv
  <2>2. handlerVars' = handlerVars
    BY <1>3 DEF BindConn, ClearConn, Cancel, Unlinked
  <2> QED BY <1>2, <2>1, <2>2 DEF UInv
<1>4. ASSUME NEW c \in Conn, LoseConn(c) PROVE UInv'
  <2>1. StreamsTypeOK' /\ listenerVars' = listenerVars /\ handlerVars' = handlerVars
    BY <1>4, ConnKeepsStreams
       DEF LoseConn, Link!Lose, Unlinked, listenerVars, tunnelVars, UInv, LInv
  <2> QED BY <1>1, <1>2, <2>1 DEF UInv
<1>5. ASSUME NEW l \in Loop, Open(l) PROVE UInv'
  <2>1. OpenChannel(l)
    BY <1>5 DEF Open
  <2>2. StreamsTypeOK' /\ LInv'
    BY <2>1, NearKeepsStreams, NearKeepsCache DEF UInv, LInv
  <2> QED BY <1>5, <2>2, OpenKeepsHandler DEF UInv
<1>6. ASSUME \/ \E l \in Loop : Top(l) \/ Get(l) \/ GetSSH(l) \/ GetCancelled(l)
                                 \/ OpenFails(l) \/ GetNothing(l) \/ SocketFails(l)
             \/ InboundEncode \/ InboundEOF \/ OutboundDecode \/ OutboundEOF
             \/ \E c \in Conn : Unset(c)
             \/ RunFails,
             UNCHANGED handlerVars
      PROVE  UInv'
  <2>1. StreamsTypeOK'
    BY <1>6, NearKeepsStreams DEF UInv, LInv, GetCancelled, GetNothing
  <2>2. LInv'
    <3>1. CASE \E l \in Loop : Top(l) \/ Get(l) \/ GetSSH(l) \/ GetCancelled(l)
                                 \/ OpenFails(l) \/ GetNothing(l) \/ SocketFails(l)
      BY <3>1, NearKeepsCache DEF UInv, GetCancelled, GetNothing
    <3>2. CASE InboundEncode \/ InboundEOF \/ OutboundDecode \/ OutboundEOF
      BY <3>2, UseKeepsCache DEF UInv
    <3>3. CASE \E c \in Conn : Unset(c)
      BY <3>3, UnsetKeepsCache DEF UInv
    <3>4. CASE RunFails
      BY <3>4, TunnelKeepsCache DEF UInv, StreamsTypeOK
    <3> QED BY <1>6, <3>1, <3>2, <3>3, <3>4
  <2> QED BY <1>2, <1>6, <2>1, <2>2 DEF UInv
<1>7. ASSUME NEW c \in Conn, Far(c) \/ \E s \in Source : FarReader(c, s),
             UNCHANGED listenerVars
      PROVE  UInv'
  <2>1. StreamsTypeOK'
    BY <1>7, FarKeepsStreams DEF UInv
  <2>2. HInv'
    <3>1. CASE Far(c)
      BY <3>1, DecodeKeeps, DialKeeps, StartReaderKeeps, WriteKeeps, ReturnKeeps
         DEF Far, UInv, StreamsTypeOK
    <3>2. ASSUME NEW s \in Source, Reply(c, s) PROVE HInv'
      BY <1>2, <3>2 DEF Reply
    <3>3. ASSUME NEW s \in Source, ReaderStops(c, s) \/ Remove(c, s) PROVE HInv'
      BY <3>3, ReaderKeeps DEF UInv
    <3> QED BY <1>7, <3>1, <3>2, <3>3 DEF FarReader
  <2> QED BY <1>1, <1>7, <2>1, <2>2 DEF UInv
<1>8. CASE UNCHANGED vars
  <2>1. StreamsTypeOK'
    BY <1>8 DEF vars, streamVars, UInv, StreamsTypeOK
  <2> QED BY <1>1, <1>2, <1>8, <2>1 DEF vars, UInv
<1>9. Loop = {"inbound", "outbound"}
  BY DEF Loop
<1> QED BY <1>3, <1>4, <1>5, <1>6, <1>7, <1>8, <1>9
        DEF Next, NearInbound, NearOutbound, Near

(* The invariant holds throughout.                                         *)
LEMMA UdpInv == Spec => []UInv
<1>1. ASSUME Init PROVE UInv
  <2>1. StreamsTypeOK
    BY <1>1, WindowAssumption DEF Init, StreamsInit, StreamsTypeOK
  <2>2. LInv
    <3>1. ListenerTypeOK
      <4>1. /\ active \in Conn \cup {NoConn} /\ cancelled \in BOOLEAN
            /\ mutex \in Loop \cup {Nobody} /\ outbound \in Conn \cup {NoConn}
        BY <1>1 DEF Init, ListenerInit
      <4>2. made \in 0..MaxConn
        BY <1>1, MaxConnAssumption DEF Init, ListenerInit
      <4>3. unsetters \in [Conn -> Nat]
        BY <1>1 DEF Init, ListenerInit
      <4>4. /\ pc \in [Loop -> {"top", "get", "ssh", "open", "use", "ended", "failed"}]
            /\ using \in [Loop -> Conn \cup {NoConn}]
            /\ \A l \in Loop : pc[l] \in {"open", "use"} <=> using[l] \in Conn
        BY <1>1, Types DEF Init, ListenerInit
      <4> QED BY <4>1, <4>2, <4>3, <4>4 DEF ListenerTypeOK
    <3>2. MutexHeld /\ OneUnsetter
      BY <1>1, NobodyAssumption, Types DEF Init, ListenerInit, MutexHeld, OneUnsetter
    <3> QED BY <3>1, <3>2 DEF LInv
  <2>3. HandlerTypeOK /\ AtHand
    BY <1>1 DEF Init, HandlerInit, HandlerTypeOK, AtHand, NoFlows
  <2>4. \A c \in Conn : Table(c) = {} /\ Readers(c) = {}
    BY <1>1 DEF Init, HandlerInit, Table, Readers, NoFlows
  <2>5. \A c \in Conn : IsFiniteSet(Table(c)) /\ Cardinality(Readers(c)) <= MaxReaders
    BY <2>4, FS_EmptySet, MaxReadersAssumption
  <2>6. TablesFinite /\ ReadersBounded
    BY <2>5 DEF TablesFinite, ReadersBounded, Readers
  <2> QED BY <2>1, <2>2, <2>3, <2>6 DEF UInv, HInv
<1> QED BY <1>1, UdpStep, PTL DEF Spec

-----------------------------------------------------------------------------
(* The variables of both ends keep their types.                            *)
THEOREM UdpTypeCorrect == Spec => []TypeOK
<1>1. UInv => TypeOK
  BY DEF UInv, StreamsTypeOK, LInv, HInv, TypeOK
<1> QED BY <1>1, UdpInv, PTL

(* A late unsetUDPChan of an old connection never takes away the channel   *)
(* of a newer one, and every cached channel has one that will clear it.    *)
THEOREM CacheHasOneUnsetter == Spec => []OneUnsetter
<1>1. UInv => OneUnsetter
  BY DEF UInv, LInv
<1> QED BY <1>1, UdpInv, PTL

(* A far handler never runs more readers than the limit, although it looks *)
(* at the table in separate critical sections.                             *)
THEOREM ReadersAlwaysBounded == Spec => []ReadersBounded
<1>1. UInv => ReadersBounded
  BY DEF UInv, HInv
<1> QED BY <1>1, UdpInv, PTL
=============================================================================
