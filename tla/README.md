# A TLA+ development of cotun

cotun carries TCP, UDP and SOCKS5 traffic through one websocket, secured with
SSH. It is a fork of a known tunnel of the same design, to which it adds an
allocator of ports: a control plane by which clients reserve a mapping port of
the server, keep it across disconnections, and lose it when they do not use it.

This directory holds TLA+ modules translated from the Go code in `src/`, TLC
configurations that check them on small instances, and proofs about them for
every value of their constants. `PROJECT.json` maps every definition that
models code to the lines it stands for, and lists the runs, the mutants of the
code each property rejects, the hazards and the theorems.

- [The system](#the-system)
- [The modules](#the-modules)
- [The runs](#the-runs)
- [Fairness](#fairness)
- [Disagreements found](#disagreements-found)
- [What is proved](#what-is-proved)
- [What is not modelled](#what-is-not-modelled)
- [Plan](#plan)

## The system

### Components

**Port allocator** (`server/port_allocator.go`, `port_allocation.go`). State: two
maps, `names` (by `clientId-userId-appName`) and `ports` (by mapping port), of
pointers to the same records `PortAllocation`; a record has a status (freed,
allocated, connected), the two ports, the identity and `AllocTime`; `pa.mu`
protects the maps. Operations: `AllocatePort` (POST), `OnConnected` (a session
starts; it hands the pointer out), `OnDisconnected` (nobody calls it),
`FreePort` (DELETE; with an empty name it is a wildcard, which the handler
refuses), `FreeHangingPorts` (the timer), `LookupPort`, `QueryPorts`. Hard: the
pointer is read and written without the mutex after `OnConnected`; the key is
a string join; slots are recycled; everything is lost on a restart. Correct
when the maps agree, a port is promised to one key, a key keeps its port while
it is live or fresh, and an unused reservation ends.

**Server sessions** (`server/server_handler.go`, `server.go`). One goroutine per
websocket: upgrade, SSH handshake, `config` request, the loop over the remotes
(`handleRemote`, then access, `--reverse` and `CanListen`), a tunnel with
`BindSSH` and `BindRemotes` in one errgroup, the final write of the status.
Beside them the control plane and `RunFreeHangingTimer`. Hard: sessions
interleave with each other, with POST, DELETE and the timer between any two of
these steps; a session may fail after it took a record; listening ports are a
resource of their own that the allocator knows nothing of.

**Tunnel** (`share/tunnel/tunnel.go`, `wg.go`). State: `activeConn` under a
RWMutex, and `activatingConn`, a wait group made of an atomic `n` and a
`sync.WaitGroup`. `BindSSH` binds one connection, starts a watcher that closes
it when the context ends, waits and unbinds; `getSSH`, called by every proxy,
answers the active connection or waits for one (35 s at most, or until the
context ends). Hard: `Add`, `Done` and `DoneAll` write their two counters one
after the other from different goroutines. Correct when no count is lost, a
waiter is served when a connection comes, and a cancellation ends everyone.

**Client** (`client/client.go`, `client_connect.go`). `connectionLoop` dials,
binds and retries with a backoff, a context for each connection and one for
all. Hard: losses, retries, giving up and `Close` at any moment.

**Inbound proxies** (`share/tunnel/tunnel_in_proxy.go`, `tunnel_in_proxy_udp.go`).
One per remote: a TCP listener with a goroutine (`pipeRemote`) for each user, the
standard input and output, or a UDP socket whose two loops share one
cached SSH channel under `outboundMut`; a goroutine per channel clears the cache
when the connection is gone. Hard: `getSSH`, the opening of a channel and the
copies each meet losses and cancellations; the mutex is held through `getSSH`; a
cached channel is stale for a while; clearing may come late.

**Pipe** (`share/cio/pipe.go`, `stdio.go`). Two goroutines that copy, one for each
direction; the first that ends closes both ends, and `Pipe` waits for both.
Correct when one end's closing reaches the other, when what was sent before an
orderly end arrives, and when no goroutine is left behind. Hard: the close of
one direction cuts the other; two pipes and a channel lie between the two ends.

**Outbound side** (`tunnel_out_ssh.go`, `tunnel_out_ssh_udp.go`). Accepts the
channels of the other end and dials the target, or gives the channel to the
socks server; a TCP channel has a pipe, a UDP channel has a table of sockets, one for each
source, with at most 100 readers that end on a deadline. Hard: the table is
locked for each step and not across them.

**Users** (`share/settings/users.go`, `user.go`, with `authUser` in
`server.go`). The index of users, loaded from a file that is watched and
reloaded; a table from SSH session to user, which the password callback fills
and the session empties. Hard: callback and session read the index at two
moments, and a reload may come between them.

**Remotes** (`share/settings/remote.go`). `DecodeRemote` reads
`[R:][host:]port[:host:port][/udp]` and its short forms from back to front;
`Local`, `Remote`, `Encode` and `UserAddr` write it again.

**The rest**: `cnet` (websocket as `net.Conn`, HTTP server with graceful close,
meters), TLS listeners, keys, command lines, loggers. See [below](#what-is-not-modelled).

### How they interact

A client's `connectionLoop` dials; the server's `handleWebsocket` authenticates it
(Users), reads its remotes (Remotes), takes a record for each reverse one (Port
allocator), checks access and binds a Tunnel. On either end the Tunnel hands
the connection to its inbound proxies through `getSSH` and gives the channels it
accepts to the outbound side; both put a Pipe on their end of the channel. The control plane and the timer change the
allocator's records under the sessions that hold pointers to them.

## The modules

| module | models | builds on |
|---|---|---|
| `PortLease` | what the allocator promises: leases of ports to keys | |
| `PortAllocator` | the port allocator | `PortLease` (refinement mapping) |
| `Server` | sessions, control plane, timer, restarts, listening ports | `PortAllocator` |
| `Tunnel` | `BindSSH`, `getSSH`, wait group | |
| `Link` | what `BindSSH` promises to the proxies: connections one after the other | |
| `Endpoint` | the client's loop or the server's session around a tunnel | `Tunnel`, `Link` (refinement mapping) |
| `UdpStreams` | connections, channels and gob streams of a UDP remote | |
| `UdpListener` | the near end of a UDP remote | `UdpStreams` |
| `UdpHandler` | the far end | `UdpStreams` |
| `Udp` | both ends and the connections under them | `UdpListener`, `UdpHandler`, `Link` (its actions) |
| `Remote` | decoding, encoding and checking of remotes (no state) | |
| `Auth` | users, reloads, callback, lookup, check of remotes | `Remote` |
| `Pipe` | the two pipes of a forwarded connection and the channel between them | |
| `Forward` | a TCP or stdio remote from the accept to the end of both pipes | `Pipe` |
| `PortAllocatorProofs`, `LeaseProofs` | proofs about `PortAllocator` and its leases | `PortAllocator`, TLAPS |
| `ServerProofs`, `SessionProofs` | proofs about `Server` | `Server`, `LeaseProofs` |
| `EndpointProofs`, `UdpProofs`, `AuthProofs`, `ForwardProofs` | proofs about the module named | that module, TLAPS |
| `MC...` | constants and views for TLC | the module named |

**PortAllocator.** A record is a cell of `heap`, so that two maps and any number of
sessions can hold one pointer; `handle[s]` is the pointer session `s` got from
`OnConnected`. Each operation that holds `pa.mu` is one action. `Detach` is
the last statement of `handleWebsocket`, a write without the mutex. `new` may
return any address that no pointer reaches. A name is a sequence of parts
between dashes and a key the concatenation, so that keys collide as they do in
the code. `age` is the time since `AllocTime`, in ticks, cut off past `Hold`.
`AllocNext` is what the server does with the type; `ApiNext` adds the wildcard
`FreePort` and `OnDisconnected`. Reservations without an identity do not exist:
POST requires all three names.

**PortLease** is the abstract specification: `lease[k]` is the set of at most one
lease of key `k`; leases are granted at free ports, renewed, made live or not,
cancelled, and expire when they are overdue. `PortAllocator!Leasing` maps
`names` and the records they point to, to leases.

**Server** extends the allocator with `pc`, `request`, `at` (which remote), `linked`
(the connection is up), and `bound` (who listens on which port). The loop over
the remotes alternates `Apply`/`PassOver`/`ApplyFails` with
`CheckPasses`/`CheckFails`; `BindRemotes` is `Listen` for each remote or
`ListenFails`, for whatever reason, after which nothing refers to the listeners
opened before (`Leaked`, until the collector closes them, `Finalize`). `AcceptFails` is
an `Accept` that fails by itself: `runTCP` closes `done`, which sends the goroutine that
would close the listener home, and the listener may outlive its session. The other
listeners are closed at the end of the connection (`CloseListener`), before
`EndSession`. `Crash` is a restart. `quiet` is a
history variable for one property. Host and protocol of a remote do not
appear: a port is taken or not. The port is what `Atoi` makes of the client's string,
0 if it cannot read it, and 0 is in the way of nobody.

**Tunnel** has the grain of the atomic operations: `Done` is `DoneLoad`, `DoneSwap`
(the compare-and-swap), `DoneCount`; `Add(1)` is `AddSelf` and `AddInner`. Three
kinds of goroutines: the binder that calls `BindSSH`, one watcher for each
connection, and getters (calls of `getSSH`) with the goroutine that sleeps in
`Wait` for them. `sync.WaitGroup` is external: a counter, sleeping waiters,
and the two misuses it panics on (a negative counter; a group used again before
its waiters have returned). Both panics are reachable: `DoneAll` of a watcher
can run between the two writes of `Add`. `panicked` ends the behaviour, since the
process is gone. No statement in the repository denies this, so it is described
here rather than presented as a refuted claim; the liveness properties name
`panicked` as a way to end, and *PanicOnlyByRace* says that nothing but these two
races brings it about.

**Endpoint** puts the tunnel under `connectionLoop` (role client) or under a server's
session (role server), with the context each passes to `BindSSH`. A dial is the
websocket dial, the handshake and the config request. The `lasted` of
`Disconnected` is whether the connection lasted more than five seconds.

**Link** is the abstract specification of the hand-over: `active`, `made`, `up` and
`cancelled`, with the actions `Bind`, `Lose`, `Clear` and `Cancel`. Two things in it
are easy to get wrong: a connection can become active after the context is
cancelled, since `BindSSH` does not look at it before it marks the connection; and
the connection may be lost already at that moment. `Endpoint!Link` maps to it: a
connection counts as made when `SetActive` marks it (`Marked`), and is not seen
before (`Usable`); the wait group, the watchers and the loops are stutters.

**UdpStreams, UdpListener, UdpHandler, Udp.** A connection carries at most one channel
of the remote, a queue of at most `Window` packets each way. The
connections come and go by the actions of `Link`, which `Endpoint` implements: there
is an active one, none, or an active one that is lost already; `getSSH` may answer
nil. A read or write on a channel that
has ended is `EOF`, which the loops ignore, or an error that does not end in
"EOF", which ends them; the latter only of a lost connection.
`UdpHandler` has, for each source, the state of its flow: no socket, dialed and
not counted, without a reader, read, ending.

**Pipe, Forward.** Data are chunks, counted at six points between the program that
writes them and the one that receives them; a pipe's copy is `Read`, `Write` and
`CopyEnds`, and a copy may hold one chunk that it has read and not written. Sockets
and channels are the libraries': a channel that is closed still yields what has
arrived on it, a socket that was closed does not, and a socket written to after
its owner has gone is reset. `Forward` puts `runTCP`, `runStdio`,
`pipeRemote` and `handleSSHChannel` around the two pipes, and the loss of the
connection or a cancellation at any moment. Users of one listener share only a
counter, so there is one; a stdio remote calls `pipeRemote` again and again, which is
`CallAgain`. One simplification: the next call waits until the handler of the last one
has ended (or rejected its channel), so that there is one handler at a time. Two things
the code does are visible here and contradict nothing it
says: `runStdio` calls again at once, without a pause, when `pipeRemote` has
returned for want of a connection; and `runTCP`, when `Accept` fails by itself,
leaves its listener open (the listener is in `Server`, and nothing here looks at it).

**Remote** decodes a text, which is a prefix and the parts between colons; a part is
a word, out of which `L4Proto` takes the protocol at its end. `L4Proto` is a constant
function on words, and what it leaves may end in a protocol again: it takes one off
each time a text is read. `Taken` is the loop from back to
front, unrolled: `DecodeRemote` refuses a text of more than four parts before it
enters the loop, so `TakePart` runs four times at most. No module of the project
declares a RECURSIVE operator. `Encode` puts `/udp` behind the last part, as a word, and
its parts are decoded like any others. `Written` is what a printed text is when it is
read again: one whose first part is `R` has the prefix of a reverse remote.

**Auth** starts with `NewServer` (load, watch, `--auth`); anybody may write the
file or put another in its place (which the watch, being on the file, does not
see); the watch goroutine reads and then swaps. A session is connect, callback
(two reads of the index), lookup (one read), taking the entry, and one check per
remote. The server does not decode remotes: it takes the records of the config as they
are (`server_handler.go:106`) and compares their `UserAddr`, so the addresses that are
checked are a constant, `Addr`, and need not be those of decoded remotes. It compares
nothing else: what a client asks for in a channel's extra data goes to the dial
or to the socks server without a look at the user (`tunnel_out_ssh.go:39-67`), so what
the model says of access is about the remotes of the config. A connection that is lost
after the callback and before the handshake is over (`HandshakeLost`) leaves its entry
in the table of sessions for ever; *TableEmptied* is about the sessions that
get further. `loaded` and `opened` are history variables.

## The runs

Each run is TLC on the configuration of its name, with `-workers 2`. Bounds are
constants of the configurations.

| run | question | distinct states, time |
|---|---|---|
| `PortAllocator` | whole interface of the allocator; do reservations end | 23 978, 20 s |
| `Server` | sessions, control plane, timer, restarts; refinement | 130 664, 46 s |
| `ServerLive` | lists of two remotes; does a lost session end | 147 506, 46 s |
| `Endpoint` | wait group, hand-over, panics, end; refinement | 82 022, 12 s |
| `Udp` | UDP remote, both ends | 232 221, 47 s |
| `Auth` | users, reload, remotes | 88 687, 100 s |
| `Forward` | TCP and stdio remotes, both ends | 488 010, 53 s |
| `ServerKept`, `EndpointNoBlock`, `AuthPanic`, `UdpEnded`, `ForwardStdio` | one statement each, refuted | seconds |

**PortAllocator.** Three identities of which two have one key, two client ports,
mapping ports 1..3 with the pool 1..1, four records, one session, `Hold = 1`.
Four records are those in the maps, the one the session still holds after its
deletion, and a recycled one (sessions that interleave are in `Server`); two identities with one key make collision and
difference both happen; with a pool of one port it is exhausted and its freed
slot recycled, and the other ports lie outside it. *IndexSound* (each entry is under the
key and the port of its record, and what `ports` knows `names` knows) holds for the whole
interface; it does not say that every key owns its port, which a `FreePort` with an empty
name undoes, *OperationsKeepLeases* says what each operation
does to the leases as long as the maps agree, *HangingEnds* that an unused
reservation ends. The view takes addresses as anonymous (a state is the bag of
what the addresses stand for): the actions and properties use addresses only
through equality, so they are symmetric, and the view is what a symmetry set
would be, made cheaper by ignoring unreachable records.

**Server.** Two identities with different keys and clients without identity, a pool
of two ports, sessions that ask for one port of it while the control plane grants
both, two sessions, four records, `Hold = 0` (a record is overdue at the first tick).
Two identities and two sessions at one port are what a takeover needs; the second
port lets the other client be granted something meanwhile.
*SessionHoldsItsRecord* and *ListenersHaveSession* say what the steps of a session have
established when it serves, *TablesAgree* that the two maps do. *NoTakeover* is about
records: a client that names itself gets none for a port of another key's record. It says
nothing of who listens there. *StatusKeptWhileHeld* lists all that can take the
status from a record a session holds: a POST or DELETE of its key, and the end of another
session on the same record, which the code does not prevent. Two refinements:
*AllocSpec* (every step of the
server is a step of the allocator or leaves it alone) and *LeasingSpec* (the
whole implements `PortLease`). In this run the view makes sessions anonymous
too; only safety is checked there. Keys do not collide here; for colliding
ones *TablesAgree* and *LeasingSpec* rest on their theorems. A session that fails
after `OnConnected`
(`CheckFails` after `Apply`) leaves its record connected: the timer then never
frees it. The properties allow this, since the code promises nothing there.

**ServerLive.** A forward remote, or two reverse ones, of which the first has a port that
cannot be read (0) and the second the port of the pool; two sessions that want the same
ports, one identity, `Hold = 0`;
sessions keep their names in the view, as *LostSessionEnds* and its fairness
mention them. The later remote of a list is passed over, or taken to the allocator again
when a DELETE came between, which is when the record is for the second port: with
0 first, *SessionHoldsItsRecord* asks only for one of the ports of the list. Listeners left
open by a failed listen or accept stand in the way of the other session.

**Endpoint.** Both roles, two connections one after the other, one getter,
`MaxRetryCount = 1`. Two connections are needed for the watcher of the first to
meet the binding of the second; one getter suffices since getters only read the
shared state, apart from the panic of a reused group, which one waiter reaches.
Retries without a limit (`MaxRetryCount` below zero, the default) are left to the
theorems, which are about safety; for liveness they are not checked.
*LinkSpec* is the refinement of `Link`; *PanicOnlyByRace* says that the process dies
of its wait group only when a context ends between the two writes of `Add`, or when a
getter that was woken looks again after a connection was lost, so never while the
first connection stays.

**Udp.** Two sources of which one can have a reader (`MaxReaders = 1`, 100 in the
code), two connections, `Window = 1`, two datagrams. `Window` bounds what is under
way, so that a writer does block; `MaxTraffic` bounds the datagrams, and with two
a source can be served while the other is being dialed. The view hides the answers
left unread on channels that have ended, which no step reads. Deadlock is not checked
in `Endpoint`, `Udp` and `Forward`, where everything may have ended.

**Forward.** A request of two chunks and an answer of one, `Window = 1`, one
connection, two calls on stdio. With two chunks one is held by a copy, or under
way, while the other has arrived, and with a window of one a writer does block;
the answer makes the two directions meet. *WholeUnlessCrossed* says when
a stream may be cut: a pipe closes both directions when the first ends, so the
end of a request can cut its answer off; but a stream is cut only if the
connection was lost, the receiver had ended its own writing, or something the other
way never arrived. *EndsTogether* says that one end's closing, a loss or a
cancellation ends both sockets, both pipes and the loop; on stdio the input has
to end as well, and `ForwardStdio` shows that. It does not look at a listener that a
failed `Accept` leaves open.

**Auth.** Two names, one of them with two passwords in one file (the file is a map from
`name:password`), a user of `--auth`, files empty, of one and of two users, and
malformed, one session. One session is enough: sessions share only the index,
which they read, and a table in which each has its own entry. A client is told to open
any of some 43 000 texts of one to four out of twelve parts (a port, `R`, the two keywords, a
word that is no host, and parts that end in a protocol, in capitals or twice), behind `R:`
or not, which give 370 remotes; or it sends a record that no text gives. The addresses
checked are those of all these.

*RemotesDecodable* says of each decoded remote that it can be encoded and decoded again
unless it is of one of five families (`Unwritable`), and that it never can if it is; the
address of one of which this is not so (`Misread`) would show when a session is let
through with it. The families:

- `stdio` alone, which `DecodeRemote` accepts and which gets no port;
- a local host called `stdio` (as in `80:stdio:h:80`), read as the
  keyword again;
- a local host called `R` (`80:R:h:80`) of a remote that is not a reverse one, read as
  the prefix;
- a protocol in capital letters: `L4Proto` (remote.go:160) puts the wrong half in
  lower case, and `Encode` writes `/udp` only for `udp`;
- a host that ends in a protocol still, as `h/tcp` of `h/tcp/tcp:80` does: the local host
  of a remote that is not stdio, or the remote host of one that is not socks. `L4Proto`
  takes the rest off the next time.

The client sends records as JSON; `Encode` is for programs that embed the tunnel and
for `remote_test.go:134`, which asserts the round trip of its table of texts, so the
five are limits of `Encode` and disturb no tunnel.

## Fairness

- `FairSpec` of Server: every session's goroutine keeps running. Nothing forces
  clients, the control plane or the clock.
- `TimerSpec` of PortAllocator: time passes and `RunFreeHangingTimer` runs, as it
  does from `Start` to the end of the process.
- `FairSpec` of Endpoint: every goroutine that can take a step takes one, and a dial
  ends (the websocket and SSH dials have time-outs of their own). Time-outs of
  `getSSH`, losses and cancellations are never forced, so
  *WaitingGetterServed* does not rest on the 35 seconds.
- `FairSpec` of Udp: each loop of the listener runs, the tunnel closes what is cancelled
  and clears what is lost (shown by `Endpoint`), `unsetUDPChan` gets its mutex when
  it is free for good. Datagrams, answers, losses and the far end are free.
- `FairSpec` of Auth: the watch goroutine runs, which reads and swaps in turn (one
  condition for its two steps).
- `FairSpec` of Forward: the goroutines of the program and of the SSH library, taken
  together, keep running. One condition for all is enough (and weaker than one
  for each): every step of theirs is used up, as a chunk moves on, a copy ends or a
  call returns, so they cannot go on for ever without reaching each one's turn.
  The programs at the two ends read what reaches them, or a full socket would hold a
  copy for ever; they never have to write, end or close.

Weak fairness suffices throughout: goroutines of the Go scheduler are not
starved for ever, and no property needs a mutex to be handed over fairly.

## Disagreements found

Each is a run with `expect: violation` that TLC refutes with a behaviour of the code.

1. **KeptAfterDisconnect.** `port_allocator.go:171` says that the port is kept for ten
   minutes after a disconnection; the session's end writes only the status and
   `OnDisconnected` is never called, so the ten minutes run from the allocation.
2. **GetBlocksWhileConnecting.** "getSSH blocks while connecting" does not hold on the
   client: when a connection's context ends, its watcher calls `DoneAll`, which
   undoes the `Add(1)` that marks the tunnel as inactive. On the server, which
   never connects twice, it holds (*ServerGetBlocks*); on the client it holds until the
   first connection is lost (*FirstGetBlocks*).
3. **NoAuthBug.** The panic "bug in ssh auth handler" is reached when the users file is
   loaded between the callback and the lookup.
4. **EndedChannelReplaced.** A far handler that returns (one dial that fails is enough)
   ends the UDP channel; the cached one is not replaced until the connection is
   lost, and both loops spin on it.
5. **StopEndsProxy.** "close the proxy by cancelling the context"
   (`tunnel_in_proxy.go:72`): a stdio proxy looks at its context only when
   `pipeRemote` has returned, which waits for the copy from the standard input, which
   `Close` does not interrupt (`stdio.go:13`). Other proxies do end (*EndsTogether*,
   *StopEndsListener*).

Two further disagreements have no run of their own, since the five above were thought more
telling:

- "This file will be automatically reloaded on change" (`README.md:149`): the watch is on
  the file itself, so the reloads end when another users file is put in place of the
  watched one, as many editors do; and a write between the first load and
  `watcher.Add` is missed. Both are in the model (`ReplaceFile`,
  `WriteFile` before `BootWatch`); *WrittenIsLoaded* holds for the writes the watch sees.
- `test/e2e/base_test.go:29` expects a reverse remote of a client without identity to
  work; `applyOld` (`port_allocator.go:139`) refuses every port without a record, and so
  does the model (`OldFits`).

Behaviours that no statement of the repository denies are in the models and among the
hazards, without a run that refutes them: a POST of a connected key, or the end of a session
that shares the record, sets its record to allocated, so that the timer can free the port of
a tunnel that serves; a listener may outlive its session when `Accept` fails; and the two
panics of the wait group, above.

## What is proved

`tlapm` checks these theorems for every value of the constants that satisfies the
assumptions named in the modules.

| theorem | statement |
|---|---|
| `ApiKeepsIndexSound` | `ApiSpec => []IndexSound` |
| `AllocTypeCorrect`, `TablesAlwaysAgree` | `AllocSpec => []AllocTypeOK`, `=> []TablesAgree` |
| `AllocatorImplementsLeases` | `AllocSpec => LeasingSpec` |
| `ApiOperationsKeepLeases` | `ApiSpec => OperationsKeepLeases` |
| `ServerTypeCorrect`, `ServerTablesAgree` | `Spec => []TypeOK`, `=> []TablesAgree` |
| `ServerImplementsAllocator`, `ServerImplementsLeases` | `Spec => AllocSpec`, `=> LeasingSpec` |
| `SessionsHoldTheirRecords`, `ListenersAlwaysHaveSession` | `Spec => []SessionHoldsItsRecord`, `=> []ListenersHaveSession` |
| `NobodyTakesOver`, `StatusAlwaysKept` | `Spec => NoTakeover`, `=> StatusKeptWhileHeld` |
| `EndpointTypeCorrect`, `CountersAlwaysAgree`, `BoundAlwaysReady`, `NeverDoubleBound`, `ServerAlwaysBlocks`, `FirstAlwaysBlocks`, `PanicAlwaysByRace` | the seven invariants of the run `Endpoint` |
| `EndpointImplementsLink` | `Spec => LinkSpec` |
| `UdpTypeCorrect`, `CacheHasOneUnsetter`, `ReadersAlwaysBounded` | the three invariants of `Udp` |
| `AuthTypeCorrect`, `AccessAlwaysOfOwnUser`, `TableAlwaysEmptied`, `IndexAlwaysOfOneFile`, `RemotesAlwaysDecodable` | the five invariants of `Auth` |
| `DecodedIsDecodable` | every record `DecodeRemote` returns is decodable if and only if it is not `Unwritable` |
| `ForwardTypeCorrect`, `StreamsWholeUnlessCrossed` | the two of `Forward` |

### Assumptions

`PortAllocator`: the pool's bounds are integers and the pool lies in `Port`, `Hold` is a
natural number, null values are not elements. `Server`: the remotes are well
formed, `NoSession` and `Leaked` are no sessions. `Tunnel`,
`UdpStreams`, `UdpHandler`, `Pipe`, `Forward`: the bounds are natural numbers, windows and
the number of connections not zero, the null values no elements.
`UdpListener`: `Nobody`, who holds a free mutex, is no loop (`NobodyAssumption`).
`Endpoint`: `MaxRetryCount` is an integer. `Remote`: ports and hosts are different words, the
keywords and default hosts are hosts, `1080` is a port and the empty word is not
(`WordAssumption`); the protocols are none, `tcp`, `udp`, and others besides
(`ProtoAssumption`); `L4Proto` leaves a word alone if and only if it finds no protocol,
and finds none in a port, a keyword or the empty word (`L4ProtoAssumption`); it finds
`udp` behind what `AppendUdp` made (`AppendAssumption`); the error is no record
(`InvalidAssumption`). `Auth`: `AuthUser` is a
user or none, a file lists users, the null values are none of these, and a text is a
prefix or none and a sequence of words (`TextAssumption`).

### The arguments

**Allocator.** The invariant has two layers. `ApiInv` is
`AllocTypeOK /\ IndexSound`, preserved by every operation of the type: an entry of
a map is under the key and port its record carries, and what `ports` knows
`names` knows under the same address. That is what makes deletion by the record's
own key and port right (lemma `ReleaseInv`). `NamesOwnPorts` is the other direction;
it is preserved only relative to `ApiInv`, and only by the operations the server
uses: the wildcard `FreePort` leaves freed records in the maps. The three facts
an operation may establish are lemmas (`EnterInv`: a record is entered; `WriteInv`:
fields other than identity and port are written; `ReleaseInv`: entries are
deleted) and each operation is one of them. The unlocked write at the end of a
session does no harm to the maps, since it sets a status to allocated, never to
freed, so that `WriteInv` applies whether the record is still in a map or not.

**Leases.** The same three facts, read as changes of leases (`GrantStep`, `WriteStep`,
`ReleaseStep`), map every operation to a step of `PortLease` or to a stutter as long
as the maps agree, which `TablesAlwaysAgree` says they do. Without that agreement the
mapping is wrong, since a key's record would not be the one at its port.

**Server.** `ServerImplementsAllocator` maps each action of the server to an action of
`AllocNext` or to a stutter; it needs the typing of `handle` and of the record it
points to, because `handleRemote` acts under the identity found in that record
(`ActingIdentityType`). What the allocator promises is then the server's.

**Sessions.** That a serving session holds its record is not inductive: `HInv` says
what the loop over the remotes has established so far, for the remotes it has
passed (`Taken`, `Checked`): the session points to no record and none of them was
reverse, or it points to a record of one of them, of the first reverse one unless this
asks for port 0. The record pointed to
keeps identity and port whatever others write into it (`PointedRecordStays`).
*StatusKeptWhileHeld* needs the typing and that a new record reuses no address in use: `StatusTakenBy` goes through the
actions and says which of them write a status other than connected, and to which record.

**Endpoint.** `EInv` has the conservation law `inner + Adding = n + Counting`: the two
counters differ by the threads that are between their two writes. Alone it would
not exclude a `Done` that is lost; `AtMostOne` (`n` is 0 or 1, and whoever is about
to swap has read 1) shows that the only operation a compare-and-swap can lose to
is one that did the same. `ZeroWakes` ties the inner counter to the sleepers.
On the server `OnlyBinder` adds that nobody but the binder counts down before
the connection is over.

**Panics.** `RaceInv` adds to `EInv` that one connection at most is open, that of the
present round (`OneOpen`); that a watcher which runs has seen its context end
(`WatchersOver`); and that as long as the first connection stays nobody but `Done` of
`BindSSH` has written the group, whose two counters are then known at every step
(`FirstStays`). By the conservation law a counter below zero means that the binder is
between the two writes of `Add`, and so that the one who counted is a watcher
(`CountBelowZero`); by `FirstStays` a waiter that was woken and finds the group in use
again has seen a connection come and go. The same knowledge gives `FirstAlwaysBlocks`: a
getter that the group lets through before any loss finds the binder in its `c.Wait`
(`DoneWhileBound`), and so a connection.

**Link.** Under the mapping only `SetActive`, `ClearActive`, the losses and the end of the
context do something. `SetActive` is `Bind` since nothing is active in the round before it
(`ActiveWhileBound`), and since at most the connection of the round is open;
`ClearActive` is `Clear` since `BindSSH` is past `c.Wait`, after which nothing is open. A
connection that is lost between its dial and its mark was never seen (`CloseLinks`).

**Udp.** The invariant ties `outboundMut` to the cache: a loop holds the mutex while it
asks for a connection, and nothing is cached then (`MutexHeld`); so the channel it
stores is the only one with a goroutine that will clear it. At the far end the
readers counted are the flows that have one.

**Auth.** `AInv` follows the user through the steps: what the callback put in the table
is a user of that name and password (`TableHolds`), the lookup hands that to the
session (`UserHeld`), whatever is loaded in between. Sessions that met an empty
index are excepted, as the properties say.

**Remotes.** The theorems about texts are about every text, so about words that the
run does not have. `DecodedShape` follows the unrolled loop and says what a decoded
record looks like: which fields are filled, which defaults were taken, and that a
reverse remote is no stdio. For
`DecodedIsDecodable` the text that `Encode` writes is one of five forms: stdio or an address, before socks or an
address, and stdio before a host without a port (`EncodeForms`, with the concatenations written
out in `ConcatOneOne` and its like); each form is decoded part by part (`Take...`,
`TakenOfTwo` to `TakenOfFour`), and the result compared with the record field by field
(`Compared`), when the hosts are plain. For the families the part
in question is followed through the loop: a local or remote host that is not plain comes
back as a shorter word or a port (`HostLosesProto`, `LocalHostLost`, `RemoteHostLost`), the
others are refused or read as another remote (`StdioAloneRefused`, `PrefixMistaken`).

**Forward.** As long as the connection is not lost, `FInv` gives a cause for
everything that is closed: a side closes because its pipe or its handler did
(`ClosedByPipe`), and the first copy to end had a reason at one of the two programs
(`ClosedForReason`, `SocketClosedForReason`). A stream cut short leads back along
these to the sink's own end or to something the other way that never arrived.

### Only model-checked

All liveness (*HangingEnds*, *LostSessionEnds*, *WaitingGetterServed*, *StopEndsAll*,
*LostChannelCleared*, *StopEndsListener*, *WrittenIsLoaded*, *EndsTogether*): liveness
under fairness is outside what the provers do. Every other property that a passing run
checks has a theorem.

## What is not modelled

- The steps of a session before its config request (upgrade, SSH handshake, ten
  second wait) change no state of the server other than the users' table, which
  Auth has.
- What the socks library does on a channel before it copies (it has the channel to
  itself, and the code only calls `ServeConn`).
- `cnet`'s websocket connection: a sequential buffer for the rest of a message, read by
  the one goroutine of the SSH transport. What arrives or is cut is in Pipe, by chunks.
- `cnet`'s HTTP server: `GoServe`, `Close` and `Wait` are called once each, by the start
  and the end of the process. `Close` ends the listener and not the websockets that
  were taken over from it; their sessions end with their context, which Server and
  Endpoint have.
- `AddUser`, `DeleteUser` and `ResetUsers`, which programs that embed the server call;
  the content of keys, TLS and proxies; `LookupPort` and `QueryPorts`, which read
  only; `LogConns` and the counters; command lines and the identity file, which
  are read once at the start; texts of messages.
- Finite capacities of the host other than the ports.

## Plan

In order of importance; steps 1 to 7 are done.

1. `PortLease`, `PortAllocator`, `Server`, with the refinement between them: the part
   of the program where most interacts.
2. `Tunnel`, `Endpoint`: the hand-over of connections.
3. `Udp...`: the proxy with most state of its own.
4. `Remote`, `Auth`.
5. `Pipe`, `Forward`: TCP and stdio remotes from end to end.
6. Proofs of every safety property that the passing runs check.
7. `Link`, between `Endpoint` and `Udp`.
8. What is left would add little: the steps of a session before its config request as
   actions of `Server`, and `AddUser`, `DeleteUser` and `ResetUsers` as further writers
   of Auth's index, for programs that embed the server.
