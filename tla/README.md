# TLA+ models of vlgr

vlgr exposes local ports to the internet: a client keeps one WebSocket to a
server, and the server sends public HTTP requests, WebSockets, raw TCP
connections and TLS connections down that WebSocket as binary frames. These
modules model what is hard to get right in it: the goroutines on both sides,
the state they share, and what happens when something is slow, late or gone.

## The system

| Part (source) | State | Operations | Meets |
|---|---|---|---|
| Port allocator (`internal/server/tcp.go`) | `used`, `next` | `Allocate`, `Release` | tunnel handlers, SSH server, each with its own |
| Registries (`internal/server/registry.go`) | name → tunnel, one for HTTP and one for TLS | `Register`, `Unregister`, `Get` | all handlers; the public proxies |
| Tunnel connection (`internal/server/handler.go`) | the three maps of tunnels, `tunnelCount`, `authenticated`, `pending`, `closeOnce` | frames, authentication timer, `cleanup` | registries, allocator |
| Connection limit (`cmd/server/main.go`) | `connSem` | take and give back a slot | handlers |
| TCP and TLS relay (`handler.go`, `tlspass.go`, client `tunnel.go`) | `pendingReq`, `streamRelay`, two sockets | open, ready, data, close | the WebSocket |
| HTTP proxy (`proxy.go`, client `tunnel.go`) | `pendingReq`, `bodyStream`, `respCancels` | forward, pump, stream, cancel | the WebSocket, the local application |
| WebSocket relay (`proxy.go`, client `tunnel.go`) | as the TCP relay, two goroutines and a `WaitGroup` | upgrade, data, close | the WebSocket |
| SSH front end (`internal/sshtun/server.go`) | `forwards` per connection | forward, cancel, release at hang-up | its allocator |
| Client forwards (client `tunnel.go`) | `forwards`, `addCh`, `delCh` | `Connect`, `AddPort`, `RemovePort`, `Run` | the server's handler |
| Reconnect loop (`cmd/client/main.go`) | the tunnel, control file | connect, run, close, back off | the server's cleanup of the connections left behind |
| Self-update (`internal/selfupdate`) | the files `exe`, `exe.new`, `exe.old` | check, download, verify, swap, relaunch | the process it runs in |
| Dashboard (`internal/client/dashboard.go`, `dashboard_html.go`) | `entries`, `subs`, a page's rows | `record`, list, stream, replay | request goroutines, browser pages |
| Codec (`internal/protocol/protocol.go`) | none | `Encode...`, `Decode...` | everything on the WebSocket |
| SNI parser (`sni.go`, `tlspass.go`), access protection (`protect.go`) | the peek buffer | `peekClientHello`, `Allow` | public connections |
| Admin page, tray | | | see "What is not modelled" |

What is hard, in a sentence each: cleanup can run in the timer's goroutine
while the reader goes on; the reader handles frames that were buffered before
the connection was closed; ports and names are shared by connections that come
and go; answers carry no number; one goroutine reads frames for every stream
and must not block; each stream ends for many reasons on five goroutines; a
frame may come before the goroutine that is to receive it has registered; a
client that reconnects meets what its earlier connections have left on the
server; an update may be interrupted between any two changes of a file.
`PROJECT.json` lists these hazards with their lines.

## Modules

| Module | Models |
|---|---|
| `PortAllocator` | `Allocate` and `Release` as operators on a pool `[used, next]` (each runs under the mutex) |
| `PortScan` | the loop of `Allocate`, one step per iteration |
| `PortLease` | abstract: a public port has one tenant at a time, is bound by it only, and is returned after the listener is closed |
| `ServerTunnels` (`MCServerTunnels`) | connections with their reader and timer, the registries, the allocator, the slots |
| `SshForwards` (`MCSshForwards`) | the SSH front end over an allocator |
| `StreamFrames` | the frames of one request, and what a queue of them carries; extended by the three relays |
| `TcpRelay` | one raw TCP or TLS passthrough connection, both sides |
| `HttpExchange` | one HTTP request with streamed bodies, both sides |
| `WsRelay` | one upgraded connection, both sides |
| `ClientForwards` (`MCClientForwards`) | the client's list of forwards and the exchange with the server |
| `ClientSession` | `runLoop` with `Connect`, `Run` and `Close`, against a server that still cleans up |
| `SelfUpdate` | version comparison; download, verification, renames, roll-back |
| `ClientHost` (`MCClientHost`) | a client process: `ClientSession` and `SelfUpdate` composed, with crash, relaunch and start |
| `Dashboard` | the inspector's list, its streams, replay, and the rows of a page |
| `Codec` | the wire format, byte by byte, as operators |
| `ClientHello` | the SNI parser as operators, over `Codec`'s numbers |
| `Protection` | address and access decision as operators |
| `Wire` (`MCWire`) | the last three at work: a message sent and received, a hello read in pieces, a visit through proxies |
| `ServerProofs` | theorems and lemmas about `PortAllocator`, `PortScan`, `ServerTunnels` and `SshForwards` |
| `ClientForwardsProofs`, `ClientHostProofs`, `StreamFramesProofs`, `TcpRelayProofs`, `HttpExchangeProofs`, `WsRelayProofs`, `DashboardProofs` | theorems and lemmas about the module of the same name |

`ServerTunnels` and `SshForwards` extend `PortAllocator`, and both implement
`PortLease` (`ImplementsLeases` and `SshImplementsLeases`, by `INSTANCE ...
WITH`). They are two specifications, never composed; their names differ so that
`ServerProofs` can extend both over one set of lemmas about the allocator.
`ClientHost` extends `ClientSession` and `SelfUpdate`: their steps interleave,
and what ends the process ends both.

How they correspond to the code:

- An action is what the code does between two points where another goroutine
  can see a difference: one critical section, one channel operation, one frame.
  `handleRegister` is one action; `handleRegisterTCP` is two (`RegisterTCP`, then
  `ListenSucceeds` or `ListenFails`), as the mutex is free during `Listen`;
  `closeTCPTunnel` is two, close and release; `cleanup` is one per step of its
  loops.
- A frame that the code answers with an error and no change of state is a
  stuttering step. Tunnel ids, random in the code, are fresh numbers.
- A chunk of data is what one `Read` returned, and has a number. A chunk is
  read and sent in one step; where the code can be seen between receiving a
  frame and putting it on a channel, the reader holds it (`taken`).
- Deadlines may expire whenever the code waits on them. `cut` (in the relays)
  and `late` (in `ClientForwards`) record that one did, for properties that
  promise something only if none does.
- A map written while another goroutine iterates it is a data race: an entry
  inserted may or may not be met, and the runtime may stop the program
  (`MapRaceIsFatal`).
- Integer width: SSH asks for a port with 32 bits and the code truncates to 16
  (`Truncated`); in `Codec` a byte has `Base` values, so that lengths at the
  limit of a field are short enough to check.
- In `ClientSession` a connection is a pair of ends. The client's is gone when
  it closes or its process dies, the server's when its handler has cleaned up.
  Names are released one by one and the connection is closed last, as in
  `cleanup`. Waiting times are left out: each may be longer or shorter than
  anything else. `weather` says which disturbances may still come: in a storm
  links fail, server and client die and are started again, and time-outs
  expire; then only visitors come; then nothing. All repeat without bound.
- In `SelfUpdate` a file holds a release, a torn or a bad download, or nothing.
  `os.Executable` answers the path the process was started from, so that a
  missing `exe` makes `EvalSymlinks` fail and no update begins
  (`DownloadOpens`).
- In `Dashboard`, `why` collects what has made a page differ from the list.

## Model checking

`CHECK_DEADLOCK FALSE` everywhere: each model follows connections that end (a
connection connects once, a relay is over when it is over), so behaviours stop.
That nobody waits for ever is said by the liveness properties.

| Run | Bounds | Shows |
|---|---|---|
| `ServerTunnels` | 2 connections, 1 name, 1 port, 2 tunnels each, 3 tunnels in all, 1 late frame | no registry entry without an owner; `tunnelCount` exact and within its limit; a live connection's names lead to it; no port is let twice, and ports are let as `PortLease` says, late frames or not; cleanup leaves nothing |
| `ServerSlots` | 2 connections, 1 slot, `HostTooLong` | no port is lost when the reply cannot be encoded; a connection that does not authenticate is dropped; cleanup gives the slot back |
| `SshForwards` | 2 connections, 2 ports, 3 requests each, ports 0, 7, 8 and 65536 + 7 | the map of a connection is its listeners; a connection that has gone has no port and no listener; a hang-up frees all |
| `TcpRelay` | 1 peeked chunk and 1 more up, 3 down, buffer 1 | both sides receive a prefix; an orderly close loses nothing; the relay comes down |
| `ClientForwards` | 2 callers, 3 calls, 2 ports, an HTTP and a TCP forward at the start, 1 public request | without a timeout the two lists agree, `OK removed` is true, every call is answered |
| `HttpExchange` | 3 chunks each way, buffer 1 | bodies keep order without gaps, a download that ends in order is complete, the request ends on both sides |
| `WsRelay` | 2 chunks up, 3 down, buffer 1 | order, completeness, `serveWebSocket` ends |
| `ClientHost` | 2 names, 2 connections at once, 1 visitor's request in the queue, 3 tags of which one has no number | a client that says "ready" has every name; once disturbances cease all names come back, whatever attempts have left behind; a good binary no older than the running one is always there |
| `Dashboard` | 2 recorders, 3 entries, 2 kept, 1 page, channel 1 | a page at rest shows the list unless one of five things has happened to it; nobody in `record` waits for a page |
| `Wire` | bytes of 8 values, texts of 0 to 64 bytes, hellos of up to about 50 bytes with `MaxPeek` 40, 0 to 2 proxies | messages survive the wire and parts of them are refused; a hello is named when it is complete; a visit is judged by the address the outermost proxy saw |

Bounds. Two connections are enough for one to take what the other lets go;
three tunnels let a connection have one of each kind, or two at its limit while
the other has one. One port is enough for two to want it; the allocator's scan
is proved for every range. A buffer of one chunk and three chunks put one in the channel, one
in the reader's hand and one under way, so that the slow-consumer path is
taken with more to come. One late frame is enough to break what late frames can
break; the theorems hold for any number. `Handler` is a
symmetry set in the safety runs of `MCServerTunnels` (nothing distinguishes
connections, and the choices in `TenantOf` are unique there); liveness runs use
no symmetry. Two connections let a new attempt meet the one before it, and fill
the server's slots (`DialFails`); `RunningMeansRouted` and `Recovers` were also
checked with three for `ClientSession` alone (`SessionSpec`, 600 000 states).
Each of the five causes in `Dashboard` does make a page wrong within its bounds.

Fairness. Every goroutine that can take a step takes one, which Go's scheduler
gives; so does the timer. The one deadline that must expire is the wait for a
response over a tunnel that is gone, which is a `time.After` in the code. A side
whose peer has dropped the WebSocket notices, by a read error or the missing
pong. In `HttpExchange` the local application reads the body it is sent and
answers once it has ended (or the HTTP client's own timeout answers). In
`ClientHost` the loop goes on, each handler of the server goes on, and a side
whose connection is lost notices; neither calm nor an update's progress is
assumed (a download has no deadline). In `Dashboard` a replay ends, as its HTTP
client has a timeout. No client, user, page or application has to send, to
leave, or to read.

Two runs show where the code and what its documents say part:

| Run | What happens |
|---|---|
| `ClientLateAnswer` | `AddPort(81)` times out; `AddPort(82)` waits; the answer to the first arrives and is recorded with port 82 |
| `HttpEarlyChunk` | the first chunk of an upload comes before the request's goroutine has registered its stream, is dropped, and the upload goes on |

Behaviours of the same kind that the models have and no run states as a
property: h1 closes its tunnel and cleanup frees its name, h2 registers the
name, and h1's reader handles a buffered `MsgUnregister` for its old tunnel,
which is still in its map, and frees h2's name (`RoutesKept` is stated
for behaviours in which no handler acts on a frame after its own cleanup,
`late = 0`); `DEL` of a TCP or TLS forward is answered "unknown tunnel",
while the repository's README says that `DEL` unregisters a forward; a
registration handled after cleanup keeps its name or its port for as
long as the server runs (`CleanupReleasesAll` says only `late = 0`);
`Connect` fails when a visitor's request comes before the `RegisterOK` of the
tunnel it is for; a WebSocket user's bytes are dropped between the 101 and the
registration of the client's relay (`early` in `WsRelay`); after the pump's
`RequestTimeout` the client is not told (`cut = "ready"` in `TcpRelay`); a body
cut short by a stall, a lost tunnel or a failing local application looks
complete to the user; a port is released twice after a reply that could not be
encoded (`HostTooLong`).

From the newer models: a client with two names and steady visitors may never
get past `Connect`, since a request for the first name, or even for the one
being registered, is taken for the answer and every attempt starts over
(`Recovers` says "calm", and fails with "busy"; the repository's README promises
that a forward recovers "within the usual reconnect backoff"). An inspector page
may show two entries in the wrong order, one twice or not at all, until it is
reloaded, although "new ones arrive on top". `EncodeHTTPRequest` writes more
headers than `DecodeHTTPRequest` takes (`Accepted` in `Wire`), so such a request
is dropped by the client and the visitor waits for the time-out. After a crash
between the two renames nothing is at `exe` until somebody moves `exe.old` back.
The comment on `newer` says that an unparseable tag "falls back to a plain
inequality"; the code never takes one for newer.

## Proofs

Checked by TLAPS, for every value of the constants that satisfies the named
assumptions of the modules: a port range within 1..65535 as `parsePortRange`
admits, natural bounds, channels that hold at least one chunk, a value that is
not a tunnel, a connection or a caller, a plan of distinct names (for
`ClientForwards`: any sequence of tunnel kinds with their local ports). Every inductive
invariant below was first checked by TLC on the instance of its run.

| Module | Theorems | Runs' property |
|---|---|---|
| `ServerProofs`: allocator | `AllocateCorrect`, `ReleaseCorrect`, `ScanIsAllocate` | (operators; the loop of `PortScan` computes the operator) |
| `ServerProofs`: tunnels | `TypeCorrect`, `RegistryIsBacked`, `CountIsExact`, `PortsAreExclusive`, `NoPortIsLost`, `CleanupIsComplete`, `RoutesAreKept`, `PortsAreLeased` | `TypeOK`, `RegistryBacked`, `CountExact`, `PortsExclusive`, `UsedPortsHaveHolders`, `CleanupReleasesAll`, `RoutesKept`, `ImplementsLeases` |
| `ServerProofs`: SSH | `SshTypeCorrect`, `NothingOutlivesItsConnection`, `MapsMatchListeners`, `SshPortsAreLeased` | `SshTypeOK`, `GoneHasNothing`, `ForwardsMatchListeners`, `SshImplementsLeases` |
| `ClientForwardsProofs` | `TypeCorrect`, `MappingsAreRight`, `ListsAgree`, `RemovedTunnelsAreGone` | `TypeOK`, `InTimeMappingsRight`, `QuietListsAgree`, `RemovedIsGone` |
| `ClientHostProofs` | `TypeCorrect`, `AGoodBinaryRemains`, `RunningIsRouted` | the module's own `TypeOK` (no run lists it), `GoodBinaryRemains`, `RunningMeansRouted` |
| `TcpRelayProofs` | `TypeCorrect`, `PeersReceivePrefixes`, `NothingIsLost` | `TypeOK`, `BothArePrefixes`, `CloseLosesNothing` |
| `HttpExchangeProofs` | `TypeCorrect`, `BodiesArriveWithoutGap`, `DownloadIsComplete` | `TypeOK`, `BodiesHaveNoGap`, `DownloadComplete` |
| `WsRelayProofs` | `TypeCorrect`, `PeersReceivePrefixes`, `NothingIsLost` | `TypeOK`, `BothArePrefixes`, `CloseLosesNothing` |
| `DashboardProofs` | `EntriesAreGenuine`, `QuietPagesAreExact` | (types and provenance), `QuietPageIsExact` |

`StreamFramesProofs` holds the lemmas that `TcpRelayProofs`,
`HttpExchangeProofs` and `WsRelayProofs` share.

The allocator. The loop invariant `ScanInv` says that `next` is `scanned`
ports further round the range than at the start and that every port passed is in use;
the loop cannot miss a port since no two are at the same distance
(`DistanceIsInjective`).

`ServerTunnels`. Of its invariants only `TypeOK` is inductive as it stands. The
others need `Structure`: where a goroutine is says what it holds, and what a
handler holds is its own. `CountExact` further needs that a reader in `Listen`
is still below the limit (`CountInv`: only the reader changes the count) and
that `held` is finite. `PortsExclusive` needs `PortsHeldOnce`: ports are held
not by listeners only but also by tunnels whose listener cleanup has just
closed, each holder has a port of its own, and what cleanup has still to close
is open. `CleanupReleasesAll` needs `PassedReleased` (what the loops of
`cleanup` have passed is released), and `RoutesKept` needs `NotPassedRouted`
(what they have not passed is still routed) and `NamesUnique`.

Refinement. `PortLease` is implemented twice, by the tunnel handlers
(`PortsAreLeased`) and by the SSH front end (`SshPortsAreLeased`): the refinement mapping makes the handler that holds a port
its tenant, `PortsHeldOnce` (for SSH: `SshStructure`) makes that choice unique, and each action is a
lease, a bind, a close, a return or a stutter of `PortLease`. For the tunnel
handlers the theorem assumes `~HostTooLong`: with a host name so long that the
reply cannot be encoded, cleanup releases a port that was released already
(see above), and `PortLease` does not hold; `HostTooLong` is a fact about how
the server was started, and constant.

`SshForwards`. `SshStructure` says of each place in `handleGlobalRequests` which of
port and map entry exist there, and `ForwardsMatchListeners` which listeners do;
together they give that a connection that is gone has neither a port nor a
listener (`NothingOutlivesItsConnection`).

`ClientForwards`. The server's answers carry no number, and `AddPort`,
`RemovePort`, `Connect` and `Run` tell whose answer came by the one channel that
waits. `InTime` says why that is right for as long as every call has waited for
its answer. The one registration under way is in one of three places (its frame,
the server's handler, its answer) and leads to the port wanted (`AddInTurn`);
the one unregistration is in one of two (`DelInTurn`); and the server's tunnels
with those whose removal is on its way back are the client's forwards with those
whose registration is (`Lists`). `RemovePort` picks a forward in one critical section
and asks for its removal in another, so `Lists` also says that no pick names a
tunnel that is only being added. After a timeout (`late`) none of
this holds, as the run `ClientLateAnswer` shows. What holds even then is
`Numbered`, that the server numbers tunnels from 1 and never twice, and
`Budget`, that each tunnel, frame and pick has cost a call or an entry of the
plan; the two keep the numbers within `Ids`, so they are what `TypeOK` needs.

`ClientHost`. The theorems are about `HostSafety`, the specification without its
fairness, which `HostSpec` implies. `UpdateInv` says which of the three files is
good at each step of `apply`. `SessionInv` says that only the client's present
connection has a client's end, and that of the names the plan lists the first
`step` lead to that connection while the next is asked for, registered or
answered in its queue; so no answer to an earlier connection is taken for this
one's.

The streams. `Carries(q, lo, hi)` says that the data frames of a queue are the
chunks `lo + 1` to `hi` in order; sending, taking and losing frames change `lo`
and `hi` as one expects, which is proved once, for any kind of frame. With it
the flow of a stream is one sentence: what was written, what is in the channel,
what the reader holds and what is under way follow each other without a gap, for
as long as somebody still takes from them.

- `TcpRelay`: `RelayInv` adds to the two flows who has opened and closed what
  (`OpenShape`), that nothing comes before the answer to the open (`Handshake`),
  and that in an orderly run each side's close is its last frame and is acted on
  when everything before it has been (`UpEnd`, `DownEnd`). An orderly run is one
  with both links up and no deadline expired.
- `HttpExchange`: `ExchangeInv` likewise. The upload's flow starts at some chunk
  `b`: chunks that come before the `bodyStream` is registered are dropped, those
  kept afterwards are consecutive (`UpFlow`). That a download is complete needs
  a fact about the other direction, since one frame type ends a request body and
  cancels a response: while the client is at work and nothing has failed, a
  close on its way to it is the pump's, there is one at most, and its
  `bodyStream` is still there to receive it (`CloseIsTheBodys`).
- `WsRelay`: one link carries both directions, and the user's first chunks may
  overtake the registration of the client's relay. `RelayInv` says where the
  client's goroutine is and what it has (`ClientShape`), that nothing comes from
  the client before it has dialled, nothing goes to it before the server has its
  answer and a lost link carries nothing (`Handshake`), that the upward flow has
  no gap unless `early` (`UpFlow`), that the downward one has none (`DownFlow`),
  and that the client's close is its last frame, after which the user's
  connection is closed only when every chunk has been written (`DownEnd`).

`Dashboard`. `QuietPageIsExact` speaks of pages at rest, and nothing of it is
inductive. The invariant has two parts. Of every page, spoilt or not: each entry
in its rows, its list, its channel or its stream was recorded, and is the very
one of `entries` if that still has it (`PagesGenuine`); so two sequences of
entries are equal when their ids are. Of a page with no cause in `why`:
`PageRight`. What is under way to it (channel and stream are one `Queue`) rises,
is newer than the list it asked for and than everything shown; what is shown
falls; and each entry the page has been told of, by the list or by `notify`, is
under way, shown, or pushed out by `MaxEntries` newer ones (`Complete`). While
the list is on its way this is said of the list, not of the rows, and only as
long as no event has put a newer entry on top (`Overtaken`). Entries recorded
but not yet offered (`Pending`) are what makes the rows have gaps for a while;
at rest there are none, and a least-gap argument (`NoGap`, over the
well-foundedness of the naturals) gives the rows their ids. Each of the five
causes excludes exactly one case of the step proof.

The attempt to prove the last part showed an error in the model, now corrected:
it allowed `streamResponseBody` to refuse a response after `respCancels` was set,
where the code looks for a slot first.

Only model-checked:

- Liveness and everything else that needs fairness or ENABLED is out of the
  prover's reach.
- What the readers of `Codec` and `ClientHello` compute, and which entry of
  `X-Forwarded-For` is the right one, is recursion over data, which the installed
  provers cannot do induction on; `CodecExact` and `PublicVisitorsIdentified` of
  `Wire` rest on it.

Every other safety property of a passing run is a theorem.

## What is not modelled

- Admin page, tray, logging, the inspector's details and exports: they read
  state and format it. The tray's own commands are `AddPort` and `RemovePort`.
- Command lines, the menu and the discovery of instances. One thing there can go
  wrong: `discoverInstances` may remove the control file that an instance has
  just rewritten, which then cannot be found by `--add` until it reconnects.
- Two instances that update one executable: they share `exe.new`, and one may
  rewrite the file between the other's verification and its rename. The code has
  no lock between them.
- A client that starts from `exe.old` by hand, and updates of the server's
  binary (the same code, beside other listeners).
- A ClientHello spread over several TLS records: `HelloBytes` puts one into one
  record, and TCP cuts that into pieces. `extractSNI` reads the first record only.
- HTTP headers, host names, inline bodies, TLS, the SSH handshake: data that
  none of the properties tells apart.
- Several streams at once over one WebSocket: streams share the readers, which
  each relay model allows to be busy for as long as they like, but not the
  delay one slow stream puts on another.

## Plan

1. Done: allocator, tunnel connections, SSH, the three relays, client forwards,
   the client's process with its reconnect loop and self-update, the dashboard,
   the wire format, SNI and access decisions; theorems of the allocator, of
   `ServerTunnels`, `SshForwards`, `ClientForwards`, `ClientHost`, `TcpRelay`,
   `HttpExchange`, `WsRelay` and `Dashboard`, and the two refinements of
   `PortLease`.
2. Left, should somebody go on: several streams over one WebSocket, two
   instances that update one executable, and the discovery of instances (see
   above).
