------------------------------ MODULE TcpRelay ------------------------------
(***************************************************************************)
(* One public connection of a raw TCP or TLS-passthrough tunnel, relayed   *)
(* over the shared WebSocket to a local port: relayPublicConn and the      *)
(* stream handlers of internal/server/handler.go on one side,              *)
(* handleTCPOpen and the stream handlers of internal/client/tunnel.go on   *)
(* the other.                                                              *)
(*                                                                         *)
(* On the server: the pump (relayPublicConn itself, public to client), the *)
(* drain goroutine it starts (client to public) and the handler's reader.  *)
(* On the client: the reader (Run) and handleTCPOpen's goroutine, which    *)
(* dials and then pumps local to server.  A WebSocket keeps the order of   *)
(* its frames in each direction; the frames of other requests pass between *)
(* these and change nothing here.                                          *)
(*                                                                         *)
(* A chunk is what one Read returns, numbered from 1 in each direction.  A *)
(* peer's write and the Read that returns it are one step.  Deadlines may  *)
(* expire whenever the code waits on them; `cut' records that one did.     *)
(***************************************************************************)
EXTENDS StreamFrames

CONSTANTS
    Peeked,     \* chunks read before the relay starts: the ClientHello, or none
    NumUp,      \* bound: chunks the public peer sends, the peeked ones included
    NumDown,    \* bound: chunks the local application sends
    RelayBuf    \* protocol.StreamRelayBuf, the capacity of streamData

ASSUME RelayAssumption ==
    /\ NumUp \in Nat /\ NumDown \in Nat
    /\ Peeked \in 0..1 /\ Peeked <= NumUp
    /\ RelayBuf \in Nat \ {0}

VARIABLES
    pub,        \* the public peer: "open" or "gone"
    pubConn,    \* the server's end of the public connection
    pubGot,     \* what was written to it
    up,         \* chunks read from it
    pump,       \* where relayPublicConn is
    drain,      \* the drain goroutine
    pr,         \* the pendingReq, and whether h.pending holds it
    taken,      \* the chunk handleStreamData is sending on streamData, or 0
    sLink,      \* the handler has its WebSocket (h.done is open)
    toClient, toServer,    \* frames under way
    cLink,      \* the client's WebSocket: "up", "down", or "closed" by Close
    open,       \* where handleTCPOpen is
    relay,      \* its streamRelay: whether t.relays holds it, and done
    local,      \* the local application: "open" or "gone"
    conn,       \* the client's end of the local connection
    localGot,   \* what was written to it
    down,       \* chunks read from it
    cut         \* a deadline expired: "none", "ready" for RequestTimeout, or "other"

publicVars == <<pub, pubConn, pubGot, up>>
serverVars == <<pump, drain, pr, taken, sLink>>
clientVars == <<cLink, open, relay, local, conn, localGot, down>>
vars == <<publicVars, serverVars, toClient, toServer, clientVars, cut>>

\* A pendingReq in h.pending or not; a channel that is closed is TRUE.
PendingReq == [pending : BOOLEAN, ready : BOOLEAN, done : BOOLEAN,
               closed : BOOLEAN, data : Seq(Nat)]

StreamRelay == [held : BOOLEAN, done : BOOLEAN]

Frame == [type : {"open", "ready", "data", "close"}, chunk : Nat]

\* relayPublicConn has put its pendingReq into h.pending.
Init ==
    /\ pub = "open" /\ pubConn = "open" /\ pubGot = <<>> /\ up = 0
    /\ pump = "open" /\ drain = "none" /\ taken = 0 /\ sLink = TRUE
    /\ pr = [pending |-> TRUE, ready |-> FALSE, done |-> FALSE,
             closed |-> FALSE, data |-> <<>>]
    /\ toClient = <<>> /\ toServer = <<>>
    /\ cLink = "up" /\ open = "none"
    /\ relay = [held |-> FALSE, done |-> FALSE]
    /\ local = "open" /\ conn = "none" /\ localGot = <<>> /\ down = 0
    /\ cut = "none"

LinksUp == sLink /\ cLink = "up"

\* What `cut' becomes when a deadline other than RequestTimeout expires.
Expired == IF cut = "ready" THEN cut ELSE "other"

\* A write on the WebSocket fails once this side has closed it; once the other
\* side has, it may succeed but is never read.
ServerSends(f) == toClient' = IF LinksUp THEN Append(toClient, f) ELSE toClient
ClientSends(f) == toServer' = IF LinksUp THEN Append(toServer, f) ELSE toServer

-----------------------------------------------------------------------------
(***************************************************************************)
(* The server's pump.                                                      *)
(***************************************************************************)
PumpOpens ==
    /\ pump = "open"
    /\ ServerSends(Msg("open"))
    /\ pump' = IF sLink THEN "wait" ELSE "leave"
    /\ UNCHANGED <<publicVars, drain, pr, taken, sLink, toServer, clientVars, cut>>

\* The client answered, with a ready or a close: the peeked bytes go first.
PumpReady ==
    /\ pump = "wait" /\ pr.ready
    /\ IF Peeked = 1
       THEN up' = 1 /\ ServerSends(Data(1))
       ELSE UNCHANGED <<up, toClient>>
    /\ IF Peeked = 1 /\ ~sLink
       THEN pump' = "leave" /\ UNCHANGED drain
       ELSE pump' = "run" /\ drain' = "run"
    /\ UNCHANGED <<pub, pubConn, pubGot, pr, taken, sLink, toServer, clientVars, cut>>

\* Nothing within RequestTimeout: no close is sent.
PumpGivesUp ==
    /\ pump = "wait"
    /\ pump' = "leave"
    /\ cut' = IF sLink THEN "ready" ELSE cut
    /\ UNCHANGED <<publicVars, drain, pr, taken, sLink, toClient, toServer, clientVars>>

PumpReads ==
    /\ pump = "run" /\ pubConn = "open" /\ pub = "open"
    /\ up < NumUp
    /\ up' = up + 1
    /\ ServerSends(Data(up + 1))
    /\ pump' = IF sLink THEN "run" ELSE "close"
    /\ UNCHANGED <<pub, pubConn, pubGot, drain, pr, taken, sLink, toServer, clientVars, cut>>

PumpReadFails ==
    /\ pump = "run"
    /\ pub = "gone" \/ pubConn = "closed"
    /\ pump' = "close"
    /\ UNCHANGED <<publicVars, drain, pr, taken, sLink, toClient, toServer, clientVars, cut>>

\* RelayIdleTimeout.
PumpIdles ==
    /\ pump = "run"
    /\ pump' = "close"
    /\ cut' = Expired
    /\ UNCHANGED <<publicVars, drain, pr, taken, sLink, toClient, toServer, clientVars>>

\* Mutant of PumpCloses: the client is not told.
PumpClosesSilently ==
    /\ pump = "close"
    /\ pump' = "leave"
    /\ UNCHANGED <<publicVars, drain, pr, taken, sLink, toClient, toServer, clientVars, cut>>

PumpCloses ==
    /\ pump = "close"
    /\ ServerSends(Msg("close"))
    /\ pump' = "leave"
    /\ UNCHANGED <<publicVars, drain, pr, taken, sLink, toServer, clientVars, cut>>

\* The deferred functions: removePending and closeDone, then conn.Close.
PumpLeaves ==
    /\ pump = "leave"
    /\ pr' = [pr EXCEPT !.pending = FALSE, !.done = TRUE]
    /\ pump' = "last"
    /\ UNCHANGED <<publicVars, drain, taken, sLink, toClient, toServer, clientVars, cut>>

PumpEnds ==
    /\ pump = "last"
    /\ pubConn' = "closed"
    /\ pump' = "gone"
    /\ UNCHANGED <<pub, pubGot, up, drain, pr, taken, sLink, toClient, toServer, clientVars, cut>>

-----------------------------------------------------------------------------
(***************************************************************************)
(* The drain goroutine: a chunk, the end of the stream, pr.done or h.done, *)
(* in whichever order select picks them.                                   *)
(***************************************************************************)
DrainWrites ==
    /\ drain = "run" /\ pr.data # <<>>
    /\ pub = "open" /\ pubConn = "open"
    /\ pubGot' = Append(pubGot, Head(pr.data))
    /\ pr' = [pr EXCEPT !.data = Tail(@)]
    /\ UNCHANGED <<pub, pubConn, up, pump, drain, taken, sLink, toClient, toServer, clientVars, cut>>

\* The peer is gone or, after WriteWait, does not read.
DrainWriteFails ==
    /\ drain = "run" /\ pr.data # <<>>
    /\ pr' = [pr EXCEPT !.data = Tail(@)]
    /\ pubConn' = "closed"
    /\ drain' = "gone"
    /\ cut' = IF pub = "open" /\ pubConn = "open" THEN Expired ELSE cut
    /\ UNCHANGED <<pub, pubGot, up, pump, taken, sLink, toClient, toServer, clientVars>>

\* Mutant of DrainEnds: it does not close the public connection.
DrainLeavesOpen ==
    /\ drain = "run"
    /\ (pr.closed /\ pr.data = <<>>) \/ pr.done \/ ~sLink
    /\ drain' = "gone"
    /\ UNCHANGED <<publicVars, pump, pr, taken, sLink, toClient, toServer, clientVars, cut>>

DrainEnds ==
    /\ drain = "run"
    /\ (pr.closed /\ pr.data = <<>>) \/ pr.done \/ ~sLink
    /\ pubConn' = "closed"
    /\ drain' = "gone"
    /\ UNCHANGED <<pub, pubGot, up, pump, pr, taken, sLink, toClient, toServer, clientVars, cut>>

-----------------------------------------------------------------------------
(***************************************************************************)
(* The server's reader.  It stays in handleStreamData until the chunk is   *)
(* on the channel, the request is done or StreamSendTimeout has passed.    *)
(***************************************************************************)
ServerReceives(t) ==
    /\ sLink /\ taken = 0
    /\ toServer # <<>> /\ Head(toServer).type = t
    /\ toServer' = Tail(toServer)

ServerTakesReady ==
    /\ ServerReceives("ready")
    /\ pr' = [pr EXCEPT !.ready = @ \/ pr.pending]
    /\ UNCHANGED <<publicVars, pump, drain, taken, sLink, toClient, clientVars, cut>>

ServerTakesData ==
    /\ ServerReceives("data")
    /\ taken' = IF pr.pending THEN Head(toServer).chunk ELSE 0
    /\ UNCHANGED <<publicVars, pump, drain, pr, sLink, toClient, clientVars, cut>>

\* Mutant of ReaderEnqueues: the channel has no bound.
ReaderEnqueuesUnbounded ==
    /\ taken # 0
    /\ pr' = [pr EXCEPT !.data = Append(@, taken)]
    /\ taken' = 0
    /\ UNCHANGED <<publicVars, pump, drain, sLink, toClient, toServer, clientVars, cut>>

ReaderEnqueues ==
    /\ taken # 0 /\ Len(pr.data) < RelayBuf
    /\ pr' = [pr EXCEPT !.data = Append(@, taken)]
    /\ taken' = 0
    /\ UNCHANGED <<publicVars, pump, drain, sLink, toClient, toServer, clientVars, cut>>

ReaderDrops ==
    /\ taken # 0 /\ pr.done
    /\ taken' = 0
    /\ UNCHANGED <<publicVars, pump, drain, pr, sLink, toClient, toServer, clientVars, cut>>

\* Mutant of ReaderTimesOut: the chunk is skipped and the stream goes on.
ReaderSkipsChunk ==
    /\ taken # 0 /\ Len(pr.data) = RelayBuf
    /\ taken' = 0
    /\ cut' = Expired
    /\ UNCHANGED <<publicVars, pump, drain, pr, sLink, toClient, toServer, clientVars>>

ReaderTimesOut ==
    /\ taken # 0 /\ Len(pr.data) = RelayBuf
    /\ pr' = [pr EXCEPT !.pending = FALSE, !.closed = TRUE]
    /\ ServerSends(Msg("close"))
    /\ taken' = 0
    /\ cut' = Expired
    /\ UNCHANGED <<publicVars, pump, drain, sLink, toServer, clientVars>>

\* Mutant of ServerTakesClose: it ends the request as well.
ServerTakesCloseDone ==
    /\ ServerReceives("close")
    /\ pr' = IF pr.pending
             THEN [pr EXCEPT !.pending = FALSE, !.ready = TRUE, !.closed = TRUE, !.done = TRUE]
             ELSE pr
    /\ UNCHANGED <<publicVars, pump, drain, taken, sLink, toClient, clientVars, cut>>

\* A close before any ready wakes the waiting pump too.
ServerTakesClose ==
    /\ ServerReceives("close")
    /\ pr' = IF pr.pending
             THEN [pr EXCEPT !.pending = FALSE, !.ready = TRUE, !.closed = TRUE]
             ELSE pr
    /\ UNCHANGED <<publicVars, pump, drain, taken, sLink, toClient, clientVars, cut>>

\* The reader fails, at any moment, or meets MsgCloseTunnel: cleanup.
ServerDisconnects ==
    /\ sLink /\ taken = 0
    /\ sLink' = FALSE
    /\ pr' = IF pr.pending
             THEN [pr EXCEPT !.pending = FALSE, !.closed = TRUE, !.done = TRUE]
             ELSE pr
    /\ toServer' = <<>>
    /\ UNCHANGED <<publicVars, pump, drain, taken, toClient, clientVars, cut>>

-----------------------------------------------------------------------------
(***************************************************************************)
(* The client's reader.                                                    *)
(***************************************************************************)
ClientReceives(t) ==
    /\ cLink = "up"
    /\ toClient # <<>> /\ Head(toClient).type = t
    /\ toClient' = Tail(toClient)

ClientTakesOpen ==
    /\ ClientReceives("open")
    /\ open' = "dial"
    /\ UNCHANGED <<publicVars, serverVars, toServer, cLink, relay, local, conn, localGot, down, cut>>

ClientTakesData ==
    /\ ClientReceives("data")
    /\ localGot' = IF relay.held /\ ~relay.done /\ conn = "open" /\ local = "open"
                   THEN Append(localGot, Head(toClient).chunk) ELSE localGot
    /\ UNCHANGED <<publicVars, serverVars, toServer, cLink, open, relay, local, conn, down, cut>>

\* The local application is gone or does not read.
ClientWriteFails ==
    /\ ClientReceives("data")
    /\ relay.held /\ ~relay.done
    /\ relay' = [relay EXCEPT !.done = TRUE]
    /\ conn' = "closed"
    /\ cut' = IF local = "open" /\ conn = "open" THEN Expired ELSE cut
    /\ UNCHANGED <<publicVars, serverVars, toServer, cLink, open, local, localGot, down>>

ClientTakesClose ==
    /\ ClientReceives("close")
    /\ IF relay.held
       THEN relay' = [held |-> FALSE, done |-> TRUE] /\ conn' = "closed"
       ELSE UNCHANGED <<relay, conn>>
    /\ UNCHANGED <<publicVars, serverVars, toServer, cLink, open, local, localGot, down, cut>>

\* Run returns; runLoop calls Close a second later.
ClientDisconnects ==
    /\ cLink = "up"
    /\ cLink' = "down"
    /\ toClient' = <<>>
    /\ UNCHANGED <<publicVars, serverVars, toServer, open, relay, local, conn, localGot, down, cut>>

\* Close: then, or on a signal while the connection is up.
ClientCloses ==
    /\ cLink # "closed"
    /\ cLink' = "closed"
    /\ toClient' = <<>>
    /\ IF relay.held
       THEN relay' = [held |-> FALSE, done |-> TRUE] /\ conn' = "closed"
       ELSE UNCHANGED <<relay, conn>>
    /\ UNCHANGED <<publicVars, serverVars, toServer, open, local, localGot, down, cut>>

-----------------------------------------------------------------------------
(***************************************************************************)
(* handleTCPOpen.                                                          *)
(***************************************************************************)
\* relaySem is full, the tunnel is unknown, or the dial fails.
OpenRefused ==
    /\ open = "dial"
    /\ ClientSends(Msg("close"))
    /\ open' = "gone"
    /\ UNCHANGED <<publicVars, serverVars, toClient, cLink, relay, local, conn, localGot, down, cut>>

\* Mutant of OpenDials: the server is told before the relay is registered.
OpenDialsAndAcks ==
    /\ open = "dial"
    /\ conn' = "open"
    /\ open' = "register"
    /\ ClientSends(Msg("ready"))
    /\ UNCHANGED <<publicVars, serverVars, toClient, cLink, relay, local, localGot, down, cut>>

OpenDials ==
    /\ open = "dial"
    /\ conn' = "open"
    /\ open' = "register"
    /\ UNCHANGED <<publicVars, serverVars, toClient, toServer, cLink, relay, local, localGot, down, cut>>

OpenRegisters ==
    /\ open = "register"
    /\ relay' = [relay EXCEPT !.held = TRUE]
    /\ open' = "ack"
    /\ UNCHANGED <<publicVars, serverVars, toClient, toServer, cLink, local, conn, localGot, down, cut>>

\* A failed write of the ready is not noticed.
OpenAcks ==
    /\ open = "ack"
    /\ ClientSends(Msg("ready"))
    /\ open' = "run"
    /\ UNCHANGED <<publicVars, serverVars, toClient, cLink, relay, local, conn, localGot, down, cut>>

OpenReads ==
    /\ open = "run" /\ conn = "open" /\ local = "open"
    /\ down < NumDown
    /\ down' = down + 1
    /\ ClientSends(Data(down + 1))
    /\ open' = IF cLink = "up" THEN "run" ELSE "leave"
    /\ UNCHANGED <<publicVars, serverVars, toClient, cLink, relay, local, conn, localGot, cut>>

OpenReadFails ==
    /\ open = "run"
    /\ local = "gone" \/ conn = "closed"
    /\ open' = "leave"
    /\ UNCHANGED <<publicVars, serverVars, toClient, toServer, cLink, relay, local, conn, localGot, down, cut>>

OpenIdles ==
    /\ open = "run"
    /\ open' = "leave"
    /\ cut' = Expired
    /\ UNCHANGED <<publicVars, serverVars, toClient, toServer, cLink, relay, local, conn, localGot, down>>

\* The deferred function.
OpenLeaves ==
    /\ open = "leave"
    /\ relay' = [held |-> FALSE, done |-> TRUE]
    /\ open' = "last"
    /\ UNCHANGED <<publicVars, serverVars, toClient, toServer, cLink, local, conn, localGot, down, cut>>

OpenEnds ==
    /\ open = "last"
    /\ conn' = "closed"
    /\ ClientSends(Msg("close"))
    /\ open' = "gone"
    /\ UNCHANGED <<publicVars, serverVars, toClient, cLink, relay, local, localGot, down, cut>>

-----------------------------------------------------------------------------
\* The two peers may go away whenever they like.
PublicLeaves ==
    /\ pub = "open" /\ pub' = "gone"
    /\ UNCHANGED <<pubConn, pubGot, up, serverVars, toClient, toServer, clientVars, cut>>

LocalLeaves ==
    /\ local = "open" /\ conn = "open" /\ local' = "gone"
    /\ UNCHANGED <<publicVars, serverVars, toClient, toServer, cLink, open, relay, conn, localGot, down, cut>>

PumpStep ==
    \/ PumpOpens \/ PumpReady \/ PumpReadFails \/ PumpCloses \/ PumpLeaves \/ PumpEnds
    \/ (~sLink /\ PumpGivesUp)

DrainStep == DrainWrites \/ DrainWriteFails \/ DrainEnds

ServerReaderStep ==
    \/ ServerTakesReady \/ ServerTakesData \/ ServerTakesClose
    \/ ReaderEnqueues \/ ReaderDrops \/ ReaderTimesOut

ClientReaderStep ==
    \/ ClientTakesOpen \/ ClientTakesData \/ ClientWriteFails \/ ClientTakesClose

OpenStep ==
    \/ OpenRefused \/ OpenDials \/ OpenRegisters \/ OpenAcks
    \/ OpenReadFails \/ OpenLeaves \/ OpenEnds

Next ==
    \/ PumpStep \/ PumpGivesUp \/ PumpReads \/ PumpIdles
    \/ DrainStep \/ ServerReaderStep \/ ServerDisconnects
    \/ ClientReaderStep \/ ClientDisconnects \/ ClientCloses
    \/ OpenStep \/ OpenReads \/ OpenIdles
    \/ PublicLeaves \/ LocalLeaves

Spec == Init /\ [][Next]_vars

(***************************************************************************)
(* Every goroutine that can run does; a side whose peer has dropped the    *)
(* WebSocket notices (a read error, or no pong).  The peers need not send  *)
(* or close anything, and no deadline has to expire.                       *)
(***************************************************************************)
FairSpec ==
    /\ Spec
    /\ WF_vars(PumpStep) /\ WF_vars(DrainStep)
    /\ WF_vars(ServerReaderStep) /\ WF_vars(ClientReaderStep) /\ WF_vars(OpenStep)
    /\ WF_vars(cLink # "up" /\ ServerDisconnects)
    /\ WF_vars(~sLink /\ ClientDisconnects)

-----------------------------------------------------------------------------
TypeOK ==
    /\ pub \in {"open", "gone"} /\ pubConn \in {"open", "closed"}
    /\ pubGot \in Seq(Nat) /\ up \in 0..NumUp
    /\ pump \in {"open", "wait", "run", "close", "leave", "last", "gone"}
    /\ drain \in {"none", "run", "gone"}
    /\ pr \in PendingReq
    /\ Len(pr.data) <= RelayBuf
    /\ taken \in Nat /\ sLink \in BOOLEAN
    /\ toClient \in Seq(Frame) /\ toServer \in Seq(Frame)
    /\ cLink \in {"up", "down", "closed"}
    /\ open \in {"none", "dial", "register", "ack", "run", "leave", "last", "gone"}
    /\ relay \in StreamRelay
    /\ local \in {"open", "gone"} /\ conn \in {"none", "open", "closed"}
    /\ localGot \in Seq(Nat) /\ down \in 0..NumDown
    /\ cut \in {"none", "ready", "other"}

UpIsPrefix == InOrder(localGot)

DownIsPrefix == InOrder(pubGot)

(***************************************************************************)
(* Each peer receives a prefix of what the other one sent.  Upwards, the   *)
(* ClientHello included, no chunk is lost between the dial and the         *)
(* registration of the relay, because the pump waits for the ready that    *)
(* handleTCPOpen sends after registering.  Downwards, nothing follows a    *)
(* gap when the public peer is slow and handleStreamData gives up on it.   *)
(***************************************************************************)
BothArePrefixes == UpIsPrefix /\ DownIsPrefix

(***************************************************************************)
(* A connection that one peer ends reaches the other peer in full: when    *)
(* the code closes the connection of a peer that is still there, and no    *)
(* deadline expired and no link failed, that peer has been given every     *)
(* chunk read from the other one.                                          *)
(***************************************************************************)
CloseLosesNothing ==
    LinksUp /\ cut = "none" =>
        /\ pubConn = "closed" /\ pub = "open" => Len(pubGot) = down
        /\ conn = "closed" /\ local = "open" => Len(localGot) = up

(***************************************************************************)
(* When either peer goes, or the client refuses, the whole relay goes: the *)
(* pump, the drain and handleTCPOpen end and both connections are closed.  *)
(* Not so after the pump's RequestTimeout, when the client is not told, or *)
(* when a link fails (then the server's half does, below).                 *)
(***************************************************************************)
Over ==
    /\ pump = "gone" /\ drain # "run" /\ pubConn = "closed"
    /\ open \in {"none", "gone"} /\ conn # "open"

RelayTornDown ==
    pub = "gone" \/ local = "gone" \/ open = "gone"
        ~> Over \/ cut = "ready" \/ ~LinksUp

(***************************************************************************)
(* When the tunnel connection fails, the public connection is closed and   *)
(* its goroutines end, whatever they were waiting for.                     *)
(***************************************************************************)
PublicSideEnds ==
    ~LinksUp ~> pump = "gone" /\ drain # "run" /\ pubConn = "closed"
=============================================================================
