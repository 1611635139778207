------------------------------- MODULE WsRelay -------------------------------
(***************************************************************************)
(* A WebSocket upgrade through a tunnel: serveWebSocket                    *)
(* (internal/server/proxy.go) and forward (handler.go) on the server,      *)
(* handleWebSocketReq (internal/client/tunnel.go) on the client, after the *)
(* request frame has been sent.                                            *)
(*                                                                         *)
(* Unlike the raw TCP relay (TcpRelay) there is no ready message: the      *)
(* client sends the 101 response and only then registers its relay, and    *)
(* the server may send the user's first bytes as soon as it has the 101.   *)
(* The public connection is served by two goroutines, and serveWebSocket   *)
(* waits for both.  Chunks, deadlines and `cut' as in TcpRelay.            *)
(***************************************************************************)
EXTENDS StreamFrames

CONSTANTS
    NumUp,      \* bound: chunks the user sends
    NumDown,    \* bound: chunks the local application sends
    RelayBuf    \* protocol.StreamRelayBuf

ASSUME WsAssumption ==
    NumUp \in Nat /\ NumDown \in Nat /\ RelayBuf \in Nat \ {0}

VARIABLES
    pub, pubConn, pubGot,    \* the user, the hijacked connection, what was written
    serve,      \* serveWebSocket: "await", "relay", "finish", "done"
    from,       \* the goroutine that reads the user's bytes
    to,         \* the goroutine that writes to the user
    up,         \* chunks read from the user
    pr,         \* the pendingReq, and whether h.pending holds it
    taken,      \* the chunk the server's reader is sending on streamData, or 0
    link,       \* the tunnel's WebSocket is up
    toClient, toServer,
    ws,         \* where handleWebSocketReq is
    relay,      \* its streamRelay: whether t.relays holds it, and done
    local, conn, localGot,   \* the local application, the connection, what was written
    down,       \* chunks read from it
    early,      \* a frame for the relay came before it was registered
    cut         \* a deadline expired

publicVars == <<pub, pubConn, pubGot, up>>
serverVars == <<serve, from, to, pr, taken>>
clientVars == <<ws, relay, local, conn, localGot, down, early>>
vars == <<publicVars, serverVars, link, toClient, toServer, clientVars, cut>>

Init ==
    /\ pub = "open" /\ pubConn = "open" /\ pubGot = <<>> /\ up = 0
    /\ serve = "await" /\ from = "none" /\ to = "none" /\ taken = 0 /\ link = TRUE
    /\ pr = [pending |-> TRUE, status |-> "none", done |-> FALSE,
             closed |-> FALSE, data |-> <<>>]
    /\ toClient = <<>> /\ toServer = <<>>
    /\ ws = "dial" /\ relay = [held |-> FALSE, done |-> FALSE]
    /\ local = "open" /\ conn = "none" /\ localGot = <<>> /\ down = 0
    /\ early = FALSE /\ cut = FALSE

ServerSends(f) == toClient' = IF link THEN Append(toClient, f) ELSE toClient
ClientSends(f) == toServer' = IF link THEN Append(toServer, f) ELSE toServer

-----------------------------------------------------------------------------
(***************************************************************************)
(* serveWebSocket.                                                         *)
(***************************************************************************)
\* 101: hijack and start the two goroutines; else the response is relayed.
AwaitEnds ==
    /\ serve = "await" /\ pr.status # "none"
    /\ IF pr.status = "101"
       THEN serve' = "relay" /\ from' = "run" /\ to' = "run"
       ELSE serve' = "finish" /\ UNCHANGED <<from, to>>
    /\ UNCHANGED <<publicVars, pr, taken, link, toClient, toServer, clientVars, cut>>

AwaitTimesOut ==
    /\ serve = "await"
    /\ serve' = "finish"
    /\ cut' = TRUE
    /\ UNCHANGED <<publicVars, from, to, pr, taken, link, toClient, toServer, clientVars>>

FromReads ==
    /\ from = "run" /\ pub = "open" /\ pubConn = "open" /\ up < NumUp
    /\ up' = up + 1
    /\ ServerSends(Data(up + 1))
    /\ from' = IF link THEN "run" ELSE "gone"
    /\ UNCHANGED <<pub, pubConn, pubGot, serve, to, pr, taken, link, toServer, clientVars, cut>>

\* Mutant of FromEnds: the client is not told that the user has gone.
FromEndsSilently ==
    /\ from = "run"
    /\ pub = "gone" \/ pubConn = "closed"
    /\ from' = "gone"
    /\ UNCHANGED <<publicVars, serve, to, pr, taken, link, toClient, toServer, clientVars, cut>>

FromEnds ==
    /\ from = "run"
    /\ pub = "gone" \/ pubConn = "closed"
    /\ from' = "gone"
    /\ ServerSends(Msg("close"))
    /\ UNCHANGED <<publicVars, serve, to, pr, taken, link, toServer, clientVars, cut>>

\* RelayIdleTimeout of the read.
FromIdles ==
    /\ from = "run"
    /\ from' = "gone"
    /\ ServerSends(Msg("close"))
    /\ cut' = TRUE
    /\ UNCHANGED <<publicVars, serve, to, pr, taken, link, toServer, clientVars>>

ToWrites ==
    /\ to = "run" /\ pr.data # <<>> /\ pub = "open" /\ pubConn = "open"
    /\ pubGot' = Append(pubGot, Head(pr.data))
    /\ pr' = [pr EXCEPT !.data = Tail(@)]
    /\ UNCHANGED <<pub, pubConn, up, serve, from, to, taken, link, toClient, toServer, clientVars, cut>>

\* A write error ends the goroutine and leaves the connection open.
ToFails ==
    /\ to = "run" /\ pr.data # <<>>
    /\ pr' = [pr EXCEPT !.data = Tail(@)]
    /\ to' = "gone"
    /\ cut' = (cut \/ pub = "open")
    /\ UNCHANGED <<publicVars, serve, from, taken, link, toClient, toServer, clientVars>>

\* Mutant of ToEnds: the rest of the channel is not written.
ToEndsEarly ==
    /\ to = "run" /\ pr.closed
    /\ pubConn' = "closed"
    /\ to' = "gone"
    /\ UNCHANGED <<pub, pubGot, up, serve, from, pr, taken, link, toClient, toServer, clientVars, cut>>

\* The channel is closed and empty.
ToEnds ==
    /\ to = "run" /\ pr.closed /\ pr.data = <<>>
    /\ pubConn' = "closed"
    /\ to' = "gone"
    /\ UNCHANGED <<pub, pubGot, up, serve, from, pr, taken, link, toClient, toServer, clientVars, cut>>

\* wg.Wait, conn.Close.
RelayEnds ==
    /\ serve = "relay" /\ from = "gone" /\ to = "gone"
    /\ pubConn' = "closed"
    /\ serve' = "finish"
    /\ UNCHANGED <<pub, pubGot, up, from, to, pr, taken, link, toClient, toServer, clientVars, cut>>

\* cleanup, deferred: finishForward.
Finish ==
    /\ serve = "finish"
    /\ pr' = [pr EXCEPT !.pending = FALSE, !.done = TRUE]
    /\ serve' = "done"
    /\ UNCHANGED <<publicVars, from, to, taken, link, toClient, toServer, clientVars, cut>>

-----------------------------------------------------------------------------
(***************************************************************************)
(* The server's reader.                                                    *)
(***************************************************************************)
ServerReceives(types) ==
    /\ link /\ taken = 0
    /\ toServer # <<>> /\ Head(toServer).type \in types
    /\ toServer' = Tail(toServer)

ServerTakesResponse ==
    /\ ServerReceives({"101", "other"})
    /\ pr' = IF pr.pending THEN [pr EXCEPT !.status = Head(toServer).type] ELSE pr
    /\ UNCHANGED <<publicVars, serve, from, to, taken, link, toClient, clientVars, cut>>

ServerTakesData ==
    /\ ServerReceives({"data"})
    /\ taken' = IF pr.pending THEN Head(toServer).chunk ELSE 0
    /\ UNCHANGED <<publicVars, serve, from, to, pr, link, toClient, clientVars, cut>>

\* Mutant of ServerEnqueues: the channel has no bound.
ServerEnqueuesUnbounded ==
    /\ taken # 0
    /\ pr' = [pr EXCEPT !.data = Append(@, taken)]
    /\ taken' = 0
    /\ UNCHANGED <<publicVars, serve, from, to, link, toClient, toServer, clientVars, cut>>

ServerEnqueues ==
    /\ taken # 0 /\ Len(pr.data) < RelayBuf
    /\ pr' = [pr EXCEPT !.data = Append(@, taken)]
    /\ taken' = 0
    /\ UNCHANGED <<publicVars, serve, from, to, link, toClient, toServer, clientVars, cut>>

ServerDrops ==
    /\ taken # 0 /\ pr.done
    /\ taken' = 0
    /\ UNCHANGED <<publicVars, serve, from, to, pr, link, toClient, toServer, clientVars, cut>>

\* Mutant of ServerGivesUp: the chunk is skipped and the stream goes on.
ServerSkipsChunk ==
    /\ taken # 0 /\ Len(pr.data) = RelayBuf
    /\ taken' = 0
    /\ cut' = TRUE
    /\ UNCHANGED <<publicVars, serve, from, to, pr, link, toClient, toServer, clientVars>>

ServerGivesUp ==
    /\ taken # 0 /\ Len(pr.data) = RelayBuf
    /\ pr' = [pr EXCEPT !.pending = FALSE, !.closed = TRUE]
    /\ ServerSends(Msg("close"))
    /\ taken' = 0
    /\ cut' = TRUE
    /\ UNCHANGED <<publicVars, serve, from, to, link, toServer, clientVars>>

ServerTakesClose ==
    /\ ServerReceives({"close"})
    /\ pr' = IF pr.pending THEN [pr EXCEPT !.pending = FALSE, !.closed = TRUE] ELSE pr
    /\ UNCHANGED <<publicVars, serve, from, to, taken, link, toClient, clientVars, cut>>

\* The tunnel fails: the handler's cleanup; on the client Close, which
\* closes the registered relays.
LinkLost ==
    /\ link /\ taken = 0
    /\ link' = FALSE
    /\ pr' = IF pr.pending
             THEN [pr EXCEPT !.pending = FALSE, !.closed = TRUE, !.done = TRUE] ELSE pr
    /\ toClient' = <<>> /\ toServer' = <<>>
    /\ relay' = IF relay.held THEN [held |-> FALSE, done |-> TRUE] ELSE relay
    /\ conn' = IF relay.held THEN "closed" ELSE conn
    /\ UNCHANGED <<publicVars, serve, from, to, taken, ws, local, localGot, down, early, cut>>

-----------------------------------------------------------------------------
(***************************************************************************)
(* The client: Run's reader, then handleWebSocketReq.                      *)
(***************************************************************************)
ClientReceives(t) ==
    /\ toClient # <<>> /\ Head(toClient).type = t
    /\ toClient' = Tail(toClient)

ClientTakesData ==
    /\ ClientReceives("data")
    /\ localGot' = IF relay.held /\ ~relay.done /\ conn = "open" /\ local = "open"
                   THEN Append(localGot, Head(toClient).chunk) ELSE localGot
    /\ early' = (early \/ ws = "register")
    /\ UNCHANGED <<publicVars, serverVars, link, toServer, ws, relay, local, conn, down, cut>>

ClientWriteFails ==
    /\ ClientReceives("data")
    /\ relay.held /\ ~relay.done
    /\ relay' = [relay EXCEPT !.done = TRUE]
    /\ conn' = "closed"
    /\ cut' = (cut \/ local = "open")
    /\ UNCHANGED <<publicVars, serverVars, link, toServer, ws, local, localGot, down, early>>

ClientTakesClose ==
    /\ ClientReceives("close")
    /\ IF relay.held
       THEN relay' = [held |-> FALSE, done |-> TRUE] /\ conn' = "closed"
       ELSE UNCHANGED <<relay, conn>>
    /\ early' = (early \/ ws = "register")
    /\ UNCHANGED <<publicVars, serverVars, link, toServer, ws, local, localGot, down, cut>>

\* No relay slot, an unknown tunnel, a dial or handshake error, or an answer
\* of the local application that is not 101.
UpgradeFails ==
    /\ ws = "dial"
    /\ ClientSends(Msg("other"))
    /\ ws' = "gone"
    /\ UNCHANGED <<publicVars, serverVars, link, toClient, relay, local, conn, localGot, down, early, cut>>

UpgradeAnswered ==
    /\ ws = "dial"
    /\ conn' = "open"
    /\ ClientSends(Msg("101"))
    /\ ws' = "register"
    /\ UNCHANGED <<publicVars, serverVars, link, toClient, relay, local, localGot, down, early, cut>>

RelayRegisters ==
    /\ ws = "register"
    /\ relay' = [relay EXCEPT !.held = TRUE]
    /\ ws' = "run"
    /\ UNCHANGED <<publicVars, serverVars, link, toClient, toServer, local, conn, localGot, down, early, cut>>

RelayReads ==
    /\ ws = "run" /\ conn = "open" /\ local = "open" /\ down < NumDown
    /\ down' = down + 1
    /\ ClientSends(Data(down + 1))
    /\ ws' = IF link THEN "run" ELSE "leave"
    /\ UNCHANGED <<publicVars, serverVars, link, toClient, relay, local, conn, localGot, early, cut>>

RelayReadFails ==
    /\ ws = "run"
    /\ local = "gone" \/ conn = "closed"
    /\ ws' = "leave"
    /\ UNCHANGED <<publicVars, serverVars, link, toClient, toServer, relay, local, conn, localGot, down, early, cut>>

RelayIdles ==
    /\ ws = "run"
    /\ ws' = "leave"
    /\ cut' = TRUE
    /\ UNCHANGED <<publicVars, serverVars, link, toClient, toServer, relay, local, conn, localGot, down, early>>

\* The deferred function.
RelayLeaves ==
    /\ ws = "leave"
    /\ relay' = [held |-> FALSE, done |-> TRUE]
    /\ conn' = "closed"
    /\ ClientSends(Msg("close"))
    /\ ws' = "gone"
    /\ UNCHANGED <<publicVars, serverVars, link, toClient, local, localGot, down, early, cut>>

-----------------------------------------------------------------------------
PublicLeaves ==
    /\ pub = "open" /\ pub' = "gone"
    /\ UNCHANGED <<pubConn, pubGot, up, serverVars, link, toClient, toServer, clientVars, cut>>

LocalLeaves ==
    /\ local = "open" /\ conn = "open" /\ local' = "gone"
    /\ UNCHANGED <<publicVars, serverVars, link, toClient, toServer, ws, relay, conn, localGot, down, early, cut>>

ServeStep == AwaitEnds \/ RelayEnds \/ Finish

ToStep == ToWrites \/ ToFails \/ ToEnds

ServerReaderStep ==
    \/ ServerTakesResponse \/ ServerTakesData \/ ServerTakesClose
    \/ ServerEnqueues \/ ServerDrops \/ ServerGivesUp

ClientReaderStep == ClientTakesData \/ ClientWriteFails \/ ClientTakesClose

RelayStep ==
    UpgradeFails \/ UpgradeAnswered \/ RelayRegisters \/ RelayReadFails \/ RelayLeaves

Next ==
    \/ ServeStep \/ AwaitTimesOut \/ FromReads \/ FromEnds \/ FromIdles \/ ToStep
    \/ ServerReaderStep \/ LinkLost
    \/ ClientReaderStep \/ RelayStep \/ RelayReads \/ RelayIdles
    \/ PublicLeaves \/ LocalLeaves

Spec == Init /\ [][Next]_vars

(***************************************************************************)
(* Every goroutine runs.  No deadline has to expire, but the wait for a    *)
(* response over a tunnel that is gone.                                    *)
(***************************************************************************)
FairSpec ==
    /\ Spec
    /\ WF_vars(ServeStep) /\ WF_vars(FromEnds) /\ WF_vars(ToStep)
    /\ WF_vars(ServerReaderStep) /\ WF_vars(ClientReaderStep) /\ WF_vars(RelayStep)
    /\ WF_vars(~link /\ AwaitTimesOut)

-----------------------------------------------------------------------------
PendingReq == [pending : BOOLEAN, status : {"none", "101", "other"}, done : BOOLEAN,
               closed : BOOLEAN, data : Seq(1..NumDown)]

StreamRelay == [held : BOOLEAN, done : BOOLEAN]

ToClientFrame == {Msg("close")} \cup {Data(n) : n \in 1..NumUp}
ToServerFrame == {Msg(t) : t \in {"101", "other", "close"}} \cup {Data(n) : n \in 1..NumDown}

TypeOK ==
    /\ pub \in {"open", "gone"} /\ pubConn \in {"open", "closed"}
    /\ pubGot \in Seq(1..NumDown) /\ up \in 0..NumUp
    /\ serve \in {"await", "relay", "finish", "done"}
    /\ from \in {"none", "run", "gone"} /\ to \in {"none", "run", "gone"}
    /\ pr \in PendingReq /\ Len(pr.data) <= RelayBuf
    /\ taken \in 0..NumDown /\ link \in BOOLEAN
    /\ toClient \in Seq(ToClientFrame) /\ toServer \in Seq(ToServerFrame)
    /\ ws \in {"dial", "register", "run", "leave", "gone"}
    /\ relay \in StreamRelay
    /\ local \in {"open", "gone"} /\ conn \in {"none", "open", "closed"}
    /\ localGot \in Seq(1..NumUp) /\ down \in 0..NumDown
    /\ early \in BOOLEAN /\ cut \in BOOLEAN

(***************************************************************************)
(* A WebSocket that the local application ends reaches the user in full    *)
(* and in order: when serveWebSocket closes the connection of a user who   *)
(* is still there, with the tunnel up and no deadline expired, the user    *)
(* has been given every chunk read from the application.                   *)
(***************************************************************************)
CloseLosesNothing ==
    link /\ ~cut /\ pubConn = "closed" /\ pub = "open" =>
        pubGot = [i \in 1..down |-> i]

(***************************************************************************)
(* When the user, the local application or the tunnel goes, serveWebSocket *)
(* comes past wg.Wait: neither of its goroutines is left waiting for the   *)
(* other's end.  Not so when the client has missed the server's close, or  *)
(* when a write to the user timed out: that goroutine leaves the connection*)
(* open, and only RelayIdleTimeout ends the other.                         *)
(***************************************************************************)
ServeEnds ==
    pub = "gone" \/ local = "gone" \/ ~link ~> serve = "done" \/ early \/ cut

(***************************************************************************)
(* Each side receives a prefix of what the other one sent, also when the   *)
(* user is slow and the server's reader gives up on the stream.  The user's*)
(* bytes only if none of them arrives between the 101 and the registration *)
(* of the relay: those are dropped, and the later ones delivered.          *)
(***************************************************************************)
BothArePrefixes == InOrder(pubGot) /\ (early \/ InOrder(localGot))
=============================================================================
