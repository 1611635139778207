---------------------------- MODULE HttpExchange ----------------------------
(***************************************************************************)
(* One HTTP request through a tunnel, its body and the response's body     *)
(* streamed when they are large: ServeHTTP, pumpRequestBody and            *)
(* streamResponse (internal/server/proxy.go) with startForward,            *)
(* awaitResponse and the stream handlers of handler.go on the server;      *)
(* handleHTTPReq, handleNormalHTTPReq, streamResponseBody and the stream   *)
(* handlers of internal/client/tunnel.go on the client.                    *)
(*                                                                         *)
(* Goroutines: ServeHTTP, the body pump and the handler's reader on the    *)
(* server; Run's reader and handleHTTPReq on the client.  One MsgStreamData*)
(* and one MsgStreamClose serve three purposes: request body, response     *)
(* body, and "stop sending".  Bodies are chunks numbered from 1; headers,  *)
(* inline bodies and the dashboard are left out.  Deadlines may expire     *)
(* whenever the code waits on them.                                        *)
(***************************************************************************)
EXTENDS StreamFrames

CONSTANTS
    NumUp,      \* bound: chunks of the request body; 0: it is inline
    NumDown,    \* bound: chunks of a streamed response body
    RelayBuf    \* protocol.StreamRelayBuf

ASSUME ExchangeAssumption ==
    NumUp \in Nat /\ NumDown \in Nat /\ RelayBuf \in Nat \ {0}

VARIABLES
    viewer,     \* the external user: "here" or "gone"
    page,       \* the response chunks written to the user
    srv,        \* where ServeHTTP is
    pump,       \* pumpRequestBody's goroutine
    sent,       \* request chunks sent
    pr,         \* the pendingReq, and whether h.pending holds it
    sTaken,     \* the chunk the server's reader is sending on streamData, or 0
    link,       \* the WebSocket is up
    toClient, toServer,
    cl,         \* where handleHTTPReq is
    bs,         \* the bodyStream: whether t.bodyStreams holds it, its channel
    cTaken,     \* the chunk the client's reader is sending on bs.ch, or 0
    body,       \* the request chunks the local application has been given
    cancel,     \* respCancels: "none", "armed", "closed"
    down,       \* response chunks sent
    dropped,    \* a frame of the body came before there was a bodyStream
    cut         \* a deadline expired, or the user, the link or the local body failed

serverVars == <<viewer, page, srv, pump, sent, pr, sTaken>>
clientVars == <<cl, bs, cTaken, body, cancel, down, dropped>>
vars == <<serverVars, link, toClient, toServer, clientVars, cut>>

\* A pendingReq in h.pending or not; a channel that is closed is TRUE.
PendingReq == [pending : BOOLEAN, response : {"none", "inline", "streamed"}, done : BOOLEAN,
               closed : BOOLEAN, data : Seq(1..NumDown)]

\* A bodyStream in t.bodyStreams or not.
BodyStream == [held : BOOLEAN, closed : BOOLEAN, aborted : BOOLEAN, data : Seq(1..NumUp)]

Init ==
    /\ viewer = "here" /\ page = <<>> /\ srv = "start" /\ pump = "none" /\ sent = 0
    /\ pr = [pending |-> FALSE, response |-> "none", done |-> FALSE,
             closed |-> FALSE, data |-> <<>>]
    /\ sTaken = 0 /\ link = TRUE /\ toClient = <<>> /\ toServer = <<>>
    /\ cl = "none" /\ cTaken = 0 /\ body = <<>> /\ cancel = "none" /\ down = 0
    /\ bs = [held |-> FALSE, closed |-> FALSE, aborted |-> FALSE, data |-> <<>>]
    /\ dropped = FALSE /\ cut = FALSE

ServerSends(f) == toClient' = IF link THEN Append(toClient, f) ELSE toClient
ClientSends(f) == toServer' = IF link THEN Append(toServer, f) ELSE toServer

-----------------------------------------------------------------------------
(***************************************************************************)
(* ServeHTTP.                                                              *)
(***************************************************************************)
\* startForward, and the pump when the body is streamed.
Forward ==
    /\ srv = "start"
    /\ ServerSends(Msg("request"))
    /\ IF link
       THEN /\ pr' = [pr EXCEPT !.pending = TRUE]
            /\ srv' = "await"
            /\ pump' = IF NumUp > 0 THEN "run" ELSE "none"
       ELSE srv' = "done" /\ UNCHANGED <<pr, pump>>
    /\ UNCHANGED <<viewer, page, sent, sTaken, link, toServer, clientVars, cut>>

AwaitEnds ==
    /\ srv = "await" /\ pr.response # "none"
    /\ srv' = IF pr.response = "streamed" THEN "stream" ELSE "finish"
    /\ UNCHANGED <<viewer, page, pump, sent, pr, sTaken, link, toClient, toServer, clientVars, cut>>

\* awaitResponse does not look at pr.done or h.done: it waits for its timeout.
AwaitTimesOut ==
    /\ srv = "await"
    /\ srv' = "finish"
    /\ cut' = TRUE
    /\ UNCHANGED <<viewer, page, pump, sent, pr, sTaken, link, toClient, toServer, clientVars>>

StreamWrites ==
    /\ srv = "stream" /\ pr.data # <<>>
    /\ IF viewer = "here"
       THEN page' = Append(page, Head(pr.data)) /\ UNCHANGED <<srv, toClient>>
       ELSE srv' = "finish" /\ ServerSends(Msg("close")) /\ UNCHANGED page
    /\ pr' = [pr EXCEPT !.data = Tail(@)]
    /\ UNCHANGED <<viewer, pump, sent, sTaken, link, toServer, clientVars, cut>>

\* Mutant of StreamEnds: a closed stream ends the response at once.
StreamEndsEarly ==
    /\ srv = "stream" /\ pr.closed
    /\ srv' = "finish"
    /\ ServerSends(Msg("close"))
    /\ UNCHANGED <<viewer, page, pump, sent, pr, sTaken, link, toServer, clientVars, cut>>

\* The channel is closed and empty: the deferred close goes out all the same.
StreamEnds ==
    /\ srv = "stream" /\ pr.closed /\ pr.data = <<>>
    /\ srv' = "finish"
    /\ ServerSends(Msg("close"))
    /\ UNCHANGED <<viewer, page, pump, sent, pr, sTaken, link, toServer, clientVars, cut>>

\* RelayIdleTimeout.
StreamIdles ==
    /\ srv = "stream" /\ pr.data = <<>> /\ ~pr.closed
    /\ srv' = "finish"
    /\ ServerSends(Msg("close"))
    /\ cut' = TRUE
    /\ UNCHANGED <<viewer, page, pump, sent, pr, sTaken, link, toServer, clientVars>>

\* finishForward, deferred.
Finish ==
    /\ srv = "finish"
    /\ pr' = [pr EXCEPT !.pending = FALSE, !.done = TRUE]
    /\ srv' = "done"
    /\ UNCHANGED <<viewer, page, pump, sent, sTaken, link, toClient, toServer, clientVars, cut>>

ViewerLeaves ==
    /\ viewer = "here" /\ viewer' = "gone"
    /\ cut' = TRUE
    /\ UNCHANGED <<page, srv, pump, sent, pr, sTaken, link, toClient, toServer, clientVars>>

-----------------------------------------------------------------------------
(***************************************************************************)
(* pumpRequestBody: the first chunk is the buffered prefix and is sent     *)
(* before pr.done is looked at.                                            *)
(***************************************************************************)
PumpSends ==
    /\ pump = "run" /\ sent < NumUp
    /\ sent = 0 \/ (viewer = "here" /\ ~pr.done)
    /\ sent' = sent + 1
    /\ ServerSends(Data(sent + 1))
    /\ pump' = IF link THEN "run" ELSE "gone"
    /\ UNCHANGED <<viewer, page, srv, pr, sTaken, link, toServer, clientVars, cut>>

\* Mutant of PumpEnds: no close after the last chunk.
PumpEndsSilently ==
    /\ pump = "run" /\ sent > 0
    /\ sent = NumUp \/ pr.done \/ viewer = "gone"
    /\ pump' = "gone"
    /\ UNCHANGED <<viewer, page, srv, sent, pr, sTaken, link, toClient, toServer, clientVars, cut>>

\* The body's end, a read error or pr.done: the client sees the body end.
PumpEnds ==
    /\ pump = "run" /\ sent > 0
    /\ sent = NumUp \/ pr.done \/ viewer = "gone"
    /\ pump' = "gone"
    /\ ServerSends(Msg("close"))
    /\ UNCHANGED <<viewer, page, srv, sent, pr, sTaken, link, toServer, clientVars, cut>>

-----------------------------------------------------------------------------
(***************************************************************************)
(* The server's reader.                                                    *)
(***************************************************************************)
ServerReceives(types) ==
    /\ link /\ sTaken = 0
    /\ toServer # <<>> /\ Head(toServer).type \in types
    /\ toServer' = Tail(toServer)

ServerTakesResponse ==
    /\ ServerReceives({"inline", "streamed"})
    /\ pr' = IF pr.pending THEN [pr EXCEPT !.response = Head(toServer).type] ELSE pr
    /\ UNCHANGED <<viewer, page, srv, pump, sent, sTaken, link, toClient, clientVars, cut>>

ServerTakesData ==
    /\ ServerReceives({"data"})
    /\ sTaken' = IF pr.pending THEN Head(toServer).chunk ELSE 0
    /\ UNCHANGED <<viewer, page, srv, pump, sent, pr, link, toClient, clientVars, cut>>

\* Mutant of ServerEnqueues: the channel has no bound.
ServerEnqueuesUnbounded ==
    /\ sTaken # 0
    /\ pr' = [pr EXCEPT !.data = Append(@, sTaken)]
    /\ sTaken' = 0
    /\ UNCHANGED <<viewer, page, srv, pump, sent, link, toClient, toServer, clientVars, cut>>

ServerEnqueues ==
    /\ sTaken # 0 /\ Len(pr.data) < RelayBuf
    /\ pr' = [pr EXCEPT !.data = Append(@, sTaken)]
    /\ sTaken' = 0
    /\ UNCHANGED <<viewer, page, srv, pump, sent, link, toClient, toServer, clientVars, cut>>

ServerDrops ==
    /\ sTaken # 0 /\ pr.done
    /\ sTaken' = 0
    /\ UNCHANGED <<viewer, page, srv, pump, sent, pr, link, toClient, toServer, clientVars, cut>>

\* Mutant of ServerGivesUp: the chunk is skipped and the stream goes on.
ServerSkipsChunk ==
    /\ sTaken # 0 /\ Len(pr.data) = RelayBuf
    /\ sTaken' = 0
    /\ cut' = TRUE
    /\ UNCHANGED <<viewer, page, srv, pump, sent, pr, link, toClient, toServer, clientVars>>

ServerGivesUp ==
    /\ sTaken # 0 /\ Len(pr.data) = RelayBuf
    /\ pr' = [pr EXCEPT !.pending = FALSE, !.closed = TRUE]
    /\ ServerSends(Msg("close"))
    /\ sTaken' = 0
    /\ cut' = TRUE
    /\ UNCHANGED <<viewer, page, srv, pump, sent, link, toServer, clientVars>>

ServerTakesClose ==
    /\ ServerReceives({"close"})
    /\ pr' = IF pr.pending THEN [pr EXCEPT !.pending = FALSE, !.closed = TRUE] ELSE pr
    /\ UNCHANGED <<viewer, page, srv, pump, sent, sTaken, link, toClient, clientVars, cut>>

\* The WebSocket fails: the handler's cleanup, and t.done on the client.
LinkLost ==
    /\ link /\ sTaken = 0
    /\ link' = FALSE
    /\ pr' = IF pr.pending
             THEN [pr EXCEPT !.pending = FALSE, !.closed = TRUE, !.done = TRUE] ELSE pr
    /\ toClient' = <<>> /\ toServer' = <<>>
    /\ cut' = TRUE
    /\ UNCHANGED <<viewer, page, srv, pump, sent, sTaken, clientVars>>

-----------------------------------------------------------------------------
(***************************************************************************)
(* The client's reader.  MsgStreamData goes to the bodyStream; a           *)
(* MsgStreamClose ends the bodyStream or else cancels the response.        *)
(***************************************************************************)
ClientReceives(t) ==
    /\ cTaken = 0
    /\ toClient # <<>> /\ Head(toClient).type = t
    /\ toClient' = Tail(toClient)

ClientTakesRequest ==
    /\ ClientReceives("request")
    /\ cl' = "spawned"
    /\ UNCHANGED <<serverVars, link, toServer, bs, cTaken, body, cancel, down, dropped, cut>>

ClientTakesData ==
    /\ ClientReceives("data")
    /\ cTaken' = IF bs.held THEN Head(toClient).chunk ELSE 0
    /\ dropped' = (dropped \/ cl \in {"none", "spawned"})
    /\ UNCHANGED <<serverVars, link, toServer, cl, bs, body, cancel, down, cut>>

ClientEnqueues ==
    /\ cTaken # 0 /\ Len(bs.data) < RelayBuf
    /\ bs' = [bs EXCEPT !.data = Append(@, cTaken)]
    /\ cTaken' = 0
    /\ UNCHANGED <<serverVars, link, toClient, toServer, cl, body, cancel, down, dropped, cut>>

\* Mutant of ClientAborts: the chunk is dropped instead.
ClientSkipsChunk ==
    /\ cTaken # 0 /\ Len(bs.data) = RelayBuf
    /\ cTaken' = 0
    /\ cut' = TRUE
    /\ UNCHANGED <<serverVars, link, toClient, toServer, cl, bs, body, cancel, down, dropped>>

\* StreamSendTimeout: the local application does not read.
ClientAborts ==
    /\ cTaken # 0 /\ Len(bs.data) = RelayBuf
    /\ bs' = [bs EXCEPT !.held = FALSE, !.closed = TRUE, !.aborted = TRUE]
    /\ cTaken' = 0
    /\ cut' = TRUE
    /\ UNCHANGED <<serverVars, link, toClient, toServer, cl, body, cancel, down, dropped>>

ClientTakesClose ==
    /\ ClientReceives("close")
    /\ IF bs.held
       THEN bs' = [bs EXCEPT !.held = FALSE, !.closed = TRUE] /\ UNCHANGED cancel
       ELSE cancel' = (IF cancel = "armed" THEN "closed" ELSE cancel) /\ UNCHANGED bs
    /\ dropped' = (dropped \/ cl \in {"none", "spawned"})
    /\ UNCHANGED <<serverVars, link, toServer, cl, cTaken, body, down, cut>>

-----------------------------------------------------------------------------
(***************************************************************************)
(* handleHTTPReq, in a goroutine of its own.                               *)
(***************************************************************************)
\* No slot, an undecodable request, an unknown tunnel: an error response.
RequestRefused ==
    /\ cl = "spawned"
    /\ ClientSends(Msg("inline"))
    /\ cl' = "gone"
    /\ UNCHANGED <<serverVars, link, toClient, bs, cTaken, body, cancel, down, dropped, cut>>

RequestStarts ==
    /\ cl = "spawned"
    /\ bs' = [bs EXCEPT !.held = NumUp > 0]
    /\ cl' = "do"
    /\ UNCHANGED <<serverVars, link, toClient, toServer, cTaken, body, cancel, down, dropped, cut>>

\* httpClient.Do reads the body for the local application.
LocalReads ==
    /\ cl \in {"do", "stream"} /\ bs.data # <<>>
    /\ body' = Append(body, Head(bs.data))
    /\ bs' = [bs EXCEPT !.data = Tail(@)]
    /\ UNCHANGED <<serverVars, link, toClient, toServer, cl, cTaken, cancel, down, dropped, cut>>

\* The body has ended, in whatever way, for the local application.
BodyOver == NumUp = 0 \/ (bs.closed /\ bs.data = <<>>) \/ ~link

\* Do returns: with an inline response, or an error one, or a streamed one.
LocalAnswers(kind) ==
    /\ cl = "do"
    /\ cl' = IF kind = "inline" THEN "last" ELSE "arm"
    /\ IF kind = "inline" THEN ClientSends(Msg("inline")) ELSE UNCHANGED toServer
    /\ UNCHANGED <<serverVars, link, toClient, bs, cTaken, body, cancel, down, dropped, cut>>

\* streamResponseBody: a relay slot, or an error response when there is none;
\* then respCancels, then the headers.
StreamRefused ==
    /\ cl = "arm" /\ cancel = "none"
    /\ ClientSends(Msg("inline"))
    /\ cl' = "last"
    /\ UNCHANGED <<serverVars, link, toClient, bs, cTaken, body, cancel, down, dropped, cut>>

StreamArms ==
    /\ cl = "arm" /\ cancel = "none"
    /\ cancel' = "armed"
    /\ UNCHANGED <<serverVars, link, toClient, toServer, cl, bs, cTaken, body, down, dropped, cut>>

StreamResponds ==
    /\ cl = "arm" /\ cancel # "none"
    /\ ClientSends(Msg("streamed"))
    /\ cl' = "stream"
    /\ UNCHANGED <<serverVars, link, toClient, bs, cTaken, body, cancel, down, dropped, cut>>

StreamSends ==
    /\ cl = "stream" /\ down < NumDown /\ cancel = "armed" /\ link
    /\ down' = down + 1
    /\ ClientSends(Data(down + 1))
    /\ UNCHANGED <<serverVars, link, toClient, cl, bs, cTaken, body, cancel, dropped, cut>>

\* The local application fails half-way: the server is told what it is told
\* at the end of a body.
StreamFails ==
    /\ cl = "stream"
    /\ ClientSends(Msg("close"))
    /\ cancel' = "none"
    /\ cl' = "last"
    /\ cut' = TRUE
    /\ UNCHANGED <<serverVars, link, toClient, bs, cTaken, body, down, dropped>>

\* The local body is over, or the server cancelled it, or the tunnel is done.
StreamCloses ==
    /\ cl = "stream"
    /\ down = NumDown \/ cancel = "closed" \/ ~link
    /\ ClientSends(Msg("close"))
    /\ cancel' = "none"
    /\ cl' = "last"
    /\ UNCHANGED <<serverVars, link, toClient, bs, cTaken, body, down, dropped, cut>>

\* Deferred: the bodyStream leaves the map and the request slot is freed.
RequestEnds ==
    /\ cl = "last"
    /\ bs' = [bs EXCEPT !.held = FALSE]
    /\ cl' = "gone"
    /\ UNCHANGED <<serverVars, link, toClient, toServer, cTaken, body, cancel, down, dropped, cut>>

-----------------------------------------------------------------------------
ServeStep == Forward \/ AwaitEnds \/ StreamWrites \/ StreamEnds \/ Finish

PumpStep == PumpSends \/ PumpEnds

ServerReaderStep ==
    \/ ServerTakesResponse \/ ServerTakesData \/ ServerTakesClose
    \/ ServerEnqueues \/ ServerDrops \/ ServerGivesUp

ClientReaderStep ==
    \/ ClientTakesRequest \/ ClientTakesData \/ ClientTakesClose
    \/ ClientEnqueues \/ ClientAborts

Answers == \E kind \in {"inline", "streamed"} : LocalAnswers(kind)

RequestStep ==
    \/ RequestRefused \/ RequestStarts \/ (BodyOver /\ Answers)
    \/ StreamRefused \/ StreamArms \/ StreamResponds \/ StreamSends \/ StreamCloses
    \/ RequestEnds

Next ==
    \/ ServeStep \/ AwaitTimesOut \/ StreamIdles \/ ViewerLeaves
    \/ PumpStep \/ ServerReaderStep \/ LinkLost
    \/ ClientReaderStep \/ RequestStep \/ LocalReads \/ Answers \/ StreamFails

Spec == Init /\ [][Next]_vars

(***************************************************************************)
(* Goroutines run; the local application reads its body and, when it has   *)
(* ended, answers (or ResponseHeaderTimeout answers for it).  The server's *)
(* deadlines need not expire before that, but a wait for a response that   *)
(* cannot come any more does time out.                                     *)
(***************************************************************************)
FairSpec ==
    /\ Spec
    /\ WF_vars(ServeStep) /\ WF_vars(PumpStep) /\ WF_vars(ServerReaderStep)
    /\ WF_vars(ClientReaderStep) /\ WF_vars(RequestStep) /\ WF_vars(LocalReads)
    /\ WF_vars(~link /\ AwaitTimesOut)

-----------------------------------------------------------------------------
TypeOK ==
    /\ viewer \in {"here", "gone"} /\ page \in Seq(1..NumDown)
    /\ srv \in {"start", "await", "stream", "finish", "done"}
    /\ pump \in {"none", "run", "gone"} /\ sent \in 0..NumUp
    /\ pr \in PendingReq
    /\ Len(pr.data) <= RelayBuf
    /\ sTaken \in 0..NumDown /\ link \in BOOLEAN
    /\ cl \in {"none", "spawned", "do", "arm", "stream", "last", "gone"}
    /\ bs \in BodyStream
    /\ Len(bs.data) <= RelayBuf
    /\ cTaken \in 0..NumUp /\ body \in Seq(1..NumUp)
    /\ cancel \in {"none", "armed", "closed"} /\ down \in 0..NumDown
    /\ dropped \in BOOLEAN /\ cut \in BOOLEAN

DownloadIsPrefix == InOrder(page)

UploadHasNoGap == \A i \in 2..Len(body) : body[i] = body[i - 1] + 1

(***************************************************************************)
(* Bodies reach the user and the local application in order and without a  *)
(* gap, also when either is slow and the reader of its side gives up on    *)
(* the chunk it holds (an upload may start late: see UploadNotDropped).    *)
(***************************************************************************)
BodiesHaveNoGap == DownloadIsPrefix /\ UploadHasNoGap

(***************************************************************************)
(* A streamed response that ends with no deadline expired and no failure   *)
(* of the link, the user or the local application is complete.  The        *)
(* MsgStreamClose that ends the request body is never taken for a          *)
(* cancellation of the response.                                           *)
(***************************************************************************)
DownloadComplete ==
    srv = "done" /\ pr.response = "streamed" /\ ~cut => Len(page) = NumDown

(***************************************************************************)
(* ServeHTTP ends, without the help of its deadlines while the link is up, *)
(* and the client's goroutine returns its request slot.  Not so when a     *)
(* frame of the body has come too early.                                   *)
(***************************************************************************)
RequestEnded ==
    srv # "start" ~> (srv = "done" /\ cl \in {"none", "gone"}) \/ dropped

-----------------------------------------------------------------------------
(***************************************************************************)
(* "abort rather than silently dropping a chunk" (handleStreamData, in     *)
(* tunnel.go): the local application is given the body from its start.  A  *)
(* chunk that comes before the request's goroutine has registered its      *)
(* bodyStream is dropped and the upload goes on.                           *)
(***************************************************************************)
UploadNotDropped == Len(body) > 0 => body[1] = 1
=============================================================================
