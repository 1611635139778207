------------------------- MODULE HttpExchangeProofs -------------------------
(***************************************************************************)
(* The bodies of one HTTP request and its response, streamed through the   *)
(* tunnel, arrive in order and without a gap, and a response that ends     *)
(* with no failure is complete: for every number of chunks and every       *)
(* channel size.                                                           *)
(***************************************************************************)
EXTENDS HttpExchange, StreamFramesProofs

-----------------------------------------------------------------------------
(***************************************************************************)
(* The inductive invariant.  The frames under way carry chunks of the body *)
(* they belong to.                                                         *)
(***************************************************************************)
UpFrame ==
    {f \in [type : {"request", "data", "close"}, chunk : 0..NumUp] :
        IsData(f) => f.chunk # 0}

DownFrame ==
    {f \in [type : {"inline", "streamed", "data", "close"}, chunk : 0..NumDown] :
        IsData(f) => f.chunk # 0}

TypeInv == TypeOK /\ toClient \in Seq(UpFrame) /\ toServer \in Seq(DownFrame)

\* handleHTTPReq has not answered yet.
Unanswered == cl \in {"none", "spawned", "do", "arm"}

\* The request's bodyStream is or has been registered.
Started == cl \in {"do", "arm", "stream"}

\* ServeHTTP has nothing more to write to the user.
ServeOver == srv \in {"finish", "done"}

\* The client has sent its last frame.
ClientOver == cl \in {"last", "gone"}

(***************************************************************************)
(* Who has done what: one request, before anything else on its way; one    *)
(* response, before anything else on its way back; and how the pendingReq, *)
(* the bodyStream and respCancels follow the two goroutines.               *)
(***************************************************************************)
RequestFirst ==
    \A i \in 1..Len(toClient) : toClient[i].type = "request" => i = 1 /\ cl = "none"

ResponseFirst ==
    \A i \in 1..Len(toServer) :
       toServer[i].type \in {"inline", "streamed"} => i = 1 /\ pr.response = "none"

ServerShape ==
    /\ srv = "start" => /\ cl = "none" /\ toClient = <<>> /\ pump = "none" /\ sent = 0
                        /\ ~pr.pending /\ ~pr.closed
    /\ pr.pending => link /\ ~pr.closed /\ ~pr.done
    /\ pr.done => srv = "done" \/ ~link
    /\ srv = "stream" => pr.response = "streamed"
    /\ ServeOver => pr.response # "none" \/ cut
    /\ pump # "none" => NumUp > 0
    /\ viewer = "gone" => cut
    /\ ~link => cut /\ toClient = <<>> /\ toServer = <<>>

ClientShape ==
    /\ Unanswered => /\ toServer = <<>> /\ down = 0 /\ sTaken = 0
                     /\ pr.response = "none" /\ pr.data = <<>> /\ page = <<>>
    /\ cl \in {"none", "spawned"} => ~bs.held /\ bs.data = <<>> /\ cTaken = 0 /\ body = <<>>
    /\ cancel # "none" => cl \in {"arm", "stream"}
    /\ cl = "stream" => cancel # "none"

Shape == RequestFirst /\ ResponseFirst /\ ServerShape /\ ClientShape

\* Response chunks that have left the WebSocket on the server.
Received == Len(page) + Len(pr.data) + (IF sTaken = 0 THEN 0 ELSE 1)

\* The chunks behind the written ones are in the channel and in the reader's hand.
Streaming ==
    /\ \A i \in 1..Len(pr.data) : pr.data[i] = Len(page) + i
    /\ sTaken # 0 => sTaken = Len(page) + Len(pr.data) + 1
    /\ Received <= down

\* Until ServeHTTP stops writing, the chunks behind those are under way.
DownFlow ==
    /\ InOrder(page)
    /\ ~ServeOver => Streaming /\ (pr.pending => Carries(toServer, Received, down))

\* Request chunks the client has taken since the first one it kept.
Kept == Len(body) + Len(bs.data) + (IF cTaken = 0 THEN 0 ELSE 1)

\* The chunks given to the local application, those in the channel and the
\* one in the reader's hand follow each other from b + 1 on.
KeptFrom(b) ==
    /\ \A i \in 1..Len(body) : body[i] = b + i
    /\ \A i \in 1..Len(bs.data) : bs.data[i] = b + Len(body) + i
    /\ cTaken # 0 => cTaken = b + Len(body) + Len(bs.data) + 1

\* A chunk that arrives now finds the bodyStream, or may be the last that does not.
Keeping == bs.held \/ cl \in {"none", "spawned"}

\* The chunks behind those are under way.
UpFlowFrom(b) ==
    /\ KeptFrom(b) /\ b + Kept <= sent
    /\ Keeping => \E hi \in (b + Kept)..sent :
                     (link => hi = sent) /\ Carries(toClient, b + Kept, hi)

UpFlow == \E b \in 0..sent : UpFlowFrom(b)

(***************************************************************************)
(* The end of a response without failures: the client's close is its last  *)
(* frame and comes behind the whole body.                                  *)
(***************************************************************************)
AnswersLast ==
    \A i \in 1..Len(toServer) :
       toServer[i].type = "close" =>
          i = Len(toServer) /\ ClientOver /\ (cut \/ down = NumDown)

DownEnd ==
    /\ AnswersLast
    /\ pr.closed /\ ~cut =>
          /\ ClientOver /\ down = NumDown /\ sTaken = 0
          /\ ServeOver \/ Len(page) + Len(pr.data) = NumDown
    /\ ServeOver /\ pr.response = "streamed" /\ ~cut => Len(page) = NumDown

(***************************************************************************)
(* Until the client has sent its last frame, a close that comes from a     *)
(* server without failures is the one that ends the request body, and the  *)
(* bodyStream it is meant for is still there.                              *)
(***************************************************************************)
CloseIsTheBodys ==
    ~cut /\ ~ClientOver =>
        \A i \in 1..Len(toClient) :
           toClient[i].type = "close" =>
              /\ pump = "gone" /\ (Started => bs.held)
              /\ \A j \in 1..Len(toClient) : toClient[j].type = "close" => i = j

UpEnd ==
    /\ CloseIsTheBodys
    /\ ~cut /\ pump # "gone" /\ Started /\ NumUp > 0 => bs.held
    /\ ~cut => cancel # "closed"

ExchangeInv == TypeInv /\ Shape /\ DownFlow /\ UpFlow /\ DownEnd /\ UpEnd

-----------------------------------------------------------------------------
LEMMA FramesAreFrames ==
    /\ \A t \in {"request", "close"} : Msg(t) \in UpFrame
    /\ \A t \in {"inline", "streamed", "close"} : Msg(t) \in DownFrame
    /\ \A t \in {"request", "inline", "streamed", "close"} :
          ~IsData(Msg(t)) /\ Msg(t).type = t
    /\ \A n \in 1..NumUp : Data(n) \in UpFrame
    /\ \A n \in 1..NumDown : Data(n) \in DownFrame
    /\ \A n : IsData(Data(n)) /\ Data(n).type = "data" /\ Data(n).chunk = n
BY ExchangeAssumption DEF Msg, Data, IsData, UpFrame, DownFrame

LEMMA TypeInit == Init => TypeInv
<1> SUFFICES ASSUME Init PROVE TypeInv
    OBVIOUS
<1>1. /\ <<>> \in Seq(1..NumUp) /\ <<>> \in Seq(1..NumDown)
      /\ <<>> \in Seq(UpFrame) /\ <<>> \in Seq(DownFrame) /\ Len(<<>>) = 0
    OBVIOUS
<1>2. 0 \in 0..NumUp /\ 0 \in 0..NumDown /\ 0 <= RelayBuf
    BY ExchangeAssumption
<1>3. pr \in PendingReq /\ pr.data = <<>>
    BY <1>1 DEF Init, PendingReq
<1>4. bs \in BodyStream /\ bs.data = <<>>
    BY <1>1 DEF Init, BodyStream
<1>5. QED
    BY <1>1, <1>2, <1>3, <1>4 DEF Init, TypeInv, TypeOK

(***************************************************************************)
(* The values the two records can take in a step.                          *)
(***************************************************************************)
LEMMA RequestTypes ==
    ASSUME NEW r \in PendingReq
    PROVE  /\ [r EXCEPT !.pending = TRUE] \in PendingReq
           /\ \A t \in {"inline", "streamed"} : [r EXCEPT !.response = t] \in PendingReq
           /\ [r EXCEPT !.pending = FALSE, !.done = TRUE] \in PendingReq
           /\ [r EXCEPT !.pending = FALSE, !.closed = TRUE] \in PendingReq
           /\ [r EXCEPT !.pending = FALSE, !.closed = TRUE, !.done = TRUE] \in PendingReq
           /\ \A q \in Seq(1..NumDown) : [r EXCEPT !.data = q] \in PendingReq
BY DEF PendingReq

LEMMA BodyTypes ==
    ASSUME NEW r \in BodyStream
    PROVE  /\ \A b \in BOOLEAN : [r EXCEPT !.held = b] \in BodyStream
           /\ [r EXCEPT !.held = FALSE, !.closed = TRUE] \in BodyStream
           /\ [r EXCEPT !.held = FALSE, !.closed = TRUE, !.aborted = TRUE] \in BodyStream
           /\ \A q \in Seq(1..NumUp) : [r EXCEPT !.data = q] \in BodyStream
BY DEF BodyStream

\* The flags of s, with the channel of r.
Flags(s, r, pending, response, done, closed) ==
    /\ s.pending = pending /\ s.response = response /\ s.done = done /\ s.closed = closed
    /\ s.data = r.data

SameFlags(s, r) ==
    /\ s.pending = r.pending /\ s.response = r.response
    /\ s.done = r.done /\ s.closed = r.closed

LEMMA RequestFields ==
    ASSUME NEW r \in PendingReq
    PROVE  /\ Flags([r EXCEPT !.pending = TRUE], r, TRUE, r.response, r.done, r.closed)
           /\ \A t : Flags([r EXCEPT !.response = t], r, r.pending, t, r.done, r.closed)
           /\ Flags([r EXCEPT !.pending = FALSE, !.done = TRUE], r,
                    FALSE, r.response, TRUE, r.closed)
           /\ Flags([r EXCEPT !.pending = FALSE, !.closed = TRUE], r,
                    FALSE, r.response, r.done, TRUE)
           /\ Flags([r EXCEPT !.pending = FALSE, !.closed = TRUE, !.done = TRUE], r,
                    FALSE, r.response, TRUE, TRUE)
           /\ \A q : SameFlags([r EXCEPT !.data = q], r) /\ [r EXCEPT !.data = q].data = q
BY DEF PendingReq, Flags, SameFlags

LEMMA BodyFields ==
    ASSUME NEW r \in BodyStream
    PROVE  /\ \A b : [r EXCEPT !.held = b].held = b /\ [r EXCEPT !.held = b].data = r.data
           /\ LET s == [r EXCEPT !.held = FALSE, !.closed = TRUE]
              IN  ~s.held /\ s.data = r.data
           /\ LET s == [r EXCEPT !.held = FALSE, !.closed = TRUE, !.aborted = TRUE]
              IN  ~s.held /\ s.data = r.data
           /\ \A q : LET s == [r EXCEPT !.data = q] IN s.held = r.held /\ s.data = q
BY DEF BodyStream

(***************************************************************************)
(* What a step does to the pendingReq and to the bodyStream.               *)
(***************************************************************************)
SetsFlag ==
    Forward \/ Finish \/ ServerTakesResponse \/ ServerGivesUp \/ ServerTakesClose \/ LinkLost

LEMMA RequestMoves ==
    ASSUME pr \in PendingReq, [Next]_vars
    PROVE  /\ Forward => IF link THEN Flags(pr', pr, TRUE, pr.response, pr.done, pr.closed)
                         ELSE pr' = pr
           /\ Finish => Flags(pr', pr, FALSE, pr.response, TRUE, pr.closed)
           /\ ServerTakesResponse =>
                 IF pr.pending
                 THEN Flags(pr', pr, pr.pending, Head(toServer).type, pr.done, pr.closed)
                 ELSE pr' = pr
           /\ ServerGivesUp => Flags(pr', pr, FALSE, pr.response, pr.done, TRUE)
           /\ ServerTakesClose =>
                 IF pr.pending THEN Flags(pr', pr, FALSE, pr.response, pr.done, TRUE)
                 ELSE pr' = pr
           /\ LinkLost => IF pr.pending THEN Flags(pr', pr, FALSE, pr.response, TRUE, TRUE)
                          ELSE pr' = pr
           /\ StreamWrites => SameFlags(pr', pr) /\ pr'.data = Tail(pr.data)
           /\ ServerEnqueues => SameFlags(pr', pr) /\ pr'.data = Append(pr.data, sTaken)
           /\ SetsFlag \/ StreamWrites \/ ServerEnqueues \/ pr' = pr
           /\ ~SetsFlag => SameFlags(pr', pr)
<1>1. /\ Forward /\ link => pr' = [pr EXCEPT !.pending = TRUE]
      /\ Forward /\ ~link => pr' = pr
      /\ Finish => pr' = [pr EXCEPT !.pending = FALSE, !.done = TRUE]
    BY DEF Forward, Finish
<1>2. /\ ServerTakesResponse =>
            pr' = IF pr.pending THEN [pr EXCEPT !.response = Head(toServer).type] ELSE pr
      /\ ServerGivesUp => pr' = [pr EXCEPT !.pending = FALSE, !.closed = TRUE]
      /\ ServerTakesClose =>
            pr' = IF pr.pending THEN [pr EXCEPT !.pending = FALSE, !.closed = TRUE] ELSE pr
      /\ LinkLost =>
            pr' = IF pr.pending
                  THEN [pr EXCEPT !.pending = FALSE, !.closed = TRUE, !.done = TRUE] ELSE pr
    BY DEF ServerTakesResponse, ServerGivesUp, ServerTakesClose, LinkLost
<1>3. /\ StreamWrites => pr' = [pr EXCEPT !.data = Tail(pr.data)]
      /\ ServerEnqueues => pr' = [pr EXCEPT !.data = Append(pr.data, sTaken)]
    BY DEF StreamWrites, ServerEnqueues
<1>4. pr' = pr => SameFlags(pr', pr)
    BY DEF SameFlags
<1>5. SetsFlag \/ StreamWrites \/ ServerEnqueues \/ pr' = pr
    BY DEF SetsFlag, Next, ServeStep, PumpStep, ServerReaderStep, ClientReaderStep,
                     RequestStep, Answers, LocalAnswers, Forward, AwaitEnds, AwaitTimesOut,
                     StreamWrites, StreamEnds, StreamIdles, Finish, ViewerLeaves,
                     PumpSends, PumpEnds, ServerReceives, ServerTakesResponse,
                     ServerTakesData, ServerEnqueues, ServerDrops, ServerGivesUp,
                     ServerTakesClose, LinkLost, ClientReceives, ClientTakesRequest,
                     ClientTakesData, ClientEnqueues, ClientAborts, ClientTakesClose,
                     RequestRefused, RequestStarts, LocalReads, StreamRefused, StreamArms,
                     StreamResponds, StreamSends, StreamFails, StreamCloses, RequestEnds,
                     vars, serverVars, clientVars
<1>6. /\ Flags([pr EXCEPT !.pending = TRUE], pr, TRUE, pr.response, pr.done, pr.closed)
      /\ Flags([pr EXCEPT !.response = Head(toServer).type], pr,
               pr.pending, Head(toServer).type, pr.done, pr.closed)
      /\ Flags([pr EXCEPT !.pending = FALSE, !.done = TRUE], pr,
               FALSE, pr.response, TRUE, pr.closed)
      /\ Flags([pr EXCEPT !.pending = FALSE, !.closed = TRUE], pr,
               FALSE, pr.response, pr.done, TRUE)
      /\ Flags([pr EXCEPT !.pending = FALSE, !.closed = TRUE, !.done = TRUE], pr,
               FALSE, pr.response, TRUE, TRUE)
    BY RequestFields
<1>7. \A q \in {Tail(pr.data), Append(pr.data, sTaken)} :
         SameFlags([pr EXCEPT !.data = q], pr) /\ [pr EXCEPT !.data = q].data = q
    BY RequestFields
<1>8. /\ StreamWrites => SameFlags(pr', pr) /\ pr'.data = Tail(pr.data)
      /\ ServerEnqueues => SameFlags(pr', pr) /\ pr'.data = Append(pr.data, sTaken)
    BY <1>3, <1>7
<1>9. QED
    BY <1>1, <1>2, <1>4, <1>5, <1>6, <1>8 DEF SetsFlag

LEMMA BodyMoves ==
    ASSUME bs \in BodyStream, [Next]_vars
    PROVE  /\ RequestStarts => bs'.held = (NumUp > 0) /\ bs'.data = bs.data
           /\ RequestEnds \/ ClientAborts \/ ClientTakesClose => ~bs'.held /\ bs'.data = bs.data
           /\ LocalReads => bs'.held = bs.held /\ bs'.data = Tail(bs.data)
           /\ ClientEnqueues => bs'.held = bs.held /\ bs'.data = Append(bs.data, cTaken)
           /\ \/ RequestStarts \/ RequestEnds \/ ClientAborts \/ ClientTakesClose
              \/ LocalReads \/ ClientEnqueues \/ bs' = bs
<1>1. /\ RequestStarts => bs' = [bs EXCEPT !.held = NumUp > 0]
      /\ RequestEnds => bs' = [bs EXCEPT !.held = FALSE]
      /\ ClientAborts => bs' = [bs EXCEPT !.held = FALSE, !.closed = TRUE, !.aborted = TRUE]
      /\ ClientTakesClose /\ bs.held => bs' = [bs EXCEPT !.held = FALSE, !.closed = TRUE]
      /\ ClientTakesClose /\ ~bs.held => bs' = bs
    BY DEF RequestStarts, RequestEnds, ClientAborts, ClientTakesClose
<1>2. /\ LocalReads => bs' = [bs EXCEPT !.data = Tail(bs.data)]
      /\ ClientEnqueues => bs' = [bs EXCEPT !.data = Append(bs.data, cTaken)]
    BY DEF LocalReads, ClientEnqueues
<1>3. \/ RequestStarts \/ RequestEnds \/ ClientAborts \/ ClientTakesClose
      \/ LocalReads \/ ClientEnqueues \/ bs' = bs
    BY DEF Next, ServeStep, PumpStep, ServerReaderStep, ClientReaderStep, RequestStep,
           Answers, LocalAnswers, Forward, AwaitEnds, AwaitTimesOut, StreamWrites,
           StreamEnds, StreamIdles, Finish, ViewerLeaves, PumpSends, PumpEnds,
           ServerReceives, ServerTakesResponse, ServerTakesData, ServerEnqueues,
           ServerDrops, ServerGivesUp, ServerTakesClose, LinkLost, ClientReceives,
           ClientTakesRequest, ClientTakesData, ClientEnqueues, ClientAborts,
           ClientTakesClose, RequestRefused, RequestStarts, LocalReads, StreamRefused,
           StreamArms, StreamResponds, StreamSends, StreamFails, StreamCloses, RequestEnds,
           vars, serverVars, clientVars
<1>4. /\ RequestStarts => bs'.held = (NumUp > 0) /\ bs'.data = bs.data
      /\ RequestEnds \/ ClientAborts \/ ClientTakesClose => ~bs'.held /\ bs'.data = bs.data
    <2>1. /\ \A b \in BOOLEAN : LET s == [bs EXCEPT !.held = b]
                                IN  s.held = b /\ s.data = bs.data
          /\ LET s == [bs EXCEPT !.held = FALSE, !.closed = TRUE]
             IN  ~s.held /\ s.data = bs.data
          /\ LET s == [bs EXCEPT !.held = FALSE, !.closed = TRUE, !.aborted = TRUE]
             IN  ~s.held /\ s.data = bs.data
        BY BodyFields
    <2>2. (NumUp > 0) \in BOOLEAN
        OBVIOUS
    <2>3. RequestStarts => bs'.held = (NumUp > 0) /\ bs'.data = bs.data
        BY <1>1, <2>1, <2>2
    <2>4. RequestEnds => ~bs'.held /\ bs'.data = bs.data
        BY <1>1, <2>1
    <2>5. ClientAborts \/ ClientTakesClose => ~bs'.held /\ bs'.data = bs.data
        BY <1>1, <2>1
    <2>6. QED
        BY <2>3, <2>4, <2>5
<1>5. /\ LocalReads => bs'.held = bs.held /\ bs'.data = Tail(bs.data)
      /\ ClientEnqueues => bs'.held = bs.held /\ bs'.data = Append(bs.data, cTaken)
    <2>1. \A q \in {Tail(bs.data), Append(bs.data, cTaken)} :
             [bs EXCEPT !.data = q].held = bs.held /\ [bs EXCEPT !.data = q].data = q
        BY BodyFields
    <2>2. QED
        BY <1>2, <2>1
<1>6. QED
    BY <1>3, <1>4, <1>5

\* The types and lengths of what the operations on a queue or a channel return.
LEMMA QueueTypes ==
    ASSUME NEW S, NEW q \in Seq(S)
    PROVE  /\ Len(q) \in Nat
           /\ q # <<>> => /\ Head(q) \in S /\ Tail(q) \in Seq(S)
                          /\ Len(Tail(q)) = Len(q) - 1
           /\ \A x \in S : Append(q, x) \in Seq(S) /\ Len(Append(q, x)) = Len(q) + 1
OBVIOUS

(***************************************************************************)
(* A frame is sent, one is taken, or all are lost.                         *)
(***************************************************************************)
LEMMA FramesMove ==
    ASSUME TypeInv, [Next]_vars
    PROVE  toClient' \in Seq(UpFrame) /\ toServer' \in Seq(DownFrame)
<1>1. /\ toClient \in Seq(UpFrame) /\ toServer \in Seq(DownFrame)
      /\ <<>> \in Seq(UpFrame) /\ <<>> \in Seq(DownFrame)
    BY DEF TypeInv
<1>2. /\ toClient # <<>> => Tail(toClient) \in Seq(UpFrame)
      /\ toServer # <<>> => Tail(toServer) \in Seq(DownFrame)
    BY <1>1
<1>3. /\ Msg("request") \in UpFrame /\ Msg("close") \in UpFrame
      /\ sent < NumUp => Data(sent + 1) \in UpFrame
      /\ Msg("inline") \in DownFrame /\ Msg("streamed") \in DownFrame
      /\ Msg("close") \in DownFrame /\ (down < NumDown => Data(down + 1) \in DownFrame)
    <2>1. /\ sent < NumUp => sent + 1 \in 1..NumUp
          /\ down < NumDown => down + 1 \in 1..NumDown
        BY ExchangeAssumption DEF TypeInv, TypeOK
    <2>2. QED
        BY <2>1, FramesAreFrames
<1>4. /\ \A f \in UpFrame : ServerSends(f) => toClient' \in Seq(UpFrame)
      /\ \A f \in DownFrame : ClientSends(f) => toServer' \in Seq(DownFrame)
    <2>1. /\ \A f \in UpFrame : Append(toClient, f) \in Seq(UpFrame)
          /\ \A f \in DownFrame : Append(toServer, f) \in Seq(DownFrame)
        BY <1>1
    <2>2. QED
        BY <1>1, <2>1 DEF ServerSends, ClientSends
<1> USE DEF Next, ServeStep, PumpStep, ServerReaderStep, ClientReaderStep, RequestStep,
            Answers, LocalAnswers, Forward, AwaitEnds, AwaitTimesOut, StreamWrites,
            StreamEnds, StreamIdles, Finish, ViewerLeaves, PumpSends, PumpEnds,
            ServerReceives, ServerTakesResponse, ServerTakesData, ServerEnqueues,
            ServerDrops, ServerGivesUp, ServerTakesClose, LinkLost, ClientReceives,
            ClientTakesRequest, ClientTakesData, ClientEnqueues, ClientAborts,
            ClientTakesClose, RequestRefused, RequestStarts, LocalReads, StreamRefused,
            StreamArms, StreamResponds, StreamSends, StreamFails, StreamCloses,
            RequestEnds, vars, serverVars, clientVars
<1>5. toClient' \in Seq(UpFrame)
    BY <1>1, <1>2, <1>3, <1>4
<1>6. toServer' \in Seq(DownFrame)
    BY <1>1, <1>2, <1>3, <1>4
<1>7. QED
    BY <1>5, <1>6

LEMMA TypeStep ==
    ASSUME TypeInv, [Next]_vars
    PROVE  TypeInv'
<1>1. toClient' \in Seq(UpFrame) /\ toServer' \in Seq(DownFrame)
    BY FramesMove
<1>2. /\ pr \in PendingReq /\ Len(pr.data) <= RelayBuf /\ sTaken \in 0..NumDown
      /\ bs \in BodyStream /\ Len(bs.data) <= RelayBuf /\ cTaken \in 0..NumUp
      /\ page \in Seq(1..NumDown) /\ body \in Seq(1..NumUp)
      /\ toClient \in Seq(UpFrame) /\ toServer \in Seq(DownFrame)
    BY DEF TypeInv, TypeOK
<1>3. pr.data \in Seq(1..NumDown) /\ bs.data \in Seq(1..NumUp) /\ RelayBuf \in Nat
    BY <1>2, ExchangeAssumption DEF PendingReq, BodyStream
<1>4. /\ toClient # <<>> => Head(toClient).chunk \in 0..NumUp
      /\ toServer # <<>> => Head(toServer).chunk \in 0..NumDown
    <2>1. /\ toClient # <<>> => Head(toClient) \in UpFrame
          /\ toServer # <<>> => Head(toServer) \in DownFrame
        BY <1>2
    <2>2. QED
        BY <2>1 DEF UpFrame, DownFrame
<1>5. /\ pr.data # <<>> => Append(page, Head(pr.data)) \in Seq(1..NumDown)
      /\ bs.data # <<>> => Append(body, Head(bs.data)) \in Seq(1..NumUp)
    BY <1>2, <1>3, QueueTypes
<1>6. /\ pr.data # <<>> =>
            Tail(pr.data) \in Seq(1..NumDown) /\ Len(Tail(pr.data)) <= RelayBuf
      /\ sTaken # 0 /\ Len(pr.data) < RelayBuf =>
            /\ Append(pr.data, sTaken) \in Seq(1..NumDown)
            /\ Len(Append(pr.data, sTaken)) <= RelayBuf
    <2>1. sTaken # 0 => sTaken \in 1..NumDown
        BY <1>2
    <2>2. /\ pr.data # <<>> => Tail(pr.data) \in Seq(1..NumDown)
                                /\ Len(Tail(pr.data)) = Len(pr.data) - 1
          /\ Len(pr.data) \in Nat
        BY <1>3, QueueTypes
    <2>3. sTaken # 0 => /\ Append(pr.data, sTaken) \in Seq(1..NumDown)
                        /\ Len(Append(pr.data, sTaken)) = Len(pr.data) + 1
        BY <1>3, <2>1, QueueTypes
    <2>4. QED
        BY <1>2, <1>3, <2>2, <2>3
<1>7. /\ bs.data # <<>> =>
            Tail(bs.data) \in Seq(1..NumUp) /\ Len(Tail(bs.data)) <= RelayBuf
      /\ cTaken # 0 /\ Len(bs.data) < RelayBuf =>
            /\ Append(bs.data, cTaken) \in Seq(1..NumUp)
            /\ Len(Append(bs.data, cTaken)) <= RelayBuf
    <2>1. cTaken # 0 => cTaken \in 1..NumUp
        BY <1>2
    <2>2. /\ bs.data # <<>> => Tail(bs.data) \in Seq(1..NumUp)
                                /\ Len(Tail(bs.data)) = Len(bs.data) - 1
          /\ Len(bs.data) \in Nat
        BY <1>3, QueueTypes
    <2>3. cTaken # 0 => /\ Append(bs.data, cTaken) \in Seq(1..NumUp)
                        /\ Len(Append(bs.data, cTaken)) = Len(bs.data) + 1
        BY <1>3, <2>1, QueueTypes
    <2>4. QED
        BY <1>2, <1>3, <2>2, <2>3
<1>8. pr' \in PendingReq
    <2>1. StreamWrites => pr.data # <<>> /\ pr' = [pr EXCEPT !.data = Tail(pr.data)]
        BY DEF StreamWrites
    <2>2. ServerEnqueues => /\ sTaken # 0 /\ Len(pr.data) < RelayBuf
                            /\ pr' = [pr EXCEPT !.data = Append(pr.data, sTaken)]
        BY DEF ServerEnqueues
    <2>3. SetsFlag => pr' \in PendingReq
        BY <1>2, RequestTypes
           DEF SetsFlag, Forward, Finish, ServerTakesResponse, ServerReceives, ServerGivesUp,
               ServerTakesClose, LinkLost
    <2>4. QED
        BY <1>2, <1>6, <2>1, <2>2, <2>3, RequestTypes, RequestMoves
<1>9. Len(pr'.data) <= RelayBuf
    <2>1. StreamWrites => pr.data # <<>>
        BY DEF StreamWrites
    <2>2. ServerEnqueues => sTaken # 0 /\ Len(pr.data) < RelayBuf
        BY DEF ServerEnqueues
    <2>3. SetsFlag => pr'.data = pr.data
        BY <1>2, RequestMoves DEF SetsFlag, Flags
    <2>4. QED
        BY <1>2, <1>6, <2>1, <2>2, <2>3, RequestMoves
<1>10. bs' \in BodyStream
    <2>1. LocalReads => bs.data # <<>> /\ bs' = [bs EXCEPT !.data = Tail(bs.data)]
        BY DEF LocalReads
    <2>2. ClientEnqueues => /\ cTaken # 0 /\ Len(bs.data) < RelayBuf
                            /\ bs' = [bs EXCEPT !.data = Append(bs.data, cTaken)]
        BY DEF ClientEnqueues
    <2>3. (NumUp > 0) \in BOOLEAN
        OBVIOUS
    <2>4. RequestStarts \/ RequestEnds \/ ClientAborts \/ ClientTakesClose => bs' \in BodyStream
        BY <1>2, <2>3, BodyTypes DEF RequestStarts, RequestEnds, ClientAborts, ClientTakesClose
    <2>5. QED
        BY <1>2, <1>7, <2>1, <2>2, <2>4, BodyTypes, BodyMoves
<1>11. Len(bs'.data) <= RelayBuf
    <2>1. LocalReads => bs.data # <<>>
        BY DEF LocalReads
    <2>2. ClientEnqueues => cTaken # 0 /\ Len(bs.data) < RelayBuf
        BY DEF ClientEnqueues
    <2>3. QED
        BY <1>2, <1>7, <2>1, <2>2, BodyMoves
<1>12. 0 \in 0..NumDown /\ 0 \in 0..NumUp
    BY ExchangeAssumption
<1> USE DEF Next, ServeStep, PumpStep, ServerReaderStep, ClientReaderStep, RequestStep,
            Answers, LocalAnswers, Forward, AwaitEnds, AwaitTimesOut, StreamWrites,
            StreamEnds, StreamIdles, Finish, ViewerLeaves, PumpSends, PumpEnds,
            ServerReceives, ServerTakesResponse, ServerTakesData, ServerEnqueues,
            ServerDrops, ServerGivesUp, ServerTakesClose, LinkLost, ClientReceives,
            ClientTakesRequest, ClientTakesData, ClientEnqueues, ClientAborts,
            ClientTakesClose, RequestRefused, RequestStarts, LocalReads, StreamRefused,
            StreamArms, StreamResponds, StreamSends, StreamFails, StreamCloses,
            RequestEnds, vars, serverVars, clientVars
<1>13. sTaken' \in 0..NumDown
    BY <1>2, <1>4, <1>12
<1>14. cTaken' \in 0..NumUp
    BY <1>2, <1>4, <1>12
<1>15. page' \in Seq(1..NumDown)
    BY <1>2, <1>5
<1>16. body' \in Seq(1..NumUp)
    BY <1>2, <1>5
<1>17. sent' \in 0..NumUp /\ down' \in 0..NumDown
    BY ExchangeAssumption DEF TypeInv, TypeOK
<1>18. (/\ viewer \in {"here", "gone"} /\ srv \in {"start", "await", "stream", "finish", "done"}
        /\ pump \in {"none", "run", "gone"})'
    BY DEF TypeInv, TypeOK
<1>19. (link \in BOOLEAN /\ cut \in BOOLEAN)'
    BY DEF TypeInv, TypeOK
<1>20. (/\ cl \in {"none", "spawned", "do", "arm", "stream", "last", "gone"}
        /\ cancel \in {"none", "armed", "closed"})'
    BY DEF TypeInv, TypeOK
<1>21. dropped' \in BOOLEAN
    BY DEF TypeInv, TypeOK
<1>22. QED
    BY <1>1, <1>8, <1>9, <1>10, <1>11, <1>13, <1>14, <1>15, <1>16, <1>17, <1>18, <1>19,
       <1>20, <1>21 DEF TypeInv, TypeOK

(***************************************************************************)
(* Every variable keeps its type; in particular neither channel ever holds *)
(* more than StreamRelayBuf chunks, however fast the other side sends.     *)
(***************************************************************************)
THEOREM TypeCorrect == Spec => []TypeOK
<1>1. Init => TypeInv
    BY TypeInit
<1>2. TypeInv /\ [Next]_vars => TypeInv'
    BY TypeStep
<1>3. TypeInv => TypeOK
    BY DEF TypeInv
<1>4. QED
    BY <1>1, <1>2, <1>3, PTL DEF Spec

-----------------------------------------------------------------------------
(***************************************************************************)
(* Who has done what.                                                      *)
(***************************************************************************)
LEMMA TypeFacts ==
    ASSUME TypeInv
    PROVE  /\ pr \in PendingReq /\ bs \in BodyStream
           /\ pr.pending \in BOOLEAN /\ pr.done \in BOOLEAN /\ pr.closed \in BOOLEAN
           /\ pr.response \in {"none", "inline", "streamed"}
           /\ pr.data \in Seq(1..NumDown) /\ bs.held \in BOOLEAN /\ bs.data \in Seq(1..NumUp)
           /\ toClient \in Seq(UpFrame) /\ toServer \in Seq(DownFrame)
           /\ page \in Seq(1..NumDown) /\ body \in Seq(1..NumUp)
           /\ sent \in Nat /\ down \in Nat /\ sTaken \in Nat /\ cTaken \in Nat
           /\ NumUp \in Nat /\ NumDown \in Nat
           /\ link \in BOOLEAN /\ cut \in BOOLEAN
<1>1. /\ pr \in PendingReq /\ bs \in BodyStream
      /\ toClient \in Seq(UpFrame) /\ toServer \in Seq(DownFrame)
      /\ page \in Seq(1..NumDown) /\ body \in Seq(1..NumUp)
      /\ link \in BOOLEAN /\ cut \in BOOLEAN
    BY DEF TypeInv, TypeOK
<1>2. sent \in Nat /\ down \in Nat /\ sTaken \in Nat /\ cTaken \in Nat
    BY ExchangeAssumption DEF TypeInv, TypeOK
<1>3. QED
    BY <1>1, <1>2, ExchangeAssumption DEF PendingReq, BodyStream

\* The request is taken once, the response too.
LEMMA TakenOnce ==
    ASSUME TypeInv, Shape
    PROVE  /\ ClientTakesRequest => cl = "none"
           /\ ServerTakesResponse => pr.response = "none"
<1>1. toClient \in Seq(UpFrame) /\ toServer \in Seq(DownFrame)
    BY TypeFacts
<1>2. /\ toClient # <<>> => 1 \in 1..Len(toClient) /\ Head(toClient) = toClient[1]
      /\ toServer # <<>> => 1 \in 1..Len(toServer) /\ Head(toServer) = toServer[1]
    BY <1>1
<1>3. QED
    BY <1>2 DEF ClientTakesRequest, ClientReceives, ServerTakesResponse, ServerReceives,
                Shape, RequestFirst, ResponseFirst

\* What never goes back.
LEMMA Progress ==
    ASSUME TypeInv, Shape, [Next]_vars
    PROVE  /\ cut => cut'
           /\ link' => link
           /\ ServeOver => ServeOver'
           /\ ClientOver => ClientOver' /\ down' = down
           /\ Unanswered' => Unanswered
           /\ cl' = "none" => cl = "none"
           /\ pump = "gone" => pump' = "gone"
           /\ srv = "done" => srv' = "done"
           /\ srv' = "start" => srv = "start"
<1>1. ClientTakesRequest => cl = "none"
    BY TakenOnce
<1>2. srv = "start" => pump = "none"
    BY DEF Shape, ServerShape
<1> USE DEF Next, ServeStep, PumpStep, ServerReaderStep, ClientReaderStep, RequestStep,
            Answers, LocalAnswers, Forward, AwaitEnds, AwaitTimesOut, StreamWrites,
            StreamEnds, StreamIdles, Finish, ViewerLeaves, PumpSends, PumpEnds,
            ServerReceives, ServerTakesResponse, ServerTakesData, ServerEnqueues,
            ServerDrops, ServerGivesUp, ServerTakesClose, LinkLost, ClientReceives,
            ClientTakesRequest, ClientTakesData, ClientEnqueues, ClientAborts,
            ClientTakesClose, RequestRefused, RequestStarts, LocalReads, StreamRefused,
            StreamArms, StreamResponds, StreamSends, StreamFails, StreamCloses,
            RequestEnds, vars, serverVars, clientVars
<1>3. (cut => cut') /\ (link' => link)
    BY DEF TypeInv, TypeOK
<1>4. ServeOver => ServeOver'
    BY DEF ServeOver
<1>5. ClientOver => ClientOver' /\ down' = down
    BY <1>1 DEF ClientOver
<1>6. Unanswered' => Unanswered
    BY <1>1 DEF Unanswered
<1>7. /\ cl' = "none" => cl = "none"
      /\ srv = "done" => srv' = "done"
      /\ srv' = "start" => srv = "start"
    OBVIOUS
<1>8. pump = "gone" => pump' = "gone"
    BY <1>2
<1>9. QED
    BY <1>3, <1>4, <1>5, <1>6, <1>7, <1>8

LEMMA RequestStaysFirst ==
    ASSUME TypeInv, Shape, [Next]_vars
    PROVE  RequestFirst'
<1>1. toClient \in Seq(UpFrame)
    BY TypeFacts
<1>2. \A i \in 1..Len(toClient) : toClient[i].type = "request" => i = 1 /\ cl = "none"
    BY DEF Shape, RequestFirst
<1>3. CASE toClient' = toClient /\ cl' = cl
    BY <1>2, <1>3 DEF RequestFirst
<1>4. CASE toClient' = <<>>
    BY <1>4 DEF RequestFirst
<1>5. CASE toClient # <<>> /\ toClient' = Tail(toClient)
    <2>1. \A i \in 1..Len(Tail(toClient)) : i + 1 \in 2..Len(toClient)
                                            /\ Tail(toClient)[i] = toClient[i + 1]
        BY <1>1, <1>5, TailShifts
    <2>2. \A i \in 1..Len(Tail(toClient)) : Tail(toClient)[i].type # "request"
        BY <1>1, <1>2, <2>1
    <2>3. QED
        BY <1>5, <2>2 DEF RequestFirst
<1>6. ASSUME cl' = cl, NEW f \in UpFrame, f.type # "request" \/ (toClient = <<>> /\ cl = "none"),
             toClient' = Append(toClient, f)
      PROVE  RequestFirst'
    <2>1. CASE f.type # "request"
        BY <1>1, <1>2, <1>6, <2>1, SendKeeps DEF RequestFirst
    <2>2. CASE toClient = <<>> /\ cl = "none"
        <3>1. Len(toClient') = 1
            BY <1>1, <1>6, <2>2
        <3>2. QED
            BY <1>6, <2>2, <3>1 DEF RequestFirst
    <2>3. QED
        BY <1>6, <2>1, <2>2
<1>7. /\ Msg("request") \in UpFrame
      /\ Msg("close") \in UpFrame /\ Msg("close").type # "request"
      /\ sent < NumUp => Data(sent + 1) \in UpFrame /\ Data(sent + 1).type # "request"
    <2>1. sent < NumUp => sent + 1 \in 1..NumUp
        BY TypeFacts
    <2>2. QED
        BY <2>1, FramesAreFrames
<1>8. srv = "start" => toClient = <<>> /\ cl = "none"
    BY DEF Shape, ServerShape
<1> USE DEF Next, ServeStep, PumpStep, ServerReaderStep, ClientReaderStep, RequestStep,
            Answers, LocalAnswers, Forward, AwaitEnds, AwaitTimesOut, StreamWrites,
            StreamEnds, StreamIdles, Finish, ViewerLeaves, PumpSends, PumpEnds,
            ServerReceives, ServerTakesResponse, ServerTakesData, ServerEnqueues,
            ServerDrops, ServerGivesUp, ServerTakesClose, LinkLost, ClientReceives,
            ClientTakesRequest, ClientTakesData, ClientEnqueues, ClientAborts,
            ClientTakesClose, RequestRefused, RequestStarts, LocalReads, StreamRefused,
            StreamArms, StreamResponds, StreamSends, StreamFails, StreamCloses,
            RequestEnds, vars, serverVars, clientVars
<1>9. \/ toClient' = toClient /\ cl' = cl
      \/ toClient' = toClient /\ cl # "none"
      \/ toClient' = <<>>
      \/ toClient # <<>> /\ toClient' = Tail(toClient)
      \/ Forward \/ StreamWrites \/ StreamEnds \/ StreamIdles \/ PumpSends \/ PumpEnds
      \/ ServerGivesUp
    OBVIOUS
<1>10. CASE Forward \/ StreamWrites \/ StreamEnds \/ StreamIdles \/ PumpSends \/ PumpEnds
            \/ ServerGivesUp
    <2>1. \/ toClient' = toClient /\ cl' = cl
          \/ \E f \in UpFrame : /\ f.type # "request" \/ (toClient = <<>> /\ cl = "none")
                                /\ toClient' = Append(toClient, f) /\ cl' = cl
        BY <1>7, <1>8, <1>10 DEF ServerSends
    <2>2. QED
        BY <1>3, <1>6, <2>1
<1>11. CASE toClient' = toClient /\ cl # "none"
    BY <1>2, <1>11 DEF RequestFirst
<1>12. QED
    BY <1>3, <1>4, <1>5, <1>9, <1>10, <1>11

LEMMA ResponseStaysFirst ==
    ASSUME TypeInv, Shape, [Next]_vars
    PROVE  ResponseFirst'
<1>1. toServer \in Seq(DownFrame)
    BY TypeFacts
<1>2. \A i \in 1..Len(toServer) :
         toServer[i].type \in {"inline", "streamed"} => i = 1 /\ pr.response = "none"
    BY DEF Shape, ResponseFirst
<1>3. CASE toServer' = toServer /\ pr'.response = pr.response
    BY <1>2, <1>3 DEF ResponseFirst
<1>4. CASE toServer' = <<>>
    BY <1>4 DEF ResponseFirst
<1>5. CASE toServer # <<>> /\ toServer' = Tail(toServer)
    <2>1. \A i \in 1..Len(Tail(toServer)) : i + 1 \in 2..Len(toServer)
                                            /\ Tail(toServer)[i] = toServer[i + 1]
        BY <1>1, <1>5, TailShifts
    <2>2. \A i \in 1..Len(Tail(toServer)) : Tail(toServer)[i].type \notin {"inline", "streamed"}
        BY <1>1, <1>2, <2>1
    <2>3. QED
        BY <1>5, <2>2 DEF ResponseFirst
<1>6. ASSUME pr' = pr, NEW f \in DownFrame,
             f.type \notin {"inline", "streamed"} \/ (toServer = <<>> /\ pr.response = "none"),
             toServer' = Append(toServer, f)
      PROVE  ResponseFirst'
    <2>1. CASE f.type \notin {"inline", "streamed"}
        BY <1>1, <1>2, <1>6, <2>1, SendKeeps DEF ResponseFirst
    <2>2. CASE toServer = <<>> /\ pr.response = "none"
        <3>1. Len(toServer') = 1
            BY <1>1, <1>6, <2>2
        <3>2. QED
            BY <1>6, <2>2, <3>1 DEF ResponseFirst
    <2>3. QED
        BY <1>6, <2>1, <2>2
<1>7. /\ Msg("inline") \in DownFrame /\ Msg("streamed") \in DownFrame
      /\ Msg("close") \in DownFrame /\ Msg("close").type \notin {"inline", "streamed"}
      /\ down < NumDown => /\ Data(down + 1) \in DownFrame
                           /\ Data(down + 1).type \notin {"inline", "streamed"}
    <2>1. down < NumDown => down + 1 \in 1..NumDown
        BY TypeFacts
    <2>2. QED
        BY <2>1, FramesAreFrames
<1>8. Unanswered => toServer = <<>> /\ pr.response = "none"
    BY DEF Shape, ClientShape
<1>9. pr'.response = pr.response \/ ServerTakesResponse
    <2>1. pr' = pr => pr'.response = pr.response
        OBVIOUS
    <2>2. QED
        BY <2>1, TypeFacts, RequestMoves DEF SetsFlag, Flags, SameFlags
<1> USE DEF Next, ServeStep, PumpStep, ServerReaderStep, ClientReaderStep, RequestStep,
            Answers, LocalAnswers, Forward, AwaitEnds, AwaitTimesOut, StreamWrites,
            StreamEnds, StreamIdles, Finish, ViewerLeaves, PumpSends, PumpEnds,
            ServerReceives, ServerTakesResponse, ServerTakesData, ServerEnqueues,
            ServerDrops, ServerGivesUp, ServerTakesClose, LinkLost, ClientReceives,
            ClientTakesRequest, ClientTakesData, ClientEnqueues, ClientAborts,
            ClientTakesClose, RequestRefused, RequestStarts, LocalReads, StreamRefused,
            StreamArms, StreamResponds, StreamSends, StreamFails, StreamCloses,
            RequestEnds, vars, serverVars, clientVars
<1>10. \/ toServer' = toServer
       \/ toServer' = <<>>
       \/ toServer # <<>> /\ toServer' = Tail(toServer)
       \/ RequestRefused \/ Answers \/ StreamRefused \/ StreamResponds
       \/ StreamSends \/ StreamFails \/ StreamCloses
    OBVIOUS
<1>11. CASE \/ RequestRefused \/ Answers \/ StreamRefused \/ StreamResponds
            \/ StreamSends \/ StreamFails \/ StreamCloses
    <2>1. \/ toServer' = toServer /\ pr' = pr
          \/ \E f \in DownFrame :
                /\ f.type \notin {"inline", "streamed"} \/ (toServer = <<>> /\ pr.response = "none")
                /\ toServer' = Append(toServer, f) /\ pr' = pr
        BY <1>7, <1>8, <1>11 DEF ClientSends, Unanswered
    <2>2. QED
        BY <1>3, <1>6, <2>1
<1>12. ServerTakesResponse => toServer # <<>> /\ toServer' = Tail(toServer)
    OBVIOUS
<1>13. QED
    BY <1>3, <1>4, <1>5, <1>9, <1>10, <1>11, <1>12

LEMMA ServerShapeStep ==
    ASSUME TypeInv, Shape, [Next]_vars
    PROVE  ServerShape'
<1>1. /\ pr.pending \in BOOLEAN /\ pr.done \in BOOLEAN /\ pr.closed \in BOOLEAN
      /\ pr.response \in {"none", "inline", "streamed"}
      /\ link \in BOOLEAN /\ cut \in BOOLEAN /\ NumUp \in Nat
    BY TypeFacts
<1>2. /\ ClientTakesRequest => cl = "none"
      /\ ServerTakesResponse => pr.response = "none"
    BY TakenOnce
<1>3. /\ Forward => IF link THEN Flags(pr', pr, TRUE, pr.response, pr.done, pr.closed)
                    ELSE pr' = pr
      /\ Finish => Flags(pr', pr, FALSE, pr.response, TRUE, pr.closed)
      /\ ServerTakesResponse =>
            IF pr.pending
            THEN Flags(pr', pr, pr.pending, Head(toServer).type, pr.done, pr.closed)
            ELSE pr' = pr
      /\ ServerGivesUp => Flags(pr', pr, FALSE, pr.response, pr.done, TRUE)
      /\ ServerTakesClose =>
            IF pr.pending THEN Flags(pr', pr, FALSE, pr.response, pr.done, TRUE)
            ELSE pr' = pr
      /\ LinkLost => IF pr.pending THEN Flags(pr', pr, FALSE, pr.response, TRUE, TRUE)
                     ELSE pr' = pr
      /\ ~SetsFlag => SameFlags(pr', pr)
    BY TypeFacts, RequestMoves
<1>4. ServerTakesResponse => Head(toServer).type \in {"inline", "streamed"}
    BY DEF ServerTakesResponse, ServerReceives
<1>5. srv = "start" => /\ cl = "none" /\ toClient = <<>> /\ pump = "none" /\ sent = 0
                       /\ ~pr.pending /\ ~pr.closed /\ toServer = <<>> /\ sTaken = 0
    BY DEF Shape, ServerShape, ClientShape, Unanswered
<1>6. srv' = "start" => srv = "start"
    BY Progress
<1>7. pr'.closed => pr.closed \/ ServerGivesUp \/ (pr.pending /\ (ServerTakesClose \/ LinkLost))
    BY <1>1, <1>3 DEF SetsFlag, Flags, SameFlags
<1>8. pr'.pending => pr.pending \/ (Forward /\ link)
    BY <1>1, <1>3 DEF SetsFlag, Flags, SameFlags
<1>9. pr'.done => pr.done \/ Finish \/ LinkLost
    BY <1>1, <1>3 DEF SetsFlag, Flags, SameFlags
<1>10. pr.pending /\ pr'.pending => ~LinkLost /\ ~Finish /\ ~ServerGivesUp /\ ~ServerTakesClose
    BY <1>3 DEF Flags
<1>11. /\ pr.response # "none" => pr'.response = pr.response
       /\ pr'.response # pr.response => ServerTakesResponse
    <2>1. pr' = pr => pr'.response = pr.response
        OBVIOUS
    <2>2. QED
        BY <1>2, <1>3, <2>1 DEF SetsFlag, Flags, SameFlags
<1>12. /\ pr.pending => link /\ ~pr.closed /\ ~pr.done
       /\ pr.done => srv = "done" \/ ~link
       /\ srv = "stream" => pr.response = "streamed"
       /\ ServeOver => pr.response # "none" \/ cut
       /\ pump # "none" => NumUp > 0
       /\ viewer = "gone" => cut
       /\ ~link => cut /\ toClient = <<>> /\ toServer = <<>>
    BY DEF Shape, ServerShape
<1>13. (cut => cut') /\ (link' => link) /\ (srv = "done" => srv' = "done")
    BY Progress
<1> USE DEF Next, ServeStep, PumpStep, ServerReaderStep, ClientReaderStep, RequestStep,
            Answers, LocalAnswers, Forward, AwaitEnds, AwaitTimesOut, StreamWrites,
            StreamEnds, StreamIdles, Finish, ViewerLeaves, PumpSends, PumpEnds,
            ServerReceives, ServerTakesResponse, ServerTakesData, ServerEnqueues,
            ServerDrops, ServerGivesUp, ServerTakesClose, LinkLost, ClientReceives,
            ClientTakesRequest, ClientTakesData, ClientEnqueues, ClientAborts,
            ClientTakesClose, RequestRefused, RequestStarts, LocalReads, StreamRefused,
            StreamArms, StreamResponds, StreamSends, StreamFails, StreamCloses,
            RequestEnds, vars, serverVars, clientVars
<1>14. link' = link \/ LinkLost
    OBVIOUS
<1>15. (srv = "start" => /\ cl = "none" /\ toClient = <<>> /\ pump = "none" /\ sent = 0
                        /\ ~pr.pending /\ ~pr.closed)'
    <2>1. srv' = "start" => cl' = "none" /\ toClient' = <<>> /\ pump' = "none" /\ sent' = 0
        BY <1>5
    <2>2. srv' = "start" => ~pr'.pending /\ ~pr'.closed
        BY <1>5, <1>6, <1>7, <1>8
    <2>3. QED
        BY <2>1, <2>2
<1>16. (pr.pending => link /\ ~pr.closed /\ ~pr.done)'
    <2>1. CASE pr.pending
        BY <1>7, <1>9, <1>10, <1>12, <1>14, <2>1
    <2>2. CASE Forward /\ link
        BY <1>3, <1>5, <1>12, <2>2 DEF Flags
    <2>3. QED
        BY <1>8, <2>1, <2>2
<1>17. (pr.done => srv = "done" \/ ~link)'
    BY <1>9, <1>12, <1>13
<1>18. (srv = "stream" => pr.response = "streamed")'
    BY <1>11, <1>12
<1>19. (ServeOver => pr.response # "none" \/ cut)'
    BY <1>11, <1>12, <1>13 DEF ServeOver
<1>20. (pump # "none" => NumUp > 0)' /\ (viewer = "gone" => cut)'
    BY <1>1, <1>12, <1>13
<1>21. (~link => cut /\ toClient = <<>> /\ toServer = <<>>)'
    BY <1>12, <1>13 DEF ServerSends, ClientSends
<1>22. QED
    BY <1>15, <1>16, <1>17, <1>18, <1>19, <1>20, <1>21 DEF ServerShape

LEMMA ClientShapeStep ==
    ASSUME TypeInv, Shape, [Next]_vars
    PROVE  ClientShape'
<1>1. /\ ClientTakesRequest => cl = "none"
      /\ Unanswered' => Unanswered
    BY TakenOnce, Progress
<1>2. /\ Unanswered => /\ toServer = <<>> /\ down = 0 /\ sTaken = 0
                       /\ pr.response = "none" /\ pr.data = <<>> /\ page = <<>>
      /\ cl \in {"none", "spawned"} => ~bs.held /\ bs.data = <<>> /\ cTaken = 0 /\ body = <<>>
      /\ cancel # "none" => cl \in {"arm", "stream"}
      /\ cl = "stream" => cancel # "none"
    BY DEF Shape, ClientShape
<1>3. /\ pr'.data = pr.data \/ StreamWrites \/ ServerEnqueues
      /\ pr'.response = pr.response \/ ServerTakesResponse
    <2>1. pr' = pr => pr'.response = pr.response /\ pr'.data = pr.data
        OBVIOUS
    <2>2. QED
        BY <2>1, TypeFacts, RequestMoves DEF SetsFlag, Flags, SameFlags
<1>4. /\ bs'.held = bs.held \/ RequestStarts \/ ~bs'.held
      /\ bs'.data = bs.data \/ LocalReads \/ ClientEnqueues
    <2>1. bs' = bs => bs'.held = bs.held /\ bs'.data = bs.data
        OBVIOUS
    <2>2. QED
        BY <2>1, TypeFacts, BodyMoves
<1> USE DEF Next, ServeStep, PumpStep, ServerReaderStep, ClientReaderStep, RequestStep,
            Answers, LocalAnswers, Forward, AwaitEnds, AwaitTimesOut, StreamWrites,
            StreamEnds, StreamIdles, Finish, ViewerLeaves, PumpSends, PumpEnds,
            ServerReceives, ServerTakesResponse, ServerTakesData, ServerEnqueues,
            ServerDrops, ServerGivesUp, ServerTakesClose, LinkLost, ClientReceives,
            ClientTakesRequest, ClientTakesData, ClientEnqueues, ClientAborts,
            ClientTakesClose, RequestRefused, RequestStarts, LocalReads, StreamRefused,
            StreamArms, StreamResponds, StreamSends, StreamFails, StreamCloses,
            RequestEnds, vars, serverVars, clientVars
<1>5. Unanswered' => toServer' = <<>> /\ down' = 0 /\ sTaken' = 0 /\ page' = <<>>
    BY <1>1, <1>2 DEF Unanswered, ClientSends
<1>6. Unanswered' => pr'.response = "none" /\ pr'.data = <<>>
    BY <1>1, <1>2, <1>3
<1>7. (cl \in {"none", "spawned"} => cTaken = 0 /\ body = <<>>)'
    BY <1>1, <1>2
<1>8. (cl \in {"none", "spawned"} => ~bs.held /\ bs.data = <<>>)'
    BY <1>1, <1>2, <1>4
<1>9. (cancel # "none" => cl \in {"arm", "stream"})'
    BY <1>1, <1>2
<1>10. (cl = "stream" => cancel # "none")'
    BY <1>1, <1>2
<1>11. QED
    BY <1>5, <1>6, <1>7, <1>8, <1>9, <1>10 DEF ClientShape

LEMMA ShapeStep ==
    ASSUME TypeInv, Shape, [Next]_vars
    PROVE  Shape'
BY RequestStaysFirst, ResponseStaysFirst, ServerShapeStep, ClientShapeStep DEF Shape

-----------------------------------------------------------------------------
(***************************************************************************)
(* Downwards: the chunks of the response.                                  *)
(***************************************************************************)
LEMMA DownMoves ==
    ASSUME TypeInv, Shape, [Next]_vars
    PROVE  /\ pr'.pending => pr.pending \/ Forward
           /\ \/ UNCHANGED <<page, sTaken, toServer, down>> /\ pr'.data = pr.data
              \/ /\ \E t \in {"inline", "streamed", "close"} : ClientSends(Msg(t))
                 /\ UNCHANGED <<page, pr, sTaken, down>>
              \/ StreamSends \/ StreamWrites
              \/ ServerTakesResponse \/ ServerTakesData \/ ServerTakesClose
              \/ ServerEnqueues \/ ServerDrops \/ ServerGivesUp \/ LinkLost
<1>1. pr'.pending => pr.pending \/ Forward
    <2>1. pr.pending \in BOOLEAN /\ pr \in PendingReq
        BY TypeFacts
    <2>2. pr' = pr => pr'.pending = pr.pending
        OBVIOUS
    <2>3. QED
        BY <2>1, <2>2, RequestMoves DEF SetsFlag, Flags, SameFlags
<1>2. Forward \/ Finish => pr'.data = pr.data
    <2>1. pr' = pr => pr'.data = pr.data
        OBVIOUS
    <2>2. QED
        BY <2>1, TypeFacts, RequestMoves DEF Flags
<1> USE DEF Next, ServeStep, PumpStep, ServerReaderStep, ClientReaderStep, RequestStep,
            Answers, LocalAnswers, Forward, AwaitEnds, AwaitTimesOut, StreamWrites,
            StreamEnds, StreamIdles, Finish, ViewerLeaves, PumpSends, PumpEnds,
            ServerReceives, ServerTakesResponse, ServerTakesData, ServerEnqueues,
            ServerDrops, ServerGivesUp, ServerTakesClose, LinkLost, ClientReceives,
            ClientTakesRequest, ClientTakesData, ClientEnqueues, ClientAborts,
            ClientTakesClose, RequestRefused, RequestStarts, LocalReads, StreamRefused,
            StreamArms, StreamResponds, StreamSends, StreamFails, StreamCloses,
            RequestEnds, vars, serverVars, clientVars
<1>3. \/ UNCHANGED <<page, sTaken, toServer, down>> /\ pr'.data = pr.data
      \/ /\ \E t \in {"inline", "streamed", "close"} : ClientSends(Msg(t))
         /\ UNCHANGED <<page, pr, sTaken, down>>
      \/ StreamSends \/ StreamWrites
      \/ ServerTakesResponse \/ ServerTakesData \/ ServerTakesClose
      \/ ServerEnqueues \/ ServerDrops \/ ServerGivesUp \/ LinkLost
    BY <1>2
<1>4. QED
    BY <1>1, <1>3

LEMMA DownFlowStep ==
    ASSUME TypeInv, Shape, DownFlow, [Next]_vars
    PROVE  DownFlow'
<1> DEFINE g == Len(page)
           d == Len(pr.data)
<1>1. /\ g \in Nat /\ d \in Nat /\ down \in Nat /\ sTaken \in Nat /\ page \in Seq(1..NumDown)
      /\ pr.data \in Seq(1..NumDown) /\ toServer \in Seq(DownFrame)
      /\ InOrder(page) /\ NumDown \in Nat
    BY TypeFacts, QueueTypes DEF DownFlow
<1>2. Received \in Nat
    <2>1. \A a, b \in Nat : a + b + (IF sTaken = 0 THEN 0 ELSE 1) \in Nat
        OBVIOUS
    <2>2. QED
        BY <1>1, <2>1 DEF Received
<1>3. /\ ~ServeOver' => ~ServeOver
      /\ pr'.pending => pr.pending \/ Forward
    BY Progress, DownMoves
<1>4. ~ServeOver => Streaming /\ (pr.pending => Carries(toServer, Received, down))
    BY DEF DownFlow
<1>5. \A t \in {"inline", "streamed", "close"} : Msg(t) \in DownFrame /\ ~IsData(Msg(t))
    BY FramesAreFrames
<1>6. pr.pending => link
    BY DEF Shape, ServerShape
<1>7. CASE UNCHANGED <<page, sTaken, toServer, down>> /\ pr'.data = pr.data
    <2>1. Received' = Received /\ (Streaming => Streaming')
        BY <1>7 DEF Received, Streaming
    <2>2. Forward => Carries(toServer, Received, down)
        <3>1. SUFFICES ASSUME Forward PROVE Carries(toServer, Received, down)
            OBVIOUS
        <3>2. cl = "none"
            BY <3>1 DEF Forward, Shape, ServerShape
        <3>3. /\ toServer = <<>> /\ down = 0 /\ sTaken = 0
              /\ page = <<>> /\ pr.data = <<>>
            BY <3>2 DEF Shape, ClientShape, Unanswered
        <3>4. Received = 0
            BY <3>3 DEF Received
        <3>5. QED
            BY <3>3, <3>4, EmptyCarries
    <2>3. QED
        BY <1>1, <1>3, <1>4, <1>7, <2>1, <2>2 DEF DownFlow
<1>8. ASSUME NEW t \in {"inline", "streamed", "close"}, ClientSends(Msg(t)),
             UNCHANGED <<page, pr, sTaken, down>>
      PROVE  DownFlow'
    <2>1. Carries(toServer, Received, down) => Carries(toServer', Received, down)
        BY <1>1, <1>2, <1>5, <1>8, SendOther DEF ClientSends
    <2>2. Received' = Received /\ (Streaming => Streaming')
        BY <1>8 DEF Received, Streaming
    <2>3. QED
        BY <1>1, <1>3, <1>4, <1>8, <2>1, <2>2 DEF DownFlow
<1>9. CASE StreamSends
    <2>1. /\ link /\ down < NumDown /\ ClientSends(Data(down + 1)) /\ down' = down + 1
          /\ UNCHANGED <<page, pr, sTaken>>
        BY <1>9 DEF StreamSends, serverVars
    <2>2. Received' = Received
        BY <2>1 DEF Received
    <2>3. Data(down + 1) \in DownFrame
        <3>1. down + 1 \in 1..NumDown
            BY <1>1, <2>1
        <3>2. QED
            BY <3>1, FramesAreFrames
    <2>4. Received <= down /\ Carries(toServer, Received, down) =>
             Carries(toServer', Received, down + 1)
        BY <1>1, <1>2, <2>1, <2>3, SendData DEF ClientSends
    <2>5. Streaming => Streaming' /\ Received <= down
        BY <1>1, <1>2, <2>1, <2>2 DEF Streaming
    <2>6. QED
        BY <1>1, <1>3, <1>4, <2>1, <2>2, <2>4, <2>5 DEF DownFlow
<1>10. CASE StreamWrites
    <2>1. /\ pr.data # <<>> /\ ~ServeOver /\ UNCHANGED <<sTaken, toServer, down>>
          /\ \/ page' = Append(page, Head(pr.data))
             \/ page' = page /\ ServeOver'
        BY <1>10 DEF StreamWrites, ServeOver, clientVars
    <2>2. pr'.data = Tail(pr.data) /\ pr'.pending = pr.pending
        BY <1>10, TypeFacts, RequestMoves DEF SameFlags
    <2>3. CASE page' = page /\ ServeOver'
        BY <1>1, <2>3 DEF DownFlow
    <2>4. CASE page' = Append(page, Head(pr.data))
        <3>1. Streaming /\ (pr.pending => Carries(toServer, Received, down))
            BY <1>4, <2>1
        <3>2. /\ d \in Nat \ {0} /\ Head(pr.data) = pr.data[1] /\ 1 \in 1..d
              /\ Len(pr'.data) = d - 1 /\ Head(pr.data) \in 1..NumDown
              /\ \A i \in 1..(d - 1) : pr'.data[i] = pr.data[i + 1] /\ i + 1 \in 1..d
            BY <1>1, <2>1, <2>2, TailShifts, QueueTypes
        <3>3. Head(pr.data) = g + 1
            BY <3>1, <3>2 DEF Streaming
        <3>4. /\ Len(page') = g + 1 /\ page'[g + 1] = g + 1
              /\ \A i \in 1..g : page'[i] = page[i]
            BY <1>1, <2>4, <3>2, <3>3
        <3>5. Received' = Received
            <4>1. Len(page') + Len(pr'.data) = g + d
                <5>1. \A a, b \in Nat : (a + 1) + (b - 1) = a + b
                    OBVIOUS
                <5>2. g \in Nat /\ d \in Nat
                    BY <1>1
                <5>3. Len(page') = g + 1 /\ Len(pr'.data) = d - 1
                    BY <3>2, <3>4
                <5>4. QED
                    BY <5>1, <5>2, <5>3
            <4>2. QED
                BY <2>1, <4>1 DEF Received
        <3>6. InOrder(page')
            <4>1. \A i \in 1..(g + 1) : i \in 1..g \/ i = g + 1
                BY <1>1
            <4>2. QED
                BY <1>1, <3>4, <4>1 DEF InOrder
        <3>7. Streaming'
            <4>1. ASSUME NEW i \in 1..(d - 1)
                  PROVE  pr'.data[i] = (g + 1) + i
                BY <1>1, <3>1, <3>2 DEF Streaming
            <4>2. sTaken # 0 => sTaken = (g + 1) + (d - 1) + 1
                <5>1. sTaken # 0 => sTaken = g + d + 1
                    BY <3>1 DEF Streaming
                <5>2. \A a, b \in Nat : (a + 1) + (b - 1) + 1 = a + b + 1
                    OBVIOUS
                <5>3. QED
                    BY <1>1, <5>1, <5>2
            <4>3. QED
                BY <2>1, <3>1, <3>2, <3>4, <3>5, <4>1, <4>2 DEF Streaming
        <3>8. QED
            BY <2>1, <2>2, <3>1, <3>5, <3>6, <3>7 DEF DownFlow
    <2>5. QED
        BY <2>1, <2>3, <2>4
<1>11. CASE ServerTakesResponse
    <2>1. /\ toServer # <<>> /\ toServer' = Tail(toServer) /\ ~IsData(Head(toServer))
          /\ UNCHANGED <<page, sTaken, down>> /\ ~Forward
        BY <1>11 DEF ServerTakesResponse, ServerReceives, IsData, clientVars, Forward
    <2>2. pr'.data = pr.data
        <3>1. pr' = pr => pr'.data = pr.data
            OBVIOUS
        <3>2. QED
            BY <1>11, <3>1, TypeFacts, RequestMoves DEF Flags
    <2>3. Received' = Received /\ (Streaming => Streaming')
        BY <2>1, <2>2 DEF Received, Streaming
    <2>4. Carries(toServer, Received, down) => Carries(toServer', Received, down)
        BY <1>1, <1>2, <2>1, TakeOther
    <2>5. QED
        BY <1>1, <1>3, <1>4, <2>1, <2>3, <2>4 DEF DownFlow
<1>12. CASE ServerTakesData
    <2>1. /\ toServer # <<>> /\ toServer' = Tail(toServer) /\ IsData(Head(toServer))
          /\ sTaken = 0 /\ sTaken' = (IF pr.pending THEN Head(toServer).chunk ELSE 0)
          /\ UNCHANGED <<page, pr, down>>
        BY <1>12 DEF ServerTakesData, ServerReceives, IsData, clientVars
    <2>2. CASE ~pr.pending
        <3>1. Received' = Received /\ (Streaming => Streaming')
            BY <2>1, <2>2 DEF Streaming, Received
        <3>2. QED
            BY <1>1, <1>3, <1>4, <2>1, <2>2, <3>1 DEF DownFlow
    <2>3. CASE pr.pending /\ ~ServeOver
        <3>1. Streaming /\ Received = g + d /\ Carries(toServer, Received, down)
            BY <1>4, <2>1, <2>3 DEF Received
        <3>2. /\ Head(toServer).chunk = Received + 1 /\ Received + 1 <= down
              /\ Carries(toServer', Received + 1, down)
            BY <1>1, <1>2, <2>1, <3>1, TakeData
        <3>3. sTaken' = g + d + 1 /\ sTaken' # 0
            BY <1>1, <2>1, <2>3, <3>1, <3>2
        <3>4. Received' = Received + 1
            BY <1>1, <2>1, <3>1, <3>3 DEF Received
        <3>5. Streaming'
            BY <1>1, <2>1, <3>1, <3>2, <3>3, <3>4 DEF Streaming
        <3>6. QED
            BY <1>1, <2>1, <3>2, <3>4, <3>5 DEF DownFlow
    <2>4. CASE ServeOver
        BY <1>1, <1>3, <2>1, <2>4 DEF DownFlow
    <2>5. QED
        BY <2>2, <2>3, <2>4
<1>13. CASE ServerTakesClose \/ LinkLost
    <2>1. UNCHANGED <<page, sTaken, down>>
        BY <1>13 DEF ServerTakesClose, LinkLost, clientVars
    <2>2. pr'.data = pr.data /\ ~pr'.pending
        <3>1. pr' = pr => pr'.data = pr.data /\ pr'.pending = pr.pending
            OBVIOUS
        <3>2. QED
            BY <1>13, <3>1, TypeFacts, RequestMoves DEF Flags
    <2>3. Received' = Received /\ (Streaming => Streaming')
        BY <2>1, <2>2 DEF Received, Streaming
    <2>4. QED
        BY <1>1, <1>3, <1>4, <2>1, <2>2, <2>3 DEF DownFlow
<1>14. CASE ServerEnqueues
    <2>1. sTaken # 0 /\ sTaken' = 0 /\ UNCHANGED <<page, toServer, down>>
        BY <1>14 DEF ServerEnqueues, clientVars
    <2>2. pr'.data = Append(pr.data, sTaken) /\ pr'.pending = pr.pending
        BY <1>14, TypeFacts, RequestMoves DEF SameFlags
    <2>3. sTaken \in 1..NumDown
        BY <2>1 DEF TypeInv, TypeOK
    <2>4. /\ Len(pr'.data) = d + 1 /\ pr'.data[d + 1] = sTaken
          /\ \A i \in 1..d : pr'.data[i] = pr.data[i]
        BY <1>1, <2>2, <2>3
    <2>5. Received' = Received
        BY <1>1, <2>1, <2>4 DEF Received
    <2>6. Streaming => Streaming'
        <3>1. SUFFICES ASSUME Streaming, NEW i \in 1..(d + 1)
                       PROVE  pr'.data[i] = g + i
            BY <2>1, <2>4, <2>5 DEF Streaming
        <3>2. CASE i \in 1..d
            BY <2>4, <3>1, <3>2 DEF Streaming
        <3>3. CASE i = d + 1
            BY <1>1, <2>1, <2>4, <3>1, <3>3 DEF Streaming
        <3>4. i \in 1..d \/ i = d + 1
            BY <1>1
        <3>5. QED
            BY <3>2, <3>3, <3>4
    <2>7. QED
        BY <1>1, <1>3, <1>4, <2>1, <2>2, <2>5, <2>6 DEF DownFlow
<1>15. CASE ServerDrops \/ ServerGivesUp
    <2>1. sTaken # 0 /\ sTaken' = 0 /\ UNCHANGED <<page, down>>
        BY <1>15 DEF ServerDrops, ServerGivesUp, clientVars
    <2>2. pr'.data = pr.data /\ ~pr'.pending
        <3>1. CASE ServerDrops
            BY <3>1 DEF ServerDrops, Shape, ServerShape
        <3>2. CASE ServerGivesUp
            BY <3>2, TypeFacts, RequestMoves DEF Flags
        <3>3. QED
            BY <1>15, <3>1, <3>2
    <2>3. Received' <= Received /\ Received' \in Nat
        BY <1>1, <2>1, <2>2 DEF Received
    <2>4. Streaming => Streaming'
        <3>1. Received <= down => Received' <= down'
            BY <1>1, <1>2, <2>1, <2>3
        <3>2. QED
            BY <2>1, <2>2, <3>1 DEF Streaming
    <2>5. QED
        BY <1>1, <1>3, <1>4, <2>1, <2>2, <2>4 DEF DownFlow
<1>16. QED
    BY <1>7, <1>8, <1>9, <1>10, <1>11, <1>12, <1>13, <1>14, <1>15, DownMoves

-----------------------------------------------------------------------------
(***************************************************************************)
(* Upwards: the chunks of the request body.  Those that come before the    *)
(* bodyStream is registered are dropped; the ones kept have no gap.        *)
(***************************************************************************)
LEMMA UpMoves ==
    ASSUME TypeInv, Shape, [Next]_vars
    PROVE  /\ Keeping' => Keeping
           /\ \/ UNCHANGED <<toClient, body, sent, cTaken>> /\ bs'.data = bs.data
              \/ /\ \E t \in {"request", "close"} : ServerSends(Msg(t))
                 /\ UNCHANGED <<body, bs, cTaken, sent>>
              \/ PumpSends \/ ClientTakesRequest \/ ClientTakesData \/ ClientTakesClose
              \/ ClientEnqueues \/ ClientAborts \/ LocalReads \/ LinkLost
<1>1. Keeping' => Keeping
    <2>1. ClientTakesRequest => cl = "none"
        BY TakenOnce
    <2>2. bs.held \in BOOLEAN
        BY TypeFacts
    <2>3. bs' = bs => bs'.held = bs.held
        OBVIOUS
    <2>4. bs'.held => bs.held \/ RequestStarts
        BY <2>2, <2>3, TypeFacts, BodyMoves
    <2>5. cl' \in {"none", "spawned"} => cl \in {"none", "spawned"}
        BY <2>1 DEF Next, ServeStep, PumpStep, ServerReaderStep, ClientReaderStep,
                    RequestStep, Answers, LocalAnswers, Forward, AwaitEnds, AwaitTimesOut,
                    StreamWrites, StreamEnds, StreamIdles, Finish, ViewerLeaves, PumpSends,
                    PumpEnds, ServerReceives, ServerTakesResponse, ServerTakesData,
                    ServerEnqueues, ServerDrops, ServerGivesUp, ServerTakesClose, LinkLost,
                    ClientReceives, ClientTakesRequest, ClientTakesData, ClientEnqueues,
                    ClientAborts, ClientTakesClose, RequestRefused, RequestStarts,
                    LocalReads, StreamRefused, StreamArms, StreamResponds, StreamSends,
                    StreamFails, StreamCloses, RequestEnds, vars, serverVars, clientVars
    <2>6. QED
        BY <2>4, <2>5 DEF Keeping, RequestStarts
<1>2. RequestStarts \/ RequestEnds => bs'.data = bs.data
    BY TypeFacts, BodyMoves
<1> USE DEF Next, ServeStep, PumpStep, ServerReaderStep, ClientReaderStep, RequestStep,
            Answers, LocalAnswers, Forward, AwaitEnds, AwaitTimesOut, StreamWrites,
            StreamEnds, StreamIdles, Finish, ViewerLeaves, PumpSends, PumpEnds,
            ServerReceives, ServerTakesResponse, ServerTakesData, ServerEnqueues,
            ServerDrops, ServerGivesUp, ServerTakesClose, LinkLost, ClientReceives,
            ClientTakesRequest, ClientTakesData, ClientEnqueues, ClientAborts,
            ClientTakesClose, RequestRefused, RequestStarts, LocalReads, StreamRefused,
            StreamArms, StreamResponds, StreamSends, StreamFails, StreamCloses,
            RequestEnds, vars, serverVars, clientVars
<1>3. \/ UNCHANGED <<toClient, body, sent, cTaken>> /\ bs'.data = bs.data
      \/ /\ \E t \in {"request", "close"} : ServerSends(Msg(t))
         /\ UNCHANGED <<body, bs, cTaken, sent>>
      \/ PumpSends \/ ClientTakesRequest \/ ClientTakesData \/ ClientTakesClose
      \/ ClientEnqueues \/ ClientAborts \/ LocalReads \/ LinkLost
    BY <1>2
<1>4. QED
    BY <1>1, <1>3

LEMMA UpFlowStep ==
    ASSUME TypeInv, Shape, UpFlow, [Next]_vars
    PROVE  UpFlow'
<1> DEFINE g == Len(body)
           d == Len(bs.data)
<1>1. /\ g \in Nat /\ d \in Nat /\ sent \in Nat /\ cTaken \in Nat /\ body \in Seq(1..NumUp)
      /\ bs.data \in Seq(1..NumUp) /\ toClient \in Seq(UpFrame) /\ NumUp \in Nat
    BY TypeFacts, QueueTypes
<1>2. Kept \in Nat
    <2>1. \A a, b \in Nat : a + b + (IF cTaken = 0 THEN 0 ELSE 1) \in Nat
        OBVIOUS
    <2>2. QED
        BY <1>1, <2>1 DEF Kept
<1>3. PICK b \in 0..sent : UpFlowFrom(b)
    BY DEF UpFlow
<1> DEFINE k == b + Kept
<1>4. b \in Nat /\ k \in Nat /\ k <= sent /\ KeptFrom(b)
    <2>1. b \in Nat
        BY <1>1
    <2>2. QED
        BY <1>2, <1>3, <2>1 DEF UpFlowFrom
<1>5. Keeping => \E hi \in k..sent : (link => hi = sent) /\ Carries(toClient, k, hi)
    BY <1>3 DEF UpFlowFrom
<1>6. (link' => link) /\ (Keeping' => Keeping)
    BY Progress, UpMoves
<1>7. \A t \in {"request", "close"} : Msg(t) \in UpFrame /\ ~IsData(Msg(t))
    BY FramesAreFrames
<1>8. ASSUME UpFlowFrom(b)', sent' >= sent, sent' \in Nat
      PROVE  UpFlow'
    <2>1. b \in 0..(sent')
        BY <1>1, <1>4, <1>8
    <2>2. QED
        BY <1>8, <2>1 DEF UpFlow
<1> HIDE DEF k
<1>9. k = b + Kept
    BY DEF k
<1> g \in Nat /\ d \in Nat /\ b \in Nat
    BY <1>1, <1>4
<1> HIDE DEF g, d
<1>sum. \A x, y, z \in Nat : /\ x + (y + z) = x + y + z
                              /\ x + y + z + 1 = x + y + (z + 1)
                              /\ x + (y + 1) + (z - 1) + 1 = x + y + z + 1
    OBVIOUS
<1>arith. /\ b + (g + d) = b + g + d
          /\ b + g + d + 1 = b + g + (d + 1)
          /\ b + (g + 1) + (d - 1) + 1 = b + g + d + 1
    BY <1>sum
<1> USE DEF g, d
<1>10. CASE UNCHANGED <<toClient, body, sent, cTaken>> /\ bs'.data = bs.data
    <2>1. Kept' = Kept /\ KeptFrom(b)'
        BY <1>4, <1>10 DEF Kept, KeptFrom
    <2>2. UpFlowFrom(b)'
        BY <1>4, <1>5, <1>6, <1>9, <1>10, <2>1 DEF UpFlowFrom
    <2>3. QED
        BY <1>1, <1>8, <1>10, <2>2
<1>11. ASSUME NEW t \in {"request", "close"}, ServerSends(Msg(t)),
              UNCHANGED <<body, bs, cTaken, sent>>
       PROVE  UpFlow'
    <2>1. Kept' = Kept /\ KeptFrom(b)'
        BY <1>4, <1>11 DEF Kept, KeptFrom
    <2>2. ASSUME NEW hi \in k..sent, Carries(toClient, k, hi)
          PROVE  Carries(toClient', k, hi)
        BY <1>1, <1>4, <1>7, <1>11, <2>2, SendOther DEF ServerSends
    <2>3. UpFlowFrom(b)'
        BY <1>4, <1>5, <1>6, <1>9, <1>11, <2>1, <2>2 DEF UpFlowFrom
    <2>4. QED
        BY <1>1, <1>8, <1>11, <2>3
<1>12. CASE PumpSends
    <2>1. /\ sent < NumUp /\ sent' = sent + 1 /\ ServerSends(Data(sent + 1))
          /\ UNCHANGED <<body, bs, cTaken, cl, link>>
        BY <1>12 DEF PumpSends, clientVars
    <2>2. Data(sent + 1) \in UpFrame
        <3>1. sent + 1 \in 1..NumUp
            BY <1>1, <2>1
        <3>2. QED
            BY <3>1, FramesAreFrames
    <2>3. Kept' = Kept /\ KeptFrom(b)'
        BY <1>4, <2>1 DEF Kept, KeptFrom
    <2>4. ASSUME NEW hi \in k..sent, link => hi = sent, Carries(toClient, k, hi)
          PROVE  \E h \in k..(sent + 1) : (link => h = sent + 1) /\ Carries(toClient', k, h)
        <3>1. CASE link
            <4>1. toClient' = Append(toClient, Data(sent + 1)) /\ hi = sent
                BY <2>1, <2>4, <3>1 DEF ServerSends
            <4>2. Carries(toClient', k, sent + 1)
                BY <1>1, <1>4, <2>2, <2>4, <4>1, SendData
            <4>3. sent + 1 \in k..(sent + 1)
                BY <1>1, <1>4
            <4>4. QED
                BY <4>2, <4>3
        <3>2. CASE ~link
            <4>1. toClient' = toClient
                BY <2>1, <3>2 DEF ServerSends
            <4>2. hi \in k..(sent + 1)
                BY <1>1, <1>4
            <4>3. QED
                BY <2>4, <3>2, <4>1, <4>2
        <3>3. QED
            BY <3>1, <3>2
    <2>5. k <= sent + 1
        BY <1>1, <1>4
    <2>6. UpFlowFrom(b)'
        BY <1>5, <1>6, <1>9, <2>1, <2>3, <2>4, <2>5 DEF UpFlowFrom
    <2>7. QED
        BY <1>1, <1>8, <2>1, <2>6
<1>13. CASE ClientTakesRequest \/ ClientTakesClose
    <2>1. toClient # <<>> /\ toClient' = Tail(toClient) /\ ~IsData(Head(toClient))
        BY <1>13 DEF ClientTakesRequest, ClientTakesClose, ClientReceives, IsData
    <2>2. UNCHANGED <<body, sent, cTaken>>
        BY <1>13 DEF ClientTakesRequest, ClientTakesClose, serverVars
    <2>3. bs'.data = bs.data
        BY <1>13, TypeFacts, BodyMoves DEF ClientTakesRequest
    <2>4. Kept' = Kept /\ KeptFrom(b)'
        BY <1>4, <2>2, <2>3 DEF Kept, KeptFrom
    <2>5. ASSUME NEW hi \in k..sent, Carries(toClient, k, hi)
          PROVE  Carries(toClient', k, hi)
        BY <1>1, <1>4, <2>1, <2>5, TakeOther
    <2>6. UpFlowFrom(b)'
        BY <1>4, <1>5, <1>6, <1>9, <2>2, <2>4, <2>5 DEF UpFlowFrom
    <2>7. QED
        BY <1>1, <1>8, <2>2, <2>6
<1>14. CASE ClientTakesData
    <2>1. /\ toClient # <<>> /\ toClient' = Tail(toClient) /\ IsData(Head(toClient))
          /\ cTaken = 0 /\ cTaken' = (IF bs.held THEN Head(toClient).chunk ELSE 0)
          /\ UNCHANGED <<body, bs, sent, link, cl>>
        BY <1>14 DEF ClientTakesData, ClientReceives, IsData, serverVars
    <2>2. Kept = g + d /\ k = b + g + d
        <3>1. Kept = g + d
            BY <1>1, <2>1 DEF Kept
        <3>2. QED
            BY <1>9, <1>arith, <3>1
    <2>3. CASE ~Keeping
        <3>1. Kept' = Kept /\ KeptFrom(b)'
            BY <1>4, <2>1, <2>3 DEF Keeping, Kept, KeptFrom
        <3>2. UpFlowFrom(b)'
            BY <1>4, <1>6, <1>9, <2>1, <2>3, <3>1 DEF UpFlowFrom
        <3>3. QED
            BY <1>1, <1>8, <2>1, <3>2
    <2>4. CASE Keeping
        <3>1. PICK hi \in k..sent : (link => hi = sent) /\ Carries(toClient, k, hi)
            BY <1>5, <2>4
        <3>2. /\ Head(toClient).chunk = k + 1 /\ k + 1 <= hi
              /\ Carries(toClient', k + 1, hi) /\ hi \in Nat
            BY <1>1, <1>4, <2>1, <3>1, TakeData
        <3>3. k + 1 <= sent /\ hi \in (k + 1)..sent
            BY <1>1, <1>4, <3>1, <3>2
        <3>4. CASE bs.held
            <4>1. cTaken' = b + g + d + 1 /\ cTaken' # 0
                <5>1. cTaken' = k + 1
                    BY <2>1, <3>2, <3>4
                <5>2. k + 1 # 0
                    BY <1>4
                <5>3. QED
                    BY <2>2, <5>1, <5>2
            <4>2. Kept' = Kept + 1
                BY <1>1, <2>1, <2>2, <4>1 DEF Kept
            <4>3. b + Kept' = k + 1
                BY <1>2, <1>4, <1>9, <4>2
            <4>4. KeptFrom(b)'
                BY <1>4, <2>1, <4>1 DEF KeptFrom
            <4>5. UpFlowFrom(b)'
                BY <2>1, <3>1, <3>2, <3>3, <4>3, <4>4 DEF UpFlowFrom
            <4>6. QED
                BY <1>1, <1>8, <2>1, <4>5
        <3>5. CASE ~bs.held
            <4>1. cTaken' = 0 /\ body = <<>> /\ bs.data = <<>>
                BY <2>1, <2>4, <3>5 DEF Keeping, Shape, ClientShape
            <4>2. Kept' = 0 /\ Kept = 0
                BY <2>1, <4>1 DEF Kept
            <4>3. b = k /\ b + 1 \in 0..sent /\ (b + 1) + 0 = k + 1
                BY <1>1, <1>4, <1>9, <3>3, <4>2
            <4>4. KeptFrom(b + 1)'
                BY <2>1, <4>1 DEF KeptFrom
            <4>5. UpFlowFrom(b + 1)'
                BY <2>1, <3>1, <3>2, <3>3, <4>2, <4>3, <4>4 DEF UpFlowFrom
            <4>6. QED
                BY <2>1, <4>3, <4>5 DEF UpFlow
        <3>6. QED
            BY <3>4, <3>5
    <2>5. QED
        BY <2>3, <2>4
<1>15. CASE ClientEnqueues
    <2>1. cTaken # 0 /\ cTaken' = 0 /\ UNCHANGED <<body, toClient, sent, link>>
        BY <1>15 DEF ClientEnqueues, serverVars
    <2>2. bs'.data = Append(bs.data, cTaken)
        BY <1>15, TypeFacts, BodyMoves
    <2>3. cTaken \in 1..NumUp
        BY <2>1 DEF TypeInv, TypeOK
    <2>4. /\ Len(bs'.data) = d + 1 /\ bs'.data[d + 1] = cTaken
          /\ \A i \in 1..d : bs'.data[i] = bs.data[i]
        BY <1>1, <2>2, <2>3
    <2>5. Kept' = Kept
        BY <1>1, <2>1, <2>4 DEF Kept
    <2>6. KeptFrom(b)'
        <3>1. ASSUME NEW i \in 1..(d + 1)
              PROVE  bs'.data[i] = b + g + i
            <4>1. CASE i \in 1..d
                BY <1>4, <2>4, <4>1 DEF KeptFrom
            <4>2. CASE i = d + 1
                <5>1. cTaken = b + g + d + 1
                    BY <1>4, <2>1 DEF KeptFrom
                <5>2. QED
                    BY <1>arith, <2>4, <4>2, <5>1
            <4>3. i \in 1..d \/ i = d + 1
                BY <1>1
            <4>4. QED
                BY <4>1, <4>2, <4>3
        <3>2. QED
            BY <1>4, <2>1, <2>4, <3>1 DEF KeptFrom
    <2>7. UpFlowFrom(b)'
        BY <1>4, <1>5, <1>6, <1>9, <2>1, <2>5, <2>6 DEF UpFlowFrom
    <2>8. QED
        BY <1>1, <1>8, <2>1, <2>7
<1>16. CASE ClientAborts
    <2>1. cTaken # 0 /\ cTaken' = 0 /\ UNCHANGED <<body, sent, cl>>
        BY <1>16 DEF ClientAborts, serverVars
    <2>2. bs'.data = bs.data /\ ~bs'.held
        BY <1>16, TypeFacts, BodyMoves
    <2>3. ~Keeping'
        BY <2>1, <2>2 DEF Keeping, Shape, ClientShape
    <2>4. KeptFrom(b)' /\ Kept' = g + d
        BY <1>1, <1>4, <2>1, <2>2 DEF KeptFrom, Kept
    <2>5. b + (g + d) <= sent
        <3>1. Kept = g + d + 1
            BY <1>1, <2>1 DEF Kept
        <3>2. \A x, y, z \in Nat : x + (y + 1) <= z => x + y <= z
            OBVIOUS
        <3>3. g + d \in Nat /\ b + (g + d + 1) <= sent
            BY <1>1, <1>4, <1>9, <3>1
        <3>4. QED
            BY <1>1, <1>4, <3>2, <3>3
    <2>6. UpFlowFrom(b)'
        BY <2>1, <2>3, <2>4, <2>5 DEF UpFlowFrom
    <2>7. QED
        BY <1>1, <1>8, <2>1, <2>6
<1>17. CASE LocalReads
    <2>1. /\ bs.data # <<>> /\ body' = Append(body, Head(bs.data))
          /\ UNCHANGED <<cTaken, toClient, sent, link>>
        BY <1>17 DEF LocalReads, serverVars
    <2>2. bs'.data = Tail(bs.data)
        BY <1>17, TypeFacts, BodyMoves
    <2>3. /\ d \in Nat \ {0} /\ Head(bs.data) = bs.data[1] /\ 1 \in 1..d
          /\ Len(bs'.data) = d - 1 /\ Head(bs.data) \in 1..NumUp
          /\ \A i \in 1..(d - 1) : bs'.data[i] = bs.data[i + 1] /\ i + 1 \in 1..d
        BY <1>1, <2>1, <2>2
    <2>4. Head(bs.data) = b + g + 1
        BY <1>4, <2>3 DEF KeptFrom
    <2>5. /\ Len(body') = g + 1 /\ body'[g + 1] = b + g + 1
          /\ \A i \in 1..g : body'[i] = body[i]
        BY <1>1, <2>1, <2>3, <2>4
    <2>6. Kept' = Kept
        <3>1. Len(body') + Len(bs'.data) = g + d
            <4>1. \A x, y \in Nat : (x + 1) + (y - 1) = x + y
                OBVIOUS
            <4>2. (g + 1) + (d - 1) = g + d
                BY <1>1, <4>1
            <4>3. QED
                BY <2>3, <2>5, <4>2
        <3>2. QED
            BY <2>1, <3>1 DEF Kept
    <2>7. \A i \in 1..(g + 1) : body'[i] = b + i
        <3>1. \A i \in 1..(g + 1) : i \in 1..g \/ i = g + 1
            BY <1>1
        <3>2. \A i \in 1..g : body[i] = b + i
            BY <1>4 DEF KeptFrom
        <3>3. b + g + 1 = b + (g + 1)
            BY <1>1, <1>4
        <3>4. QED
            BY <2>5, <3>1, <3>2, <3>3
    <2>8. \A i \in 1..(d - 1) : bs'.data[i] = b + (g + 1) + i
        <3>1. ASSUME NEW i \in 1..(d - 1)
              PROVE  bs'.data[i] = b + (g + 1) + i
            <4>1. bs.data[i + 1] = b + g + (i + 1)
                BY <1>4, <2>3 DEF KeptFrom
            <4>2. i \in Nat
                OBVIOUS
            <4>3. b + g + (i + 1) = b + (g + 1) + i
                BY <1>1, <1>4, <4>2
            <4>4. QED
                BY <2>3, <4>1, <4>3
        <3>2. QED
            BY <3>1
    <2>9. cTaken # 0 => cTaken = b + (g + 1) + (d - 1) + 1
        <3>1. cTaken # 0 => cTaken = b + g + d + 1
            BY <1>4 DEF KeptFrom
        <3>2. QED
            BY <1>arith, <3>1
    <2>10. KeptFrom(b)'
        BY <2>1, <2>3, <2>5, <2>7, <2>8, <2>9 DEF KeptFrom
    <2>11. UpFlowFrom(b)'
        BY <1>4, <1>5, <1>6, <1>9, <2>1, <2>6, <2>10 DEF UpFlowFrom
    <2>12. QED
        BY <1>1, <1>8, <2>1, <2>11
<1>18. CASE LinkLost
    <2>1. ~link' /\ toClient' = <<>> /\ UNCHANGED <<body, bs, cTaken, sent>>
        BY <1>18 DEF LinkLost, clientVars
    <2>2. Kept' = Kept /\ KeptFrom(b)'
        BY <1>4, <2>1 DEF Kept, KeptFrom
    <2>3. Carries(toClient', k, k) /\ k \in k..sent
        BY <1>1, <1>4, <2>1, EmptyCarries
    <2>4. UpFlowFrom(b)'
        BY <1>4, <1>9, <2>1, <2>2, <2>3 DEF UpFlowFrom
    <2>5. QED
        BY <1>1, <1>8, <2>1, <2>4
<1>19. QED
    BY <1>10, <1>11, <1>12, <1>13, <1>14, <1>15, <1>16, <1>17, <1>18, UpMoves

-----------------------------------------------------------------------------
(***************************************************************************)
(* The close that ends the request body, and cancellation.                 *)
(***************************************************************************)
\* No close is on its way to a client that is still at work, or it is the pump's.
LEMMA CloseComesFromPump ==
    ASSUME TypeInv, Shape, DownEnd, UpEnd, [Next]_vars, ~cut', ~ClientOver'
    PROVE  /\ ~cut /\ ~ClientOver /\ link /\ link'
           /\ \/ toClient' = toClient
              \/ toClient # <<>> /\ toClient' = Tail(toClient)
              \/ \E f \in UpFrame : f.type # "close" /\ toClient' = Append(toClient, f)
              \/ PumpEnds
<1>1. ~cut /\ ~ClientOver
    BY Progress
<1>2. link /\ link'
    BY <1>1, ServerShapeStep DEF Shape, ServerShape
<1>3. ~pr.closed
    BY <1>1 DEF DownEnd
<1>4. viewer = "here"
    BY <1>1 DEF Shape, ServerShape, TypeInv, TypeOK
<1>5. /\ Msg("request") \in UpFrame /\ Msg("request").type # "close"
      /\ sent < NumUp => Data(sent + 1) \in UpFrame /\ Data(sent + 1).type # "close"
    <2>1. sent < NumUp => sent + 1 \in 1..NumUp
        BY TypeFacts
    <2>2. QED
        BY <2>1, FramesAreFrames
<1> USE DEF Next, ServeStep, PumpStep, ServerReaderStep, ClientReaderStep, RequestStep,
            Answers, LocalAnswers, Forward, AwaitEnds, AwaitTimesOut, StreamWrites,
            StreamEnds, StreamIdles, Finish, ViewerLeaves, PumpSends, PumpEnds,
            ServerReceives, ServerTakesResponse, ServerTakesData, ServerEnqueues,
            ServerDrops, ServerGivesUp, ServerTakesClose, LinkLost, ClientReceives,
            ClientTakesRequest, ClientTakesData, ClientEnqueues, ClientAborts,
            ClientTakesClose, RequestRefused, RequestStarts, LocalReads, StreamRefused,
            StreamArms, StreamResponds, StreamSends, StreamFails, StreamCloses,
            RequestEnds, vars, serverVars, clientVars
<1>6. \/ toClient' = toClient
      \/ toClient # <<>> /\ toClient' = Tail(toClient)
      \/ \E f \in UpFrame : f.type # "close" /\ toClient' = Append(toClient, f)
      \/ PumpEnds
    BY <1>2, <1>3, <1>4, <1>5 DEF ServerSends
<1>7. QED
    BY <1>1, <1>2, <1>6

\* The bodyStream is dropped only for a close, a failure or at the very end.
LEMMA StaysHeld ==
    ASSUME TypeInv, Shape, [Next]_vars, ~cut', ~ClientOver', Started'
    PROVE  /\ Started \/ (RequestStarts /\ bs'.held = (NumUp > 0))
           /\ Started /\ bs.held => bs'.held \/ ClientTakesClose
<1>1. ClientTakesRequest => cl = "none"
    BY TakenOnce
<1>2. Started \/ RequestStarts
    BY <1>1 DEF Started, Next, ServeStep, PumpStep, ServerReaderStep, ClientReaderStep,
                         RequestStep, Answers, LocalAnswers, Forward, AwaitEnds,
                         AwaitTimesOut, StreamWrites, StreamEnds, StreamIdles, Finish,
                         ViewerLeaves, PumpSends, PumpEnds, ServerReceives,
                         ServerTakesResponse, ServerTakesData, ServerEnqueues, ServerDrops,
                         ServerGivesUp, ServerTakesClose, LinkLost, ClientReceives,
                         ClientTakesRequest, ClientTakesData, ClientEnqueues, ClientAborts,
                         ClientTakesClose, RequestRefused, RequestStarts, LocalReads,
                         StreamRefused, StreamArms, StreamResponds, StreamSends,
                         StreamFails, StreamCloses, RequestEnds, vars, serverVars,
                         clientVars
<1>3. ~ClientAborts
    BY DEF ClientAborts
<1>4. ~RequestEnds
    BY DEF RequestEnds, ClientOver
<1>5. Started => ~RequestStarts
    BY DEF Started, RequestStarts
<1>6. bs' = bs => bs'.held = bs.held
    OBVIOUS
<1>7. QED
    BY <1>2, <1>3, <1>4, <1>5, <1>6, TypeFacts, BodyMoves

LEMMA CloseIsTheBodysStep ==
    ASSUME TypeInv, Shape, DownEnd, UpEnd, [Next]_vars
    PROVE  CloseIsTheBodys'
<1> SUFFICES ASSUME ~cut', ~ClientOver'
             PROVE  (\A i \in 1..Len(toClient) :
                        toClient[i].type = "close" =>
                           /\ pump = "gone" /\ (Started => bs.held)
                           /\ \A j \in 1..Len(toClient) : toClient[j].type = "close" => i = j)'
    BY DEF CloseIsTheBodys
<1>1. /\ ~cut /\ ~ClientOver /\ link /\ link'
      /\ \/ toClient' = toClient
         \/ toClient # <<>> /\ toClient' = Tail(toClient)
         \/ \E f \in UpFrame : f.type # "close" /\ toClient' = Append(toClient, f)
         \/ PumpEnds
    BY CloseComesFromPump
<1>2. \A i \in 1..Len(toClient) :
         toClient[i].type = "close" =>
            /\ pump = "gone" /\ (Started => bs.held)
            /\ \A j \in 1..Len(toClient) : toClient[j].type = "close" => i = j
    BY <1>1 DEF UpEnd, CloseIsTheBodys
<1>3. toClient \in Seq(UpFrame)
    BY TypeFacts
<1>4. pump = "gone" => pump' = "gone" /\ NumUp > 0
    BY Progress DEF Shape, ServerShape
<1>5. Started' => /\ Started \/ (RequestStarts /\ bs'.held = (NumUp > 0))
                  /\ Started /\ bs.held => bs'.held \/ ClientTakesClose
    BY StaysHeld
\* A close that was there, and is not the one taken, still has its bodyStream.
<1>6. ASSUME NEW i \in 1..Len(toClient), toClient[i].type = "close", ~ClientTakesClose
      PROVE  pump' = "gone" /\ (Started' => bs'.held)
    BY <1>2, <1>4, <1>5, <1>6
<1>7. CASE ClientTakesClose
    <2>1. /\ toClient # <<>> /\ toClient' = Tail(toClient) /\ Head(toClient).type = "close"
        BY <1>7 DEF ClientTakesClose, ClientReceives
    <2>2. 1 \in 1..Len(toClient) /\ toClient[1].type = "close"
        BY <1>3, <2>1, TailShifts
    <2>3. \A i \in 1..Len(toClient') : /\ i + 1 \in 2..Len(toClient)
                                       /\ toClient'[i] = toClient[i + 1]
        BY <1>3, <2>1, TailShifts
    <2>4. \A i \in 2..Len(toClient) : toClient[i].type # "close"
        BY <1>2, <1>3, <2>2
    <2>5. QED
        BY <2>3, <2>4
<1>8. CASE toClient' = toClient /\ ~ClientTakesClose
    BY <1>2, <1>6, <1>8
<1>9. CASE toClient # <<>> /\ toClient' = Tail(toClient) /\ ~ClientTakesClose
    <2>1. \A i \in 1..Len(toClient') : /\ i + 1 \in 1..Len(toClient)
                                       /\ toClient'[i] = toClient[i + 1]
        BY <1>3, <1>9, TailShifts
    <2>2. ASSUME NEW i \in 1..Len(toClient'), toClient'[i].type = "close"
          PROVE  /\ pump' = "gone" /\ (Started' => bs'.held)
                 /\ \A j \in 1..Len(toClient') : toClient'[j].type = "close" => i = j
        <3>1. i + 1 \in 1..Len(toClient) /\ toClient[i + 1].type = "close"
            BY <2>1, <2>2
        <3>2. ASSUME NEW j \in 1..Len(toClient'), toClient'[j].type = "close"
              PROVE  i = j
            <4>1. j + 1 \in 1..Len(toClient) /\ toClient[j + 1].type = "close"
                BY <2>1, <3>2
            <4>2. i + 1 = j + 1
                BY <1>2, <3>1, <4>1
            <4>3. QED
                BY <4>2
        <3>3. QED
            BY <1>6, <1>9, <3>1, <3>2
    <2>3. QED
        BY <2>2
<1>10. ASSUME NEW f \in UpFrame, f.type # "close", toClient' = Append(toClient, f),
              ~ClientTakesClose
       PROVE  (\A i \in 1..Len(toClient) :
                  toClient[i].type = "close" =>
                     /\ pump = "gone" /\ (Started => bs.held)
                     /\ \A j \in 1..Len(toClient) : toClient[j].type = "close" => i = j)'
    <2>1. \A i \in 1..Len(toClient') :
             toClient'[i].type = "close" => i \in 1..Len(toClient) /\ toClient[i].type = "close"
        BY <1>3, <1>10, SendKeeps
    <2>2. QED
        BY <1>2, <1>6, <1>10, <2>1
<1>11. CASE PumpEnds
    <2>1. pump = "run" /\ pump' = "gone" /\ toClient' = Append(toClient, Msg("close"))
          /\ UNCHANGED <<cl, bs>>
        BY <1>1, <1>11 DEF PumpEnds, ServerSends, clientVars
    <2>2. \A i \in 1..Len(toClient) : toClient[i].type # "close"
        BY <1>2, <2>1
    <2>3. Started' => bs'.held
        BY <1>1, <2>1 DEF UpEnd, Started, Shape, ServerShape
    <2>4. Msg("close") \in UpFrame
        BY FramesAreFrames
    <2>5. \A i \in 1..Len(toClient') : toClient'[i].type = "close" => i = Len(toClient) + 1
        BY <1>3, <2>1, <2>2, <2>4, SendKeeps
    <2>6. QED
        BY <2>1, <2>3, <2>5
<1>12. QED
    BY <1>1, <1>7, <1>8, <1>9, <1>10, <1>11

LEMMA UpEndStep ==
    ASSUME TypeInv, Shape, DownEnd, UpEnd, [Next]_vars
    PROVE  UpEnd'
<1>1. CloseIsTheBodys'
    BY CloseIsTheBodysStep
\* A close that is taken finds the bodyStream, after the pump has ended.
<1>2. ASSUME ClientTakesClose, ~cut, Started
      PROVE  pump = "gone" /\ bs.held
    <2>1. toClient # <<>> /\ Head(toClient).type = "close" /\ toClient \in Seq(UpFrame)
        BY <1>2, TypeFacts DEF ClientTakesClose, ClientReceives
    <2>2. 1 \in 1..Len(toClient) /\ toClient[1].type = "close"
        BY <2>1, TailShifts
    <2>3. ~ClientOver
        BY <1>2 DEF Started, ClientOver
    <2>4. QED
        BY <1>2, <2>2, <2>3 DEF UpEnd, CloseIsTheBodys
<1>3. ~cut' => ~cut
    BY Progress
<1>4. (~cut /\ pump # "gone" /\ Started /\ NumUp > 0 => bs.held)'
    <2>1. SUFFICES ASSUME ~cut', pump' # "gone", Started', NumUp > 0
                   PROVE  bs'.held
        OBVIOUS
    <2>2. ~ClientOver'
        BY <2>1 DEF Started, ClientOver
    <2>3. /\ Started \/ (RequestStarts /\ bs'.held = (NumUp > 0))
          /\ Started /\ bs.held => bs'.held \/ ClientTakesClose
        BY <2>1, <2>2, StaysHeld
    <2>4. pump # "gone"
        BY <2>1, Progress
    <2>5. CASE Started
        BY <1>2, <1>3, <2>1, <2>3, <2>4, <2>5 DEF UpEnd
    <2>6. QED
        BY <2>1, <2>3, <2>5
<1>5. (~cut => cancel # "closed")'
    <2>1. SUFFICES ASSUME ~cut', cancel' = "closed" PROVE FALSE
        OBVIOUS
    <2>2. cancel # "closed"
        BY <1>3, <2>1 DEF UpEnd
    <2>3. ClientTakesClose /\ ~bs.held /\ cancel = "armed"
        BY <2>1, <2>2 DEF Next, ServeStep, PumpStep, ServerReaderStep, ClientReaderStep,
                          RequestStep, Answers, LocalAnswers, Forward, AwaitEnds,
                          AwaitTimesOut, StreamWrites, StreamEnds, StreamIdles, Finish,
                          ViewerLeaves, PumpSends, PumpEnds, ServerReceives,
                          ServerTakesResponse, ServerTakesData, ServerEnqueues,
                          ServerDrops, ServerGivesUp, ServerTakesClose, LinkLost,
                          ClientReceives, ClientTakesRequest, ClientTakesData,
                          ClientEnqueues, ClientAborts, ClientTakesClose, RequestRefused,
                          RequestStarts, LocalReads, StreamRefused, StreamArms,
                          StreamResponds, StreamSends, StreamFails, StreamCloses,
                          RequestEnds, vars, serverVars, clientVars
    <2>4. Started
        BY <2>3 DEF Shape, ClientShape, Started
    <2>5. QED
        BY <1>2, <1>3, <2>1, <2>3, <2>4
<1>6. QED
    BY <1>1, <1>4, <1>5 DEF UpEnd

-----------------------------------------------------------------------------
(***************************************************************************)
(* The end of the response.                                                *)
(***************************************************************************)
LEMMA AnswerStaysLast ==
    ASSUME TypeInv, Shape, DownEnd, UpEnd, [Next]_vars
    PROVE  AnswersLast'
<1>1. toServer \in Seq(DownFrame)
    BY TypeFacts
<1>2. \A i \in 1..Len(toServer) :
         toServer[i].type = "close" =>
            i = Len(toServer) /\ ClientOver /\ (cut \/ down = NumDown)
    BY DEF DownEnd, AnswersLast
<1>3. /\ ClientOver => ClientOver' /\ down' = down
      /\ cut => cut'
    BY Progress
<1>4. CASE toServer' = toServer
    BY <1>2, <1>3, <1>4 DEF AnswersLast
<1>5. CASE toServer # <<>> /\ toServer' = Tail(toServer)
    <2>1. \A i \in 1..Len(toServer') : toServer'[i].type = "close" => i = Len(toServer')
        BY <1>1, <1>2, <1>5, LastStaysLast
    <2>2. \A i \in 1..Len(toServer') : i + 1 \in 1..Len(toServer)
                                      /\ toServer'[i] = toServer[i + 1]
        BY <1>1, <1>5, TailShifts
    <2>3. \A i \in 1..Len(toServer') :
             toServer'[i].type = "close" => ClientOver' /\ (cut' \/ down' = NumDown)
        BY <1>2, <1>3, <2>2
    <2>4. QED
        BY <2>1, <2>3 DEF AnswersLast
<1>6. CASE toServer' = <<>>
    BY <1>6 DEF AnswersLast
<1>7. ASSUME NEW f \in DownFrame, ~ClientOver, toServer' = Append(toServer, f),
             f.type = "close" => ClientOver' /\ (cut' \/ down' = NumDown)
      PROVE  AnswersLast'
    <2>1. \A i \in 1..Len(toServer) : toServer'[i].type # "close"
        BY <1>1, <1>2, <1>7, SendKeeps
    <2>2. QED
        BY <1>1, <1>7, <2>1, SendKeeps DEF AnswersLast
<1>8. /\ \A t \in {"inline", "streamed", "close"} : Msg(t) \in DownFrame /\ Msg(t).type = t
      /\ down < NumDown => Data(down + 1) \in DownFrame /\ Data(down + 1).type # "close"
    <2>1. down < NumDown => down + 1 \in 1..NumDown
        BY TypeFacts
    <2>2. QED
        BY <2>1, FramesAreFrames
<1>9. (cancel = "closed" => cut) /\ (~link => cut)
    BY DEF UpEnd, Shape, ServerShape
<1> USE DEF Next, ServeStep, PumpStep, ServerReaderStep, ClientReaderStep, RequestStep,
            Answers, LocalAnswers, Forward, AwaitEnds, AwaitTimesOut, StreamWrites,
            StreamEnds, StreamIdles, Finish, ViewerLeaves, PumpSends, PumpEnds,
            ServerReceives, ServerTakesResponse, ServerTakesData, ServerEnqueues,
            ServerDrops, ServerGivesUp, ServerTakesClose, LinkLost, ClientReceives,
            ClientTakesRequest, ClientTakesData, ClientEnqueues, ClientAborts,
            ClientTakesClose, RequestRefused, RequestStarts, LocalReads, StreamRefused,
            StreamArms, StreamResponds, StreamSends, StreamFails, StreamCloses,
            RequestEnds, vars, serverVars, clientVars
<1>10. \/ toServer' = toServer
       \/ toServer' = <<>>
       \/ toServer # <<>> /\ toServer' = Tail(toServer)
       \/ RequestRefused \/ Answers \/ StreamRefused \/ StreamResponds
       \/ StreamSends \/ StreamFails \/ StreamCloses
    OBVIOUS
<1>11. CASE \/ RequestRefused \/ Answers \/ StreamRefused \/ StreamResponds
            \/ StreamSends \/ StreamFails
    <2>1. \/ toServer' = toServer
          \/ \E f \in DownFrame :
                /\ ~ClientOver /\ toServer' = Append(toServer, f)
                /\ f.type = "close" => ClientOver' /\ cut'
        BY <1>8, <1>11 DEF ClientSends, ClientOver
    <2>2. QED
        BY <1>4, <1>7, <2>1
<1>12. CASE StreamCloses
    <2>1. \/ toServer' = toServer
          \/ \E f \in DownFrame :
                /\ ~ClientOver /\ toServer' = Append(toServer, f)
                /\ ClientOver' /\ (cut' \/ down' = NumDown)
        BY <1>3, <1>8, <1>9, <1>12 DEF ClientSends, ClientOver
    <2>2. QED
        BY <1>4, <1>7, <2>1
<1>13. QED
    BY <1>4, <1>5, <1>6, <1>10, <1>11, <1>12

\* The client's close, taken by the server: the whole body has come before it.
LEMMA AllHaveCome ==
    ASSUME TypeInv, Shape, DownFlow, AnswersLast, ~cut, ServerTakesClose, pr.pending
    PROVE  /\ ClientOver /\ down = NumDown /\ sTaken = 0
           /\ ServeOver \/ Len(page) + Len(pr.data) = NumDown
<1>1. /\ toServer # <<>> /\ Head(toServer).type = "close" /\ toServer \in Seq(DownFrame)
      /\ sTaken = 0
    BY TypeFacts DEF ServerTakesClose, ServerReceives
<1>2. 1 \in 1..Len(toServer) /\ toServer[1].type = "close"
    BY <1>1, TailShifts
<1>3. Len(toServer) = 1 /\ ClientOver /\ down = NumDown
    BY <1>2 DEF AnswersLast
<1>4. ASSUME ~ServeOver PROVE Len(page) + Len(pr.data) = NumDown
    <2>1. \A i \in 1..Len(toServer) : ~IsData(toServer[i])
        BY <1>2, <1>3 DEF IsData
    <2>2. Carries(toServer, Received, down) /\ Received <= down
        BY <1>4 DEF DownFlow, Streaming
    <2>3. Len(page) \in Nat /\ Len(pr.data) \in Nat /\ down \in Nat
        BY TypeFacts, QueueTypes
    <2>4. Received = Len(page) + Len(pr.data) /\ Received \in Nat
        BY <1>1, <2>3 DEF Received
    <2>5. Received = down
        BY <1>1, <2>1, <2>2, <2>3, <2>4, NothingCarried
    <2>6. QED
        BY <1>3, <2>4, <2>5
<1>5. QED
    BY <1>1, <1>3, <1>4

LEMMA DownEndStep ==
    ASSUME TypeInv, Shape, DownFlow, DownEnd, UpEnd, [Next]_vars
    PROVE  DownEnd'
<1>1. AnswersLast' /\ AnswersLast
    BY AnswerStaysLast DEF DownEnd
<1> SUFFICES ASSUME ~cut'
             PROVE  (/\ pr.closed => /\ ClientOver /\ down = NumDown /\ sTaken = 0
                                     /\ ServeOver \/ Len(page) + Len(pr.data) = NumDown
                     /\ ServeOver /\ pr.response = "streamed" => Len(page) = NumDown)'
    BY <1>1 DEF DownEnd
<1>2. ~cut /\ (ServeOver => ServeOver') /\ (ClientOver => ClientOver' /\ down' = down)
    BY Progress
<1>3. /\ pr.closed => /\ ClientOver /\ down = NumDown /\ sTaken = 0
                      /\ ServeOver \/ Len(page) + Len(pr.data) = NumDown
      /\ ServeOver /\ pr.response = "streamed" => Len(page) = NumDown
    BY <1>2 DEF DownEnd
<1>4. /\ pr.closed \in BOOLEAN /\ pr.pending \in BOOLEAN /\ pr \in PendingReq
      /\ page \in Seq(1..NumDown) /\ pr.data \in Seq(1..NumDown)
      /\ Len(page) \in Nat /\ Len(pr.data) \in Nat
    BY TypeFacts, QueueTypes
<1>5. link /\ viewer = "here" /\ ~ServerGivesUp /\ ~LinkLost
    BY <1>2 DEF Shape, ServerShape, TypeInv, TypeOK, ServerGivesUp, LinkLost
<1>6. ASSUME pr'.closed
      PROVE  (/\ ClientOver /\ down = NumDown /\ sTaken = 0
              /\ ServeOver \/ Len(page) + Len(pr.data) = NumDown)'
    <2>1. CASE pr.closed
        <3>1. ClientOver' /\ down' = NumDown
            BY <1>2, <1>3, <2>1
        <3>2. sTaken = 0 /\ ~pr.pending
            BY <1>3, <2>1 DEF Shape, ServerShape
        <3>3. sTaken' = 0
            BY <3>2 DEF Next, ServeStep, PumpStep, ServerReaderStep, ClientReaderStep,
                        RequestStep, Answers, LocalAnswers, Forward, AwaitEnds,
                        AwaitTimesOut, StreamWrites, StreamEnds, StreamIdles, Finish,
                        ViewerLeaves, PumpSends, PumpEnds, ServerReceives,
                        ServerTakesResponse, ServerTakesData, ServerEnqueues, ServerDrops,
                        ServerGivesUp, ServerTakesClose, LinkLost, ClientReceives,
                        ClientTakesRequest, ClientTakesData, ClientEnqueues, ClientAborts,
                        ClientTakesClose, RequestRefused, RequestStarts, LocalReads,
                        StreamRefused, StreamArms, StreamResponds, StreamSends,
                        StreamFails, StreamCloses, RequestEnds, vars, serverVars,
                        clientVars
        <3>4. ASSUME ~ServeOver'
              PROVE  Len(page') + Len(pr'.data) = NumDown
            <4>1. ~ServeOver /\ Len(page) + Len(pr.data) = NumDown
                BY <1>2, <1>3, <2>1, <3>4
            <4>2. CASE StreamWrites
                <5>1. pr.data # <<>> /\ page' = Append(page, Head(pr.data))
                    BY <1>5, <4>2 DEF StreamWrites
                <5>2. pr'.data = Tail(pr.data)
                    BY <1>4, <4>2, RequestMoves
                <5>3. /\ Len(page') = Len(page) + 1 /\ Len(pr'.data) = Len(pr.data) - 1
                    BY <1>4, <5>1, <5>2, QueueTypes
                <5>4. \A x, y \in Nat : (x + 1) + (y - 1) = x + y
                    OBVIOUS
                <5>5. (Len(page) + 1) + (Len(pr.data) - 1) = Len(page) + Len(pr.data)
                    BY <1>4, <5>4
                <5>6. QED
                    BY <4>1, <5>3, <5>5
            <4>3. CASE ~StreamWrites
                <5>1. page' = page
                    BY <4>3 DEF Next, ServeStep, PumpStep, ServerReaderStep,
        ClientReaderStep, RequestStep, Answers, LocalAnswers, Forward, AwaitEnds,
        AwaitTimesOut, StreamWrites, StreamEnds, StreamIdles, Finish, ViewerLeaves,
        PumpSends, PumpEnds, ServerReceives, ServerTakesResponse, ServerTakesData,
        ServerEnqueues, ServerDrops, ServerGivesUp, ServerTakesClose, LinkLost,
        ClientReceives, ClientTakesRequest, ClientTakesData, ClientEnqueues, ClientAborts,
        ClientTakesClose, RequestRefused, RequestStarts, LocalReads, StreamRefused,
        StreamArms, StreamResponds, StreamSends, StreamFails, StreamCloses, RequestEnds,
        vars, serverVars, clientVars
                <5>2. ~ServerEnqueues
                    BY <3>2 DEF ServerEnqueues
                <5>3. pr' = pr => pr'.data = pr.data
                    OBVIOUS
                <5>4. pr'.data = pr.data
                    BY <1>4, <4>3, <5>2, <5>3, RequestMoves DEF SetsFlag, Flags
                <5>5. QED
                    BY <4>1, <5>1, <5>4
            <4>4. QED
                BY <4>2, <4>3
        <3>5. QED
            BY <3>1, <3>3, <3>4
    <2>2. CASE ~pr.closed
        <3>1. pr' = pr => pr'.closed = pr.closed
            OBVIOUS
        <3>2. ServerTakesClose /\ pr.pending
            BY <1>4, <1>5, <1>6, <2>2, <3>1, RequestMoves DEF SetsFlag, Flags, SameFlags
        <3>3. pr'.data = pr.data
            BY <1>4, <3>2, RequestMoves DEF Flags
        <3>4. UNCHANGED <<page, srv, sTaken, cl, down>>
            BY <3>2 DEF ServerTakesClose, clientVars
        <3>5. /\ ClientOver /\ down = NumDown /\ sTaken = 0
              /\ ServeOver \/ Len(page) + Len(pr.data) = NumDown
            BY <1>1, <1>2, <3>2, AllHaveCome
        <3>6. QED
            BY <3>3, <3>4, <3>5 DEF ClientOver, ServeOver
    <2>3. QED
        BY <1>4, <2>1, <2>2
<1>7. ASSUME ServeOver', pr'.response = "streamed"
      PROVE  Len(page') = NumDown
    <2>1. CASE ServeOver
        <3>1. pr.response # "none"
            BY <1>2, <2>1 DEF Shape, ServerShape
        <3>2. ~ServerTakesResponse
            BY <3>1, TakenOnce
        <3>3. pr' = pr => pr'.response = pr.response
            OBVIOUS
        <3>4. pr'.response = pr.response
            BY <1>4, <3>2, <3>3, RequestMoves DEF SetsFlag, Flags, SameFlags
        <3>5. page' = page
            BY <2>1 DEF ServeOver, Next, ServeStep, PumpStep, ServerReaderStep,
        ClientReaderStep, RequestStep, Answers, LocalAnswers, Forward, AwaitEnds,
        AwaitTimesOut, StreamWrites, StreamEnds, StreamIdles, Finish, ViewerLeaves,
        PumpSends, PumpEnds, ServerReceives, ServerTakesResponse, ServerTakesData,
        ServerEnqueues, ServerDrops, ServerGivesUp, ServerTakesClose, LinkLost,
        ClientReceives, ClientTakesRequest, ClientTakesData, ClientEnqueues, ClientAborts,
        ClientTakesClose, RequestRefused, RequestStarts, LocalReads, StreamRefused,
        StreamArms, StreamResponds, StreamSends, StreamFails, StreamCloses, RequestEnds,
        vars, serverVars, clientVars
        <3>6. QED
            BY <1>3, <1>7, <2>1, <3>4, <3>5
    <2>2. CASE ~ServeOver
        <3>1. AwaitEnds \/ StreamEnds
            BY <1>5, <1>7, <2>2 DEF ServeOver, Next, ServeStep, PumpStep, ServerReaderStep,
        ClientReaderStep, RequestStep, Answers, LocalAnswers, Forward, AwaitEnds,
        AwaitTimesOut, StreamWrites, StreamEnds, StreamIdles, Finish, ViewerLeaves,
        PumpSends, PumpEnds, ServerReceives, ServerTakesResponse, ServerTakesData,
        ServerEnqueues, ServerDrops, ServerGivesUp, ServerTakesClose, LinkLost,
        ClientReceives, ClientTakesRequest, ClientTakesData, ClientEnqueues, ClientAborts,
        ClientTakesClose, RequestRefused, RequestStarts, LocalReads, StreamRefused,
        StreamArms, StreamResponds, StreamSends, StreamFails, StreamCloses, RequestEnds,
        vars, serverVars, clientVars
        <3>2. page' = page /\ pr' = pr
            BY <3>1 DEF AwaitEnds, StreamEnds
        <3>3. ~AwaitEnds
            BY <1>7, <3>2 DEF AwaitEnds, ServeOver
        <3>4. pr.closed /\ pr.data = <<>>
            BY <3>1, <3>3 DEF StreamEnds
        <3>5. Len(page) + 0 = NumDown
            BY <1>3, <2>2, <3>4
        <3>6. QED
            BY <1>4, <3>2, <3>5
    <2>3. QED
        BY <2>1, <2>2
<1>8. QED
    BY <1>6, <1>7

-----------------------------------------------------------------------------
LEMMA ExchangeInvInit == Init => ExchangeInv
<1> SUFFICES ASSUME Init PROVE ExchangeInv
    OBVIOUS
<1>1. TypeInv
    BY TypeInit
<1> USE DEF Init
<1>2. /\ toClient = <<>> /\ toServer = <<>> /\ page = <<>> /\ body = <<>>
      /\ pr.data = <<>> /\ bs.data = <<>> /\ sTaken = 0 /\ cTaken = 0 /\ sent = 0 /\ down = 0
      /\ Len(<<>>) = 0 /\ Carries(<<>>, 0, 0)
    BY EmptyCarries
<1>3. RequestFirst /\ ResponseFirst
    BY <1>2 DEF RequestFirst, ResponseFirst
<1>4. ServerShape /\ ClientShape
    BY <1>2 DEF ServerShape, ClientShape, ServeOver
<1>5. Received = 0 /\ Kept = 0
    BY <1>2 DEF Received, Kept
<1>6. DownFlow
    BY <1>2, <1>5 DEF DownFlow, Streaming, InOrder
<1>7. KeptFrom(0)
    BY <1>2 DEF KeptFrom
<1>8. UpFlowFrom(0)
    BY <1>2, <1>5, <1>7 DEF UpFlowFrom
<1>9. UpFlow
    BY <1>2, <1>8 DEF UpFlow
<1>10. DownEnd
    BY <1>2 DEF DownEnd, AnswersLast, ServeOver
<1>11. UpEnd
    BY <1>2 DEF UpEnd, CloseIsTheBodys, Started
<1>12. QED
    BY <1>1, <1>3, <1>4, <1>6, <1>9, <1>10, <1>11 DEF ExchangeInv, Shape

LEMMA ExchangeInvHolds == Spec => []ExchangeInv
<1>1. Init => ExchangeInv
    BY ExchangeInvInit
<1>2. ExchangeInv /\ [Next]_vars => ExchangeInv'
    BY TypeStep, ShapeStep, DownFlowStep, UpFlowStep, DownEndStep, UpEndStep DEF ExchangeInv
<1>3. QED
    BY <1>1, <1>2, PTL DEF Spec

(***************************************************************************)
(* Whatever interleaving of ServeHTTP, the body pump, the two readers and  *)
(* handleHTTPReq, for bodies of any length and channels of any size: the   *)
(* user is given a prefix of the response body, and the local application  *)
(* consecutive chunks of the request body, also when a reader gives up on  *)
(* the chunk it holds.                                                     *)
(***************************************************************************)
THEOREM BodiesArriveWithoutGap == Spec => []BodiesHaveNoGap
<1>1. ExchangeInv => BodiesHaveNoGap
    <2>1. SUFFICES ASSUME ExchangeInv PROVE BodiesHaveNoGap
        OBVIOUS
    <2>2. DownloadIsPrefix
        BY <2>1 DEF ExchangeInv, DownFlow, DownloadIsPrefix
    <2>3. PICK b \in 0..sent : UpFlowFrom(b)
        BY <2>1 DEF ExchangeInv, UpFlow
    <2>4. \A i \in 1..Len(body) : body[i] = b + i
        BY <2>3 DEF UpFlowFrom, KeptFrom
    <2>5. b \in Nat /\ Len(body) \in Nat
        BY <2>1, TypeFacts, QueueTypes DEF ExchangeInv
    <2>6. ASSUME NEW i \in 2..Len(body)
          PROVE  body[i] = body[i - 1] + 1
        <3>1. i \in 1..Len(body) /\ i - 1 \in 1..Len(body) /\ i \in Nat
            BY <2>5
        <3>2. body[i] = b + i /\ body[i - 1] = b + (i - 1)
            BY <2>4, <3>1
        <3>3. b + i = (b + (i - 1)) + 1
            BY <2>5, <3>1
        <3>4. QED
            BY <3>2, <3>3
    <2>7. UploadHasNoGap
        BY <2>6 DEF UploadHasNoGap
    <2>8. QED
        BY <2>2, <2>7 DEF BodiesHaveNoGap
<1>2. QED
    BY <1>1, ExchangeInvHolds, PTL

(***************************************************************************)
(* A streamed response that ends with no deadline expired and nothing      *)
(* failed is complete: the close that ends the request body is never taken *)
(* for a cancellation of the response, and the client's own close is       *)
(* behind the whole body and is acted on when the channel is empty.        *)
(***************************************************************************)
THEOREM DownloadIsComplete == Spec => []DownloadComplete
<1>1. ExchangeInv => DownloadComplete
    BY DEF ExchangeInv, DownEnd, DownloadComplete, ServeOver
<1>2. QED
    BY <1>1, ExchangeInvHolds, PTL
=============================================================================
