--------------------------- MODULE TcpRelayProofs ---------------------------
(***************************************************************************)
(* The raw TCP and TLS passthrough relay gives each peer a prefix of what  *)
(* the other one sent, and all of it when it ends in order: for every      *)
(* number of chunks and every buffer size.                                 *)
(***************************************************************************)
EXTENDS TcpRelay, StreamFramesProofs

-----------------------------------------------------------------------------
(***************************************************************************)
(* The inductive invariant.  First the client's goroutine: what it has     *)
(* done to its relay and its connection, by where it is.  A relay that is  *)
(* done is so for good, and a connection that was opened is not opened     *)
(* again.                                                                  *)
(***************************************************************************)
OpenShape ==
    /\ open \in {"none", "dial"} => conn = "none" /\ ~relay.held /\ ~relay.done
    /\ open = "register" => conn = "open" /\ ~relay.held /\ ~relay.done
    /\ open \in {"ack", "run", "leave"} =>
          \/ conn = "open" /\ relay.held /\ ~relay.done
          \/ conn = "closed" /\ relay.done
    /\ open = "last" => conn # "none" /\ ~relay.held /\ relay.done
    /\ open = "gone" =>
          \/ conn = "none" /\ ~relay.held /\ ~relay.done
          \/ conn = "closed" /\ ~relay.held /\ relay.done

\* handleTCPOpen has sent its ready, or a close.
Answered == open \in {"run", "leave", "last", "gone"}

(***************************************************************************)
(* The handshake: one open, before anything else; nothing comes from the   *)
(* client before it has answered, and no chunk goes to it before the       *)
(* server has the answer.                                                  *)
(***************************************************************************)
Handshake ==
    /\ pump = "open" => toClient = <<>> /\ open = "none"
    /\ \A i \in 1..Len(toClient) : toClient[i].type = "open" => i = 1 /\ open = "none"
    /\ toServer # <<>> \/ taken # 0 \/ pr.ready => Answered
    /\ up > 0 \/ pump \in {"run", "close"} => pr.ready
    /\ pump \in {"open", "wait"} => up = 0 /\ drain = "none"
    /\ pr.pending => sLink /\ ~pr.done /\ ~pr.closed
    /\ pr.done => pump \in {"last", "gone"} \/ ~sLink

\* A chunk that arrives now would be written to the local application.
Delivering ==
    /\ cLink = "up" /\ local = "open" /\ conn # "closed" /\ ~relay.done
    /\ open \notin {"last", "gone"}

\* The chunks behind the written ones are under way, up to the last one sent.
UpFlow ==
    /\ InOrder(localGot) /\ Len(localGot) <= up
    /\ Delivering =>
          \E hi \in Len(localGot)..up :
             /\ sLink => hi = up
             /\ Carries(toClient, Len(localGot), hi)

\* The number of chunks that have left the WebSocket on the server.
Received == Len(pubGot) + Len(pr.data) + (IF taken = 0 THEN 0 ELSE 1)

\* The channel holds the chunks behind the written ones, then comes `taken'.
Streaming ==
    /\ \A i \in 1..Len(pr.data) : pr.data[i] = Len(pubGot) + i
    /\ taken # 0 => taken = Len(pubGot) + Len(pr.data) + 1
    /\ Received <= down

\* The chunks behind those are under way.
Coming ==
    \E hi \in Received..down :
       /\ cLink = "up" => hi = down
       /\ Carries(toServer, Received, hi)

DownFlow ==
    /\ InOrder(pubGot) /\ Len(pubGot) <= down
    /\ drain # "gone" => Streaming /\ (pr.pending => Coming)

\* An orderly run so far: the links are up and no deadline expired.
Orderly == LinksUp /\ cut = "none"

\* The pump has sent its last frame.
PumpOver == pump \in {"leave", "last", "gone"}

\* The close is the last frame to the client.
ClosesLast ==
    \A i \in 1..Len(toClient) : toClient[i].type = "close" => i = Len(toClient) /\ PumpOver

(***************************************************************************)
(* An orderly end.  Upwards: the pump's close is the last frame, and the   *)
(* local connection is closed behind it.                                   *)
(***************************************************************************)
UpEnd ==
    Orderly =>
        /\ ClosesLast
        /\ open \in {"leave", "last"} => local = "gone" \/ conn = "closed"
        /\ conn = "closed" /\ local = "open" => Len(localGot) = up /\ PumpOver

(***************************************************************************)
(* Downwards: the client's close is the last frame, the channel is closed  *)
(* behind it, and the public connection when the channel is empty.         *)
(***************************************************************************)
AnswersLast ==
    \A i \in 1..Len(toServer) :
       toServer[i].type = "close" => i = Len(toServer) /\ open = "gone"

DownEnd ==
    /\ AnswersLast
    /\ Orderly /\ pr.closed /\ pub = "open" =>
          /\ open = "gone" /\ taken = 0
          /\ IF drain = "gone" THEN pubConn = "closed"
             ELSE Len(pubGot) + Len(pr.data) = down
    /\ Orderly /\ pub = "open" =>
          /\ drain = "gone" \/ pump = "close" \/ PumpOver => pubConn = "closed"
          /\ pubConn = "closed" => Len(pubGot) = down /\ open = "gone"

RelayInv == OpenShape /\ Handshake /\ UpFlow /\ DownFlow /\ UpEnd /\ DownEnd

-----------------------------------------------------------------------------
LEMMA TypeInit == Init => TypeOK
<1>1. <<>> \in Seq(Nat) /\ <<>> \in Seq(Frame) /\ Len(<<>>) = 0
    OBVIOUS
<1>2. QED
    BY <1>1, RelayAssumption DEF Init, TypeOK, PendingReq, StreamRelay

LEMMA FramesAreFrames ==
    /\ \A t \in {"open", "ready", "close"} : Msg(t) \in Frame /\ ~IsData(Msg(t)) /\ Msg(t).type = t
    /\ \A n \in Nat : Data(n) \in Frame /\ IsData(Data(n)) /\ Data(n).type = "data"
BY DEF Msg, Data, IsData, Frame

(***************************************************************************)
(* The values the variables with records can take in a step.               *)
(***************************************************************************)
LEMMA RelayTypes ==
    ASSUME NEW r \in StreamRelay
    PROVE  /\ [r EXCEPT !.held = TRUE] \in StreamRelay
           /\ [r EXCEPT !.done = TRUE] \in StreamRelay
           /\ [held |-> FALSE, done |-> TRUE] \in StreamRelay
BY DEF StreamRelay

LEMMA RequestTypes ==
    ASSUME NEW r \in PendingReq, Len(r.data) <= RelayBuf
    PROVE  /\ \A b \in BOOLEAN : LET s == [r EXCEPT !.ready = b]
                                 IN  s \in PendingReq /\ Len(s.data) <= RelayBuf
           /\ LET s == [r EXCEPT !.pending = FALSE, !.done = TRUE]
              IN  s \in PendingReq /\ Len(s.data) <= RelayBuf
           /\ LET s == [r EXCEPT !.pending = FALSE, !.closed = TRUE]
              IN  s \in PendingReq /\ Len(s.data) <= RelayBuf
           /\ LET s == [r EXCEPT !.pending = FALSE, !.ready = TRUE, !.closed = TRUE]
              IN  s \in PendingReq /\ Len(s.data) <= RelayBuf
           /\ LET s == [r EXCEPT !.pending = FALSE, !.closed = TRUE, !.done = TRUE]
              IN  s \in PendingReq /\ Len(s.data) <= RelayBuf
BY DEF PendingReq

LEMMA ChannelTypes ==
    ASSUME NEW r \in PendingReq, Len(r.data) <= RelayBuf
    PROVE  /\ r.data # <<>> =>
                LET s == [r EXCEPT !.data = Tail(@)]
                IN  s \in PendingReq /\ Len(s.data) <= RelayBuf
           /\ \A n \in Nat : Len(r.data) < RelayBuf =>
                LET s == [r EXCEPT !.data = Append(@, n)]
                IN  s \in PendingReq /\ Len(s.data) <= RelayBuf
<1>1. r.data \in Seq(Nat) /\ RelayBuf \in Nat
    BY RelayAssumption DEF PendingReq
<1>2. ASSUME NEW q \in Seq(Nat), Len(q) <= RelayBuf
      PROVE  LET s == [r EXCEPT !.data = q] IN s \in PendingReq /\ Len(s.data) <= RelayBuf
    BY <1>2 DEF PendingReq
<1>3. r.data # <<>> => Tail(r.data) \in Seq(Nat) /\ Len(Tail(r.data)) <= RelayBuf
    BY <1>1
<1>4. \A n \in Nat : Len(r.data) < RelayBuf =>
        Append(r.data, n) \in Seq(Nat) /\ Len(Append(r.data, n)) <= RelayBuf
    BY <1>1
<1>5. QED
    BY <1>2, <1>3, <1>4

(***************************************************************************)
(* A frame is sent, one is taken, or all are lost.                         *)
(***************************************************************************)
LEMMA FramesMove ==
    ASSUME TypeOK, [Next]_vars
    PROVE  toClient' \in Seq(Frame) /\ toServer' \in Seq(Frame)
<1>1. toClient \in Seq(Frame) /\ toServer \in Seq(Frame) /\ <<>> \in Seq(Frame)
    BY DEF TypeOK
<1>2. /\ toClient # <<>> => Tail(toClient) \in Seq(Frame)
      /\ toServer # <<>> => Tail(toServer) \in Seq(Frame)
    BY <1>1
<1>3. /\ Msg("open") \in Frame /\ Msg("close") \in Frame /\ Msg("ready") \in Frame
      /\ Data(1) \in Frame /\ Data(up + 1) \in Frame /\ Data(down + 1) \in Frame
    <2>1. 1 \in Nat /\ up + 1 \in Nat /\ down + 1 \in Nat
        BY RelayAssumption DEF TypeOK
    <2>2. QED
        BY <2>1, FramesAreFrames
<1>4. ASSUME NEW f \in Frame
      PROVE  /\ ServerSends(f) => toClient' \in Seq(Frame)
             /\ ClientSends(f) => toServer' \in Seq(Frame)
    <2>1. Append(toClient, f) \in Seq(Frame) /\ Append(toServer, f) \in Seq(Frame)
        BY <1>1
    <2>2. QED
        BY <1>1, <2>1 DEF ServerSends, ClientSends
<1> USE DEF Next, PumpStep, DrainStep, ServerReaderStep, ClientReaderStep, OpenStep, vars,
           publicVars, serverVars, clientVars, PumpOpens, PumpReady, PumpGivesUp, PumpReads,
           PumpReadFails, PumpIdles, PumpCloses, PumpLeaves, PumpEnds, DrainWrites,
           DrainWriteFails, DrainEnds, ServerTakesReady, ServerTakesData, ServerTakesClose,
           ReaderEnqueues, ReaderDrops, ReaderTimesOut, ServerDisconnects, ServerReceives,
           ClientReceives, ClientTakesOpen, ClientTakesData, ClientWriteFails,
           ClientTakesClose, ClientDisconnects, ClientCloses, OpenRefused, OpenDials,
           OpenRegisters, OpenAcks, OpenReads, OpenReadFails, OpenIdles, OpenLeaves,
           OpenEnds, PublicLeaves, LocalLeaves
<1>5. toClient' \in Seq(Frame)
    BY <1>1, <1>2, <1>3, <1>4
<1>6. toServer' \in Seq(Frame)
    BY <1>1, <1>2, <1>3, <1>4
<1>7. QED
    BY <1>5, <1>6

LEMMA TypeStep ==
    ASSUME TypeOK, [Next]_vars
    PROVE  TypeOK'
<1>1. toClient' \in Seq(Frame) /\ toServer' \in Seq(Frame)
    BY FramesMove
<1>2. /\ relay \in StreamRelay
      /\ [relay EXCEPT !.held = TRUE] \in StreamRelay
      /\ [relay EXCEPT !.done = TRUE] \in StreamRelay
      /\ [held |-> FALSE, done |-> TRUE] \in StreamRelay
    BY RelayTypes DEF TypeOK
<1>3. /\ pr \in PendingReq /\ Len(pr.data) <= RelayBuf /\ taken \in Nat
      /\ pr.ready \in BOOLEAN /\ pr.pending \in BOOLEAN /\ pr.data \in Seq(Nat)
    BY DEF TypeOK, PendingReq
<1>4. /\ toClient # <<>> => Head(toClient).chunk \in Nat
      /\ toServer # <<>> => Head(toServer).chunk \in Nat
    <2>1. /\ toClient # <<>> => Head(toClient) \in Frame
          /\ toServer # <<>> => Head(toServer) \in Frame
        BY DEF TypeOK
    <2>2. QED
        BY <2>1 DEF Frame
<1>5. /\ pr.data # <<>> => Append(pubGot, Head(pr.data)) \in Seq(Nat)
      /\ toClient # <<>> => Append(localGot, Head(toClient).chunk) \in Seq(Nat)
      /\ pubGot \in Seq(Nat) /\ localGot \in Seq(Nat)
    BY <1>3, <1>4 DEF TypeOK
<1>6. (pr.ready \/ pr.pending) \in BOOLEAN
    OBVIOUS
<1> USE DEF Next, PumpStep, DrainStep, ServerReaderStep, ClientReaderStep, OpenStep, vars,
           publicVars, serverVars, clientVars, PumpOpens, PumpReady, PumpGivesUp, PumpReads,
           PumpReadFails, PumpIdles, PumpCloses, PumpLeaves, PumpEnds, DrainWrites,
           DrainWriteFails, DrainEnds, ServerTakesReady, ServerTakesData, ServerTakesClose,
           ReaderEnqueues, ReaderDrops, ReaderTimesOut, ServerDisconnects, ServerReceives,
           ClientReceives, ClientTakesOpen, ClientTakesData, ClientWriteFails,
           ClientTakesClose, ClientDisconnects, ClientCloses, OpenRefused, OpenDials,
           OpenRegisters, OpenAcks, OpenReads, OpenReadFails, OpenIdles, OpenLeaves,
           OpenEnds, PublicLeaves, LocalLeaves
<1>7. relay' \in StreamRelay
    BY <1>2
<1>8. pr' \in PendingReq /\ Len(pr'.data) <= RelayBuf
    <2>1. CASE UNCHANGED pr
        BY <1>3, <2>1
    <2>2. CASE PumpLeaves \/ ServerTakesReady \/ ServerTakesClose
               \/ ServerDisconnects \/ ReaderTimesOut
        BY <1>3, <1>6, <2>2, RequestTypes
    <2>3. CASE DrainWrites \/ DrainWriteFails \/ ReaderEnqueues
        BY <1>3, <2>3, ChannelTypes
    <2>4. QED
        BY <2>1, <2>2, <2>3
<1>9. taken' \in Nat /\ pubGot' \in Seq(Nat) /\ localGot' \in Seq(Nat)
    <2>1. taken' \in Nat
        BY <1>3, <1>4
    <2>2. pubGot' \in Seq(Nat)
        BY <1>5
    <2>3. localGot' \in Seq(Nat)
        BY <1>5
    <2>4. QED
        BY <2>1, <2>2, <2>3
<1>10. up' \in 0..NumUp /\ down' \in 0..NumDown
    BY RelayAssumption DEF TypeOK
<1>11. (/\ pub \in {"open", "gone"} /\ pubConn \in {"open", "closed"}
       /\ pump \in {"open", "wait", "run", "close", "leave", "last", "gone"}
       /\ drain \in {"none", "run", "gone"} /\ sLink \in BOOLEAN
       /\ cut \in {"none", "ready", "other"})'
    BY DEF TypeOK, Expired
<1>12. (/\ cLink \in {"up", "down", "closed"}
       /\ open \in {"none", "dial", "register", "ack", "run", "leave", "last", "gone"}
       /\ local \in {"open", "gone"} /\ conn \in {"none", "open", "closed"})'
    BY DEF TypeOK
<1>13. QED
    BY <1>1, <1>7, <1>8, <1>9, <1>10, <1>11, <1>12 DEF TypeOK

(***************************************************************************)
(* Every variable keeps its type, and the channel never holds more than    *)
(* StreamRelayBuf chunks.                                                  *)
(***************************************************************************)
THEOREM TypeCorrect == Spec => []TypeOK
<1>1. Init => TypeOK
    BY TypeInit
<1>2. TypeOK /\ [Next]_vars => TypeOK'
    BY TypeStep
<1>3. QED
    BY <1>1, <1>2, PTL DEF Spec

-----------------------------------------------------------------------------
(***************************************************************************)
(* What the assignments to the two records leave in their fields.          *)
(***************************************************************************)
LEMMA RelayFields ==
    ASSUME NEW r \in StreamRelay
    PROVE  /\ [r EXCEPT !.held = TRUE].held /\ [r EXCEPT !.held = TRUE].done = r.done
           /\ [r EXCEPT !.done = TRUE].held = r.held /\ [r EXCEPT !.done = TRUE].done
           /\ ~[held |-> FALSE, done |-> TRUE].held /\ [held |-> FALSE, done |-> TRUE].done
BY DEF StreamRelay

\* The fields of s are those of a request, and its channel is that of r.
Flags(s, r, pending, ready, done, closed) ==
    /\ s.pending = pending /\ s.ready = ready /\ s.done = done /\ s.closed = closed
    /\ s.data = r.data

LEMMA RequestFields ==
    ASSUME NEW r \in PendingReq
    PROVE  /\ Flags([r EXCEPT !.ready = @ \/ r.pending], r,
                    r.pending, r.ready \/ r.pending, r.done, r.closed)
           /\ Flags([r EXCEPT !.pending = FALSE, !.done = TRUE], r,
                    FALSE, r.ready, TRUE, r.closed)
           /\ Flags([r EXCEPT !.pending = FALSE, !.closed = TRUE], r,
                    FALSE, r.ready, r.done, TRUE)
           /\ Flags([r EXCEPT !.pending = FALSE, !.ready = TRUE, !.closed = TRUE], r,
                    FALSE, TRUE, r.done, TRUE)
           /\ Flags([r EXCEPT !.pending = FALSE, !.closed = TRUE, !.done = TRUE], r,
                    FALSE, r.ready, TRUE, TRUE)
BY DEF PendingReq, Flags

LEMMA OpenShapeStep ==
    ASSUME TypeOK, OpenShape, Handshake, [Next]_vars
    PROVE  OpenShape'
<1>1. relay \in StreamRelay /\ relay.held \in BOOLEAN /\ relay.done \in BOOLEAN
    BY DEF TypeOK, StreamRelay
<1>2. /\ [relay EXCEPT !.held = TRUE].held /\ [relay EXCEPT !.held = TRUE].done = relay.done
      /\ [relay EXCEPT !.done = TRUE].held = relay.held /\ [relay EXCEPT !.done = TRUE].done
      /\ ~[held |-> FALSE, done |-> TRUE].held /\ [held |-> FALSE, done |-> TRUE].done
    BY <1>1, RelayFields
<1>3. ClientTakesOpen => open = "none"
    BY DEF ClientTakesOpen, ClientReceives, Handshake, TypeOK
<1> USE DEF Next, PumpStep, DrainStep, ServerReaderStep, ClientReaderStep, OpenStep, vars,
           publicVars, serverVars, clientVars, PumpOpens, PumpReady, PumpGivesUp, PumpReads,
           PumpReadFails, PumpIdles, PumpCloses, PumpLeaves, PumpEnds, DrainWrites,
           DrainWriteFails, DrainEnds, ServerTakesReady, ServerTakesData, ServerTakesClose,
           ReaderEnqueues, ReaderDrops, ReaderTimesOut, ServerDisconnects, ServerReceives,
           ClientReceives, ClientTakesOpen, ClientTakesData, ClientWriteFails,
           ClientTakesClose, ClientDisconnects, ClientCloses, OpenRefused, OpenDials,
           OpenRegisters, OpenAcks, OpenReads, OpenReadFails, OpenIdles, OpenLeaves,
           OpenEnds, PublicLeaves, LocalLeaves
<1>4. CASE UNCHANGED <<open, conn, relay>>
    BY <1>4 DEF OpenShape
<1>5. CASE ClientTakesOpen \/ OpenRefused \/ OpenDials \/ OpenRegisters \/ OpenAcks \/ OpenReads
    BY <1>2, <1>3, <1>5 DEF OpenShape
<1>6. CASE OpenReadFails \/ OpenIdles \/ OpenLeaves \/ OpenEnds
    BY <1>2, <1>6 DEF OpenShape, TypeOK
<1>7. CASE ClientWriteFails \/ ClientTakesClose \/ ClientCloses
    BY <1>2, <1>7 DEF OpenShape, TypeOK
<1>8. QED
    BY <1>4, <1>5, <1>6, <1>7

LEMMA OpensFirst ==
    ASSUME TypeOK, Handshake, [Next]_vars
    PROVE  (\A i \in 1..Len(toClient) : toClient[i].type = "open" => i = 1 /\ open = "none")'
<1>1. toClient \in Seq(Frame)
    BY DEF TypeOK
<1>2. \A i \in 1..Len(toClient) : toClient[i].type = "open" => i = 1 /\ open = "none"
    BY DEF Handshake
<1>3. CASE toClient' = toClient /\ ~(open = "none" /\ open' # "none")
    BY <1>2, <1>3
<1>4. CASE toClient' = <<>>
    BY <1>4
<1>5. CASE toClient # <<>> /\ toClient' = Tail(toClient)
    <2>1. \A i \in 1..Len(Tail(toClient)) : i + 1 \in 2..Len(toClient)
                                            /\ Tail(toClient)[i] = toClient[i + 1]
        BY <1>1, <1>5, TailShifts
    <2>2. \A i \in 1..Len(Tail(toClient)) : Tail(toClient)[i].type # "open"
        BY <1>1, <1>2, <2>1
    <2>3. QED
        BY <1>5, <2>2
<1>6. CASE /\ ~(open = "none" /\ open' # "none")
           /\ \E f \in Frame : f.type # "open" /\ toClient' = Append(toClient, f)
    BY <1>1, <1>2, <1>6, SendKeeps
<1>7. CASE toClient = <<>> /\ open' = "none" /\ \E f \in Frame : toClient' = Append(toClient, f)
    BY <1>1, <1>7
<1>8. \A t \in {"open", "close"} : Msg(t) \in Frame /\ Msg(t).type = t
    BY FramesAreFrames
<1>9. /\ Data(1) \in Frame /\ Data(1).type # "open"
      /\ Data(up + 1) \in Frame /\ Data(up + 1).type # "open"
    <2>1. 1 \in Nat /\ up + 1 \in Nat
        BY RelayAssumption DEF TypeOK
    <2>2. QED
        BY <2>1, FramesAreFrames
<1>10. pump = "open" => toClient = <<>> /\ open = "none"
    BY DEF Handshake
<1> USE DEF Next, PumpStep, DrainStep, ServerReaderStep, ClientReaderStep, OpenStep, vars,
           publicVars, serverVars, clientVars, PumpOpens, PumpReady, PumpGivesUp, PumpReads,
           PumpReadFails, PumpIdles, PumpCloses, PumpLeaves, PumpEnds, DrainWrites,
           DrainWriteFails, DrainEnds, ServerTakesReady, ServerTakesData, ServerTakesClose,
           ReaderEnqueues, ReaderDrops, ReaderTimesOut, ServerDisconnects, ServerReceives,
           ClientReceives, ClientTakesOpen, ClientTakesData, ClientWriteFails,
           ClientTakesClose, ClientDisconnects, ClientCloses, OpenRefused, OpenDials,
           OpenRegisters, OpenAcks, OpenReads, OpenReadFails, OpenIdles, OpenLeaves,
           OpenEnds, PublicLeaves, LocalLeaves
<1>11. QED
    BY <1>3, <1>4, <1>5, <1>6, <1>7, <1>8, <1>9, <1>10 DEF ServerSends

(***************************************************************************)
(* What a step does to the pendingReq, by the actions that set a flag.     *)
(***************************************************************************)
SameFlags(s, r) ==
    s.pending = r.pending /\ s.ready = r.ready /\ s.done = r.done /\ s.closed = r.closed

SetsFlag ==
    PumpLeaves \/ ServerTakesReady \/ ReaderTimesOut \/ ServerTakesClose \/ ServerDisconnects

LEMMA RequestMoves ==
    ASSUME TypeOK, [Next]_vars
    PROVE  /\ PumpLeaves => Flags(pr', pr, FALSE, pr.ready, TRUE, pr.closed)
           /\ ServerTakesReady =>
                 Flags(pr', pr, pr.pending, pr.ready \/ pr.pending, pr.done, pr.closed)
           /\ ReaderTimesOut => Flags(pr', pr, FALSE, pr.ready, pr.done, TRUE)
           /\ ServerTakesClose =>
                 IF pr.pending THEN Flags(pr', pr, FALSE, TRUE, pr.done, TRUE) ELSE pr' = pr
           /\ ServerDisconnects =>
                 IF pr.pending THEN Flags(pr', pr, FALSE, pr.ready, TRUE, TRUE) ELSE pr' = pr
           /\ DrainWrites \/ DrainWriteFails =>
                 SameFlags(pr', pr) /\ pr'.data = Tail(pr.data)
           /\ ReaderEnqueues =>
                 SameFlags(pr', pr) /\ pr'.data = Append(pr.data, taken)
           /\ SetsFlag \/ DrainWrites \/ DrainWriteFails \/ ReaderEnqueues \/ pr' = pr
           /\ ~SetsFlag => SameFlags(pr', pr)
<1>1. pr \in PendingReq
    BY DEF TypeOK
<1>2. /\ Flags([pr EXCEPT !.ready = @ \/ pr.pending], pr,
               pr.pending, pr.ready \/ pr.pending, pr.done, pr.closed)
      /\ Flags([pr EXCEPT !.pending = FALSE, !.done = TRUE], pr,
               FALSE, pr.ready, TRUE, pr.closed)
      /\ Flags([pr EXCEPT !.pending = FALSE, !.closed = TRUE], pr,
               FALSE, pr.ready, pr.done, TRUE)
      /\ Flags([pr EXCEPT !.pending = FALSE, !.ready = TRUE, !.closed = TRUE], pr,
               FALSE, TRUE, pr.done, TRUE)
      /\ Flags([pr EXCEPT !.pending = FALSE, !.closed = TRUE, !.done = TRUE], pr,
               FALSE, pr.ready, TRUE, TRUE)
    BY <1>1, RequestFields
<1>3. DrainWrites \/ DrainWriteFails => SameFlags(pr', pr) /\ pr'.data = Tail(pr.data)
    <2>1. DrainWrites \/ DrainWriteFails => pr' = [pr EXCEPT !.data = Tail(pr.data)]
        BY DEF DrainWrites, DrainWriteFails
    <2>2. /\ SameFlags([pr EXCEPT !.data = Tail(pr.data)], pr)
          /\ [pr EXCEPT !.data = Tail(pr.data)].data = Tail(pr.data)
        BY <1>1 DEF PendingReq, SameFlags
    <2>3. QED
        BY <2>1, <2>2
<1>4. ReaderEnqueues => SameFlags(pr', pr) /\ pr'.data = Append(pr.data, taken)
    <2>1. ReaderEnqueues => pr' = [pr EXCEPT !.data = Append(pr.data, taken)]
        BY DEF ReaderEnqueues
    <2>2. /\ SameFlags([pr EXCEPT !.data = Append(pr.data, taken)], pr)
          /\ [pr EXCEPT !.data = Append(pr.data, taken)].data = Append(pr.data, taken)
        BY <1>1 DEF PendingReq, SameFlags
    <2>3. QED
        BY <2>1, <2>2
<1>5. pr' = pr => SameFlags(pr', pr)
    BY DEF SameFlags
<1>6. SetsFlag \/ DrainWrites \/ DrainWriteFails \/ ReaderEnqueues \/ pr' = pr
    BY DEF SetsFlag,
           Next, PumpStep, DrainStep, ServerReaderStep, ClientReaderStep, OpenStep, vars,
           publicVars, serverVars, clientVars, PumpOpens, PumpReady, PumpGivesUp, PumpReads,
           PumpReadFails, PumpIdles, PumpCloses, PumpLeaves, PumpEnds, DrainWrites,
           DrainWriteFails, DrainEnds, ServerTakesReady, ServerTakesData, ServerTakesClose,
           ReaderEnqueues, ReaderDrops, ReaderTimesOut, ServerDisconnects, ServerReceives,
           ClientReceives, ClientTakesOpen, ClientTakesData, ClientWriteFails,
           ClientTakesClose, ClientDisconnects, ClientCloses, OpenRefused, OpenDials,
           OpenRegisters, OpenAcks, OpenReads, OpenReadFails, OpenIdles, OpenLeaves,
           OpenEnds, PublicLeaves, LocalLeaves
<1>7. QED
    BY <1>2, <1>3, <1>4, <1>5, <1>6
       DEF PumpLeaves, ServerTakesReady, ReaderTimesOut, ServerTakesClose, ServerDisconnects

LEMMA HandshakeStep ==
    ASSUME TypeOK, OpenShape, Handshake, [Next]_vars
    PROVE  Handshake'
<1>1. (\A i \in 1..Len(toClient) : toClient[i].type = "open" => i = 1 /\ open = "none")'
    BY OpensFirst
<1>2. /\ pr.pending \in BOOLEAN /\ pr.ready \in BOOLEAN
      /\ pr.done \in BOOLEAN /\ pr.closed \in BOOLEAN
    BY DEF TypeOK, PendingReq
<1>3. ClientTakesOpen => open = "none"
    BY DEF ClientTakesOpen, ClientReceives, Handshake, TypeOK
<1>4. up \in Nat /\ Peeked \in 0..1
    BY RelayAssumption DEF TypeOK
<1>5. ~SetsFlag => SameFlags(pr', pr)
    BY RequestMoves
<1>6. /\ PumpLeaves => Flags(pr', pr, FALSE, pr.ready, TRUE, pr.closed)
      /\ ServerTakesReady =>
            Flags(pr', pr, pr.pending, pr.ready \/ pr.pending, pr.done, pr.closed)
      /\ ReaderTimesOut => Flags(pr', pr, FALSE, pr.ready, pr.done, TRUE)
      /\ ServerTakesClose =>
            IF pr.pending THEN Flags(pr', pr, FALSE, TRUE, pr.done, TRUE) ELSE pr' = pr
      /\ ServerDisconnects =>
            IF pr.pending THEN Flags(pr', pr, FALSE, pr.ready, TRUE, TRUE) ELSE pr' = pr
    BY RequestMoves
<1>7. pr'.ready => pr.ready \/ toServer # <<>>
    BY <1>2, <1>5, <1>6 DEF SetsFlag, SameFlags, Flags, ServerTakesReady, ServerTakesClose,
                            ServerReceives
<1>8. pr.ready => pr'.ready
    BY <1>2, <1>5, <1>6 DEF SetsFlag, SameFlags, Flags
<1>9. (pr.pending => sLink /\ ~pr.done /\ ~pr.closed)'
    <2>1. CASE SetsFlag
        BY <1>2, <1>6, <2>1
           DEF Handshake, SetsFlag, Flags, ServerTakesReady, ServerTakesClose, ServerDisconnects
    <2>2. CASE ~SetsFlag
        <3>1. sLink' = sLink
            BY <2>2 DEF SetsFlag,
                Next, PumpStep, DrainStep, ServerReaderStep, ClientReaderStep, OpenStep, vars,
                publicVars, serverVars, clientVars, PumpOpens, PumpReady, PumpGivesUp, PumpReads,
                PumpReadFails, PumpIdles, PumpCloses, PumpLeaves, PumpEnds, DrainWrites,
                DrainWriteFails, DrainEnds, ServerTakesReady, ServerTakesData, ServerTakesClose,
                ReaderEnqueues, ReaderDrops, ReaderTimesOut, ServerDisconnects, ServerReceives,
                ClientReceives, ClientTakesOpen, ClientTakesData, ClientWriteFails,
                ClientTakesClose, ClientDisconnects, ClientCloses, OpenRefused, OpenDials,
                OpenRegisters, OpenAcks, OpenReads, OpenReadFails, OpenIdles, OpenLeaves,
                OpenEnds, PublicLeaves, LocalLeaves
        <3>2. QED
            BY <1>2, <1>5, <2>2, <3>1 DEF Handshake, SameFlags
    <2>3. QED
        BY <2>1, <2>2
<1>10. pr'.done => pr.done \/ pump' = "last" \/ ~sLink'
    BY <1>2, <1>5, <1>6 DEF SetsFlag, SameFlags, Flags, PumpLeaves, ServerDisconnects
<1>11. Answered => Answered'
    BY <1>3 DEF Answered,
        Next, PumpStep, DrainStep, ServerReaderStep, ClientReaderStep, OpenStep, vars,
        publicVars, serverVars, clientVars, PumpOpens, PumpReady, PumpGivesUp, PumpReads,
        PumpReadFails, PumpIdles, PumpCloses, PumpLeaves, PumpEnds, DrainWrites,
        DrainWriteFails, DrainEnds, ServerTakesReady, ServerTakesData, ServerTakesClose,
        ReaderEnqueues, ReaderDrops, ReaderTimesOut, ServerDisconnects, ServerReceives,
        ClientReceives, ClientTakesOpen, ClientTakesData, ClientWriteFails,
        ClientTakesClose, ClientDisconnects, ClientCloses, OpenRefused, OpenDials,
        OpenRegisters, OpenAcks, OpenReads, OpenReadFails, OpenIdles, OpenLeaves,
        OpenEnds, PublicLeaves, LocalLeaves

<1> USE DEF Next, PumpStep, DrainStep, ServerReaderStep, ClientReaderStep, OpenStep, vars,
           publicVars, serverVars, clientVars, PumpOpens, PumpReady, PumpGivesUp, PumpReads,
           PumpReadFails, PumpIdles, PumpCloses, PumpLeaves, PumpEnds, DrainWrites,
           DrainWriteFails, DrainEnds, ServerTakesReady, ServerTakesData, ServerTakesClose,
           ReaderEnqueues, ReaderDrops, ReaderTimesOut, ServerDisconnects, ServerReceives,
           ClientReceives, ClientTakesOpen, ClientTakesData, ClientWriteFails,
           ClientTakesClose, ClientDisconnects, ClientCloses, OpenRefused, OpenDials,
           OpenRegisters, OpenAcks, OpenReads, OpenReadFails, OpenIdles, OpenLeaves,
           OpenEnds, PublicLeaves, LocalLeaves
<1>12. (pump = "open" => toClient = <<>> /\ open = "none")'
    BY <1>3 DEF Handshake, ServerSends, Answered
<1>13. (toServer # <<>> \/ taken # 0 => Answered)'
    BY <1>3 DEF Handshake, Answered, ClientSends
<1>14. (up > 0 \/ pump \in {"run", "close"} => pr.ready)'
    BY <1>4, <1>8 DEF Handshake
<1>15. (pump \in {"open", "wait"} => up = 0 /\ drain = "none")'
    BY <1>4 DEF Handshake
<1>16. (pr.done => pump \in {"last", "gone"} \/ ~sLink)'
    BY <1>10 DEF Handshake
<1> QED
    BY <1>1, <1>7, <1>8, <1>9, <1>11, <1>12, <1>13, <1>14, <1>15, <1>16 DEF Handshake

-----------------------------------------------------------------------------
(***************************************************************************)
(* Upwards: the chunks of the public peer.                                 *)
(***************************************************************************)
LEMMA UpMoves ==
    ASSUME TypeOK, Handshake, [Next]_vars
    PROVE  /\ sLink' => sLink
           /\ \/ UNCHANGED <<toClient, localGot, up>>
              \/ ServerSends(Msg("open")) /\ UNCHANGED <<localGot, up>>
              \/ ServerSends(Msg("close")) /\ UNCHANGED <<localGot, up>>
              \/ ServerSends(Data(up + 1)) /\ up' = up + 1 /\ UNCHANGED localGot
              \/ ClientTakesOpen \/ ClientTakesData \/ ClientWriteFails \/ ClientTakesClose
              \/ cLink' # "up" /\ UNCHANGED <<localGot, up>>
<1>1. pump = "wait" => up = 0 /\ up + 1 = 1
    BY DEF Handshake
<1> USE DEF Next, PumpStep, DrainStep, ServerReaderStep, ClientReaderStep, OpenStep, vars,
           publicVars, serverVars, clientVars, PumpOpens, PumpReady, PumpGivesUp, PumpReads,
           PumpReadFails, PumpIdles, PumpCloses, PumpLeaves, PumpEnds, DrainWrites,
           DrainWriteFails, DrainEnds, ServerTakesReady, ServerTakesData, ServerTakesClose,
           ReaderEnqueues, ReaderDrops, ReaderTimesOut, ServerDisconnects, ServerReceives,
           ClientReceives, ClientTakesOpen, ClientTakesData, ClientWriteFails,
           ClientTakesClose, ClientDisconnects, ClientCloses, OpenRefused, OpenDials,
           OpenRegisters, OpenAcks, OpenReads, OpenReadFails, OpenIdles, OpenLeaves,
           OpenEnds, PublicLeaves, LocalLeaves
<1>2. QED
    BY <1>1

LEMMA DeliveringWas ==
    ASSUME TypeOK, OpenShape, Handshake, [Next]_vars, Delivering'
    PROVE  Delivering
<1>1. relay \in StreamRelay /\ relay.done \in BOOLEAN
    BY DEF TypeOK, StreamRelay
<1>2. /\ [relay EXCEPT !.held = TRUE].done = relay.done
      /\ [relay EXCEPT !.done = TRUE].done
      /\ [held |-> FALSE, done |-> TRUE].done
    BY <1>1, RelayFields
<1>3. /\ ClientTakesOpen => open = "none"
      /\ OpenDials => conn # "closed"
    BY DEF ClientTakesOpen, ClientReceives, OpenDials, Handshake, OpenShape, TypeOK
<1> USE DEF Next, PumpStep, DrainStep, ServerReaderStep, ClientReaderStep, OpenStep, vars,
           publicVars, serverVars, clientVars, PumpOpens, PumpReady, PumpGivesUp, PumpReads,
           PumpReadFails, PumpIdles, PumpCloses, PumpLeaves, PumpEnds, DrainWrites,
           DrainWriteFails, DrainEnds, ServerTakesReady, ServerTakesData, ServerTakesClose,
           ReaderEnqueues, ReaderDrops, ReaderTimesOut, ServerDisconnects, ServerReceives,
           ClientReceives, ClientTakesOpen, ClientTakesData, ClientWriteFails,
           ClientTakesClose, ClientDisconnects, ClientCloses, OpenRefused, OpenDials,
           OpenRegisters, OpenAcks, OpenReads, OpenReadFails, OpenIdles, OpenLeaves,
           OpenEnds, PublicLeaves, LocalLeaves
<1>4. cLink = "up" /\ local = "open" /\ ~relay.done
    BY <1>2 DEF Delivering
<1>5. conn # "closed" /\ open \notin {"last", "gone"}
    BY <1>3 DEF Delivering
<1>6. QED
    BY <1>4, <1>5 DEF Delivering

\* A chunk under way to a relay that can deliver it is delivered.
LEMMA ChunkIsDelivered ==
    ASSUME TypeOK, OpenShape, Handshake, UpFlow, Delivering,
           toClient # <<>>, IsData(Head(toClient))
    PROVE  relay.held /\ ~relay.done /\ conn = "open" /\ local = "open"
<1>1. PICK hi \in Len(localGot)..up : Carries(toClient, Len(localGot), hi)
    BY DEF UpFlow
<1>2. Len(localGot) \in Nat /\ hi \in Nat /\ up \in Nat /\ toClient \in Seq(Frame)
    BY RelayAssumption DEF TypeOK
<1>3. Len(localGot) + 1 <= hi
    BY <1>1, <1>2, TakeData
<1>4. up > 0
    BY <1>1, <1>2, <1>3
<1>5. Answered
    BY <1>4 DEF Handshake
<1>6. QED
    BY <1>5 DEF Answered, OpenShape, Delivering

LEMMA UpFlowStep ==
    ASSUME TypeOK, OpenShape, Handshake, UpFlow, [Next]_vars
    PROVE  UpFlow'
<1> DEFINE n == Len(localGot)
<1>1. /\ n \in Nat /\ up \in Nat /\ n <= up /\ InOrder(localGot)
      /\ toClient \in Seq(Frame) /\ localGot \in Seq(Nat)
    BY RelayAssumption DEF TypeOK, UpFlow
<1>2. \A t \in {"open", "close"} : Msg(t) \in Frame /\ ~IsData(Msg(t))
    BY FramesAreFrames
<1>3. Data(up + 1) \in Frame
    BY <1>1, FramesAreFrames
<1>4. Delivering' => Delivering
    BY DeliveringWas
<1>5. sLink' => sLink
    BY UpMoves
<1>6. Delivering => \E hi \in n..up : (sLink => hi = up) /\ Carries(toClient, n, hi)
    BY DEF UpFlow
<1>7. CASE UNCHANGED <<toClient, localGot, up>>
    BY <1>1, <1>4, <1>5, <1>6, <1>7 DEF UpFlow
<1>8. ASSUME NEW t \in {"open", "close"}, ServerSends(Msg(t)), UNCHANGED <<localGot, up>>
      PROVE  UpFlow'
    <2>1. ASSUME Delivering, NEW hi \in n..up, Carries(toClient, n, hi)
          PROVE  Carries(toClient', n, hi)
        BY <1>1, <1>2, <1>8, <2>1, SendOther DEF ServerSends
    <2>2. QED
        BY <1>1, <1>4, <1>5, <1>6, <1>8, <2>1 DEF UpFlow
<1>9. CASE ServerSends(Data(up + 1)) /\ up' = up + 1 /\ UNCHANGED localGot
    <2>1. ASSUME Delivering, NEW hi \in n..up, sLink => hi = up, Carries(toClient, n, hi)
          PROVE  \E h \in n..(up + 1) : (sLink => h = up + 1) /\ Carries(toClient', n, h)
        <3>1. CASE sLink
            <4>1. toClient' = Append(toClient, Data(up + 1)) /\ hi = up
                BY <1>9, <2>1, <3>1 DEF ServerSends, LinksUp, Delivering
            <4>2. Carries(toClient', n, up + 1)
                BY <1>1, <1>3, <2>1, <4>1, SendData
            <4>3. QED
                BY <1>1, <4>2
        <3>2. CASE ~sLink
            <4>1. toClient' = toClient
                BY <1>9, <3>2 DEF ServerSends, LinksUp
            <4>2. hi \in n..(up + 1)
                BY <1>1
            <4>3. QED
                BY <2>1, <3>2, <4>1, <4>2
        <3>3. QED
            BY <3>1, <3>2
    <2>2. InOrder(localGot') /\ Len(localGot') <= up'
        BY <1>1, <1>9
    <2>3. QED
        BY <1>4, <1>5, <1>6, <1>9, <2>1, <2>2 DEF UpFlow
<1>10. CASE ClientTakesOpen \/ ClientTakesClose
    <2>1. toClient # <<>> /\ toClient' = Tail(toClient) /\ ~IsData(Head(toClient))
        BY <1>10 DEF ClientTakesOpen, ClientTakesClose, ClientReceives, IsData
    <2>2. UNCHANGED <<localGot, up>>
        BY <1>10 DEF ClientTakesOpen, ClientTakesClose, publicVars
    <2>3. ASSUME NEW hi \in n..up, Carries(toClient, n, hi)
          PROVE  Carries(toClient', n, hi)
        BY <1>1, <2>1, <2>3, TakeOther
    <2>4. QED
        BY <1>1, <1>4, <1>5, <1>6, <2>2, <2>3 DEF UpFlow
<1>11. CASE ClientTakesData
    <2>1. toClient # <<>> /\ toClient' = Tail(toClient) /\ IsData(Head(toClient))
        BY <1>11 DEF ClientTakesData, ClientReceives, IsData
    <2>2. UNCHANGED <<up, sLink>> /\ cLink = "up"
        BY <1>11 DEF ClientTakesData, ClientReceives, publicVars, serverVars
    <2>3. CASE Delivering
        <3>1. localGot' = Append(localGot, Head(toClient).chunk)
            BY <1>11, <2>1, <2>3, ChunkIsDelivered DEF ClientTakesData
        <3>2. PICK hi \in n..up : (sLink => hi = up) /\ Carries(toClient, n, hi)
            BY <1>6, <2>3
        <3>3. /\ Head(toClient).chunk = n + 1 /\ n + 1 <= hi
              /\ Carries(Tail(toClient), n + 1, hi)
            BY <1>1, <2>1, <3>2, TakeData
        <3>4. /\ Len(localGot') = n + 1 /\ localGot'[n + 1] = n + 1
              /\ \A i \in 1..n : localGot'[i] = localGot[i]
            BY <1>1, <3>1, <3>3
        <3>5. InOrder(localGot') /\ Len(localGot') <= up'
            BY <1>1, <2>2, <3>2, <3>3, <3>4 DEF InOrder
        <3>6. hi \in Len(localGot')..up'
            BY <1>1, <2>2, <3>2, <3>3, <3>4
        <3>7. QED
            BY <2>1, <2>2, <3>2, <3>3, <3>4, <3>5, <3>6 DEF UpFlow
    <2>4. CASE ~Delivering
        <3>1. ~(relay.held /\ ~relay.done /\ conn = "open" /\ local = "open")
            BY <2>2, <2>4 DEF Delivering, OpenShape
        <3>2. localGot' = localGot
            BY <1>11, <3>1 DEF ClientTakesData
        <3>3. QED
            BY <1>1, <1>4, <2>2, <2>4, <3>2 DEF UpFlow
    <2>5. QED
        BY <2>3, <2>4
<1>12. CASE ClientWriteFails
    <2>1. relay'.done
        BY <1>12, RelayFields DEF ClientWriteFails, TypeOK
    <2>2. UNCHANGED <<localGot, up>>
        BY <1>12 DEF ClientWriteFails, publicVars
    <2>3. QED
        BY <1>1, <2>1, <2>2 DEF UpFlow, Delivering
<1>13. CASE cLink' # "up" /\ UNCHANGED <<localGot, up>>
    BY <1>1, <1>13 DEF UpFlow, Delivering
<1>14. QED
    BY <1>7, <1>8, <1>9, <1>10, <1>11, <1>12, <1>13, UpMoves

-----------------------------------------------------------------------------
(***************************************************************************)
(* Downwards: the chunks of the local application.                         *)
(***************************************************************************)
LEMMA DownMoves ==
    ASSUME TypeOK, Handshake, [Next]_vars
    PROVE  /\ cLink' = "up" => cLink = "up"
           /\ drain' # "gone" => drain # "gone"
           /\ pr'.pending => pr.pending
           /\ \/ UNCHANGED <<pubGot, taken, toServer, down>> /\ pr'.data = pr.data
              \/ /\ \E t \in {"ready", "close"} : ClientSends(Msg(t))
                 /\ UNCHANGED <<pubGot, pr, taken, down>>
              \/ OpenReads \/ DrainWrites \/ DrainWriteFails
              \/ ServerTakesReady \/ ServerTakesData \/ ServerTakesClose
              \/ ReaderEnqueues \/ ReaderDrops \/ ReaderTimesOut \/ ServerDisconnects
<1>1. pump = "wait" => drain = "none"
    BY DEF Handshake
<1>2. pr'.pending => pr.pending
    <2>1. pr.pending \in BOOLEAN
        BY DEF TypeOK, PendingReq
    <2>2. /\ ~SetsFlag => pr'.pending = pr.pending
          /\ PumpLeaves \/ ReaderTimesOut => pr'.pending = FALSE
          /\ ServerTakesReady => pr'.pending = pr.pending
          /\ ServerTakesClose \/ ServerDisconnects => pr'.pending = FALSE \/ pr' = pr
        BY RequestMoves DEF Flags, SameFlags
    <2>3. QED
        BY <2>1, <2>2 DEF SetsFlag
<1>3. PumpLeaves => pr'.data = pr.data
    BY RequestMoves DEF Flags
<1> USE DEF Next, PumpStep, DrainStep, ServerReaderStep, ClientReaderStep, OpenStep, vars,
           publicVars, serverVars, clientVars, PumpOpens, PumpReady, PumpGivesUp, PumpReads,
           PumpReadFails, PumpIdles, PumpCloses, PumpLeaves, PumpEnds, DrainWrites,
           DrainWriteFails, DrainEnds, ServerTakesReady, ServerTakesData, ServerTakesClose,
           ReaderEnqueues, ReaderDrops, ReaderTimesOut, ServerDisconnects, ServerReceives,
           ClientReceives, ClientTakesOpen, ClientTakesData, ClientWriteFails,
           ClientTakesClose, ClientDisconnects, ClientCloses, OpenRefused, OpenDials,
           OpenRegisters, OpenAcks, OpenReads, OpenReadFails, OpenIdles, OpenLeaves,
           OpenEnds, PublicLeaves, LocalLeaves
<1>4. cLink' = "up" => cLink = "up"
    OBVIOUS
<1>5. drain' # "gone" => drain # "gone"
    BY <1>1
<1>6. \/ UNCHANGED <<pubGot, taken, toServer, down>> /\ pr'.data = pr.data
      \/ /\ \E t \in {"ready", "close"} : ClientSends(Msg(t))
         /\ UNCHANGED <<pubGot, pr, taken, down>>
      \/ OpenReads \/ DrainWrites \/ DrainWriteFails
      \/ ServerTakesReady \/ ServerTakesData \/ ServerTakesClose
      \/ ReaderEnqueues \/ ReaderDrops \/ ReaderTimesOut \/ ServerDisconnects
    BY <1>3
<1>7. QED
    BY <1>2, <1>4, <1>5, <1>6

LEMMA DownFlowStep ==
    ASSUME TypeOK, OpenShape, Handshake, DownFlow, [Next]_vars
    PROVE  DownFlow'
<1> DEFINE g == Len(pubGot)
           d == Len(pr.data)
<1>1. /\ g \in Nat /\ d \in Nat /\ down \in Nat /\ taken \in Nat /\ pubGot \in Seq(Nat)
      /\ pr.data \in Seq(Nat) /\ toServer \in Seq(Frame) /\ Received \in Nat
      /\ g <= down /\ InOrder(pubGot)
    BY RelayAssumption DEF TypeOK, PendingReq, DownFlow, Received
<1>2. /\ cLink' = "up" => cLink = "up"
      /\ drain' # "gone" => drain # "gone"
      /\ pr'.pending => pr.pending
    BY DownMoves
<1>3. \A t \in {"ready", "close"} : Msg(t) \in Frame /\ ~IsData(Msg(t))
    BY FramesAreFrames
<1>4. CASE UNCHANGED <<pubGot, taken, toServer, down>> /\ pr'.data = pr.data
    BY <1>1, <1>2, <1>4 DEF DownFlow, Streaming, Coming, Received
<1>5. ASSUME NEW t \in {"ready", "close"}, ClientSends(Msg(t)),
             UNCHANGED <<pubGot, pr, taken, down>>
      PROVE  DownFlow'
    <2>1. ASSUME NEW hi \in Received..down, Carries(toServer, Received, hi)
          PROVE  Carries(toServer', Received, hi)
        BY <1>1, <1>3, <1>5, <2>1, SendOther DEF ClientSends
    <2>2. Received' = Received
        BY <1>5 DEF Received
    <2>3. QED
        BY <1>2, <1>5, <2>1, <2>2 DEF DownFlow, Streaming, Coming
<1>6. CASE OpenReads
    <2>1. ClientSends(Data(down + 1)) /\ down' = down + 1
          /\ UNCHANGED <<pubGot, pr, taken, cLink, drain>>
        BY <1>6 DEF OpenReads, publicVars, serverVars
    <2>2. Received' = Received
        BY <2>1 DEF Received
    <2>3. ASSUME pr.pending, NEW hi \in Received..down, cLink = "up" => hi = down,
                 Carries(toServer, Received, hi)
          PROVE  \E h \in Received..(down + 1) :
                    (cLink = "up" => h = down + 1) /\ Carries(toServer', Received, h)
        <3>1. CASE cLink = "up"
            <4>1. toServer' = Append(toServer, Data(down + 1)) /\ hi = down
                BY <2>1, <2>3, <3>1 DEF ClientSends, LinksUp, Handshake
            <4>2. Data(down + 1) \in Frame
                BY <1>1, FramesAreFrames
            <4>3. Carries(toServer', Received, down + 1)
                BY <1>1, <2>3, <4>1, <4>2, SendData
            <4>4. QED
                BY <1>1, <4>3
        <3>2. CASE cLink # "up"
            <4>1. toServer' = toServer
                BY <2>1, <3>2 DEF ClientSends, LinksUp
            <4>2. hi \in Received..(down + 1)
                BY <1>1
            <4>3. QED
                BY <2>3, <3>2, <4>1, <4>2
        <3>3. QED
            BY <3>1, <3>2
    <2>4. pr.pending /\ Coming => Coming'
        BY <2>1, <2>2, <2>3 DEF Coming
    <2>5. Streaming => Streaming'
        BY <1>1, <2>1, <2>2 DEF Streaming
    <2>6. QED
        BY <1>1, <2>1, <2>4, <2>5 DEF DownFlow
<1>7. CASE DrainWrites
    <2>1. /\ pr.data # <<>> /\ pubGot' = Append(pubGot, Head(pr.data)) /\ drain # "gone"
          /\ UNCHANGED <<taken, toServer, down, cLink, drain>>
        BY <1>7 DEF DrainWrites, clientVars
    <2>2. pr'.data = Tail(pr.data)
        BY <1>7, RequestMoves
    <2>3. Streaming /\ (pr.pending => Coming)
        BY <2>1 DEF DownFlow
    <2>4. /\ d \in Nat \ {0} /\ Head(pr.data) = pr.data[1] /\ 1 \in 1..d
          /\ Len(pr'.data) = d - 1
          /\ \A i \in 1..(d - 1) : pr'.data[i] = pr.data[i + 1] /\ i + 1 \in 1..d
        BY <1>1, <2>1, <2>2, TailShifts
    <2>5. Head(pr.data) = g + 1
        BY <2>3, <2>4 DEF Streaming
    <2>6. /\ Len(pubGot') = g + 1 /\ pubGot'[g + 1] = g + 1
          /\ \A i \in 1..g : pubGot'[i] = pubGot[i]
        BY <1>1, <2>1, <2>5
    <2>7. Received' = Received
        <3>1. Len(pubGot') + Len(pr'.data) = g + d
            <4>1. \A a, b \in Nat : (a + 1) + (b - 1) = a + b
                OBVIOUS
            <4>2. g \in Nat /\ d \in Nat
                BY <1>1
            <4>3. Len(pubGot') = g + 1 /\ Len(pr'.data) = d - 1
                BY <2>4, <2>6
            <4>4. QED
                BY <4>1, <4>2, <4>3
        <3>2. QED
            BY <2>1, <3>1 DEF Received
    <2>8. InOrder(pubGot') /\ Len(pubGot') <= down'
        <3>1. g + 1 <= down
            <4>1. \A a, b, x, n \in Nat : b # 0 /\ a + b + x <= n => a + 1 <= n
                OBVIOUS
            <4>2. PICK x \in {0, 1} : Received = g + d + x
                BY DEF Received
            <4>3. Received <= down /\ d # 0 /\ x \in Nat
                BY <2>3, <2>4 DEF Streaming
            <4>4. QED
                BY <1>1, <4>1, <4>2, <4>3
        <3>2. \A i \in 1..(g + 1) : i \in 1..g \/ i = g + 1
            BY <1>1
        <3>3. QED
            BY <1>1, <2>1, <2>6, <3>1, <3>2 DEF InOrder
    <2>9. Streaming'
        <3>1. ASSUME NEW i \in 1..(d - 1)
              PROVE  pr'.data[i] = (g + 1) + i
            BY <1>1, <2>3, <2>4 DEF Streaming
        <3>2. taken # 0 => taken = (g + 1) + (d - 1) + 1
            <4>1. taken # 0 => taken = g + d + 1
                BY <2>3 DEF Streaming
            <4>2. \A a, b \in Nat : (a + 1) + (b - 1) + 1 = a + b + 1
                OBVIOUS
            <4>3. QED
                BY <1>1, <4>1, <4>2
        <3>3. QED
            BY <2>1, <2>3, <2>4, <2>6, <2>7, <3>1, <3>2 DEF Streaming
    <2>10. Coming => Coming'
        BY <2>1, <2>7 DEF Coming
    <2>11. QED
        BY <1>2, <2>3, <2>8, <2>9, <2>10 DEF DownFlow
<1>8. CASE DrainWriteFails
    BY <1>1, <1>8 DEF DrainWriteFails, DownFlow, clientVars
<1>9. CASE ServerTakesReady
    <2>1. /\ toServer # <<>> /\ toServer' = Tail(toServer) /\ ~IsData(Head(toServer))
          /\ UNCHANGED <<pubGot, taken, down, cLink, drain>>
        BY <1>9 DEF ServerTakesReady, ServerReceives, IsData, publicVars, clientVars
    <2>2. pr'.data = pr.data
        BY <1>9, RequestMoves DEF Flags
    <2>3. Received' = Received
        BY <2>1, <2>2 DEF Received
    <2>4. ASSUME NEW hi \in Received..down, Carries(toServer, Received, hi)
          PROVE  Carries(toServer', Received, hi)
        BY <1>1, <2>1, <2>4, TakeOther
    <2>5. Coming => Coming'
        BY <2>1, <2>3, <2>4 DEF Coming
    <2>6. Streaming => Streaming'
        BY <2>1, <2>2, <2>3 DEF Streaming
    <2>7. QED
        BY <1>2, <2>1, <2>5, <2>6 DEF DownFlow
<1>10. CASE ServerTakesData
    <2>1. /\ toServer # <<>> /\ toServer' = Tail(toServer) /\ IsData(Head(toServer))
          /\ taken = 0 /\ taken' = (IF pr.pending THEN Head(toServer).chunk ELSE 0)
          /\ UNCHANGED <<pubGot, pr, down, cLink, drain>>
        BY <1>10 DEF ServerTakesData, ServerReceives, IsData, publicVars, clientVars
    <2>2. CASE ~pr.pending
        BY <2>1, <2>2 DEF DownFlow, Streaming, Received
    <2>3. CASE pr.pending /\ drain # "gone"
        <3>1. Streaming /\ Received = g + d
            BY <2>1, <2>3 DEF DownFlow, Received
        <3>2. PICK hi \in Received..down : /\ cLink = "up" => hi = down
                                           /\ Carries(toServer, Received, hi)
            BY <2>3 DEF DownFlow, Coming
        <3>3. /\ Head(toServer).chunk = Received + 1 /\ Received + 1 <= hi
              /\ Carries(toServer', Received + 1, hi)
            BY <1>1, <2>1, <3>2, TakeData
        <3>4. taken' = g + d + 1 /\ taken' # 0
            BY <1>1, <2>1, <2>3, <3>1, <3>3
        <3>5. Received' = Received + 1
            BY <1>1, <2>1, <3>1, <3>4 DEF Received
        <3>6. Streaming'
            BY <1>1, <2>1, <3>1, <3>2, <3>3, <3>4, <3>5 DEF Streaming
        <3>7. hi \in (Received')..down'
            BY <1>1, <2>1, <3>2, <3>3, <3>5
        <3>8. Coming'
            BY <2>1, <3>2, <3>3, <3>5, <3>7 DEF Coming
        <3>9. QED
            BY <2>1, <3>6, <3>8 DEF DownFlow
    <2>4. CASE drain = "gone"
        BY <2>1, <2>4 DEF DownFlow
    <2>5. QED
        BY <2>2, <2>3, <2>4
<1>11. CASE ServerTakesClose
    <2>1. UNCHANGED <<pubGot, taken, down, cLink, drain>>
        BY <1>11 DEF ServerTakesClose, publicVars, clientVars
    <2>2. pr'.data = pr.data /\ ~pr'.pending
        BY <1>11, RequestMoves DEF Flags
    <2>3. QED
        BY <2>1, <2>2 DEF DownFlow, Streaming, Received
<1>12. CASE ReaderEnqueues
    <2>1. taken # 0 /\ taken' = 0 /\ UNCHANGED <<pubGot, toServer, down, cLink, drain>>
        BY <1>12 DEF ReaderEnqueues, publicVars, clientVars
    <2>2. pr'.data = Append(pr.data, taken)
        BY <1>12, RequestMoves
    <2>3. /\ Len(pr'.data) = d + 1 /\ pr'.data[d + 1] = taken
          /\ \A i \in 1..d : pr'.data[i] = pr.data[i]
        BY <1>1, <2>2
    <2>4. Received' = Received
        BY <1>1, <2>1, <2>3 DEF Received
    <2>5. Streaming => Streaming'
        <3>1. SUFFICES ASSUME Streaming, NEW i \in 1..(d + 1)
                       PROVE  pr'.data[i] = g + i
            BY <2>1, <2>3, <2>4 DEF Streaming
        <3>2. CASE i \in 1..d
            BY <2>3, <3>1, <3>2 DEF Streaming
        <3>3. CASE i = d + 1
            BY <1>1, <2>1, <2>3, <3>1, <3>3 DEF Streaming
        <3>4. i \in 1..d \/ i = d + 1
            BY <1>1
        <3>5. QED
            BY <3>2, <3>3, <3>4
    <2>6. Coming => Coming'
        BY <2>1, <2>4 DEF Coming
    <2>7. QED
        BY <1>2, <2>1, <2>5, <2>6 DEF DownFlow
<1>13. CASE ReaderDrops \/ ReaderTimesOut
    <2>1. taken # 0 /\ taken' = 0 /\ UNCHANGED <<pubGot, down, cLink, drain>>
        BY <1>13 DEF ReaderDrops, ReaderTimesOut, publicVars, clientVars
    <2>2. pr'.data = pr.data /\ ~pr'.pending
        <3>1. CASE ReaderDrops
            BY <3>1 DEF ReaderDrops, Handshake
        <3>2. CASE ReaderTimesOut
            BY <3>2, RequestMoves DEF Flags
        <3>3. QED
            BY <1>13, <3>1, <3>2
    <2>3. Received' <= Received /\ Received' \in Nat
        BY <1>1, <2>1, <2>2 DEF Received
    <2>4. Streaming => Streaming'
        BY <1>1, <2>1, <2>2, <2>3 DEF Streaming
    <2>5. QED
        BY <2>1, <2>2, <2>4 DEF DownFlow
<1>14. CASE ServerDisconnects
    <2>1. UNCHANGED <<pubGot, taken, down, cLink, drain>>
        BY <1>14 DEF ServerDisconnects, publicVars, clientVars
    <2>2. pr'.data = pr.data /\ ~pr'.pending
        BY <1>14, RequestMoves DEF Flags
    <2>3. QED
        BY <2>1, <2>2 DEF DownFlow, Streaming, Received
<1>15. QED
    BY <1>4, <1>5, <1>6, <1>7, <1>8, <1>9, <1>10, <1>11, <1>12, <1>13, <1>14, DownMoves

-----------------------------------------------------------------------------
(***************************************************************************)
(* The end of an orderly run.                                              *)
(***************************************************************************)
LEMMA OrderlyWas ==
    ASSUME TypeOK, [Next]_vars, Orderly'
    PROVE  Orderly /\ sLink' /\ cLink' = "up" /\ cut' = "none" /\ sLink /\ cLink = "up" /\ cut = "none"
<1> USE DEF Next, PumpStep, DrainStep, ServerReaderStep, ClientReaderStep, OpenStep, vars,
           publicVars, serverVars, clientVars, PumpOpens, PumpReady, PumpGivesUp, PumpReads,
           PumpReadFails, PumpIdles, PumpCloses, PumpLeaves, PumpEnds, DrainWrites,
           DrainWriteFails, DrainEnds, ServerTakesReady, ServerTakesData, ServerTakesClose,
           ReaderEnqueues, ReaderDrops, ReaderTimesOut, ServerDisconnects, ServerReceives,
           ClientReceives, ClientTakesOpen, ClientTakesData, ClientWriteFails,
           ClientTakesClose, ClientDisconnects, ClientCloses, OpenRefused, OpenDials,
           OpenRegisters, OpenAcks, OpenReads, OpenReadFails, OpenIdles, OpenLeaves,
           OpenEnds, PublicLeaves, LocalLeaves
<1>1. sLink' /\ cLink' = "up" /\ cut' = "none"
    BY DEF Orderly, LinksUp
<1>2. sLink
    BY <1>1
<1>3. cLink = "up"
    BY <1>1
<1>4. cut = "none"
    BY <1>1 DEF Expired, TypeOK
<1>5. QED
    BY <1>1, <1>2, <1>3, <1>4 DEF Orderly, LinksUp

LEMMA CloseStaysLast ==
    ASSUME toClient \in Seq(Frame), ClosesLast, PumpOver => PumpOver',
           \/ toClient' = toClient
           \/ toClient # <<>> /\ toClient' = Tail(toClient)
           \/ \E f \in Frame : ~PumpOver /\ toClient' = Append(toClient, f)
                             /\ (f.type = "close" => PumpOver')
    PROVE  ClosesLast'
<1>1. \A i \in 1..Len(toClient) : toClient[i].type = "close" => i = Len(toClient) /\ PumpOver
    BY DEF ClosesLast
<1>2. CASE toClient' = toClient
    BY <1>1, <1>2 DEF ClosesLast
<1>3. CASE toClient # <<>> /\ toClient' = Tail(toClient)
    <2>1. \A i \in 1..Len(toClient') : toClient'[i].type = "close" => i = Len(toClient')
        BY <1>1, <1>3, LastStaysLast
    <2>2. \A i \in 1..Len(toClient') : i + 1 \in 1..Len(toClient)
                                      /\ toClient'[i] = toClient[i + 1]
        BY <1>3, TailShifts
    <2>3. \A i \in 1..Len(toClient') : toClient'[i].type = "close" => PumpOver
        BY <1>1, <2>2
    <2>4. QED
        BY <2>1, <2>3 DEF ClosesLast
<1>4. ASSUME NEW f \in Frame, f.type = "close" => PumpOver', ~PumpOver,
             toClient' = Append(toClient, f)
      PROVE  ClosesLast'
    <2>1. \A i \in 1..Len(toClient) : toClient'[i].type # "close"
        BY <1>1, <1>4, SendKeeps
    <2>2. QED
        BY <1>4, <2>1, SendKeeps DEF ClosesLast
<1>5. QED
    BY <1>2, <1>3, <1>4

LEMMA PumpCloseIsLast ==
    ASSUME TypeOK, Handshake, UpEnd, [Next]_vars, Orderly'
    PROVE  ClosesLast'
<1>1. Orderly /\ sLink' /\ cLink' = "up" /\ cut' = "none" /\ sLink /\ cLink = "up" /\ cut = "none"
    BY OrderlyWas
<1>2. toClient \in Seq(Frame) /\ LinksUp /\ ClosesLast
    BY <1>1 DEF TypeOK, LinksUp, UpEnd
<1>3. \A t \in {"open", "close"} : Msg(t) \in Frame /\ Msg(t).type = t
    BY FramesAreFrames
<1>4. /\ Data(1) \in Frame /\ Data(1).type # "close"
      /\ Data(up + 1) \in Frame /\ Data(up + 1).type # "close"
    <2>1. 1 \in Nat /\ up + 1 \in Nat
        BY RelayAssumption DEF TypeOK
    <2>2. QED
        BY <2>1, FramesAreFrames
<1>5. ReaderTimesOut => cut' # "none"
    BY DEF ReaderTimesOut, Expired
<1>6. PumpOpens \/ PumpReady \/ PumpReads \/ PumpCloses =>
        \/ toClient' = toClient
        \/ \E f \in Frame : ~PumpOver /\ toClient' = Append(toClient, f)
                             /\ (f.type = "close" => PumpOver')
    BY <1>2, <1>3, <1>4
       DEF PumpOpens, PumpReady, PumpReads, PumpCloses, ServerSends, PumpOver
<1>7. /\ PumpOver => PumpOver'
      /\ \/ toClient' = toClient
         \/ toClient # <<>> /\ toClient' = Tail(toClient)
         \/ PumpOpens \/ PumpReady \/ PumpReads \/ PumpCloses
    BY <1>1, <1>5
    DEF PumpOver, Next, PumpStep, DrainStep, ServerReaderStep, ClientReaderStep, OpenStep, vars,
        publicVars, serverVars, clientVars, PumpOpens, PumpReady, PumpGivesUp, PumpReads,
        PumpReadFails, PumpIdles, PumpCloses, PumpLeaves, PumpEnds, DrainWrites,
        DrainWriteFails, DrainEnds, ServerTakesReady, ServerTakesData, ServerTakesClose,
        ReaderEnqueues, ReaderDrops, ReaderTimesOut, ServerDisconnects, ServerReceives,
        ClientReceives, ClientTakesOpen, ClientTakesData, ClientWriteFails,
        ClientTakesClose, ClientDisconnects, ClientCloses, OpenRefused, OpenDials,
        OpenRegisters, OpenAcks, OpenReads, OpenReadFails, OpenIdles, OpenLeaves,
        OpenEnds, PublicLeaves, LocalLeaves
<1>8. QED
    BY <1>2, <1>6, <1>7, CloseStaysLast

LEMMA UpEndStep ==
    ASSUME TypeOK, OpenShape, Handshake, UpFlow, UpEnd, [Next]_vars
    PROVE  UpEnd'
<1> SUFFICES ASSUME Orderly'
             PROVE  (/\ ClosesLast
                     /\ open \in {"leave", "last"} => local = "gone" \/ conn = "closed"
                     /\ conn = "closed" /\ local = "open" => Len(localGot) = up /\ PumpOver)'
    BY DEF UpEnd
<1>1. Orderly /\ sLink' /\ cLink' = "up" /\ cut' = "none" /\ sLink /\ cLink = "up" /\ cut = "none"
    BY OrderlyWas
<1>2. ClosesLast'
    BY PumpCloseIsLast
<1>3. /\ open \in {"leave", "last"} => local = "gone" \/ conn = "closed"
      /\ conn = "closed" /\ local = "open" => Len(localGot) = up /\ PumpOver
    BY <1>1 DEF UpEnd
<1>4. OpenDials => conn # "closed"
    BY DEF OpenDials, OpenShape
<1>5. ASSUME ClientTakesClose, relay.held, conn # "closed", local = "open"
      PROVE  Len(localGot) = up /\ PumpOver
    <2>1. toClient # <<>> /\ Head(toClient).type = "close" /\ toClient \in Seq(Frame)
        BY <1>5 DEF ClientTakesClose, ClientReceives, TypeOK
    <2>2. 1 \in 1..Len(toClient) /\ toClient[1].type = "close"
        BY <2>1, TailShifts
    <2>3. Len(toClient) = 1 /\ PumpOver
        BY <1>1, <2>2 DEF UpEnd, ClosesLast
    <2>4. \A i \in 1..Len(toClient) : ~IsData(toClient[i])
        BY <2>2, <2>3 DEF IsData
    <2>5. Delivering
        BY <1>1, <1>5 DEF Delivering, OpenShape, TypeOK
    <2>6. Carries(toClient, Len(localGot), up) /\ Len(localGot) <= up
        BY <1>1, <2>5 DEF UpFlow
    <2>7. Len(localGot) \in Nat /\ up \in Nat
        BY RelayAssumption DEF TypeOK
    <2>8. QED
        BY <2>1, <2>3, <2>4, <2>6, <2>7, NothingCarried
<1>6. ClientWriteFails => conn = "open" /\ (local = "open" => cut' # "none")
    BY DEF ClientWriteFails, OpenShape, TypeOK, Expired
<1> USE DEF Next, PumpStep, DrainStep, ServerReaderStep, ClientReaderStep, OpenStep, vars,
           publicVars, serverVars, clientVars, PumpOpens, PumpReady, PumpGivesUp, PumpReads,
           PumpReadFails, PumpIdles, PumpCloses, PumpLeaves, PumpEnds, DrainWrites,
           DrainWriteFails, DrainEnds, ServerTakesReady, ServerTakesData, ServerTakesClose,
           ReaderEnqueues, ReaderDrops, ReaderTimesOut, ServerDisconnects, ServerReceives,
           ClientReceives, ClientTakesOpen, ClientTakesData, ClientWriteFails,
           ClientTakesClose, ClientDisconnects, ClientCloses, OpenRefused, OpenDials,
           OpenRegisters, OpenAcks, OpenReads, OpenReadFails, OpenIdles, OpenLeaves,
           OpenEnds, PublicLeaves, LocalLeaves
<1>7. (open \in {"leave", "last"} => local = "gone" \/ conn = "closed")'
    BY <1>1, <1>3, <1>4 DEF Expired, TypeOK
<1>8. PumpOver => PumpOver' /\ up' = up
    BY DEF PumpOver
<1>9. (conn = "closed" /\ local = "open" => Len(localGot) = up /\ PumpOver)'
    <2>1. SUFFICES ASSUME conn' = "closed", local' = "open"
                   PROVE  Len(localGot') = up' /\ PumpOver'
        OBVIOUS
    <2>2. local = "open"
        BY <2>1
    <2>3. CASE conn = "closed"
        BY <1>3, <1>8, <2>2, <2>3
    <2>4. CASE conn # "closed"
        <3>1. ClientTakesClose /\ relay.held
            BY <1>1, <1>3, <1>6, <2>1, <2>2, <2>4
        <3>2. localGot' = localGot
            BY <3>1
        <3>3. QED
            BY <1>5, <1>8, <2>2, <2>4, <3>1, <3>2
    <2>5. QED
        BY <2>3, <2>4
<1>10. QED
    BY <1>2, <1>7, <1>9

LEMMA AnswerStaysLast ==
    ASSUME TypeOK, Handshake, AnswersLast, [Next]_vars
    PROVE  AnswersLast'
<1>1. toServer \in Seq(Frame)
    BY DEF TypeOK
<1>2. \A i \in 1..Len(toServer) : toServer[i].type = "close" => i = Len(toServer) /\ open = "gone"
    BY DEF AnswersLast
<1>3. CASE toServer' = toServer /\ (open = "gone" => open' = "gone")
    BY <1>2, <1>3 DEF AnswersLast
<1>4. CASE toServer # <<>> /\ toServer' = Tail(toServer) /\ open' = open
    <2>1. \A i \in 1..Len(toServer') : toServer'[i].type = "close" => i = Len(toServer')
        BY <1>1, <1>2, <1>4, LastStaysLast
    <2>2. \A i \in 1..Len(toServer') : i + 1 \in 1..Len(toServer)
                                      /\ toServer'[i] = toServer[i + 1]
        BY <1>1, <1>4, TailShifts
    <2>3. \A i \in 1..Len(toServer') : toServer'[i].type = "close" => open' = "gone"
        BY <1>2, <1>4, <2>2
    <2>4. QED
        BY <2>1, <2>3 DEF AnswersLast
<1>5. ASSUME NEW f \in Frame, open # "gone", f.type = "close" => open' = "gone",
             toServer' = Append(toServer, f)
      PROVE  AnswersLast'
    <2>1. \A i \in 1..Len(toServer) : toServer'[i].type # "close"
        BY <1>1, <1>2, <1>5, SendKeeps
    <2>2. QED
        BY <1>1, <1>5, <2>1, SendKeeps DEF AnswersLast
<1>6. CASE toServer' = <<>>
    BY <1>6 DEF AnswersLast
<1>7. \A t \in {"ready", "close"} : Msg(t) \in Frame /\ Msg(t).type = t
    BY FramesAreFrames
<1>8. Data(down + 1) \in Frame /\ Data(down + 1).type # "close"
    <2>1. down + 1 \in Nat
        BY RelayAssumption DEF TypeOK
    <2>2. QED
        BY <2>1, FramesAreFrames
<1>9. OpenRefused \/ OpenAcks \/ OpenReads \/ OpenEnds => AnswersLast'
    <2>1. OpenRefused \/ OpenAcks \/ OpenReads \/ OpenEnds =>
            \/ toServer' = toServer /\ open # "gone"
            \/ \E f \in Frame : open # "gone" /\ (f.type = "close" => open' = "gone")
                                /\ toServer' = Append(toServer, f)
        BY <1>7, <1>8 DEF OpenRefused, OpenAcks, OpenReads, OpenEnds, ClientSends
    <2>2. QED
        BY <1>3, <1>5, <2>1
<1>10. ClientTakesOpen => open = "none"
    BY DEF ClientTakesOpen, ClientReceives, Handshake, TypeOK
<1> USE DEF Next, PumpStep, DrainStep, ServerReaderStep, ClientReaderStep, OpenStep, vars,
           publicVars, serverVars, clientVars, PumpOpens, PumpReady, PumpGivesUp, PumpReads,
           PumpReadFails, PumpIdles, PumpCloses, PumpLeaves, PumpEnds, DrainWrites,
           DrainWriteFails, DrainEnds, ServerTakesReady, ServerTakesData, ServerTakesClose,
           ReaderEnqueues, ReaderDrops, ReaderTimesOut, ServerDisconnects, ServerReceives,
           ClientReceives, ClientTakesOpen, ClientTakesData, ClientWriteFails,
           ClientTakesClose, ClientDisconnects, ClientCloses, OpenRefused, OpenDials,
           OpenRegisters, OpenAcks, OpenReads, OpenReadFails, OpenIdles, OpenLeaves,
           OpenEnds, PublicLeaves, LocalLeaves
<1>11. \/ toServer' = toServer /\ (open = "gone" => open' = "gone")
       \/ toServer # <<>> /\ toServer' = Tail(toServer) /\ open' = open
       \/ toServer' = <<>>
       \/ OpenRefused \/ OpenAcks \/ OpenReads \/ OpenEnds
    BY <1>10
<1>12. QED
    BY <1>3, <1>4, <1>6, <1>9, <1>11

\* The client's close, taken by the server: nothing is left behind it.
LEMMA AllHaveCome ==
    ASSUME TypeOK, Handshake, DownFlow, AnswersLast, Orderly,
           ServerTakesClose, pr.pending, drain # "gone"
    PROVE  open = "gone" /\ Len(pubGot) + Len(pr.data) = down
<1>1. toServer # <<>> /\ Head(toServer).type = "close" /\ toServer \in Seq(Frame) /\ taken = 0
    BY DEF ServerTakesClose, ServerReceives, TypeOK
<1>2. 1 \in 1..Len(toServer) /\ toServer[1].type = "close"
    BY <1>1, TailShifts
<1>3. Len(toServer) = 1 /\ open = "gone"
    BY <1>2 DEF AnswersLast
<1>4. \A i \in 1..Len(toServer) : ~IsData(toServer[i])
    BY <1>2, <1>3 DEF IsData
<1>5. Carries(toServer, Received, down) /\ Received <= down
    BY DEF DownFlow, Streaming, Coming, Orderly, LinksUp
<1>6. /\ Received \in Nat /\ down \in Nat /\ Received = Len(pubGot) + Len(pr.data)
    BY <1>1, RelayAssumption DEF TypeOK, PendingReq, Received
<1>7. Received = down
    BY <1>1, <1>4, <1>5, <1>6, NothingCarried
<1>8. QED
    BY <1>3, <1>6, <1>7

LEMMA DownEndStep ==
    ASSUME TypeOK, OpenShape, Handshake, DownFlow, DownEnd, [Next]_vars
    PROVE  DownEnd'
<1>1. AnswersLast'
    BY AnswerStaysLast DEF DownEnd
<1> SUFFICES ASSUME Orderly', pub' = "open"
             PROVE  (/\ pr.closed =>
                           /\ open = "gone" /\ taken = 0
                           /\ IF drain = "gone" THEN pubConn = "closed"
                              ELSE Len(pubGot) + Len(pr.data) = down
                     /\ drain = "gone" \/ pump = "close" \/ PumpOver => pubConn = "closed"
                     /\ pubConn = "closed" => Len(pubGot) = down /\ open = "gone")'
    BY <1>1 DEF DownEnd
<1>2. Orderly /\ sLink' /\ cLink' = "up" /\ cut' = "none" /\ sLink /\ cLink = "up" /\ cut = "none"
    BY OrderlyWas
<1>3. pub = "open" /\ (pubConn = "closed" => pubConn' = "closed")
    BY DEF Next, PumpStep, DrainStep, ServerReaderStep, ClientReaderStep, OpenStep, vars,
       publicVars, serverVars, clientVars, PumpOpens, PumpReady, PumpGivesUp, PumpReads,
       PumpReadFails, PumpIdles, PumpCloses, PumpLeaves, PumpEnds, DrainWrites,
       DrainWriteFails, DrainEnds, ServerTakesReady, ServerTakesData, ServerTakesClose,
       ReaderEnqueues, ReaderDrops, ReaderTimesOut, ServerDisconnects, ServerReceives,
       ClientReceives, ClientTakesOpen, ClientTakesData, ClientWriteFails,
       ClientTakesClose, ClientDisconnects, ClientCloses, OpenRefused, OpenDials,
       OpenRegisters, OpenAcks, OpenReads, OpenReadFails, OpenIdles, OpenLeaves,
       OpenEnds, PublicLeaves, LocalLeaves
<1>4. /\ drain = "gone" \/ pump = "close" \/ PumpOver => pubConn = "closed"
      /\ pubConn = "closed" => Len(pubGot) = down /\ open = "gone"
    BY <1>2, <1>3 DEF DownEnd
<1>5. pr.closed => /\ open = "gone" /\ taken = 0
                   /\ IF drain = "gone" THEN pubConn = "closed"
                      ELSE Len(pubGot) + Len(pr.data) = down
    BY <1>2, <1>3 DEF DownEnd
<1>6. pr.done => pubConn = "closed"
    BY <1>2, <1>4 DEF Handshake, PumpOver
<1>7. /\ DrainWriteFails => pubConn = "closed"
      /\ DrainEnds => Len(pubGot) = down /\ open = "gone"
      /\ PumpEnds => pubConn = "closed"
    <2>1. DrainWriteFails => pubConn = "closed"
        BY <1>2, <1>3 DEF DrainWriteFails, TypeOK, Expired
    <2>2. PumpEnds => pubConn = "closed"
        BY <1>4 DEF PumpEnds, PumpOver
    <2>3. ASSUME DrainEnds PROVE Len(pubGot) = down /\ open = "gone"
        <3>1. CASE pr.closed /\ pr.data = <<>>
            <4>1. Len(pubGot) + 0 = down /\ open = "gone" /\ Len(pubGot) \in Nat
                BY <1>5, <2>3, <3>1 DEF DrainEnds, TypeOK
            <4>2. QED
                BY <4>1
        <3>2. CASE pr.done
            BY <1>4, <1>6, <3>2
        <3>3. QED
            BY <1>2, <2>3, <3>1, <3>2 DEF DrainEnds
    <2>4. QED
        BY <2>1, <2>2, <2>3
<1>8. /\ drain' = "gone" => drain = "gone" \/ pubConn' = "closed"
      /\ pump' = "close" => pump = "close" \/ pubConn' = "closed"
      /\ PumpOver' => PumpOver \/ pump = "close"
      /\ pubConn' = "closed" => pubConn = "closed" \/ DrainEnds
      /\ open = "gone" => open' = "gone" /\ down' = down
      /\ DrainWrites => pubConn = "open"
      /\ pubGot' = pubGot \/ DrainWrites
    <2>1. ClientTakesOpen => open = "none"
        BY DEF ClientTakesOpen, ClientReceives, Handshake, TypeOK
<2> USE DEF Next, PumpStep, DrainStep, ServerReaderStep, ClientReaderStep, OpenStep, vars,
               publicVars, serverVars, clientVars, PumpOpens, PumpReady, PumpGivesUp, PumpReads,
               PumpReadFails, PumpIdles, PumpCloses, PumpLeaves, PumpEnds, DrainWrites,
               DrainWriteFails, DrainEnds, ServerTakesReady, ServerTakesData, ServerTakesClose,
               ReaderEnqueues, ReaderDrops, ReaderTimesOut, ServerDisconnects, ServerReceives,
               ClientReceives, ClientTakesOpen, ClientTakesData, ClientWriteFails,
               ClientTakesClose, ClientDisconnects, ClientCloses, OpenRefused, OpenDials,
               OpenRegisters, OpenAcks, OpenReads, OpenReadFails, OpenIdles, OpenLeaves,
               OpenEnds, PublicLeaves, LocalLeaves
    <2>2. drain' = "gone" => drain = "gone" \/ pubConn' = "closed"
        OBVIOUS
    <2>3. pump' = "close" => pump = "close" \/ pubConn' = "closed"
        BY <1>2, <1>3 DEF Expired
    <2>4. PumpOver' => PumpOver \/ pump = "close"
        BY <1>2, <1>3 DEF Expired, PumpOver
    <2>5. pubConn' = "closed" => pubConn = "closed" \/ DrainEnds
        BY <1>7
    <2>6. open = "gone" => open' = "gone" /\ down' = down
        BY <2>1
    <2>7. (DrainWrites => pubConn = "open") /\ (pubGot' = pubGot \/ DrainWrites)
        OBVIOUS
    <2>8. QED
        BY <2>2, <2>3, <2>4, <2>5, <2>6, <2>7
<1>9. (drain = "gone" \/ pump = "close" \/ PumpOver => pubConn = "closed")'
    BY <1>3, <1>4, <1>8
<1>10. (pubConn = "closed" => Len(pubGot) = down /\ open = "gone")'
    <2>1. CASE pubConn = "closed"
        BY <1>4, <1>8, <2>1
    <2>2. CASE DrainEnds
        BY <1>7, <1>8, <2>2 DEF DrainEnds
    <2>3. QED
        BY <1>8, <2>1, <2>2
<1>11. ASSUME pr'.closed
       PROVE  (/\ open = "gone" /\ taken = 0
               /\ IF drain = "gone" THEN pubConn = "closed"
                  ELSE Len(pubGot) + Len(pr.data) = down)'
    <2>1. pr.closed \in BOOLEAN /\ pr.pending \in BOOLEAN
        BY DEF TypeOK, PendingReq
    <2>2. drain' # "gone" => drain # "gone"
        BY DownMoves
    <2>3. CASE pr.closed
        <3>1. open' = "gone" /\ down' = down
            BY <1>5, <1>8, <2>3
        <3>2. taken = 0 /\ ~pr.pending
            BY <1>5, <2>3 DEF Handshake
        <3>3. taken' = 0
            BY <3>2 DEF Next, PumpStep, DrainStep, ServerReaderStep, ClientReaderStep, OpenStep, vars,
               publicVars, serverVars, clientVars, PumpOpens, PumpReady, PumpGivesUp, PumpReads,
               PumpReadFails, PumpIdles, PumpCloses, PumpLeaves, PumpEnds, DrainWrites,
               DrainWriteFails, DrainEnds, ServerTakesReady, ServerTakesData, ServerTakesClose,
               ReaderEnqueues, ReaderDrops, ReaderTimesOut, ServerDisconnects, ServerReceives,
               ClientReceives, ClientTakesOpen, ClientTakesData, ClientWriteFails,
               ClientTakesClose, ClientDisconnects, ClientCloses, OpenRefused, OpenDials,
               OpenRegisters, OpenAcks, OpenReads, OpenReadFails, OpenIdles, OpenLeaves,
               OpenEnds, PublicLeaves, LocalLeaves
        <3>4. ASSUME drain' # "gone"
              PROVE  Len(pubGot') + Len(pr'.data) = Len(pubGot) + Len(pr.data)
            <4>1. CASE DrainWrites
                <5>1. pr.data # <<>> /\ pubGot' = Append(pubGot, Head(pr.data))
                      /\ pr'.data = Tail(pr.data)
                    BY <4>1, RequestMoves DEF DrainWrites
                <5>2. pr.data \in Seq(Nat) /\ pubGot \in Seq(Nat)
                    BY DEF TypeOK, PendingReq
                <5>3. /\ Len(pubGot') = Len(pubGot) + 1 /\ Len(pr'.data) = Len(pr.data) - 1
                      /\ Len(pubGot) \in Nat /\ Len(pr.data) \in Nat
                    BY <5>1, <5>2
                <5>4. \A x, y \in Nat : (x + 1) + (y - 1) = x + y
                    OBVIOUS
                <5>5. QED
                    BY <5>3, <5>4
            <4>2. CASE ~DrainWrites
                <5>1. pubGot' = pubGot
                    BY <1>8, <4>2
                <5>2. ~ReaderEnqueues
                    BY <3>2 DEF ReaderEnqueues
                <5>3. ~DrainWriteFails
                    BY <3>4 DEF DrainWriteFails
                <5>4. pr'.data = pr.data
                    BY <4>2, <5>2, <5>3, RequestMoves DEF SetsFlag, Flags
                <5>5. QED
                    BY <5>1, <5>4
            <4>3. QED
                BY <4>1, <4>2
        <3>5. drain' # "gone" => Len(pubGot') + Len(pr'.data) = down'
            BY <1>5, <2>2, <2>3, <3>1, <3>4
        <3>6. QED
            BY <1>9, <3>1, <3>3, <3>5
    <2>4. CASE ~pr.closed
        <3>1. SetsFlag
            BY <1>11, <2>4, RequestMoves DEF SameFlags
        <3>2. ~ReaderTimesOut
            BY <1>2 DEF ReaderTimesOut, Expired
        <3>3. ~ServerDisconnects
            BY <1>2 DEF ServerDisconnects
        <3>4. ServerTakesClose /\ pr.pending
            BY <1>11, <2>1, <2>4, <3>1, <3>2, <3>3, RequestMoves DEF SetsFlag, Flags
        <3>5. UNCHANGED <<open, taken, drain, pubConn, pubGot, down>> /\ taken = 0
            BY <3>4 DEF ServerTakesClose, ServerReceives, publicVars, clientVars
        <3>6. pr'.data = pr.data
            BY <3>4, RequestMoves DEF Flags
        <3>7. CASE drain = "gone"
            BY <1>4, <3>5, <3>7
        <3>8. CASE drain # "gone"
            BY <1>2, <3>4, <3>5, <3>6, <3>8, AllHaveCome DEF DownEnd
        <3>9. QED
            BY <3>7, <3>8
    <2>5. QED
        BY <2>1, <2>3, <2>4
<1>12. QED
    BY <1>9, <1>10, <1>11

-----------------------------------------------------------------------------
LEMMA RelayInvInit == Init => RelayInv
<1> SUFFICES ASSUME Init PROVE RelayInv
    OBVIOUS
<1> USE DEF Init
<1>1. /\ toClient = <<>> /\ toServer = <<>> /\ localGot = <<>> /\ pubGot = <<>>
      /\ pr.data = <<>> /\ taken = 0 /\ up = 0 /\ down = 0
      /\ Len(<<>>) = 0 /\ Carries(<<>>, 0, 0)
    BY EmptyCarries
<1>2. OpenShape /\ Handshake
    BY <1>1 DEF OpenShape, Handshake
<1>3. UpFlow
    BY <1>1 DEF UpFlow, InOrder
<1>4. Received = 0
    BY <1>1 DEF Received
<1>5. DownFlow
    BY <1>1, <1>4 DEF DownFlow, Streaming, Coming, InOrder
<1>6. UpEnd
    BY <1>1 DEF UpEnd, ClosesLast
<1>7. DownEnd
    BY <1>1 DEF DownEnd, AnswersLast, PumpOver
<1>8. QED
    BY <1>2, <1>3, <1>5, <1>6, <1>7 DEF RelayInv

LEMMA RelayInvHolds == Spec => [](TypeOK /\ RelayInv)
<1>1. Init => TypeOK /\ RelayInv
    BY TypeInit, RelayInvInit
<1>2. TypeOK /\ RelayInv /\ [Next]_vars => TypeOK' /\ RelayInv'
    BY TypeStep, OpenShapeStep, HandshakeStep, UpFlowStep, DownFlowStep, UpEndStep,
       DownEndStep DEF RelayInv
<1>3. QED
    BY <1>1, <1>2, PTL DEF Spec

(***************************************************************************)
(* Whatever interleaving of pump, drain, readers and handleTCPOpen, with   *)
(* any number of chunks and any channel size, and whichever deadline       *)
(* expires or link fails: the local application receives a prefix of what  *)
(* was read from the public peer, and the public peer a prefix of what was *)
(* read from the local application.                                        *)
(***************************************************************************)
THEOREM PeersReceivePrefixes == Spec => []BothArePrefixes
<1>1. RelayInv => BothArePrefixes
    BY DEF RelayInv, UpFlow, DownFlow, BothArePrefixes, UpIsPrefix, DownIsPrefix
<1>2. QED
    BY <1>1, RelayInvHolds, PTL

(***************************************************************************)
(* A connection the code closes while its peer is still there, with the    *)
(* links up and no deadline expired, has been given every chunk: the close *)
(* frame of either side is behind all its data, and each channel is        *)
(* emptied before its connection is closed.                                *)
(***************************************************************************)
THEOREM NothingIsLost == Spec => []CloseLosesNothing
<1>1. RelayInv => CloseLosesNothing
    BY DEF RelayInv, UpEnd, DownEnd, Orderly, CloseLosesNothing
<1>2. QED
    BY <1>1, RelayInvHolds, PTL
=============================================================================
