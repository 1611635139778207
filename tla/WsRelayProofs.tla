--------------------------- MODULE WsRelayProofs ---------------------------
(***************************************************************************)
(* The WebSocket relay gives the user a prefix of what the local           *)
(* application sent, and all of it when it ends in order; and the          *)
(* application a prefix of what the user sent, if none of it overtakes the *)
(* registration of the relay: for every number of chunks and every buffer  *)
(* size.                                                                   *)
(***************************************************************************)
EXTENDS WsRelay, StreamFramesProofs

-----------------------------------------------------------------------------
(***************************************************************************)
(* The inductive invariant.  First handleWebSocketReq: what it has done to *)
(* its relay and its connection, by where it is.                           *)
(***************************************************************************)
ClientShape ==
    /\ ws = "dial" => conn = "none" /\ ~relay.held /\ ~relay.done
    /\ ws = "register" => conn = "open" /\ ~relay.held /\ ~relay.done
    /\ ws \in {"run", "leave"} =>
          \/ conn = "open" /\ relay.held /\ ~relay.done
          \/ conn = "closed" /\ relay.done
    /\ ws = "gone" =>
          \/ conn = "none" /\ ~relay.held /\ ~relay.done
          \/ conn = "closed" /\ ~relay.held /\ relay.done

(***************************************************************************)
(* The handshake: nothing comes from the client before it has answered the *)
(* request, and nothing goes to it before the server has the answer.       *)
(***************************************************************************)
Handshake ==
    /\ toServer # <<>> \/ toClient # <<>> \/ taken # 0 \/ pr.status # "none" => ws # "dial"
    /\ from # "none" => pr.status # "none"
    /\ serve = "await" => from = "none" /\ to = "none"
    /\ pr.pending => link /\ ~pr.done /\ ~pr.closed
    /\ ~link => toClient = <<>> /\ toServer = <<>>

\* A chunk that arrives once the relay is registered will be written.
Delivering ==
    link /\ local = "open" /\ conn # "closed" /\ ~relay.done /\ ws # "gone"

\* The chunks behind the written ones are under way, up to the last one read.
UpFlow ==
    ~early =>
        /\ InOrder(localGot) /\ Len(localGot) <= up
        /\ Delivering => Carries(toClient, Len(localGot), up)

\* The number of chunks that have left the WebSocket on the server.
Received == Len(pubGot) + Len(pr.data) + (IF taken = 0 THEN 0 ELSE 1)

\* The channel holds the chunks behind the written ones, then comes `taken'.
Streaming ==
    /\ \A i \in 1..Len(pr.data) : pr.data[i] = Len(pubGot) + i
    /\ taken # 0 => taken = Len(pubGot) + Len(pr.data) + 1
    /\ Received <= down

DownFlow ==
    /\ InOrder(pubGot) /\ Len(pubGot) <= down
    /\ to # "gone" => Streaming /\ (pr.pending => Carries(toServer, Received, down))

\* An orderly run so far: the tunnel is up and no deadline expired.
Orderly == link /\ ~cut

\* The client's close is its last frame.
AnswersLast ==
    \A i \in 1..Len(toServer) : toServer[i].type = "close" => i = Len(toServer) /\ ws = "gone"

(***************************************************************************)
(* An orderly end: the channel is closed behind the client's close, and    *)
(* the user's connection when the channel is empty.                        *)
(***************************************************************************)
DownEnd ==
    /\ AnswersLast
    /\ Orderly /\ pub = "open" =>
          /\ pr.closed =>
                /\ ws = "gone" /\ taken = 0
                /\ to # "gone" => Len(pubGot) + Len(pr.data) = down
          /\ to = "gone" => pubConn = "closed"
          /\ pubConn = "closed" => Len(pubGot) = down /\ ws = "gone"

RelayInv == ClientShape /\ Handshake /\ UpFlow /\ DownFlow /\ DownEnd

-----------------------------------------------------------------------------
LEMMA FramesAreFrames ==
    /\ Msg("close") \in ToClientFrame
    /\ \A n \in 1..NumUp : Data(n) \in ToClientFrame
    /\ \A t \in {"101", "other", "close"} : Msg(t) \in ToServerFrame
    /\ \A n \in 1..NumDown : Data(n) \in ToServerFrame
    /\ \A t \in {"101", "other", "close"} : Msg(t).type = t /\ ~IsData(Msg(t))
    /\ \A n : Data(n).type = "data" /\ Data(n).chunk = n /\ IsData(Data(n))
BY DEF ToClientFrame, ToServerFrame, Msg, Data, IsData

LEMMA ChunksOfFrames ==
    /\ \A f \in ToClientFrame : f.type = "data" => f.chunk \in 1..NumUp
    /\ \A f \in ToServerFrame : f.type = "data" => f.chunk \in 1..NumDown
    /\ \A f \in ToServerFrame : f.type \in {"101", "other", "close", "data"}
BY DEF ToClientFrame, ToServerFrame, Msg, Data

\* Taking from a queue and adding to it, whatever it holds.
LEMMA QueueTypes ==
    ASSUME NEW S, NEW q \in Seq(S)
    PROVE  /\ q # <<>> => /\ Head(q) \in S /\ Tail(q) \in Seq(S)
                          /\ Len(Tail(q)) = Len(q) - 1
           /\ \A x \in S : Append(q, x) \in Seq(S) /\ Len(Append(q, x)) = Len(q) + 1
           /\ Len(q) \in Nat
OBVIOUS

(***************************************************************************)
(* What the assignments to the two records leave in their fields.          *)
(***************************************************************************)
LEMMA RelayFields ==
    ASSUME NEW r \in StreamRelay
    PROVE  /\ [r EXCEPT !.held = TRUE] \in StreamRelay
           /\ [r EXCEPT !.done = TRUE] \in StreamRelay
           /\ [held |-> FALSE, done |-> TRUE] \in StreamRelay
           /\ [r EXCEPT !.held = TRUE].held /\ [r EXCEPT !.held = TRUE].done = r.done
           /\ [r EXCEPT !.done = TRUE].held = r.held /\ [r EXCEPT !.done = TRUE].done
           /\ ~[held |-> FALSE, done |-> TRUE].held /\ [held |-> FALSE, done |-> TRUE].done
           /\ r.held \in BOOLEAN /\ r.done \in BOOLEAN
BY DEF StreamRelay

\* The fields of a request.
Flags(s, pending, status, done, closed) ==
    s.pending = pending /\ s.status = status /\ s.done = done /\ s.closed = closed

SameFlags(s, r) == Flags(s, r.pending, r.status, r.done, r.closed)

LEMMA RequestFields ==
    ASSUME NEW r \in PendingReq
    PROVE  /\ \A t \in {"101", "other"} :
                 LET s == [r EXCEPT !.status = t]
                 IN  s \in PendingReq /\ s.data = r.data /\ Flags(s, r.pending, t, r.done, r.closed)
           /\ LET s == [r EXCEPT !.pending = FALSE, !.done = TRUE]
              IN  s \in PendingReq /\ s.data = r.data /\ Flags(s, FALSE, r.status, TRUE, r.closed)
           /\ LET s == [r EXCEPT !.pending = FALSE, !.closed = TRUE]
              IN  s \in PendingReq /\ s.data = r.data /\ Flags(s, FALSE, r.status, r.done, TRUE)
           /\ LET s == [r EXCEPT !.pending = FALSE, !.closed = TRUE, !.done = TRUE]
              IN  s \in PendingReq /\ s.data = r.data /\ Flags(s, FALSE, r.status, TRUE, TRUE)
           /\ \A q \in Seq(1..NumDown) :
                 LET s == [r EXCEPT !.data = q]
                 IN  s \in PendingReq /\ s.data = q /\ SameFlags(s, r)
           /\ r.pending \in BOOLEAN /\ r.done \in BOOLEAN /\ r.closed \in BOOLEAN
           /\ r.status \in {"none", "101", "other"} /\ r.data \in Seq(1..NumDown)
BY DEF PendingReq, Flags, SameFlags

(***************************************************************************)
(* What a step does to the pendingReq, by the actions that change it.      *)
(***************************************************************************)
SetsFlag == Finish \/ ServerTakesResponse \/ ServerGivesUp \/ ServerTakesClose \/ LinkLost

MovesData == ToWrites \/ ToFails \/ ServerEnqueues

LEMMA RequestMoves ==
    ASSUME TypeOK, [Next]_vars
    PROVE  /\ Finish => Flags(pr', FALSE, pr.status, TRUE, pr.closed)
           /\ ServerTakesResponse =>
                 \/ pr' = pr
                 \/ /\ pr.pending
                    /\ Flags(pr', TRUE, Head(toServer).type, pr.done, pr.closed)
           /\ ServerGivesUp => Flags(pr', FALSE, pr.status, pr.done, TRUE)
           /\ ServerTakesClose =>
                 IF pr.pending THEN Flags(pr', FALSE, pr.status, pr.done, TRUE) ELSE pr' = pr
           /\ LinkLost =>
                 IF pr.pending THEN Flags(pr', FALSE, pr.status, TRUE, TRUE) ELSE pr' = pr
           /\ ToWrites \/ ToFails => pr'.data = Tail(pr.data)
           /\ ServerEnqueues => pr'.data = Append(pr.data, taken)
           /\ SetsFlag \/ MovesData \/ pr' = pr
           /\ ~SetsFlag => SameFlags(pr', pr)
           /\ SetsFlag \/ ~MovesData => pr'.data = pr.data
           /\ pr' \in PendingReq /\ Len(pr'.data) <= RelayBuf
<1>1. /\ pr \in PendingReq /\ pr.data \in Seq(1..NumDown) /\ Len(pr.data) <= RelayBuf
      /\ pr.pending \in BOOLEAN /\ taken \in 0..NumDown /\ RelayBuf \in Nat
    BY RequestFields, WsAssumption DEF TypeOK
<1>2. /\ \A t \in {"101", "other"} :
            LET s == [pr EXCEPT !.status = t]
            IN  s \in PendingReq /\ s.data = pr.data /\ Flags(s, pr.pending, t, pr.done, pr.closed)
      /\ LET s == [pr EXCEPT !.pending = FALSE, !.done = TRUE]
         IN  s \in PendingReq /\ s.data = pr.data /\ Flags(s, FALSE, pr.status, TRUE, pr.closed)
      /\ LET s == [pr EXCEPT !.pending = FALSE, !.closed = TRUE]
         IN  s \in PendingReq /\ s.data = pr.data /\ Flags(s, FALSE, pr.status, pr.done, TRUE)
      /\ LET s == [pr EXCEPT !.pending = FALSE, !.closed = TRUE, !.done = TRUE]
         IN  s \in PendingReq /\ s.data = pr.data /\ Flags(s, FALSE, pr.status, TRUE, TRUE)
    BY <1>1, RequestFields
<1>3. Finish => /\ Flags(pr', FALSE, pr.status, TRUE, pr.closed)
                /\ pr' \in PendingReq /\ pr'.data = pr.data
    BY <1>2 DEF Finish
<1>4. ServerTakesResponse =>
        /\ \/ pr' = pr
           \/ pr.pending /\ Flags(pr', TRUE, Head(toServer).type, pr.done, pr.closed)
        /\ pr' \in PendingReq /\ pr'.data = pr.data
    BY <1>1, <1>2 DEF ServerTakesResponse, ServerReceives
<1>5. ServerGivesUp => /\ Flags(pr', FALSE, pr.status, pr.done, TRUE)
                       /\ pr' \in PendingReq /\ pr'.data = pr.data
    BY <1>2 DEF ServerGivesUp
<1>6. ServerTakesClose =>
        /\ IF pr.pending THEN Flags(pr', FALSE, pr.status, pr.done, TRUE) ELSE pr' = pr
        /\ pr' \in PendingReq /\ pr'.data = pr.data
    BY <1>1, <1>2 DEF ServerTakesClose
<1>7. LinkLost =>
        /\ IF pr.pending THEN Flags(pr', FALSE, pr.status, TRUE, TRUE) ELSE pr' = pr
        /\ pr' \in PendingReq /\ pr'.data = pr.data
    BY <1>1, <1>2 DEF LinkLost
<1>8. ToWrites \/ ToFails => /\ pr'.data = Tail(pr.data) /\ SameFlags(pr', pr)
                             /\ pr' \in PendingReq /\ Len(pr'.data) <= RelayBuf
    <2> SUFFICES ASSUME ToWrites \/ ToFails
                 PROVE  /\ pr'.data = Tail(pr.data) /\ SameFlags(pr', pr)
                        /\ pr' \in PendingReq /\ Len(pr'.data) <= RelayBuf
        OBVIOUS
    <2>1. pr.data # <<>> /\ pr' = [pr EXCEPT !.data = Tail(pr.data)]
        BY DEF ToWrites, ToFails
    <2>2. Tail(pr.data) \in Seq(1..NumDown) /\ Len(Tail(pr.data)) <= RelayBuf
        <3>1. Tail(pr.data) \in Seq(1..NumDown) /\ Len(Tail(pr.data)) = Len(pr.data) - 1
            BY <1>1, <2>1, QueueTypes
        <3>2. Len(pr.data) \in Nat
            BY <1>1, QueueTypes
        <3>3. QED
            BY <1>1, <3>1, <3>2
    <2>3. QED
        BY <1>1, <2>1, <2>2, RequestFields
<1>9. ServerEnqueues => /\ pr'.data = Append(pr.data, taken) /\ SameFlags(pr', pr)
                        /\ pr' \in PendingReq /\ Len(pr'.data) <= RelayBuf
    <2> SUFFICES ASSUME ServerEnqueues
                 PROVE  /\ pr'.data = Append(pr.data, taken) /\ SameFlags(pr', pr)
                        /\ pr' \in PendingReq /\ Len(pr'.data) <= RelayBuf
        OBVIOUS
    <2>1. /\ taken \in 1..NumDown /\ Len(pr.data) < RelayBuf
          /\ pr' = [pr EXCEPT !.data = Append(pr.data, taken)]
        BY <1>1, WsAssumption DEF ServerEnqueues
    <2>2. Append(pr.data, taken) \in Seq(1..NumDown) /\ Len(Append(pr.data, taken)) <= RelayBuf
        BY <1>1, <2>1
    <2>3. QED
        BY <1>1, <2>1, <2>2, RequestFields
<1>10. SetsFlag \/ MovesData \/ pr' = pr
    BY DEF SetsFlag, MovesData, Next, ServeStep, ToStep, ServerReaderStep,
           ClientReaderStep, RelayStep, vars, publicVars, serverVars, clientVars,
           AwaitEnds, AwaitTimesOut, FromReads, FromEnds, FromIdles, ToWrites, ToFails,
           ToEnds, RelayEnds, Finish, ServerReceives, ServerTakesResponse, ServerTakesData,
           ServerEnqueues, ServerDrops, ServerGivesUp, ServerTakesClose, LinkLost,
           ClientReceives, ClientTakesData, ClientWriteFails, ClientTakesClose,
           UpgradeFails, UpgradeAnswered, RelayRegisters, RelayReads, RelayReadFails,
           RelayIdles, RelayLeaves, PublicLeaves, LocalLeaves
<1>11. pr' = pr => SameFlags(pr', pr) /\ pr'.data = pr.data
    BY DEF SameFlags, Flags
<1>12. QED
    BY <1>1, <1>3, <1>4, <1>5, <1>6, <1>7, <1>8, <1>9, <1>10, <1>11 DEF SetsFlag, MovesData

-----------------------------------------------------------------------------
LEMMA TypeInit == Init => TypeOK
<1>1. /\ <<>> \in Seq(1..NumDown) /\ <<>> \in Seq(1..NumUp) /\ Len(<<>>) = 0
      /\ <<>> \in Seq(ToClientFrame) /\ <<>> \in Seq(ToServerFrame)
    OBVIOUS
<1>2. ASSUME Init PROVE pr \in PendingReq /\ Len(pr.data) <= RelayBuf
    BY <1>1, <1>2, WsAssumption DEF Init, PendingReq
<1>3. ASSUME Init PROVE relay \in StreamRelay
    BY <1>3 DEF Init, StreamRelay
<1>4. Init => up \in 0..NumUp /\ down \in 0..NumDown /\ taken \in 0..NumDown
    BY WsAssumption DEF Init
<1>5. QED
    BY <1>1, <1>2, <1>3, <1>4 DEF Init, TypeOK

(***************************************************************************)
(* A frame is sent, one is taken, or all are lost.                         *)
(***************************************************************************)
LEMMA FramesMove ==
    ASSUME TypeOK, [Next]_vars
    PROVE  toClient' \in Seq(ToClientFrame) /\ toServer' \in Seq(ToServerFrame)
<1>1. /\ toClient \in Seq(ToClientFrame) /\ toServer \in Seq(ToServerFrame)
      /\ <<>> \in Seq(ToClientFrame) /\ <<>> \in Seq(ToServerFrame)
    BY DEF TypeOK
<1>2. /\ toClient # <<>> => Tail(toClient) \in Seq(ToClientFrame)
      /\ toServer # <<>> => Tail(toServer) \in Seq(ToServerFrame)
    BY <1>1
<1>3. \A f \in ToClientFrame : Append(toClient, f) \in Seq(ToClientFrame)
    BY <1>1
<1>4. \A f \in ToServerFrame : Append(toServer, f) \in Seq(ToServerFrame)
    BY <1>1
<1>5. /\ up < NumUp => Data(up + 1) \in ToClientFrame
      /\ down < NumDown => Data(down + 1) \in ToServerFrame
    <2>1. /\ up < NumUp => up + 1 \in 1..NumUp
          /\ down < NumDown => down + 1 \in 1..NumDown
        BY WsAssumption DEF TypeOK
    <2>2. QED
        BY <2>1, FramesAreFrames
<1>6. /\ Msg("close") \in ToClientFrame
      /\ Msg("101") \in ToServerFrame /\ Msg("other") \in ToServerFrame
      /\ Msg("close") \in ToServerFrame
    BY FramesAreFrames
<1> USE DEF Next, ServeStep, ToStep, ServerReaderStep, ClientReaderStep, RelayStep, vars,
       publicVars, serverVars, clientVars, AwaitEnds, AwaitTimesOut, FromReads, FromEnds,
       FromIdles, ToWrites, ToFails, ToEnds, RelayEnds, Finish, ServerReceives,
       ServerTakesResponse, ServerTakesData, ServerEnqueues, ServerDrops, ServerGivesUp,
       ServerTakesClose, LinkLost, ClientReceives, ClientTakesData, ClientWriteFails,
       ClientTakesClose, UpgradeFails, UpgradeAnswered, RelayRegisters, RelayReads,
       RelayReadFails, RelayIdles, RelayLeaves, PublicLeaves, LocalLeaves, ServerSends,
       ClientSends
<1>7. toClient' \in Seq(ToClientFrame)
    BY <1>1, <1>2, <1>3, <1>5, <1>6
<1>8. toServer' \in Seq(ToServerFrame)
    BY <1>1, <1>2, <1>4, <1>5, <1>6
<1>9. QED
    BY <1>7, <1>8

LEMMA TypeStep ==
    ASSUME TypeOK, [Next]_vars
    PROVE  TypeOK'
<1>1. toClient' \in Seq(ToClientFrame) /\ toServer' \in Seq(ToServerFrame)
    BY FramesMove
<1>2. pr' \in PendingReq /\ Len(pr'.data) <= RelayBuf
    BY RequestMoves
<1>3. /\ toClient # <<>> /\ Head(toClient).type = "data" => Head(toClient).chunk \in 1..NumUp
      /\ toServer # <<>> /\ Head(toServer).type = "data" => Head(toServer).chunk \in 1..NumDown
    <2>1. /\ toClient # <<>> => Head(toClient) \in ToClientFrame
          /\ toServer # <<>> => Head(toServer) \in ToServerFrame
        BY DEF TypeOK
    <2>2. QED
        BY <2>1, ChunksOfFrames
<1>4. pr.data \in Seq(1..NumDown) /\ (pr.data # <<>> => Head(pr.data) \in 1..NumDown)
    <2>1. pr.data \in Seq(1..NumDown)
        BY RequestFields DEF TypeOK
    <2>2. QED
        BY <2>1, QueueTypes
<1>5. pubGot' \in Seq(1..NumDown)
    <2>1. pubGot' = pubGot \/ ToWrites
        BY DEF Next, ServeStep, ToStep, ServerReaderStep, ClientReaderStep, RelayStep,
               vars, publicVars, serverVars, clientVars, AwaitEnds, AwaitTimesOut,
               FromReads, FromEnds, FromIdles, ToWrites, ToFails, ToEnds, RelayEnds,
               Finish, ServerReceives, ServerTakesResponse, ServerTakesData,
               ServerEnqueues, ServerDrops, ServerGivesUp, ServerTakesClose, LinkLost,
               ClientReceives, ClientTakesData, ClientWriteFails, ClientTakesClose,
               UpgradeFails, UpgradeAnswered, RelayRegisters, RelayReads, RelayReadFails,
               RelayIdles, RelayLeaves, PublicLeaves, LocalLeaves
    <2>2. pubGot \in Seq(1..NumDown)
        BY DEF TypeOK
    <2>3. ToWrites => pubGot' \in Seq(1..NumDown)
        BY <1>4, <2>2 DEF ToWrites
    <2>4. QED
        BY <2>1, <2>2, <2>3
<1>6. localGot' \in Seq(1..NumUp)
    <2>1. localGot' = localGot \/ ClientTakesData
        BY DEF Next, ServeStep, ToStep, ServerReaderStep, ClientReaderStep, RelayStep,
               vars, publicVars, serverVars, clientVars, AwaitEnds, AwaitTimesOut,
               FromReads, FromEnds, FromIdles, ToWrites, ToFails, ToEnds, RelayEnds,
               Finish, ServerReceives, ServerTakesResponse, ServerTakesData,
               ServerEnqueues, ServerDrops, ServerGivesUp, ServerTakesClose, LinkLost,
               ClientReceives, ClientTakesData, ClientWriteFails, ClientTakesClose,
               UpgradeFails, UpgradeAnswered, RelayRegisters, RelayReads, RelayReadFails,
               RelayIdles, RelayLeaves, PublicLeaves, LocalLeaves
    <2>2. localGot \in Seq(1..NumUp)
        BY DEF TypeOK
    <2>3. ClientTakesData => localGot' \in Seq(1..NumUp)
        <3> SUFFICES ASSUME ClientTakesData PROVE localGot' \in Seq(1..NumUp)
            OBVIOUS
        <3>1. /\ toClient # <<>> /\ Head(toClient).type = "data"
              /\ localGot' = localGot \/ localGot' = Append(localGot, Head(toClient).chunk)
            BY DEF ClientTakesData, ClientReceives
        <3>2. QED
            BY <1>3, <2>2, <3>1, QueueTypes
    <2>4. QED
        BY <2>1, <2>2, <2>3
<1>7. taken' \in 0..NumDown
    <2>1. taken' = taken \/ taken' = 0 \/ ServerTakesData
        BY DEF Next, ServeStep, ToStep, ServerReaderStep, ClientReaderStep, RelayStep,
               vars, publicVars, serverVars, clientVars, AwaitEnds, AwaitTimesOut,
               FromReads, FromEnds, FromIdles, ToWrites, ToFails, ToEnds, RelayEnds,
               Finish, ServerReceives, ServerTakesResponse, ServerTakesData,
               ServerEnqueues, ServerDrops, ServerGivesUp, ServerTakesClose, LinkLost,
               ClientReceives, ClientTakesData, ClientWriteFails, ClientTakesClose,
               UpgradeFails, UpgradeAnswered, RelayRegisters, RelayReads, RelayReadFails,
               RelayIdles, RelayLeaves, PublicLeaves, LocalLeaves
    <2>2. ServerTakesData => taken' \in 0..NumDown
        BY <1>3, WsAssumption DEF ServerTakesData, ServerReceives
    <2>3. QED
        BY <2>1, <2>2, WsAssumption DEF TypeOK
<1>8. up' \in 0..NumUp /\ down' \in 0..NumDown
    <2>1. /\ up' = up \/ (up < NumUp /\ up' = up + 1)
          /\ down' = down \/ (down < NumDown /\ down' = down + 1)
        BY DEF Next, ServeStep, ToStep, ServerReaderStep, ClientReaderStep, RelayStep,
               vars, publicVars, serverVars, clientVars, AwaitEnds, AwaitTimesOut,
               FromReads, FromEnds, FromIdles, ToWrites, ToFails, ToEnds, RelayEnds,
               Finish, ServerReceives, ServerTakesResponse, ServerTakesData,
               ServerEnqueues, ServerDrops, ServerGivesUp, ServerTakesClose, LinkLost,
               ClientReceives, ClientTakesData, ClientWriteFails, ClientTakesClose,
               UpgradeFails, UpgradeAnswered, RelayRegisters, RelayReads, RelayReadFails,
               RelayIdles, RelayLeaves, PublicLeaves, LocalLeaves
    <2>2. QED
        BY <2>1, WsAssumption DEF TypeOK
<1>9. relay' \in StreamRelay
    <2>1. \/ relay' = relay \/ relay' = [relay EXCEPT !.held = TRUE]
          \/ relay' = [relay EXCEPT !.done = TRUE] \/ relay' = [held |-> FALSE, done |-> TRUE]
        BY DEF Next, ServeStep, ToStep, ServerReaderStep, ClientReaderStep, RelayStep,
               vars, publicVars, serverVars, clientVars, AwaitEnds, AwaitTimesOut,
               FromReads, FromEnds, FromIdles, ToWrites, ToFails, ToEnds, RelayEnds,
               Finish, ServerReceives, ServerTakesResponse, ServerTakesData,
               ServerEnqueues, ServerDrops, ServerGivesUp, ServerTakesClose, LinkLost,
               ClientReceives, ClientTakesData, ClientWriteFails, ClientTakesClose,
               UpgradeFails, UpgradeAnswered, RelayRegisters, RelayReads, RelayReadFails,
               RelayIdles, RelayLeaves, PublicLeaves, LocalLeaves
    <2>2. /\ relay \in StreamRelay /\ [relay EXCEPT !.held = TRUE] \in StreamRelay
          /\ [relay EXCEPT !.done = TRUE] \in StreamRelay
          /\ [held |-> FALSE, done |-> TRUE] \in StreamRelay
        BY RelayFields DEF TypeOK
    <2>3. QED
        BY <2>1, <2>2
<1>10. (/\ pub \in {"open", "gone"} /\ pubConn \in {"open", "closed"}
        /\ serve \in {"await", "relay", "finish", "done"}
        /\ from \in {"none", "run", "gone"} /\ to \in {"none", "run", "gone"})'
    BY DEF TypeOK, Next, ServeStep, ToStep, ServerReaderStep, ClientReaderStep, RelayStep,
           vars, publicVars, serverVars, clientVars, AwaitEnds, AwaitTimesOut, FromReads,
           FromEnds, FromIdles, ToWrites, ToFails, ToEnds, RelayEnds, Finish,
           ServerReceives, ServerTakesResponse, ServerTakesData, ServerEnqueues,
           ServerDrops, ServerGivesUp, ServerTakesClose, LinkLost, ClientReceives,
           ClientTakesData, ClientWriteFails, ClientTakesClose, UpgradeFails,
           UpgradeAnswered, RelayRegisters, RelayReads, RelayReadFails, RelayIdles,
           RelayLeaves, PublicLeaves, LocalLeaves
<1>11. link' \in BOOLEAN /\ early' \in BOOLEAN
    BY DEF TypeOK, Next, ServeStep, ToStep, ServerReaderStep, ClientReaderStep, RelayStep,
           vars, publicVars, serverVars, clientVars, AwaitEnds, AwaitTimesOut, FromReads,
           FromEnds, FromIdles, ToWrites, ToFails, ToEnds, RelayEnds, Finish,
           ServerReceives, ServerTakesResponse, ServerTakesData, ServerEnqueues,
           ServerDrops, ServerGivesUp, ServerTakesClose, LinkLost, ClientReceives,
           ClientTakesData, ClientWriteFails, ClientTakesClose, UpgradeFails,
           UpgradeAnswered, RelayRegisters, RelayReads, RelayReadFails, RelayIdles,
           RelayLeaves, PublicLeaves, LocalLeaves
<1>12. cut' \in BOOLEAN
    BY DEF TypeOK, Next, ServeStep, ToStep, ServerReaderStep, ClientReaderStep, RelayStep,
           vars, publicVars, serverVars, clientVars, AwaitEnds, AwaitTimesOut, FromReads,
           FromEnds, FromIdles, ToWrites, ToFails, ToEnds, RelayEnds, Finish,
           ServerReceives, ServerTakesResponse, ServerTakesData, ServerEnqueues,
           ServerDrops, ServerGivesUp, ServerTakesClose, LinkLost, ClientReceives,
           ClientTakesData, ClientWriteFails, ClientTakesClose, UpgradeFails,
           UpgradeAnswered, RelayRegisters, RelayReads, RelayReadFails, RelayIdles,
           RelayLeaves, PublicLeaves, LocalLeaves
<1>13. ws' \in {"dial", "register", "run", "leave", "gone"}
    BY DEF TypeOK, Next, ServeStep, ToStep, ServerReaderStep, ClientReaderStep, RelayStep,
           vars, publicVars, serverVars, clientVars, AwaitEnds, AwaitTimesOut, FromReads,
           FromEnds, FromIdles, ToWrites, ToFails, ToEnds, RelayEnds, Finish,
           ServerReceives, ServerTakesResponse, ServerTakesData, ServerEnqueues,
           ServerDrops, ServerGivesUp, ServerTakesClose, LinkLost, ClientReceives,
           ClientTakesData, ClientWriteFails, ClientTakesClose, UpgradeFails,
           UpgradeAnswered, RelayRegisters, RelayReads, RelayReadFails, RelayIdles,
           RelayLeaves, PublicLeaves, LocalLeaves
<1>14. local' \in {"open", "gone"} /\ conn' \in {"none", "open", "closed"}
    BY DEF TypeOK, Next, ServeStep, ToStep, ServerReaderStep, ClientReaderStep, RelayStep,
           vars, publicVars, serverVars, clientVars, AwaitEnds, AwaitTimesOut, FromReads,
           FromEnds, FromIdles, ToWrites, ToFails, ToEnds, RelayEnds, Finish,
           ServerReceives, ServerTakesResponse, ServerTakesData, ServerEnqueues,
           ServerDrops, ServerGivesUp, ServerTakesClose, LinkLost, ClientReceives,
           ClientTakesData, ClientWriteFails, ClientTakesClose, UpgradeFails,
           UpgradeAnswered, RelayRegisters, RelayReads, RelayReadFails, RelayIdles,
           RelayLeaves, PublicLeaves, LocalLeaves
<1>15. QED
    BY <1>1, <1>2, <1>5, <1>6, <1>7, <1>8, <1>9, <1>10, <1>11, <1>12, <1>13, <1>14 DEF TypeOK

(***************************************************************************)
(* Every variable of serveWebSocket, handleWebSocketReq and the two readers*)
(* keeps its type, and the channel never holds more than StreamRelayBuf    *)
(* chunks.                                                                 *)
(***************************************************************************)
THEOREM TypeCorrect == Spec => []TypeOK
<1>1. Init => TypeOK
    BY TypeInit
<1>2. TypeOK /\ [Next]_vars => TypeOK'
    BY TypeStep
<1>3. QED
    BY <1>1, <1>2, PTL DEF Spec

-----------------------------------------------------------------------------
LEMMA ClientShapeStep ==
    ASSUME TypeOK, ClientShape, [Next]_vars
    PROVE  ClientShape'
<1>1. /\ [relay EXCEPT !.held = TRUE].held /\ [relay EXCEPT !.held = TRUE].done = relay.done
      /\ [relay EXCEPT !.done = TRUE].held = relay.held /\ [relay EXCEPT !.done = TRUE].done
      /\ ~[held |-> FALSE, done |-> TRUE].held /\ [held |-> FALSE, done |-> TRUE].done
      /\ relay.held \in BOOLEAN /\ relay.done \in BOOLEAN
    BY RelayFields DEF TypeOK
<1>2. CASE UNCHANGED <<ws, conn, relay>>
    BY <1>2 DEF ClientShape
<1>3. CASE UpgradeFails \/ UpgradeAnswered \/ RelayRegisters
    BY <1>1, <1>3 DEF ClientShape, UpgradeFails, UpgradeAnswered, RelayRegisters
<1>4. CASE RelayReads \/ RelayReadFails \/ RelayIdles \/ RelayLeaves
    BY <1>1, <1>4 DEF ClientShape, RelayReads, RelayReadFails, RelayIdles, RelayLeaves, TypeOK
<1>5. CASE ClientWriteFails \/ ClientTakesClose \/ LinkLost
    <2>1. ws' = ws
        BY <1>5 DEF ClientWriteFails, ClientTakesClose, LinkLost
    <2>2. \/ relay' = relay /\ conn' = conn
          \/ relay.held /\ conn' = "closed" /\ relay'.done
             /\ (relay'.held => relay.held /\ ClientWriteFails)
        BY <1>1, <1>5 DEF ClientWriteFails, ClientTakesClose, LinkLost
    <2>3. QED
        BY <2>1, <2>2 DEF ClientShape, TypeOK
<1>6. \/ UNCHANGED <<ws, conn, relay>>
      \/ UpgradeFails \/ UpgradeAnswered \/ RelayRegisters
      \/ RelayReads \/ RelayReadFails \/ RelayIdles \/ RelayLeaves
      \/ ClientWriteFails \/ ClientTakesClose \/ LinkLost
    BY DEF Next, ServeStep, ToStep, ServerReaderStep, ClientReaderStep, RelayStep, vars,
           publicVars, serverVars, clientVars, AwaitEnds, AwaitTimesOut, FromReads,
           FromEnds, FromIdles, ToWrites, ToFails, ToEnds, RelayEnds, Finish,
           ServerReceives, ServerTakesResponse, ServerTakesData, ServerEnqueues,
           ServerDrops, ServerGivesUp, ServerTakesClose, LinkLost, ClientReceives,
           ClientTakesData, ClientWriteFails, ClientTakesClose, UpgradeFails,
           UpgradeAnswered, RelayRegisters, RelayReads, RelayReadFails, RelayIdles,
           RelayLeaves, PublicLeaves, LocalLeaves
<1>7. QED
    BY <1>2, <1>3, <1>4, <1>5, <1>6

LEMMA HandshakeStep ==
    ASSUME TypeOK, Handshake, [Next]_vars
    PROVE  Handshake'
<1>1. /\ pr.pending \in BOOLEAN /\ pr.done \in BOOLEAN /\ pr.closed \in BOOLEAN
    BY RequestFields DEF TypeOK
<1>2. /\ Finish => Flags(pr', FALSE, pr.status, TRUE, pr.closed)
      /\ ServerTakesResponse =>
            \/ pr' = pr
            \/ pr.pending /\ Flags(pr', TRUE, Head(toServer).type, pr.done, pr.closed)
      /\ ServerGivesUp => Flags(pr', FALSE, pr.status, pr.done, TRUE)
      /\ ServerTakesClose =>
            IF pr.pending THEN Flags(pr', FALSE, pr.status, pr.done, TRUE) ELSE pr' = pr
      /\ LinkLost =>
            IF pr.pending THEN Flags(pr', FALSE, pr.status, TRUE, TRUE) ELSE pr' = pr
      /\ ~SetsFlag => SameFlags(pr', pr)
    BY RequestMoves
<1>3. pr'.status # "none" => pr.status # "none" \/ toServer # <<>>
    BY <1>2 DEF SetsFlag, SameFlags, Flags, ServerTakesResponse, ServerReceives
<1>4. pr.status # "none" => pr'.status # "none"
    BY <1>2 DEF SetsFlag, SameFlags, Flags, ServerTakesResponse, ServerReceives
<1>5. (pr.pending => link /\ ~pr.done /\ ~pr.closed)'
    <2>1. pr'.pending =>
            pr.pending /\ pr'.done = pr.done /\ pr'.closed = pr.closed /\ ~LinkLost
        BY <1>1, <1>2 DEF SetsFlag, SameFlags, Flags, Handshake, LinkLost
    <2>2. link' = link \/ LinkLost
        BY DEF Next, ServeStep, ToStep, ServerReaderStep, ClientReaderStep, RelayStep,
               vars, publicVars, serverVars, clientVars, AwaitEnds, AwaitTimesOut,
               FromReads, FromEnds, FromIdles, ToWrites, ToFails, ToEnds, RelayEnds,
               Finish, ServerReceives, ServerTakesResponse, ServerTakesData,
               ServerEnqueues, ServerDrops, ServerGivesUp, ServerTakesClose, LinkLost,
               ClientReceives, ClientTakesData, ClientWriteFails, ClientTakesClose,
               UpgradeFails, UpgradeAnswered, RelayRegisters, RelayReads, RelayReadFails,
               RelayIdles, RelayLeaves, PublicLeaves, LocalLeaves
    <2>3. QED
        BY <2>1, <2>2 DEF Handshake
<1>6. (~link => toClient = <<>> /\ toServer = <<>>)'
    BY DEF Handshake, ServerSends, ClientSends, Next, ServeStep, ToStep, ServerReaderStep,
           ClientReaderStep, RelayStep, vars, publicVars, serverVars, clientVars,
           AwaitEnds, AwaitTimesOut, FromReads, FromEnds, FromIdles, ToWrites, ToFails,
           ToEnds, RelayEnds, Finish, ServerReceives, ServerTakesResponse, ServerTakesData,
           ServerEnqueues, ServerDrops, ServerGivesUp, ServerTakesClose, LinkLost,
           ClientReceives, ClientTakesData, ClientWriteFails, ClientTakesClose,
           UpgradeFails, UpgradeAnswered, RelayRegisters, RelayReads, RelayReadFails,
           RelayIdles, RelayLeaves, PublicLeaves, LocalLeaves
<1>7. ws # "dial" => ws' # "dial"
    BY DEF Next, ServeStep, ToStep, ServerReaderStep, ClientReaderStep, RelayStep, vars,
           publicVars, serverVars, clientVars, AwaitEnds, AwaitTimesOut, FromReads,
           FromEnds, FromIdles, ToWrites, ToFails, ToEnds, RelayEnds, Finish,
           ServerReceives, ServerTakesResponse, ServerTakesData, ServerEnqueues,
           ServerDrops, ServerGivesUp, ServerTakesClose, LinkLost, ClientReceives,
           ClientTakesData, ClientWriteFails, ClientTakesClose, UpgradeFails,
           UpgradeAnswered, RelayRegisters, RelayReads, RelayReadFails, RelayIdles,
           RelayLeaves, PublicLeaves, LocalLeaves
<1>8. (toServer # <<>> \/ taken # 0 => ws # "dial")'
    BY <1>7 DEF Handshake, ClientSends, Next, ServeStep, ToStep, ServerReaderStep,
           ClientReaderStep, RelayStep, vars, publicVars, serverVars, clientVars,
           AwaitEnds, AwaitTimesOut, FromReads, FromEnds, FromIdles, ToWrites, ToFails,
           ToEnds, RelayEnds, Finish, ServerReceives, ServerTakesResponse, ServerTakesData,
           ServerEnqueues, ServerDrops, ServerGivesUp, ServerTakesClose, LinkLost,
           ClientReceives, ClientTakesData, ClientWriteFails, ClientTakesClose,
           UpgradeFails, UpgradeAnswered, RelayRegisters, RelayReads, RelayReadFails,
           RelayIdles, RelayLeaves, PublicLeaves, LocalLeaves
<1>9. (toClient # <<>> => ws # "dial")'
    BY <1>7 DEF Handshake, ServerSends, Next, ServeStep, ToStep, ServerReaderStep,
           ClientReaderStep, RelayStep, vars, publicVars, serverVars, clientVars,
           AwaitEnds, AwaitTimesOut, FromReads, FromEnds, FromIdles, ToWrites, ToFails,
           ToEnds, RelayEnds, Finish, ServerReceives, ServerTakesResponse, ServerTakesData,
           ServerEnqueues, ServerDrops, ServerGivesUp, ServerTakesClose, LinkLost,
           ClientReceives, ClientTakesData, ClientWriteFails, ClientTakesClose,
           UpgradeFails, UpgradeAnswered, RelayRegisters, RelayReads, RelayReadFails,
           RelayIdles, RelayLeaves, PublicLeaves, LocalLeaves
<1>10. (from # "none" => pr.status # "none")'
    BY <1>4 DEF Handshake, Next, ServeStep, ToStep, ServerReaderStep, ClientReaderStep,
           RelayStep, vars, publicVars, serverVars, clientVars, AwaitEnds, AwaitTimesOut,
           FromReads, FromEnds, FromIdles, ToWrites, ToFails, ToEnds, RelayEnds, Finish,
           ServerReceives, ServerTakesResponse, ServerTakesData, ServerEnqueues,
           ServerDrops, ServerGivesUp, ServerTakesClose, LinkLost, ClientReceives,
           ClientTakesData, ClientWriteFails, ClientTakesClose, UpgradeFails,
           UpgradeAnswered, RelayRegisters, RelayReads, RelayReadFails, RelayIdles,
           RelayLeaves, PublicLeaves, LocalLeaves
<1>11. (serve = "await" => from = "none" /\ to = "none")'
    BY DEF Handshake, Next, ServeStep, ToStep, ServerReaderStep, ClientReaderStep,
           RelayStep, vars, publicVars, serverVars, clientVars, AwaitEnds, AwaitTimesOut,
           FromReads, FromEnds, FromIdles, ToWrites, ToFails, ToEnds, RelayEnds, Finish,
           ServerReceives, ServerTakesResponse, ServerTakesData, ServerEnqueues,
           ServerDrops, ServerGivesUp, ServerTakesClose, LinkLost, ClientReceives,
           ClientTakesData, ClientWriteFails, ClientTakesClose, UpgradeFails,
           UpgradeAnswered, RelayRegisters, RelayReads, RelayReadFails, RelayIdles,
           RelayLeaves, PublicLeaves, LocalLeaves
<1>12. QED
    BY <1>3, <1>5, <1>6, <1>7, <1>8, <1>9, <1>10, <1>11 DEF Handshake

-----------------------------------------------------------------------------
(***************************************************************************)
(* Upwards: the chunks of the user.                                        *)
(***************************************************************************)
LEMMA UpMoves ==
    ASSUME TypeOK, [Next]_vars
    PROVE  /\ early => early'
           /\ \/ UNCHANGED <<toClient, localGot, up>>
              \/ ServerSends(Msg("close")) /\ UNCHANGED <<localGot, up, link>>
              \/ FromReads \/ ClientTakesData \/ ClientWriteFails \/ ClientTakesClose
              \/ ~link' /\ UNCHANGED <<localGot, up>>
<1>1. early => early'
    BY DEF TypeOK, Next, ServeStep, ToStep, ServerReaderStep, ClientReaderStep, RelayStep,
           vars, publicVars, serverVars, clientVars, AwaitEnds, AwaitTimesOut, FromReads,
           FromEnds, FromIdles, ToWrites, ToFails, ToEnds, RelayEnds, Finish,
           ServerReceives, ServerTakesResponse, ServerTakesData, ServerEnqueues,
           ServerDrops, ServerGivesUp, ServerTakesClose, LinkLost, ClientReceives,
           ClientTakesData, ClientWriteFails, ClientTakesClose, UpgradeFails,
           UpgradeAnswered, RelayRegisters, RelayReads, RelayReadFails, RelayIdles,
           RelayLeaves, PublicLeaves, LocalLeaves
<1>2. QED
    BY <1>1 DEF Next, ServeStep, ToStep, ServerReaderStep, ClientReaderStep, RelayStep,
           vars, publicVars, serverVars, clientVars, AwaitEnds, AwaitTimesOut, FromReads,
           FromEnds, FromIdles, ToWrites, ToFails, ToEnds, RelayEnds, Finish,
           ServerReceives, ServerTakesResponse, ServerTakesData, ServerEnqueues,
           ServerDrops, ServerGivesUp, ServerTakesClose, LinkLost, ClientReceives,
           ClientTakesData, ClientWriteFails, ClientTakesClose, UpgradeFails,
           UpgradeAnswered, RelayRegisters, RelayReads, RelayReadFails, RelayIdles,
           RelayLeaves, PublicLeaves, LocalLeaves

LEMMA DeliveringWas ==
    ASSUME TypeOK, ClientShape, [Next]_vars, Delivering'
    PROVE  Delivering
<1>1. /\ [relay EXCEPT !.held = TRUE].done = relay.done
      /\ [relay EXCEPT !.done = TRUE].done
      /\ [held |-> FALSE, done |-> TRUE].done
      /\ relay.done \in BOOLEAN
    BY RelayFields DEF TypeOK
<1>2. link /\ local = "open"
    BY DEF Delivering, Next, ServeStep, ToStep, ServerReaderStep, ClientReaderStep,
           RelayStep, vars, publicVars, serverVars, clientVars, AwaitEnds, AwaitTimesOut,
           FromReads, FromEnds, FromIdles, ToWrites, ToFails, ToEnds, RelayEnds, Finish,
           ServerReceives, ServerTakesResponse, ServerTakesData, ServerEnqueues,
           ServerDrops, ServerGivesUp, ServerTakesClose, LinkLost, ClientReceives,
           ClientTakesData, ClientWriteFails, ClientTakesClose, UpgradeFails,
           UpgradeAnswered, RelayRegisters, RelayReads, RelayReadFails, RelayIdles,
           RelayLeaves, PublicLeaves, LocalLeaves
<1>3. ~relay.done
    <2>1. \/ relay' = relay \/ relay' = [relay EXCEPT !.held = TRUE]
          \/ relay' = [relay EXCEPT !.done = TRUE] \/ relay' = [held |-> FALSE, done |-> TRUE]
        BY DEF Next, ServeStep, ToStep, ServerReaderStep, ClientReaderStep, RelayStep,
               vars, publicVars, serverVars, clientVars, AwaitEnds, AwaitTimesOut,
               FromReads, FromEnds, FromIdles, ToWrites, ToFails, ToEnds, RelayEnds,
               Finish, ServerReceives, ServerTakesResponse, ServerTakesData,
               ServerEnqueues, ServerDrops, ServerGivesUp, ServerTakesClose, LinkLost,
               ClientReceives, ClientTakesData, ClientWriteFails, ClientTakesClose,
               UpgradeFails, UpgradeAnswered, RelayRegisters, RelayReads, RelayReadFails,
               RelayIdles, RelayLeaves, PublicLeaves, LocalLeaves
    <2>2. QED
        BY <1>1, <2>1 DEF Delivering
<1>4. conn # "closed" /\ ws # "gone"
    <2>1. conn' = conn \/ conn' = "closed" \/ UpgradeAnswered
        BY DEF Next, ServeStep, ToStep, ServerReaderStep, ClientReaderStep, RelayStep,
               vars, publicVars, serverVars, clientVars, AwaitEnds, AwaitTimesOut,
               FromReads, FromEnds, FromIdles, ToWrites, ToFails, ToEnds, RelayEnds,
               Finish, ServerReceives, ServerTakesResponse, ServerTakesData,
               ServerEnqueues, ServerDrops, ServerGivesUp, ServerTakesClose, LinkLost,
               ClientReceives, ClientTakesData, ClientWriteFails, ClientTakesClose,
               UpgradeFails, UpgradeAnswered, RelayRegisters, RelayReads, RelayReadFails,
               RelayIdles, RelayLeaves, PublicLeaves, LocalLeaves
    <2>2. UpgradeAnswered => conn = "none" /\ ws = "dial"
        BY DEF UpgradeAnswered, ClientShape
    <2>3. ws = "gone" => ws' = "gone"
        BY DEF Next, ServeStep, ToStep, ServerReaderStep, ClientReaderStep, RelayStep,
               vars, publicVars, serverVars, clientVars, AwaitEnds, AwaitTimesOut,
               FromReads, FromEnds, FromIdles, ToWrites, ToFails, ToEnds, RelayEnds,
               Finish, ServerReceives, ServerTakesResponse, ServerTakesData,
               ServerEnqueues, ServerDrops, ServerGivesUp, ServerTakesClose, LinkLost,
               ClientReceives, ClientTakesData, ClientWriteFails, ClientTakesClose,
               UpgradeFails, UpgradeAnswered, RelayRegisters, RelayReads, RelayReadFails,
               RelayIdles, RelayLeaves, PublicLeaves, LocalLeaves
    <2>4. QED
        BY <2>1, <2>2, <2>3 DEF Delivering
<1>5. QED
    BY <1>2, <1>3, <1>4 DEF Delivering

LEMMA UpFlowStep ==
    ASSUME TypeOK, ClientShape, Handshake, UpFlow, [Next]_vars
    PROVE  UpFlow'
<1> DEFINE n == Len(localGot)
<1>1. early => early'
    BY UpMoves
<1> SUFFICES ASSUME ~early'
             PROVE  (/\ InOrder(localGot) /\ Len(localGot) <= up
                     /\ Delivering => Carries(toClient, Len(localGot), up))'
    BY DEF UpFlow
<1>2. /\ n \in Nat /\ up \in Nat /\ n <= up /\ InOrder(localGot)
      /\ toClient \in Seq(ToClientFrame) /\ localGot \in Seq(1..NumUp)
    BY <1>1, WsAssumption DEF TypeOK, UpFlow
<1>3. Delivering' => Delivering
    BY DeliveringWas
<1>4. Delivering => Carries(toClient, n, up)
    BY <1>1 DEF UpFlow
<1>5. CASE UNCHANGED <<toClient, localGot, up>>
    BY <1>2, <1>3, <1>4, <1>5
<1>6. CASE ServerSends(Msg("close")) /\ UNCHANGED <<localGot, up, link>>
    <2>1. Msg("close") \in ToClientFrame /\ ~IsData(Msg("close"))
        BY FramesAreFrames
    <2>2. Carries(toClient, n, up) => Carries(toClient', n, up)
        BY <1>2, <1>6, <2>1, SendOther DEF ServerSends
    <2>3. QED
        BY <1>2, <1>3, <1>4, <1>6, <2>2
<1>7. CASE FromReads
    <2>1. /\ up < NumUp /\ up' = up + 1 /\ UNCHANGED <<localGot, link>>
          /\ ServerSends(Data(up + 1))
        BY <1>7 DEF FromReads, clientVars
    <2>2. Data(up + 1) \in ToClientFrame
        <3>1. up + 1 \in 1..NumUp
            BY <1>2, <2>1, WsAssumption
        <3>2. QED
            BY <3>1, FramesAreFrames
    <2>3. Delivering => Carries(toClient', n, up + 1)
        <3> SUFFICES ASSUME Delivering PROVE Carries(toClient', n, up + 1)
            OBVIOUS
        <3>1. toClient' = Append(toClient, Data(up + 1))
            BY <2>1 DEF ServerSends, Delivering
        <3>2. QED
            BY <1>2, <1>4, <2>2, <3>1, SendData
    <2>4. QED
        BY <1>2, <1>3, <2>1, <2>3
<1>8. CASE ClientTakesClose
    <2>1. toClient # <<>> /\ toClient' = Tail(toClient) /\ ~IsData(Head(toClient))
        BY <1>8 DEF ClientTakesClose, ClientReceives, IsData
    <2>2. UNCHANGED <<localGot, up>>
        BY <1>8 DEF ClientTakesClose, publicVars
    <2>3. Delivering => Carries(toClient', n, up)
        BY <1>2, <1>4, <2>1, TakeOther
    <2>4. QED
        BY <1>2, <1>3, <2>2, <2>3
<1>9. CASE ClientTakesData
    <2>1. toClient # <<>> /\ toClient' = Tail(toClient) /\ IsData(Head(toClient))
        BY <1>9 DEF ClientTakesData, ClientReceives, IsData
    <2>2. up' = up /\ ws # "register" /\ ws # "dial"
        BY <1>9, <2>1 DEF ClientTakesData, publicVars, Handshake
    <2>3. CASE Delivering
        <3>1. relay.held /\ ~relay.done /\ conn = "open" /\ local = "open"
            BY <2>2, <2>3 DEF Delivering, ClientShape, TypeOK
        <3>2. localGot' = Append(localGot, Head(toClient).chunk)
            BY <1>9, <3>1 DEF ClientTakesData
        <3>3. /\ Head(toClient).chunk = n + 1 /\ n + 1 <= up
              /\ Carries(Tail(toClient), n + 1, up)
            BY <1>2, <1>4, <2>1, <2>3, TakeData
        <3>4. /\ Len(localGot') = n + 1 /\ localGot'[n + 1] = n + 1
              /\ \A i \in 1..n : localGot'[i] = localGot[i]
            BY <1>2, <3>2, <3>3
        <3>5. \A i \in 1..(n + 1) : i \in 1..n \/ i = n + 1
            BY <1>2
        <3>6. InOrder(localGot')
            BY <1>2, <3>4, <3>5 DEF InOrder
        <3>7. QED
            BY <2>1, <2>2, <3>3, <3>4, <3>6
    <2>4. CASE ~Delivering
        <3>1. ~(relay.held /\ ~relay.done /\ conn = "open" /\ local = "open")
            BY <2>1, <2>4 DEF Delivering, ClientShape, Handshake
        <3>2. localGot' = localGot
            BY <1>9, <3>1 DEF ClientTakesData
        <3>3. QED
            BY <1>2, <1>3, <2>2, <2>4, <3>2
    <2>5. QED
        BY <2>3, <2>4
<1>10. CASE ClientWriteFails
    <2>1. relay'.done
        BY <1>10, RelayFields DEF ClientWriteFails, TypeOK
    <2>2. UNCHANGED <<localGot, up>>
        BY <1>10 DEF ClientWriteFails, publicVars
    <2>3. QED
        BY <1>2, <2>1, <2>2 DEF Delivering
<1>11. CASE ~link' /\ UNCHANGED <<localGot, up>>
    BY <1>2, <1>11 DEF Delivering
<1>12. QED
    BY <1>5, <1>6, <1>7, <1>8, <1>9, <1>10, <1>11, UpMoves

-----------------------------------------------------------------------------
(***************************************************************************)
(* Downwards: the chunks of the local application.                         *)
(***************************************************************************)
LEMMA DownMoves ==
    ASSUME TypeOK, Handshake, [Next]_vars
    PROVE  /\ to' # "gone" => to # "gone"
           /\ pr'.pending => pr.pending /\ link /\ link'
           /\ \/ UNCHANGED <<pubGot, taken, toServer, down>> /\ pr'.data = pr.data
              \/ /\ \E t \in {"101", "other", "close"} : ClientSends(Msg(t))
                 /\ UNCHANGED <<pubGot, pr, taken, down>>
              \/ RelayReads \/ ToWrites \/ ToFails
              \/ ServerTakesResponse \/ ServerTakesData \/ ServerTakesClose
              \/ ServerEnqueues \/ ServerDrops \/ ServerGivesUp \/ LinkLost
<1>1. to' # "gone" => to # "gone"
    <2>1. AwaitEnds => to = "none"
        BY DEF AwaitEnds, Handshake
    <2>2. QED
        BY <2>1 DEF Next, ServeStep, ToStep, ServerReaderStep, ClientReaderStep, RelayStep,
               vars, publicVars, serverVars, clientVars, AwaitEnds, AwaitTimesOut,
               FromReads, FromEnds, FromIdles, ToWrites, ToFails, ToEnds, RelayEnds,
               Finish, ServerReceives, ServerTakesResponse, ServerTakesData,
               ServerEnqueues, ServerDrops, ServerGivesUp, ServerTakesClose, LinkLost,
               ClientReceives, ClientTakesData, ClientWriteFails, ClientTakesClose,
               UpgradeFails, UpgradeAnswered, RelayRegisters, RelayReads, RelayReadFails,
               RelayIdles, RelayLeaves, PublicLeaves, LocalLeaves
<1>2. pr'.pending => pr.pending
    <2>1. pr.pending \in BOOLEAN
        BY RequestFields DEF TypeOK
    <2>2. /\ ~SetsFlag => pr'.pending = pr.pending
          /\ Finish \/ ServerGivesUp => pr'.pending = FALSE
          /\ ServerTakesResponse => pr.pending \/ pr' = pr
          /\ ServerTakesClose \/ LinkLost => pr'.pending = FALSE \/ pr' = pr
        BY RequestMoves DEF Flags, SameFlags
    <2>3. QED
        BY <2>1, <2>2 DEF SetsFlag
<1>3. pr'.pending => link /\ link'
    BY <1>2, HandshakeStep DEF Handshake
<1>4. pr' = pr \/ Finish => pr'.data = pr.data
    BY RequestMoves DEF SetsFlag
<1>5. \/ UNCHANGED <<pubGot, taken, toServer, down>> /\ (pr' = pr \/ Finish)
      \/ /\ \E t \in {"101", "other", "close"} : ClientSends(Msg(t))
         /\ UNCHANGED <<pubGot, pr, taken, down>>
      \/ RelayReads \/ ToWrites \/ ToFails
      \/ ServerTakesResponse \/ ServerTakesData \/ ServerTakesClose
      \/ ServerEnqueues \/ ServerDrops \/ ServerGivesUp \/ LinkLost
    BY DEF Next, ServeStep, ToStep, ServerReaderStep, ClientReaderStep, RelayStep, vars,
           publicVars, serverVars, clientVars, AwaitEnds, AwaitTimesOut, FromReads,
           FromEnds, FromIdles, ToWrites, ToFails, ToEnds, RelayEnds, Finish,
           ServerReceives, ServerTakesResponse, ServerTakesData, ServerEnqueues,
           ServerDrops, ServerGivesUp, ServerTakesClose, LinkLost, ClientReceives,
           ClientTakesData, ClientWriteFails, ClientTakesClose, UpgradeFails,
           UpgradeAnswered, RelayRegisters, RelayReads, RelayReadFails, RelayIdles,
           RelayLeaves, PublicLeaves, LocalLeaves
<1>6. QED
    BY <1>1, <1>2, <1>3, <1>4, <1>5

LEMMA DownFlowStep ==
    ASSUME TypeOK, Handshake, DownFlow, [Next]_vars
    PROVE  DownFlow'
<1> DEFINE g == Len(pubGot)
           d == Len(pr.data)
<1>1. /\ g \in Nat /\ d \in Nat /\ down \in Nat /\ taken \in Nat /\ pubGot \in Seq(1..NumDown)
      /\ pr.data \in Seq(1..NumDown) /\ toServer \in Seq(ToServerFrame) /\ Received \in Nat
      /\ g <= down /\ InOrder(pubGot)
    <2>1. /\ pubGot \in Seq(1..NumDown) /\ pr.data \in Seq(1..NumDown)
          /\ toServer \in Seq(ToServerFrame)
        BY RequestFields DEF TypeOK
    <2>2. g \in Nat /\ d \in Nat
        BY <2>1
    <2>3. down \in Nat /\ taken \in Nat
        BY WsAssumption DEF TypeOK
    <2>4. PICK x \in {0, 1} : Received = g + d + x
        BY DEF Received
    <2>5. Received \in Nat
        BY <2>2, <2>4
    <2>6. QED
        BY <2>1, <2>2, <2>3, <2>5 DEF DownFlow
<1>2. /\ to' # "gone" => to # "gone"
      /\ pr'.pending => pr.pending /\ link /\ link'
    BY DownMoves
<1>3. \A t \in {"101", "other", "close"} : Msg(t) \in ToServerFrame /\ ~IsData(Msg(t))
    BY FramesAreFrames
<1>4. to # "gone" => Streaming /\ (pr.pending => Carries(toServer, Received, down))
    BY DEF DownFlow
<1>5. CASE UNCHANGED <<pubGot, taken, toServer, down>> /\ pr'.data = pr.data
    BY <1>1, <1>2, <1>5 DEF DownFlow, Streaming, Received
<1>6. ASSUME NEW t \in {"101", "other", "close"}, ClientSends(Msg(t)),
             UNCHANGED <<pubGot, pr, taken, down>>
      PROVE  DownFlow'
    <2>1. Carries(toServer, Received, down) => Carries(toServer', Received, down)
        BY <1>1, <1>3, <1>6, SendOther DEF ClientSends
    <2>2. Received' = Received
        BY <1>6 DEF Received
    <2>3. QED
        BY <1>2, <1>6, <2>1, <2>2 DEF DownFlow, Streaming
<1>7. CASE RelayReads
    <2>1. /\ ClientSends(Data(down + 1)) /\ down < NumDown /\ down' = down + 1
          /\ UNCHANGED <<pubGot, pr, taken, link, to>>
        BY <1>7 DEF RelayReads, publicVars, serverVars
    <2>2. Received' = Received
        BY <2>1 DEF Received
    <2>3. Data(down + 1) \in ToServerFrame
        <3>1. down + 1 \in 1..NumDown
            BY <1>1, <2>1, WsAssumption
        <3>2. QED
            BY <3>1, FramesAreFrames
    <2>4. Streaming => Streaming'
        BY <1>1, <2>1, <2>2 DEF Streaming
    <2>5. ASSUME Streaming, pr.pending, Carries(toServer, Received, down)
          PROVE  Carries(toServer', Received, down')
        <3>1. toServer' = Append(toServer, Data(down + 1))
            BY <2>1, <2>5 DEF ClientSends, Handshake
        <3>2. Received <= down
            BY <2>5 DEF Streaming
        <3>3. QED
            BY <1>1, <2>1, <2>3, <2>5, <3>1, <3>2, SendData
    <2>6. g <= down'
        BY <1>1, <2>1
    <2>7. QED
        BY <1>1, <1>2, <1>4, <2>1, <2>2, <2>4, <2>5, <2>6 DEF DownFlow
<1>8. CASE ToWrites
    <2>1. /\ pr.data # <<>> /\ pubGot' = Append(pubGot, Head(pr.data)) /\ to # "gone"
          /\ UNCHANGED <<taken, toServer, down, to>>
        BY <1>8 DEF ToWrites, clientVars
    <2>2. pr'.data = Tail(pr.data)
        BY <1>8, RequestMoves
    <2>3. Streaming /\ (pr.pending => Carries(toServer, Received, down))
        BY <1>4, <2>1
    <2>4. /\ d \in Nat \ {0} /\ Head(pr.data) = pr.data[1] /\ 1 \in 1..d
          /\ Len(pr'.data) = d - 1
          /\ \A i \in 1..(d - 1) : pr'.data[i] = pr.data[i + 1] /\ i + 1 \in 1..d
        <3>1. /\ d \in Nat \ {0} /\ Len(pr'.data) = d - 1 /\ Head(pr.data) = pr.data[1]
              /\ \A i \in 1..Len(pr'.data) : i + 1 \in 2..d /\ pr'.data[i] = pr.data[i + 1]
            BY <1>1, <2>1, <2>2, TailShifts
        <3>2. QED
            BY <3>1
    <2>5. Head(pr.data) = g + 1
        BY <2>3, <2>4 DEF Streaming
    <2>6. /\ Len(pubGot') = g + 1 /\ pubGot'[g + 1] = g + 1
          /\ \A i \in 1..g : pubGot'[i] = pubGot[i]
        <3>1. Head(pr.data) \in 1..NumDown
            BY <1>1, <2>1, QueueTypes
        <3>2. QED
            BY <1>1, <2>1, <2>5, <3>1
    <2>7. PICK x \in {0, 1} : /\ Received = g + d + x
                              /\ Received' = Len(pubGot') + Len(pr'.data) + x
        BY <2>1 DEF Received
    <2>8. Received' = Received
        <3>1. \A a, b \in Nat : (a + 1) + (b - 1) = a + b
            OBVIOUS
        <3>2. (g + 1) + (d - 1) = g + d
            BY <1>1, <3>1
        <3>3. QED
            BY <2>4, <2>6, <2>7, <3>2
    <2>9. InOrder(pubGot') /\ Len(pubGot') <= down'
        <3>1. g + 1 <= down
            <4>1. \A a, b, y, n \in Nat : b # 0 /\ a + b + y <= n => a + 1 <= n
                OBVIOUS
            <4>2. Received <= down /\ d # 0 /\ x \in Nat
                BY <2>3, <2>4 DEF Streaming
            <4>3. QED
                BY <1>1, <2>7, <4>1, <4>2
        <3>2. \A i \in 1..(g + 1) : i \in 1..g \/ i = g + 1
            BY <1>1
        <3>3. QED
            BY <1>1, <2>1, <2>6, <3>1, <3>2 DEF InOrder
    <2>10. Streaming'
        <3>1. ASSUME NEW i \in 1..(d - 1)
              PROVE  pr'.data[i] = (g + 1) + i
            BY <1>1, <2>3, <2>4 DEF Streaming
        <3>2. taken # 0 => taken = (g + 1) + (d - 1) + 1
            <4>1. taken # 0 => taken = g + d + 1
                BY <2>3 DEF Streaming
            <4>2. \A a, b \in Nat : (a + 1) + (b - 1) + 1 = a + b + 1
                OBVIOUS
            <4>3. QED
                BY <1>1, <4>1, <4>2
        <3>3. QED
            BY <2>1, <2>3, <2>4, <2>6, <2>8, <3>1, <3>2 DEF Streaming
    <2>11. QED
        BY <1>2, <2>1, <2>3, <2>8, <2>9, <2>10 DEF DownFlow
<1>9. CASE ToFails
    BY <1>1, <1>9 DEF ToFails, DownFlow, publicVars, clientVars
<1>10. CASE ServerTakesResponse
    <2>1. /\ toServer # <<>> /\ toServer' = Tail(toServer) /\ ~IsData(Head(toServer))
          /\ UNCHANGED <<pubGot, taken, down, to>>
        BY <1>10 DEF ServerTakesResponse, ServerReceives, IsData, publicVars, clientVars
    <2>2. pr'.data = pr.data
        BY <1>10, RequestMoves DEF SetsFlag
    <2>3. Received' = Received
        BY <2>1, <2>2 DEF Received
    <2>4. Carries(toServer, Received, down) => Carries(toServer', Received, down)
        BY <1>1, <2>1, TakeOther
    <2>5. Streaming => Streaming'
        BY <2>1, <2>2, <2>3 DEF Streaming
    <2>6. QED
        BY <1>2, <1>4, <1>1, <2>1, <2>3, <2>4, <2>5 DEF DownFlow
<1>11. CASE ServerTakesData
    <2>1. /\ toServer # <<>> /\ toServer' = Tail(toServer) /\ IsData(Head(toServer))
          /\ taken = 0 /\ taken' = (IF pr.pending THEN Head(toServer).chunk ELSE 0)
          /\ UNCHANGED <<pubGot, pr, down, to>>
        BY <1>11 DEF ServerTakesData, ServerReceives, IsData, publicVars, clientVars
    <2>2. CASE ~pr.pending
        BY <2>1, <2>2 DEF DownFlow, Streaming, Received
    <2>3. CASE pr.pending /\ to # "gone"
        <3>1. Streaming /\ Received = g + d /\ Carries(toServer, Received, down)
            BY <1>1, <1>4, <2>1, <2>3 DEF Received
        <3>2. /\ Head(toServer).chunk = Received + 1 /\ Received + 1 <= down
              /\ Carries(toServer', Received + 1, down)
            BY <1>1, <2>1, <3>1, TakeData
        <3>3. taken' = g + d + 1 /\ taken' # 0
            BY <1>1, <2>1, <2>3, <3>1, <3>2
        <3>4. Received' = Received + 1
            BY <1>1, <2>1, <3>1, <3>3 DEF Received
        <3>5. Streaming'
            BY <1>1, <2>1, <3>1, <3>2, <3>3, <3>4 DEF Streaming
        <3>6. QED
            BY <1>1, <2>1, <3>2, <3>4, <3>5 DEF DownFlow
    <2>4. CASE to = "gone"
        BY <2>1, <2>4 DEF DownFlow
    <2>5. QED
        BY <2>2, <2>3, <2>4
<1>12. CASE ServerTakesClose \/ LinkLost
    <2>1. UNCHANGED <<pubGot, taken, down, to>>
        BY <1>12 DEF ServerTakesClose, LinkLost, publicVars, clientVars
    <2>2. pr'.data = pr.data
        BY <1>12, RequestMoves DEF SetsFlag
    <2>3. ~pr'.pending
        <3>1. pr.pending \in BOOLEAN
            BY RequestFields DEF TypeOK
        <3>2. QED
            BY <1>12, <3>1, RequestMoves DEF Flags
    <2>4. QED
        BY <1>1, <2>1, <2>2, <2>3 DEF DownFlow, Streaming, Received
<1>13. CASE ServerEnqueues
    <2>1. taken # 0 /\ taken' = 0 /\ UNCHANGED <<pubGot, toServer, down, to>>
        BY <1>13 DEF ServerEnqueues, publicVars, clientVars
    <2>2. pr'.data = Append(pr.data, taken)
        BY <1>13, RequestMoves
    <2>3. /\ Len(pr'.data) = d + 1 /\ pr'.data[d + 1] = taken
          /\ \A i \in 1..d : pr'.data[i] = pr.data[i]
        <3>1. taken \in 1..NumDown
            BY <2>1, WsAssumption DEF TypeOK
        <3>2. QED
            BY <1>1, <2>2, <3>1
    <2>4. Received' = Received
        BY <1>1, <2>1, <2>3 DEF Received
    <2>5. Streaming => Streaming'
        <3>1. SUFFICES ASSUME Streaming, NEW i \in 1..(d + 1)
                       PROVE  pr'.data[i] = g + i
            BY <2>1, <2>3, <2>4 DEF Streaming
        <3>2. CASE i \in 1..d
            BY <2>3, <3>1, <3>2 DEF Streaming
        <3>3. CASE i = d + 1
            BY <1>1, <2>1, <2>3, <3>1, <3>3 DEF Streaming
        <3>4. i \in 1..d \/ i = d + 1
            BY <1>1
        <3>5. QED
            BY <3>2, <3>3, <3>4
    <2>6. QED
        BY <1>1, <1>2, <1>4, <2>1, <2>4, <2>5 DEF DownFlow
<1>14. CASE ServerDrops \/ ServerGivesUp
    <2>1. taken # 0 /\ taken' = 0 /\ UNCHANGED <<pubGot, down, to>>
        BY <1>14 DEF ServerDrops, ServerGivesUp, publicVars, clientVars
    <2>2. pr'.data = pr.data /\ ~pr'.pending
        <3>1. CASE ServerDrops
            BY <3>1 DEF ServerDrops, Handshake
        <3>2. CASE ServerGivesUp
            BY <3>2, RequestMoves DEF SetsFlag, Flags
        <3>3. QED
            BY <1>14, <3>1, <3>2
    <2>3. Received' <= Received /\ Received' \in Nat
        BY <1>1, <2>1, <2>2 DEF Received
    <2>4. Streaming => Streaming'
        <3>1. Received <= down => Received' <= down'
            BY <1>1, <2>1, <2>3
        <3>2. QED
            BY <2>1, <2>2, <3>1 DEF Streaming
    <2>5. QED
        BY <1>1, <1>2, <1>4, <2>1, <2>2, <2>4 DEF DownFlow
<1>15. QED
    BY <1>5, <1>6, <1>7, <1>8, <1>9, <1>10, <1>11, <1>12, <1>13, <1>14, DownMoves

-----------------------------------------------------------------------------
(***************************************************************************)
(* The end of an orderly run.                                              *)
(***************************************************************************)
LEMMA OrderlyWas ==
    ASSUME TypeOK, [Next]_vars, Orderly'
    PROVE  Orderly /\ link' /\ ~cut'
<1>1. link' /\ ~cut'
    BY DEF Orderly
<1>2. link
    BY <1>1 DEF Next, ServeStep, ToStep, ServerReaderStep, ClientReaderStep, RelayStep,
           vars, publicVars, serverVars, clientVars, AwaitEnds, AwaitTimesOut, FromReads,
           FromEnds, FromIdles, ToWrites, ToFails, ToEnds, RelayEnds, Finish,
           ServerReceives, ServerTakesResponse, ServerTakesData, ServerEnqueues,
           ServerDrops, ServerGivesUp, ServerTakesClose, LinkLost, ClientReceives,
           ClientTakesData, ClientWriteFails, ClientTakesClose, UpgradeFails,
           UpgradeAnswered, RelayRegisters, RelayReads, RelayReadFails, RelayIdles,
           RelayLeaves, PublicLeaves, LocalLeaves
<1>3. ~cut
    BY <1>1 DEF TypeOK, Next, ServeStep, ToStep, ServerReaderStep, ClientReaderStep,
           RelayStep, vars, publicVars, serverVars, clientVars, AwaitEnds, AwaitTimesOut,
           FromReads, FromEnds, FromIdles, ToWrites, ToFails, ToEnds, RelayEnds, Finish,
           ServerReceives, ServerTakesResponse, ServerTakesData, ServerEnqueues,
           ServerDrops, ServerGivesUp, ServerTakesClose, LinkLost, ClientReceives,
           ClientTakesData, ClientWriteFails, ClientTakesClose, UpgradeFails,
           UpgradeAnswered, RelayRegisters, RelayReads, RelayReadFails, RelayIdles,
           RelayLeaves, PublicLeaves, LocalLeaves
<1>4. QED
    BY <1>1, <1>2, <1>3 DEF Orderly

LEMMA AnswerStaysLast ==
    ASSUME TypeOK, AnswersLast, [Next]_vars
    PROVE  AnswersLast'
<1>1. toServer \in Seq(ToServerFrame)
    BY DEF TypeOK
<1>2. \A i \in 1..Len(toServer) : toServer[i].type = "close" => i = Len(toServer) /\ ws = "gone"
    BY DEF AnswersLast
<1>3. CASE toServer' = toServer /\ (ws = "gone" => ws' = "gone")
    BY <1>2, <1>3 DEF AnswersLast
<1>4. CASE toServer # <<>> /\ toServer' = Tail(toServer) /\ ws' = ws
    <2>1. \A i \in 1..Len(toServer') : toServer'[i].type = "close" => i = Len(toServer')
        BY <1>1, <1>2, <1>4, LastStaysLast
    <2>2. \A i \in 1..Len(toServer') : i + 1 \in 1..Len(toServer)
                                      /\ toServer'[i] = toServer[i + 1]
        <3>1. /\ Len(toServer) \in Nat \ {0}
              /\ \A i \in 1..Len(toServer') : i + 1 \in 2..Len(toServer)
                                             /\ toServer'[i] = toServer[i + 1]
            BY <1>1, <1>4, TailShifts
        <3>2. QED
            BY <3>1
    <2>3. \A i \in 1..Len(toServer') : toServer'[i].type = "close" => ws' = "gone"
        BY <1>2, <1>4, <2>2
    <2>4. QED
        BY <2>1, <2>3 DEF AnswersLast
<1>5. ASSUME NEW f \in ToServerFrame, ws # "gone", f.type = "close" => ws' = "gone",
             toServer' = Append(toServer, f)
      PROVE  AnswersLast'
    <2>1. \A i \in 1..Len(toServer) : toServer'[i].type # "close"
        BY <1>1, <1>2, <1>5, SendKeeps
    <2>2. /\ Len(toServer') = Len(toServer) + 1 /\ toServer'[Len(toServer) + 1] = f
          /\ \A i \in 1..Len(toServer') : i \in 1..Len(toServer) \/ i = Len(toServer) + 1
        BY <1>1, <1>5, SendKeeps
    <2>3. QED
        BY <1>5, <2>1, <2>2 DEF AnswersLast
<1>6. CASE toServer' = <<>>
    BY <1>6 DEF AnswersLast
<1>7. /\ Msg("101") \in ToServerFrame /\ Msg("101").type # "close"
      /\ Msg("other") \in ToServerFrame /\ Msg("other").type # "close"
      /\ Msg("close") \in ToServerFrame
    BY FramesAreFrames
<1>8. down < NumDown => Data(down + 1) \in ToServerFrame /\ Data(down + 1).type # "close"
    <2>1. down < NumDown => down + 1 \in 1..NumDown
        BY WsAssumption DEF TypeOK
    <2>2. QED
        BY <2>1, FramesAreFrames
<1>9. UpgradeFails \/ UpgradeAnswered \/ RelayReads \/ RelayLeaves =>
        \/ toServer' = toServer /\ ws # "gone"
        \/ \E f \in ToServerFrame : /\ ws # "gone" /\ (f.type = "close" => ws' = "gone")
                                    /\ toServer' = Append(toServer, f)
    BY <1>7, <1>8 DEF UpgradeFails, UpgradeAnswered, RelayReads, RelayLeaves, ClientSends
<1>10. \/ toServer' = toServer /\ (ws = "gone" => ws' = "gone")
       \/ toServer # <<>> /\ toServer' = Tail(toServer) /\ ws' = ws
       \/ toServer' = <<>>
       \/ UpgradeFails \/ UpgradeAnswered \/ RelayReads \/ RelayLeaves
    BY DEF Next, ServeStep, ToStep, ServerReaderStep, ClientReaderStep, RelayStep, vars,
           publicVars, serverVars, clientVars, AwaitEnds, AwaitTimesOut, FromReads,
           FromEnds, FromIdles, ToWrites, ToFails, ToEnds, RelayEnds, Finish,
           ServerReceives, ServerTakesResponse, ServerTakesData, ServerEnqueues,
           ServerDrops, ServerGivesUp, ServerTakesClose, LinkLost, ClientReceives,
           ClientTakesData, ClientWriteFails, ClientTakesClose, UpgradeFails,
           UpgradeAnswered, RelayRegisters, RelayReads, RelayReadFails, RelayIdles,
           RelayLeaves, PublicLeaves, LocalLeaves
<1>11. QED
    BY <1>3, <1>4, <1>5, <1>6, <1>9, <1>10

\* The client's close, taken by the server: nothing is left behind it.
LEMMA AllHaveCome ==
    ASSUME TypeOK, DownFlow, AnswersLast, ServerTakesClose, pr.pending, to # "gone"
    PROVE  ws = "gone" /\ Len(pubGot) + Len(pr.data) = down
<1>1. /\ toServer # <<>> /\ Head(toServer).type = "close"
      /\ toServer \in Seq(ToServerFrame) /\ taken = 0
    BY DEF ServerTakesClose, ServerReceives, TypeOK
<1>2. 1 \in 1..Len(toServer) /\ toServer[1].type = "close"
    <2>1. Len(toServer) \in Nat \ {0} /\ Head(toServer) = toServer[1]
        BY <1>1, TailShifts
    <2>2. QED
        BY <1>1, <2>1
<1>3. Len(toServer) = 1 /\ ws = "gone"
    BY <1>2 DEF AnswersLast
<1>4. \A i \in 1..Len(toServer) : ~IsData(toServer[i])
    BY <1>2, <1>3 DEF IsData
<1>5. Carries(toServer, Received, down) /\ Received <= down
    BY DEF DownFlow, Streaming
<1>6. Received \in Nat /\ down \in Nat /\ Received = Len(pubGot) + Len(pr.data)
    <2>1. pubGot \in Seq(1..NumDown) /\ pr.data \in Seq(1..NumDown)
        BY RequestFields DEF TypeOK
    <2>2. Len(pubGot) \in Nat /\ Len(pr.data) \in Nat
        BY <2>1
    <2>3. down \in Nat
        BY WsAssumption DEF TypeOK
    <2>4. QED
        BY <1>1, <2>2, <2>3 DEF Received
<1>7. Received = down
    BY <1>1, <1>4, <1>5, <1>6, NothingCarried
<1>8. QED
    BY <1>3, <1>6, <1>7

LEMMA DownEndStep ==
    ASSUME TypeOK, Handshake, DownFlow, DownEnd, [Next]_vars
    PROVE  DownEnd'
<1>1. AnswersLast'
    BY AnswerStaysLast DEF DownEnd
<1> SUFFICES ASSUME Orderly', pub' = "open"
             PROVE  (/\ pr.closed =>
                           /\ ws = "gone" /\ taken = 0
                           /\ to # "gone" => Len(pubGot) + Len(pr.data) = down
                     /\ to = "gone" => pubConn = "closed"
                     /\ pubConn = "closed" => Len(pubGot) = down /\ ws = "gone")'
    BY <1>1 DEF DownEnd
<1>2. Orderly /\ link' /\ ~cut'
    BY OrderlyWas
<1>3. pub = "open"
    BY DEF Next, ServeStep, ToStep, ServerReaderStep, ClientReaderStep, RelayStep, vars,
           publicVars, serverVars, clientVars, AwaitEnds, AwaitTimesOut, FromReads,
           FromEnds, FromIdles, ToWrites, ToFails, ToEnds, RelayEnds, Finish,
           ServerReceives, ServerTakesResponse, ServerTakesData, ServerEnqueues,
           ServerDrops, ServerGivesUp, ServerTakesClose, LinkLost, ClientReceives,
           ClientTakesData, ClientWriteFails, ClientTakesClose, UpgradeFails,
           UpgradeAnswered, RelayRegisters, RelayReads, RelayReadFails, RelayIdles,
           RelayLeaves, PublicLeaves, LocalLeaves
<1>4. /\ pr.closed => /\ ws = "gone" /\ taken = 0
                      /\ to # "gone" => Len(pubGot) + Len(pr.data) = down
      /\ to = "gone" => pubConn = "closed"
      /\ pubConn = "closed" => Len(pubGot) = down /\ ws = "gone"
    BY <1>2, <1>3 DEF DownEnd
<1>5. ToEnds => Len(pubGot) = down /\ ws = "gone"
    <2> SUFFICES ASSUME ToEnds PROVE Len(pubGot) = down /\ ws = "gone"
        OBVIOUS
    <2>1. Len(pubGot) + 0 = down /\ ws = "gone"
        BY <1>4 DEF ToEnds
    <2>2. Len(pubGot) \in Nat
        BY DEF TypeOK
    <2>3. QED
        BY <2>1, <2>2
<1>6. ~ToFails
    BY <1>2, <1>3 DEF ToFails
<1>7. RelayEnds => pubConn = "closed"
    BY <1>4 DEF RelayEnds
<1>8. /\ to' = "gone" => to = "gone" \/ ToEnds
      /\ pubConn' = "closed" => pubConn = "closed" \/ ToEnds
      /\ pubConn = "closed" => pubConn' = "closed"
      /\ ws = "gone" => ws' = "gone" /\ down' = down
      /\ pubGot' = pubGot \/ ToWrites
    <2>1. to' = "gone" => to = "gone" \/ ToEnds
        BY <1>6 DEF Next, ServeStep, ToStep, ServerReaderStep, ClientReaderStep, RelayStep,
               vars, publicVars, serverVars, clientVars, AwaitEnds, AwaitTimesOut,
               FromReads, FromEnds, FromIdles, ToWrites, ToFails, ToEnds, RelayEnds,
               Finish, ServerReceives, ServerTakesResponse, ServerTakesData,
               ServerEnqueues, ServerDrops, ServerGivesUp, ServerTakesClose, LinkLost,
               ClientReceives, ClientTakesData, ClientWriteFails, ClientTakesClose,
               UpgradeFails, UpgradeAnswered, RelayRegisters, RelayReads, RelayReadFails,
               RelayIdles, RelayLeaves, PublicLeaves, LocalLeaves
    <2>2. pubConn' = "closed" => pubConn = "closed" \/ ToEnds
        BY <1>7 DEF Next, ServeStep, ToStep, ServerReaderStep, ClientReaderStep, RelayStep,
               vars, publicVars, serverVars, clientVars, AwaitEnds, AwaitTimesOut,
               FromReads, FromEnds, FromIdles, ToWrites, ToFails, ToEnds, RelayEnds,
               Finish, ServerReceives, ServerTakesResponse, ServerTakesData,
               ServerEnqueues, ServerDrops, ServerGivesUp, ServerTakesClose, LinkLost,
               ClientReceives, ClientTakesData, ClientWriteFails, ClientTakesClose,
               UpgradeFails, UpgradeAnswered, RelayRegisters, RelayReads, RelayReadFails,
               RelayIdles, RelayLeaves, PublicLeaves, LocalLeaves
    <2>3. pubConn = "closed" => pubConn' = "closed"
        BY DEF Next, ServeStep, ToStep, ServerReaderStep, ClientReaderStep, RelayStep,
               vars, publicVars, serverVars, clientVars, AwaitEnds, AwaitTimesOut,
               FromReads, FromEnds, FromIdles, ToWrites, ToFails, ToEnds, RelayEnds,
               Finish, ServerReceives, ServerTakesResponse, ServerTakesData,
               ServerEnqueues, ServerDrops, ServerGivesUp, ServerTakesClose, LinkLost,
               ClientReceives, ClientTakesData, ClientWriteFails, ClientTakesClose,
               UpgradeFails, UpgradeAnswered, RelayRegisters, RelayReads, RelayReadFails,
               RelayIdles, RelayLeaves, PublicLeaves, LocalLeaves
    <2>4. ws = "gone" => ws' = "gone" /\ down' = down
        BY DEF Next, ServeStep, ToStep, ServerReaderStep, ClientReaderStep, RelayStep,
               vars, publicVars, serverVars, clientVars, AwaitEnds, AwaitTimesOut,
               FromReads, FromEnds, FromIdles, ToWrites, ToFails, ToEnds, RelayEnds,
               Finish, ServerReceives, ServerTakesResponse, ServerTakesData,
               ServerEnqueues, ServerDrops, ServerGivesUp, ServerTakesClose, LinkLost,
               ClientReceives, ClientTakesData, ClientWriteFails, ClientTakesClose,
               UpgradeFails, UpgradeAnswered, RelayRegisters, RelayReads, RelayReadFails,
               RelayIdles, RelayLeaves, PublicLeaves, LocalLeaves
    <2>5. pubGot' = pubGot \/ ToWrites
        BY DEF Next, ServeStep, ToStep, ServerReaderStep, ClientReaderStep, RelayStep,
               vars, publicVars, serverVars, clientVars, AwaitEnds, AwaitTimesOut,
               FromReads, FromEnds, FromIdles, ToWrites, ToFails, ToEnds, RelayEnds,
               Finish, ServerReceives, ServerTakesResponse, ServerTakesData,
               ServerEnqueues, ServerDrops, ServerGivesUp, ServerTakesClose, LinkLost,
               ClientReceives, ClientTakesData, ClientWriteFails, ClientTakesClose,
               UpgradeFails, UpgradeAnswered, RelayRegisters, RelayReads, RelayReadFails,
               RelayIdles, RelayLeaves, PublicLeaves, LocalLeaves
    <2>6. QED
        BY <2>1, <2>2, <2>3, <2>4, <2>5
<1>9. (to = "gone" => pubConn = "closed")'
    BY <1>4, <1>8 DEF ToEnds
<1>10. (pubConn = "closed" => Len(pubGot) = down /\ ws = "gone")'
    <2>1. pubConn = "closed" => pubGot' = pubGot
        BY <1>8 DEF ToWrites
    <2>2. ToEnds => pubGot' = pubGot
        BY DEF ToEnds
    <2>3. QED
        BY <1>4, <1>5, <1>8, <2>1, <2>2
<1>11. ASSUME pr'.closed
       PROVE  (/\ ws = "gone" /\ taken = 0
               /\ to # "gone" => Len(pubGot) + Len(pr.data) = down)'
    <2>1. pr.closed \in BOOLEAN /\ pr.pending \in BOOLEAN /\ pr.data \in Seq(1..NumDown)
        BY RequestFields DEF TypeOK
    <2>2. to' # "gone" => to # "gone"
        BY DownMoves
    <2>3. CASE pr.closed
        <3>1. ws' = "gone" /\ down' = down
            BY <1>4, <1>8, <2>3
        <3>2. taken = 0 /\ ~pr.pending
            BY <1>4, <2>3 DEF Handshake
        <3>3. taken' = 0
            BY <3>2 DEF Next, ServeStep, ToStep, ServerReaderStep, ClientReaderStep,
                   RelayStep, vars, publicVars, serverVars, clientVars, AwaitEnds,
                   AwaitTimesOut, FromReads, FromEnds, FromIdles, ToWrites, ToFails,
                   ToEnds, RelayEnds, Finish, ServerReceives, ServerTakesResponse,
                   ServerTakesData, ServerEnqueues, ServerDrops, ServerGivesUp,
                   ServerTakesClose, LinkLost, ClientReceives, ClientTakesData,
                   ClientWriteFails, ClientTakesClose, UpgradeFails, UpgradeAnswered,
                   RelayRegisters, RelayReads, RelayReadFails, RelayIdles, RelayLeaves,
                   PublicLeaves, LocalLeaves
        <3>4. ASSUME to' # "gone"
              PROVE  Len(pubGot') + Len(pr'.data) = Len(pubGot) + Len(pr.data)
            <4>1. CASE ToWrites
                <5>1. pr.data # <<>> /\ pubGot' = Append(pubGot, Head(pr.data))
                      /\ pr'.data = Tail(pr.data)
                    BY <4>1, RequestMoves DEF ToWrites
                <5>2. /\ Len(pr'.data) = Len(pr.data) - 1 /\ Len(pr.data) \in Nat
                      /\ Head(pr.data) \in 1..NumDown
                    BY <2>1, <5>1, QueueTypes
                <5>3. pubGot \in Seq(1..NumDown)
                    BY DEF TypeOK
                <5>4. Len(pubGot') = Len(pubGot) + 1 /\ Len(pubGot) \in Nat
                    BY <5>1, <5>2, <5>3, QueueTypes
                <5>5. \A x, y \in Nat : (x + 1) + (y - 1) = x + y
                    OBVIOUS
                <5>6. QED
                    BY <5>2, <5>4, <5>5
            <4>2. CASE ~ToWrites
                <5>1. pubGot' = pubGot
                    BY <1>8, <4>2
                <5>2. ~ServerEnqueues
                    BY <3>2 DEF ServerEnqueues
                <5>3. pr'.data = pr.data
                    BY <1>6, <4>2, <5>2, RequestMoves DEF MovesData
                <5>4. QED
                    BY <5>1, <5>3
            <4>3. QED
                BY <4>1, <4>2
        <3>5. to' # "gone" => Len(pubGot') + Len(pr'.data) = down'
            BY <1>4, <2>2, <2>3, <3>1, <3>4
        <3>6. QED
            BY <3>1, <3>3, <3>5
    <2>4. CASE ~pr.closed
        <3>1. SetsFlag
            BY <1>11, <2>4, RequestMoves DEF SameFlags, Flags
        <3>2. ~ServerGivesUp /\ ~LinkLost
            BY <1>2 DEF ServerGivesUp, LinkLost
        <3>3. ServerTakesClose /\ pr.pending
            BY <1>11, <2>1, <2>4, <3>1, <3>2, RequestMoves DEF SetsFlag, Flags
        <3>4. UNCHANGED <<ws, taken, to, pubGot, down>> /\ taken = 0
            BY <3>3 DEF ServerTakesClose, ServerReceives, publicVars, clientVars
        <3>5. pr'.data = pr.data
            BY <3>3, RequestMoves DEF SetsFlag
        <3>6. CASE to = "gone"
            BY <1>4, <3>4, <3>6
        <3>7. CASE to # "gone"
            BY <3>3, <3>4, <3>5, <3>7, AllHaveCome DEF DownEnd
        <3>8. QED
            BY <3>6, <3>7
    <2>5. QED
        BY <2>1, <2>3, <2>4
<1>12. QED
    BY <1>9, <1>10, <1>11

-----------------------------------------------------------------------------
LEMMA RelayInvInit == Init => RelayInv
<1> SUFFICES ASSUME Init PROVE RelayInv
    OBVIOUS
<1> USE DEF Init
<1>1. /\ toClient = <<>> /\ toServer = <<>> /\ localGot = <<>> /\ pubGot = <<>>
      /\ pr.data = <<>> /\ taken = 0 /\ up = 0 /\ down = 0
      /\ Len(<<>>) = 0 /\ Carries(<<>>, 0, 0)
    BY EmptyCarries
<1>2. ClientShape /\ Handshake
    BY <1>1 DEF ClientShape, Handshake
<1>3. UpFlow
    BY <1>1 DEF UpFlow, InOrder
<1>4. Received = 0
    BY <1>1 DEF Received
<1>5. DownFlow
    BY <1>1, <1>4 DEF DownFlow, Streaming, InOrder
<1>6. DownEnd
    BY <1>1 DEF DownEnd, AnswersLast
<1>7. QED
    BY <1>2, <1>3, <1>5, <1>6 DEF RelayInv

LEMMA RelayInvHolds == Spec => [](TypeOK /\ RelayInv)
<1>1. Init => TypeOK /\ RelayInv
    BY TypeInit, RelayInvInit
<1>2. TypeOK /\ RelayInv /\ [Next]_vars => TypeOK' /\ RelayInv'
    BY TypeStep, ClientShapeStep, HandshakeStep, UpFlowStep, DownFlowStep, DownEndStep
       DEF RelayInv
<1>3. QED
    BY <1>1, <1>2, PTL DEF Spec

(***************************************************************************)
(* Whatever interleaving of serveWebSocket's two goroutines, the readers   *)
(* and handleWebSocketReq, with any number of chunks and any channel size, *)
(* and whichever deadline expires or when the tunnel fails: the user       *)
(* receives a prefix of what was read from the local application, and the  *)
(* application a prefix of what was read from the user unless some of it   *)
(* came before the relay was registered.                                   *)
(***************************************************************************)
THEOREM PeersReceivePrefixes == Spec => []BothArePrefixes
<1>1. TypeOK /\ RelayInv => BothArePrefixes
    BY DEF TypeOK, RelayInv, UpFlow, DownFlow, BothArePrefixes
<1>2. QED
    BY <1>1, RelayInvHolds, PTL

(***************************************************************************)
(* When serveWebSocket closes the connection of a user who is still there, *)
(* with the tunnel up and no deadline expired, the user has been given     *)
(* every chunk: the client's close is behind all its data, and the channel *)
(* is emptied before the connection is closed.                             *)
(***************************************************************************)
THEOREM NothingIsLost == Spec => []CloseLosesNothing
<1>1. TypeOK /\ RelayInv => CloseLosesNothing
    <2> SUFFICES ASSUME TypeOK, RelayInv, link, ~cut, pubConn = "closed", pub = "open"
                 PROVE  pubGot = [i \in 1..down |-> i]
        BY DEF CloseLosesNothing
    <2>1. Len(pubGot) = down /\ InOrder(pubGot)
        BY DEF RelayInv, DownEnd, DownFlow, Orderly
    <2>2. pubGot = [i \in 1..Len(pubGot) |-> pubGot[i]]
        BY DEF TypeOK
    <2>3. \A i \in 1..Len(pubGot) : pubGot[i] = i
        BY <2>1 DEF InOrder
    <2>4. QED
        BY <2>1, <2>2, <2>3
<1>2. QED
    BY <1>1, RelayInvHolds, PTL
=============================================================================
