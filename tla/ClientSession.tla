--------------------------- MODULE ClientSession ---------------------------
(***************************************************************************)
(* The client's connect/reconnect loop (runLoop of cmd/client/main.go)     *)
(* with Connect, Run and Close of internal/client/tunnel.go, against the   *)
(* server that still has the connections the client has left behind.       *)
(*                                                                         *)
(* A connection has two ends.  The client's end is gone when the client    *)
(* closes it or dies; the server's end when its handler has cleaned up,    *)
(* which it does, name by name, some time after it noticed.  Until then    *)
(* the names of an abandoned connection are taken.  A tunnel is public     *)
(* from its registration on, so requests may come before the RegisterOK,   *)
(* and during the registrations that follow.                               *)
(*                                                                         *)
(* Waiting times (back-off 1 s doubling to 30 s, one second after a        *)
(* disconnect, deadlines) may be long or short against everything else.    *)
(* The network, the server and the client may fail any number of times:    *)
(* weather says what may still happen.                                     *)
(***************************************************************************)
EXTENDS Integers, Sequences, FiniteSets

CONSTANTS
    Plan,       \* the names that --subdomain asks for, in order
    Conn,       \* connections the server can have at once (connSem)
    NoConn,
    MaxQueue    \* bound: frames under way to the client

ASSUME SessionAssumption ==
    /\ Plan \in Seq(STRING) /\ Len(Plan) > 0
    /\ \A i, j \in 1..Len(Plan) : Plan[i] = Plan[j] => i = j
    /\ NoConn \notin Conn
    /\ MaxQueue \in Nat \ {0}

Name == {Plan[i] : i \in 1..Len(Plan)}

VARIABLES
    phase,     \* where runLoop is
    conn,      \* tunnel.conn, or NoConn
    step,      \* the registrations of Connect that were answered
    ctl,       \* the instance's control file is there
    ends,      \* each connection: [client, server, asked, link, in]
    registry,  \* each name: the connection it leads to, or NoConn
    weather    \* "storm": faults and visits, "busy": visits only, "calm"

loopVars == <<phase, conn, step, ctl>>
wireVars == <<ends, registry>>
sessionVars == <<loopVars, wireVars, weather>>

\* What a connection is that neither side has.
NoEnds == [client |-> FALSE, server |-> "none", asked |-> 0, link |-> TRUE, in |-> <<>>]

SessionInit ==
    /\ phase = "top" /\ conn = NoConn /\ step = 0
    /\ ctl = FALSE
    /\ ends = [c \in Conn |-> NoEnds]
    /\ registry = [n \in Name |-> NoConn]
    /\ weather = "storm"

\* A connection whose two ends are gone is nothing.
Forget(e) == IF ~e.client /\ e.server = "none" THEN NoEnds ELSE e

\* The client's end is closed: what was under way to it is lost.
ClientCloses(c) ==
    [ends EXCEPT ![c] = Forget([@ EXCEPT !.client = FALSE, !.in = <<>>])]

\* The client closes the connection it has, if it has one.
ClosesConn ==
    /\ ends' = IF conn = NoConn THEN ends ELSE ClientCloses(conn)
    /\ conn' = NoConn

\* A read of the client fails.
Broken(c) == ~ends[c].link \/ ends[c].server = "none"

-----------------------------------------------------------------------------
(***************************************************************************)
(* runLoop.  At its top the last tunnel is closed, with its control        *)
(* socket, the file is removed, and a new tunnel is made.                  *)
(***************************************************************************)
LoopTop ==
    /\ phase = "top"
    /\ ClosesConn
    /\ ctl' = FALSE /\ step' = 0
    /\ phase' = "dial"
    /\ UNCHANGED <<registry, weather>>

\* Connect: dial, and authenticate with the right token.
Dial ==
    /\ phase = "dial"
    /\ \E c \in Conn : ends[c] = NoEnds
    /\ conn' = CHOOSE c \in Conn : ends[c] = NoEnds
    /\ ends' = [ends EXCEPT ![conn'].client = TRUE, ![conn'].server = "read"]
    /\ phase' = "ask"
    /\ UNCHANGED <<step, ctl, registry, weather>>

\* "too many connections", or the server is not to be reached.
DialFails ==
    /\ phase = "dial"
    /\ weather = "storm" \/ \A c \in Conn : ends[c] # NoEnds
    /\ phase' = "backoff"
    /\ UNCHANGED <<conn, step, ctl, wireVars, weather>>

\* registerOne sends (over a connection that is lost, for nothing) ...
RegisterAsks ==
    /\ phase = "ask"
    /\ ends' = IF Broken(conn) THEN ends ELSE [ends EXCEPT ![conn].asked = step + 1]
    /\ phase' = "wait"
    /\ UNCHANGED <<conn, step, ctl, registry, weather>>

\* ... and takes the next frame for the answer.  After the last one the
\* control socket is opened, its file written (unless that fails, which is
\* only logged), and Run started.
RegisterAnswered ==
    /\ phase = "wait"
    /\ ends[conn].in # <<>>
    /\ Head(ends[conn].in) = "ok"
    /\ ends' = [ends EXCEPT ![conn].in = Tail(@)]
    /\ step' = step + 1
    /\ IF step + 1 = Len(Plan)
       THEN phase' = "running" /\ ctl' \in (IF weather = "storm" THEN BOOLEAN ELSE {TRUE})
       ELSE phase' = "ask" /\ UNCHANGED ctl
    /\ UNCHANGED <<conn, registry, weather>>

\* Another frame, a read error or the deadline: Connect fails.  The connection
\* stays open, with the names it has, until the loop is at its top again.
ConnectFails ==
    /\ phase = "wait"
    /\ \/ ends[conn].in # <<>> /\ Head(ends[conn].in) # "ok"
       \/ Broken(conn)
       \/ weather = "storm"
    /\ phase' = "backoff"
    /\ UNCHANGED <<conn, step, ctl, wireVars, weather>>

\* Mutant of BackoffElapses: the next attempt begins without closing the last.
BackoffElapsesToDial ==
    /\ phase = "backoff"
    /\ phase' = "dial" /\ step' = 0
    /\ UNCHANGED <<conn, ctl, wireVars, weather>>

BackoffElapses ==
    /\ phase = "backoff"
    /\ phase' = "top"
    /\ UNCHANGED <<conn, step, ctl, wireVars, weather>>

RunHandles ==
    /\ phase = "running"
    /\ ends[conn].in # <<>>
    /\ ends' = [ends EXCEPT ![conn].in = Tail(@)]
    /\ UNCHANGED <<loopVars, registry, weather>>

\* Run returns on a read error, and closes the connection.
RunEnds ==
    /\ phase = "running" /\ Broken(conn)
    /\ ClosesConn
    /\ phase' = "lost"
    /\ UNCHANGED <<step, ctl, registry, weather>>

SleepElapses ==
    /\ phase = "lost"
    /\ phase' = "top"
    /\ UNCHANGED <<conn, step, ctl, wireVars, weather>>

\* The two selects that look at sigCh, where a signal waits from whenever it
\* came.  In the back-off the file is gone already.
Interrupted ==
    /\ phase \in {"backoff", "running"}
    /\ ClosesConn
    /\ ctl' = FALSE
    /\ phase' = "exit"
    /\ UNCHANGED <<step, registry, weather>>

-----------------------------------------------------------------------------
(***************************************************************************)
(* The server: one handler per connection, as in ServerTunnels, and what   *)
(* visitors send through the names.                                        *)
(***************************************************************************)

\* A frame for the client of c: it arrives only over a connection that is whole.
Delivered(c, f) ==
    IF ends[c].link /\ ends[c].client THEN Append(ends[c].in, f) ELSE ends[c].in

\* Mutant of ServerRegisters: the last one to ask for a name has it.
ServerRegistersReplaces(c) ==
    /\ ends[c].server = "read" /\ ends[c].asked # 0
    /\ registry' = [registry EXCEPT ![Plan[ends[c].asked]] = c]
    /\ ends' = [ends EXCEPT ![c].asked = 0, ![c].server = "reply"]
    /\ UNCHANGED <<loopVars, weather>>

\* handleRegister up to registry.Register: from here on the name is public.
ServerRegisters(c) ==
    /\ ends[c].server = "read" /\ ends[c].asked # 0
    /\ LET n == Plan[ends[c].asked]
       IN  IF registry[n] = NoConn
           THEN /\ registry' = [registry EXCEPT ![n] = c]
                /\ ends' = [ends EXCEPT ![c].asked = 0, ![c].server = "reply"]
           ELSE /\ ends' = [ends EXCEPT ![c].asked = 0, ![c].in = Delivered(c, "err")]
                /\ UNCHANGED registry
    /\ UNCHANGED <<loopVars, weather>>

\* The RegisterOK is written.
ServerReplies(c) ==
    /\ ends[c].server = "reply"
    /\ ends' = [ends EXCEPT ![c].server = "read", ![c].in = Delivered(c, "ok")]
    /\ UNCHANGED <<loopVars, registry, weather>>

\* ServeHTTP finds the name and sends the request down its tunnel.
Visit(n) ==
    /\ weather # "calm"
    /\ registry[n] # NoConn
    /\ ends[registry[n]].link /\ ends[registry[n]].client
    /\ Len(ends[registry[n]].in) < MaxQueue
    /\ ends' = [ends EXCEPT ![registry[n]].in = Append(@, "req")]
    /\ UNCHANGED <<loopVars, registry, weather>>

\* The handler's read fails, or it reads MsgCloseTunnel, which comes after
\* what the client sent before.
ServerNotices(c) ==
    /\ ends[c].server = "read"
    /\ ends[c].link => ~ends[c].client /\ ends[c].asked = 0
    /\ ends' = [ends EXCEPT ![c].server = "clean"]
    /\ UNCHANGED <<loopVars, registry, weather>>

\* cleanup unregisters the names one by one ...
CleanupReleases(c) ==
    /\ ends[c].server = "clean"
    /\ \E n \in Name : registry[n] = c /\ registry' = [registry EXCEPT ![n] = NoConn]
    /\ UNCHANGED <<loopVars, ends, weather>>

\* ... and closes the connection last.
CleanupEnds(c) ==
    /\ ends[c].server = "clean"
    /\ \A n \in Name : registry[n] # c
    /\ ends' = [ends EXCEPT ![c] = Forget([@ EXCEPT !.server = "none", !.asked = 0])]
    /\ UNCHANGED <<loopVars, registry, weather>>

-----------------------------------------------------------------------------
(***************************************************************************)
(* What goes wrong, and when it stops going wrong.                         *)
(***************************************************************************)
LinkFails(c) ==
    /\ weather = "storm"
    /\ ends[c].link /\ ends[c] # NoEnds
    /\ ends' = [ends EXCEPT ![c].link = FALSE]
    /\ UNCHANGED <<loopVars, registry, weather>>

\* The server's process is replaced by a new one.
ServerRestarts ==
    /\ weather = "storm"
    /\ ends' = [c \in Conn |-> Forget([ends[c] EXCEPT !.server = "none", !.asked = 0])]
    /\ registry' = [n \in Name |-> NoConn]
    /\ UNCHANGED <<loopVars, weather>>

\* The client's process ends, its sockets closed by the system; `then' is
\* "top" if another one takes its place, "down" if none does.
ProcessEnds(then) ==
    /\ phase \notin {"exit", "down"}
    /\ ClosesConn
    /\ phase' = then /\ step' = 0 /\ ctl' = FALSE
    /\ UNCHANGED <<registry, weather>>

ProcessStarts ==
    /\ weather = "storm" /\ phase \in {"exit", "down"}
    /\ phase' = "top" /\ step' = 0
    /\ UNCHANGED <<conn, ctl, wireVars, weather>>

WeatherClears ==
    /\ weather' = CASE weather = "storm" -> "busy"
                    [] weather = "busy" -> "calm"
                    [] OTHER -> weather
    /\ weather # "calm"
    /\ UNCHANGED <<loopVars, wireVars>>

-----------------------------------------------------------------------------
LoopStep ==
    \/ LoopTop \/ Dial \/ DialFails
    \/ RegisterAsks \/ RegisterAnswered \/ ConnectFails
    \/ BackoffElapses \/ RunHandles \/ RunEnds \/ SleepElapses

ServerStep(c) ==
    \/ ServerRegisters(c) \/ ServerReplies(c)
    \/ ServerNotices(c) \/ CleanupReleases(c) \/ CleanupEnds(c)

Environment ==
    \/ \E n \in Name : Visit(n)
    \/ \E c \in Conn : LinkFails(c)
    \/ ServerRestarts \/ WeatherClears

SessionNext ==
    \/ LoopStep \/ Interrupted
    \/ \E c \in Conn : ServerStep(c)
    \/ Environment
    \/ ProcessEnds("down") \/ ProcessStarts

\* The loop goes on, and each of the server's handlers does.  Nothing else must
\* happen: not that the weather clears.
SessionFairness ==
    /\ WF_sessionVars(LoopStep)
    /\ \A c \in Conn : WF_sessionVars(ServerStep(c))

SessionSpec == SessionInit /\ [][SessionNext]_sessionVars /\ SessionFairness

-----------------------------------------------------------------------------
Frame == {"ok", "err", "req"}

Ends == [client : BOOLEAN, server : {"none", "read", "reply", "clean"},
         asked : 0..Len(Plan), link : BOOLEAN, in : Seq(Frame)]

SessionTypeOK ==
    /\ phase \in {"top", "dial", "ask", "wait", "backoff", "running", "lost", "exit", "down"}
    /\ conn \in Conn \cup {NoConn}
    /\ step \in 0..Len(Plan)
    /\ ctl \in BOOLEAN
    /\ ends \in [Conn -> Ends]
    /\ registry \in [Name -> Conn \cup {NoConn}]
    /\ weather \in {"storm", "busy", "calm"}

\* Every name that was asked for leads to the client's connection.
Routed == \A n \in Name : registry[n] = conn

\* A client that tells its user that the tunnels are ready, over a connection
\* whose handler has not begun to clean up, has every name it asked for: no
\* answer to an earlier connection's registration is taken for this one's, and
\* no clean-up of an abandoned connection takes a name away from its successor
\* (runLoop after Connect, against handleRegister and cleanup).
RunningMeansRouted ==
    phase = "running" /\ ends[conn].server \in {"read", "reply"} => Routed

\* The strengthening that makes RunningMeansRouted inductive.  Only the client's
\* connection has a client's end, and a name leads only to a connection whose
\* handler is there.  Of the connection that is being set up, or runs: the names
\* that were answered lead to it, and the next one is asked for, registered, or
\* answered, one after the other and each once.
NoOk(in) == \A i \in 1..Len(in) : in[i] # "ok"

OneOk(in) == \A i, j \in 1..Len(in) : in[i] = "ok" /\ in[j] = "ok" => i = j

\* Of a connection c with end e.
AskedInTurn(c, e) ==
    /\ \A i \in 1..step : registry[Plan[i]] = c
    /\ phase = "ask" => e.asked = 0 /\ e.server = "read" /\ NoOk(e.in)
    /\ phase = "wait" =>
          /\ e.asked \in {0, step + 1}
          /\ e.asked # 0 => e.server = "read" /\ NoOk(e.in)
          /\ e.server = "reply" => NoOk(e.in)
          /\ e.server = "reply" \/ ~NoOk(e.in) => registry[Plan[step + 1]] = c
          /\ OneOk(e.in)

SessionInv ==
    /\ \A c \in Conn : ends[c].client <=> conn = c
    /\ phase \in {"ask", "wait", "running"} => conn # NoConn
    /\ phase \in {"dial", "lost", "exit", "down"} => conn = NoConn
    /\ phase = "dial" => step = 0
    /\ phase \in {"ask", "wait"} => step < Len(Plan)
    /\ phase = "running" => step = Len(Plan)
    /\ \A n \in Name : registry[n] # NoConn => ends[registry[n]].server # "none"
    /\ phase \in {"ask", "wait", "running"} /\ ends[conn].server \in {"read", "reply"}
          => AskedInTurn(conn, ends[conn])

\* Once faults and visitors have ceased, runLoop brings every name back,
\* whatever half-made connections its earlier attempts have left on the server
\* (unless the process was told to stop, or died).
Recovers ==
    weather = "calm" ~> (phase \in {"exit", "down"} \/ (phase = "running" /\ Routed))
=============================================================================
