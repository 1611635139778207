--------------------------- MODULE ClientForwards ---------------------------
(***************************************************************************)
(* The client's list of forwards (internal/client/tunnel.go): filled by    *)
(* Connect, then changed by AddPort and RemovePort, which the control      *)
(* socket and the tray call from goroutines of their own while Run reads   *)
(* the answers.  The server's side of the exchange is handleRegister*,     *)
(* handleUnregister and the forwarding of public requests                  *)
(* (internal/server/handler.go).                                           *)
(*                                                                         *)
(* Answers carry no number: an answer resolves the call that waits when it *)
(* arrives.  One AddPort and one RemovePort wait at a time; either gives   *)
(* up after 15 seconds, which here may pass at any moment.  One WebSocket  *)
(* connection is modelled, while it is up; frames keep their order in each *)
(* direction.  The server may refuse any registration (a name taken, the   *)
(* limit, no port).                                                        *)
(***************************************************************************)
EXTENDS Integers, Sequences, FiniteSets, FiniteSetsExt

CONSTANTS
    Caller,      \* goroutines that call AddPort and RemovePort
    LocalPort,   \* local ports
    Plan,        \* what Connect registers: a sequence of [kind, port]
    MaxCalls,    \* bound: AddPort and RemovePort calls
    MaxReqs,     \* bound: public requests
    NoCaller

Kind == {"http", "tcp", "tls"}

ASSUME ForwardsAssumption ==
    /\ Plan \in Seq([kind : Kind, port : LocalPort])
    /\ MaxCalls \in Nat /\ MaxReqs \in Nat
    /\ NoCaller \notin Caller

VARIABLES
    phase,      \* "connect", "run", or "failed": Connect returned an error
    step,       \* Connect has had this many registrations answered
    asked,      \* Connect has sent the next one
    forwards,   \* t.forwards, as a set: ids are given in the order of the list
    addCh, addPort,    \* the AddPort call that waits, and its port
    delCh, delID,      \* the RemovePort call that waits, and its tunnel
    call, arg, ans,    \* each caller: what it is in, with what, answered what
    toServer, toClient,
    made,       \* the tunnels the server has made: [id, kind, port]
    held,       \* the ids of those it still has
    replying,   \* the tunnel the server has registered and not yet answered, or 0
    calls, reqs,    \* for the bounds
    late        \* some call has given up waiting

connectVars == <<phase, step, asked>>
waiting == <<addCh, addPort, delCh, delID>>
callerVars == <<call, arg, ans, calls, late>>
serverVars == <<made, held, replying, reqs>>
vars == <<connectVars, forwards, waiting, callerVars, toServer, toClient, serverVars>>

Init ==
    /\ phase = "connect" /\ step = 0 /\ asked = FALSE
    /\ forwards = {}
    /\ addCh = NoCaller /\ addPort = 0 /\ delCh = NoCaller /\ delID = 0
    /\ call = [c \in Caller |-> "idle"]
    /\ arg = [c \in Caller |-> 0]
    /\ ans = [c \in Caller |-> "none"]
    /\ calls = 0 /\ late = FALSE
    /\ toServer = <<>> /\ toClient = <<>>
    /\ made = {} /\ held = {} /\ replying = 0 /\ reqs = 0

Register(k, p) == [type |-> "register", kind |-> k, port |-> p, id |-> 0]
Unregister(id) == [type |-> "unregister", kind |-> "http", port |-> 0, id |-> id]
Answer(t, id) == [type |-> t, id |-> id]

\* setMapping and removeMapping: the list after an answer.
SetMapping(id, p) == forwards \cup {[id |-> id, port |-> p]}
RemoveMapping(id) == {f \in forwards : f.id # id}

-----------------------------------------------------------------------------
(***************************************************************************)
(* Connect: registerOne sends, then takes the next frame as the answer,    *)
(* whatever it is.                                                         *)
(***************************************************************************)
ConnectAsks ==
    /\ phase = "connect" /\ ~asked
    /\ step < Len(Plan)
    /\ toServer' = Append(toServer, Register(Plan[step + 1].kind, Plan[step + 1].port))
    /\ asked' = TRUE
    /\ UNCHANGED <<phase, step, forwards, waiting, callerVars, toClient, serverVars>>

ConnectAnswered ==
    /\ phase = "connect" /\ asked
    /\ toClient # <<>> /\ toClient' = Tail(toClient)
    /\ asked' = FALSE
    /\ LET f == Head(toClient)
       IN  /\ step' = IF f.type = "ok" THEN step + 1 ELSE step
           /\ phase' = IF f.type = "ok" THEN "connect" ELSE "failed"
           /\ forwards' = IF f.type = "ok"
                          THEN SetMapping(f.id, Plan[step + 1].port)
                          ELSE forwards
    /\ UNCHANGED <<waiting, callerVars, toServer, serverVars>>

Connected ==
    /\ phase = "connect" /\ step = Len(Plan)
    /\ phase' = "run"
    /\ UNCHANGED <<step, asked, forwards, waiting, callerVars, toServer, toClient, serverVars>>

-----------------------------------------------------------------------------
(***************************************************************************)
(* AddPort and RemovePort.  The frame is written after addMu is let go; an *)
(* answer that comes in between resolves the call just as one that comes   *)
(* right after, so the two are one step.                                   *)
(***************************************************************************)
Calls(c) ==
    /\ phase = "run" /\ call[c] = "idle"
    /\ calls < MaxCalls /\ calls' = calls + 1

\* Mutant of AddPort: several calls may wait at once.
AddPortAlways(c, p) ==
    /\ Calls(c)
    /\ addCh' = c /\ addPort' = p
    /\ toServer' = Append(toServer, Register("http", p))
    /\ call' = [call EXCEPT ![c] = "add"]
    /\ arg' = [arg EXCEPT ![c] = p]
    /\ ans' = [ans EXCEPT ![c] = "none"]
    /\ UNCHANGED <<connectVars, forwards, delCh, delID, late, toClient, serverVars>>

\* "another add operation in progress" changes nothing.
AddPort(c, p) ==
    /\ Calls(c)
    /\ addCh = NoCaller
    /\ addCh' = c /\ addPort' = p
    /\ toServer' = Append(toServer, Register("http", p))
    /\ call' = [call EXCEPT ![c] = "add"]
    /\ arg' = [arg EXCEPT ![c] = p]
    /\ ans' = [ans EXCEPT ![c] = "none"]
    /\ UNCHANGED <<connectVars, forwards, delCh, delID, late, toClient, serverVars>>

\* RemovePort takes the first forward of the port under mappingsMu ...
RemovePort(c, p) ==
    /\ Calls(c)
    /\ \E f \in forwards : f.port = p
    /\ call' = [call EXCEPT ![c] = "picked"]
    /\ arg' = [arg EXCEPT ![c] = Min({f.id : f \in {g \in forwards : g.port = p}})]
    /\ ans' = [ans EXCEPT ![c] = "none"]
    /\ UNCHANGED <<connectVars, forwards, waiting, late, toServer, toClient, serverVars>>

\* ... and then asks for it to be removed, unless another delete waits.
RemoveAsks(c) ==
    /\ call[c] = "picked"
    /\ IF delCh = NoCaller
       THEN /\ delCh' = c /\ delID' = arg[c]
            /\ toServer' = Append(toServer, Unregister(arg[c]))
            /\ call' = [call EXCEPT ![c] = "del"]
       ELSE /\ call' = [call EXCEPT ![c] = "idle"]
            /\ UNCHANGED <<delCh, delID, toServer>>
    /\ UNCHANGED <<connectVars, forwards, addCh, addPort, arg, ans, calls, late, toClient, serverVars>>

CallReturns(c) ==
    /\ call[c] \in {"add", "del"} /\ ans[c] # "none"
    /\ call' = [call EXCEPT ![c] = "idle"]
    /\ UNCHANGED <<connectVars, forwards, waiting, arg, ans, calls, late, toServer, toClient, serverVars>>

\* The timeout forgets whichever call waits, even if its own was answered.
CallTimesOut(c) ==
    /\ call[c] \in {"add", "del"}
    /\ call' = [call EXCEPT ![c] = "idle"]
    /\ IF call[c] = "add"
       THEN addCh' = NoCaller /\ UNCHANGED delCh
       ELSE delCh' = NoCaller /\ UNCHANGED addCh
    /\ late' = TRUE
    /\ UNCHANGED <<connectVars, forwards, addPort, delID, arg, ans, calls, toServer, toClient, serverVars>>

-----------------------------------------------------------------------------
(***************************************************************************)
(* Run's loop.                                                             *)
(***************************************************************************)
RunTakes(types) ==
    /\ phase = "run"
    /\ toClient # <<>> /\ Head(toClient).type \in types
    /\ toClient' = Tail(toClient)

HandleAddResponse ==
    /\ RunTakes({"ok", "err"})
    /\ addCh' = NoCaller
    /\ IF addCh = NoCaller
       THEN UNCHANGED <<forwards, ans>>
       ELSE /\ forwards' = IF Head(toClient).type = "ok"
                           THEN SetMapping(Head(toClient).id, addPort)
                           ELSE forwards
            /\ ans' = [ans EXCEPT ![addCh] = Head(toClient).type]
    /\ UNCHANGED <<connectVars, addPort, delCh, delID, call, arg, calls, late, toServer, serverVars>>

\* Mutant of HandleDelResponse: an error removes the forward as well.
HandleDelResponseAlways ==
    /\ RunTakes({"uok", "uerr"})
    /\ delCh' = NoCaller
    /\ IF delCh = NoCaller
       THEN UNCHANGED <<forwards, ans>>
       ELSE /\ forwards' = RemoveMapping(delID)
            /\ ans' = [ans EXCEPT ![delCh] = IF Head(toClient).type = "uok" THEN "ok" ELSE "err"]
    /\ UNCHANGED <<connectVars, addCh, addPort, delID, call, arg, calls, late, toServer, serverVars>>

HandleDelResponse ==
    /\ RunTakes({"uok", "uerr"})
    /\ delCh' = NoCaller
    /\ IF delCh = NoCaller
       THEN UNCHANGED <<forwards, ans>>
       ELSE /\ forwards' = IF Head(toClient).type = "uok"
                           THEN RemoveMapping(delID) ELSE forwards
            /\ ans' = [ans EXCEPT ![delCh] = IF Head(toClient).type = "uok" THEN "ok" ELSE "err"]
    /\ UNCHANGED <<connectVars, addCh, addPort, delID, call, arg, calls, late, toServer, serverVars>>

\* A request goes to a goroutine of its own, which asks portFor.
HandleRequest ==
    /\ RunTakes({"request"})
    /\ UNCHANGED <<connectVars, forwards, waiting, callerVars, toServer, serverVars>>

-----------------------------------------------------------------------------
(***************************************************************************)
(* The server: the tunnel is in the registry before its answer is sent.    *)
(***************************************************************************)
ServerReads(t) ==
    /\ replying = 0
    /\ toServer # <<>> /\ Head(toServer).type = t
    /\ toServer' = Tail(toServer)

\* Mutant of ServerRegisters: the handler's map does not get the tunnel.
ServerRegistersUnheld ==
    /\ ServerReads("register")
    /\ LET id == Cardinality(made) + 1
       IN  /\ made' = made \cup {[id |-> id, kind |-> Head(toServer).kind, port |-> Head(toServer).port]}
           /\ replying' = id
    /\ UNCHANGED <<connectVars, forwards, waiting, callerVars, toClient, held, reqs>>

ServerRegisters ==
    /\ ServerReads("register")
    /\ LET id == Cardinality(made) + 1
       IN  /\ made' = made \cup {[id |-> id, kind |-> Head(toServer).kind, port |-> Head(toServer).port]}
           /\ held' = held \cup {id}
           /\ replying' = id
    /\ UNCHANGED <<connectVars, forwards, waiting, callerVars, toClient, reqs>>

ServerReplies ==
    /\ replying # 0
    /\ toClient' = Append(toClient, Answer("ok", replying))
    /\ replying' = 0
    /\ UNCHANGED <<connectVars, forwards, waiting, callerVars, toServer, made, held, reqs>>

\* Mutant of ServerRefuses: no answer.
ServerRefusesSilently ==
    /\ ServerReads("register")
    /\ UNCHANGED <<connectVars, forwards, waiting, callerVars, toClient, serverVars>>

ServerRefuses ==
    /\ ServerReads("register")
    /\ toClient' = Append(toClient, Answer("err", 0))
    /\ UNCHANGED <<connectVars, forwards, waiting, callerVars, serverVars>>

\* Mutant of ServerUnregisters: success is reported for any tunnel.
ServerUnregistersAny ==
    /\ ServerReads("unregister")
    /\ LET id == Head(toServer).id
           http == {t.id : t \in {u \in made : u.kind = "http"}}
       IN  /\ held' = held \ ({id} \cap http)
           /\ toClient' = Append(toClient, Answer("uok", id))
    /\ UNCHANGED <<connectVars, forwards, waiting, callerVars, made, replying, reqs>>

\* handleUnregister looks the id up among the HTTP tunnels only.
ServerUnregisters ==
    /\ ServerReads("unregister")
    /\ LET id == Head(toServer).id
           known == \E t \in made : t.id = id /\ t.kind = "http" /\ id \in held
       IN  /\ held' = IF known THEN held \ {id} ELSE held
           /\ toClient' = Append(toClient, Answer(IF known THEN "uok" ELSE "uerr", id))
    /\ UNCHANGED <<connectVars, forwards, waiting, callerVars, made, replying, reqs>>

\* Someone visits a tunnel: MsgHTTPReq or MsgTCPOpen, from another goroutine.
ServerForwards(id) ==
    /\ id \in held
    /\ reqs < MaxReqs /\ reqs' = reqs + 1
    /\ toClient' = Append(toClient, Answer("request", id))
    /\ UNCHANGED <<connectVars, forwards, waiting, callerVars, toServer, made, held, replying>>

-----------------------------------------------------------------------------
ConnectStep == ConnectAsks \/ ConnectAnswered \/ Connected

RunStep == HandleAddResponse \/ HandleDelResponse \/ HandleRequest

ServerStep == ServerRegisters \/ ServerReplies \/ ServerRefuses \/ ServerUnregisters

Next ==
    \/ ConnectStep \/ RunStep \/ ServerStep
    \/ \E id \in held : ServerForwards(id)
    \/ \E c \in Caller :
         \/ \E p \in LocalPort : AddPort(c, p) \/ RemovePort(c, p)
         \/ RemoveAsks(c) \/ CallReturns(c) \/ CallTimesOut(c)

Spec == Init /\ [][Next]_vars

\* Both readers and the callers run.  Whether a timeout comes first is open.
FairSpec ==
    /\ Spec
    /\ WF_vars(ConnectStep) /\ WF_vars(RunStep) /\ WF_vars(ServerStep)
    /\ \A c \in Caller : WF_vars(RemoveAsks(c)) /\ WF_vars(CallReturns(c))

-----------------------------------------------------------------------------
Ids == 1..(Len(Plan) + MaxCalls)

TypeOK ==
    /\ phase \in {"connect", "run", "failed"} /\ step \in 0..Len(Plan)
    /\ asked \in BOOLEAN
    /\ forwards \subseteq [id : Ids, port : LocalPort]
    /\ addCh \in Caller \cup {NoCaller} /\ addPort \in LocalPort \cup {0}
    /\ delCh \in Caller \cup {NoCaller} /\ delID \in Ids \cup {0}
    /\ call \in [Caller -> {"idle", "add", "picked", "del"}]
    /\ arg \in [Caller -> LocalPort \cup Ids \cup {0}]
    /\ ans \in [Caller -> {"none", "ok", "err"}]
    /\ calls \in 0..MaxCalls /\ reqs \in 0..MaxReqs /\ late \in BOOLEAN
    /\ \A i \in 1..Len(toServer) : toServer[i] \in
          [type : {"register", "unregister"}, kind : Kind, port : LocalPort \cup {0}, id : Ids \cup {0}]
    /\ \A i \in 1..Len(toClient) : toClient[i] \in
          [type : {"ok", "err", "uok", "uerr", "request"}, id : Ids \cup {0}]
    /\ made \subseteq [id : Ids, kind : Kind, port : LocalPort]
    /\ held \subseteq {t.id : t \in made} /\ replying \in held \cup {0}

\* The local port of a forward is the one its tunnel was registered for.
MappingsRight ==
    \A f \in forwards : \E t \in made : t.id = f.id /\ t.port = f.port

(***************************************************************************)
(* As long as every call has waited for its answer, portFor leads every    *)
(* tunnel to the port it was registered for, although the answers carry no *)
(* number and calls come from several goroutines during Run and Connect.   *)
(***************************************************************************)
InTimeMappingsRight == ~late => MappingsRight

(***************************************************************************)
(* As long as every call has waited for its answer: when nothing is under  *)
(* way, the client's list is exactly what the server has, so LIST tells    *)
(* the truth and no tunnel is left that DEL could not name.                *)
(***************************************************************************)
Quiet ==
    /\ toServer = <<>> /\ toClient = <<>> /\ replying = 0
    /\ phase = "run" /\ addCh = NoCaller /\ delCh = NoCaller

QuietListsAgree ==
    ~late /\ Quiet => {f.id : f \in forwards} = held

(***************************************************************************)
(* "OK removed port" is true: the tunnel the call picked is in neither     *)
(* list any more, whatever other calls did since it was picked.            *)
(***************************************************************************)
RemovedIsGone ==
    ~late => \A c \in Caller :
        call[c] = "del" /\ ans[c] = "ok" =>
            arg[c] \notin held /\ \A f \in forwards : f.id # arg[c]

(***************************************************************************)
(* A call is answered without the help of its timeout, unless the timeout  *)
(* of another call comes in between.                                       *)
(***************************************************************************)
CallsAnswered ==
    \A c \in Caller : call[c] \in {"add", "del"} ~> call[c] = "idle" \/ late

-----------------------------------------------------------------------------
(***************************************************************************)
(* The README: the client "looks up the local port by TunnelID, forwards   *)
(* the request to the correct localhost:<port>".  A late answer makes the  *)
(* next AddPort record its own port for the earlier call's tunnel.         *)
(***************************************************************************)
RequestsReachTheirPort == MappingsRight
=============================================================================
