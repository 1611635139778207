------------------------ MODULE ClientForwardsProofs ------------------------
(***************************************************************************)
(* What the client's list of forwards says of the server's tunnels, for    *)
(* any number of callers, ports, calls and requests and any plan.          *)
(*                                                                         *)
(* Answers carry no number.  The client can tell whose answer it has only  *)
(* because one registration is under way at a time, in one of three places *)
(* (its frame, the server's handler, its answer), and one unregistration   *)
(* in one of two.  The invariant says where they are.                      *)
(***************************************************************************)
EXTENDS ClientForwards, WellFoundedInduction, FiniteSetTheorems, TLAPS

ToServer == [type : {"register", "unregister"}, kind : Kind,
             port : LocalPort \cup {0}, id : Ids \cup {0}]
ToClient == [type : {"ok", "err", "uok", "uerr", "request"}, id : Ids \cup {0}]

\* The frames of a queue; none, or at most one, of some types.
In(q) == {q[i] : i \in 1..Len(q)}
None(q, T) == \A f \in In(q) : f.type \notin T
One(q, T) == \A i, j \in 1..Len(q) : q[i].type \in T /\ q[j].type \in T => i = j

MadeIds == {t.id : t \in made}
ForwardIds == {f.id : f \in forwards}
Picked == {c \in Caller : call[c] = "picked"}

Typed ==
    /\ phase \in {"connect", "run", "failed"} /\ step \in 0..Len(Plan) /\ asked \in BOOLEAN
    /\ forwards \subseteq [id : Ids, port : LocalPort]
    /\ addCh \in Caller \cup {NoCaller} /\ addPort \in LocalPort \cup {0}
    /\ delCh \in Caller \cup {NoCaller} /\ delID \in Ids \cup {0}
    /\ call \in [Caller -> {"idle", "add", "picked", "del"}]
    /\ arg \in [Caller -> LocalPort \cup Ids \cup {0}]
    /\ ans \in [Caller -> {"none", "ok", "err"}]
    /\ calls \in 0..MaxCalls /\ reqs \in 0..MaxReqs /\ late \in BOOLEAN
    /\ toServer \in Seq(ToServer) /\ toClient \in Seq(ToClient)
    /\ made \subseteq [id : Ids, kind : Kind, port : LocalPort]
    /\ held \subseteq MadeIds /\ replying \in held \cup {0}

\* Before Run there are no calls; what is listed or asked for has been made.
Shape ==
    /\ asked => phase = "connect"
    /\ asked \/ phase = "failed" => step < Len(Plan)
    /\ phase # "run" => /\ addCh = NoCaller /\ delCh = NoCaller
                        /\ \A c \in Caller : call[c] = "idle"
    /\ addCh # NoCaller => addPort \in LocalPort
    /\ \A f \in In(toServer) : f.type = "register" => f.port \in LocalPort
    /\ \A f \in In(toServer) : f.type = "unregister" => f.id \in MadeIds
    /\ \A f \in In(toClient) : f.type = "ok" => f.id \in MadeIds
    /\ ForwardIds \subseteq MadeIds
    /\ \A c \in Caller : call[c] \in {"picked", "del"} => arg[c] \in MadeIds

\* Tunnels are numbered from 1, and no number is given twice.
Numbered ==
    /\ IsFiniteSet(made) /\ MadeIds = 1..Cardinality(made)
    /\ \A t, u \in made : t.id = u.id => t = u

\* A tunnel, a frame and a forward picked for removal each cost a call or an
\* entry of the plan.
Spent == Cardinality(made) + Len(toServer) + Cardinality(Picked)
Allowed == step + (IF asked \/ phase = "failed" THEN 1 ELSE 0) + calls
Budget == IsFiniteSet(Picked) /\ Spent <= Allowed

-----------------------------------------------------------------------------
\* The port of the registration under way.
Outstanding == asked \/ addCh # NoCaller
Wanted == IF phase = "connect" THEN Plan[step + 1].port ELSE addPort
LeadsTo(id, p) == \E t \in made : t.id = id /\ t.port = p

AddInTurn ==
    /\ addCh # NoCaller => call[addCh] = "add" /\ ans[addCh] = "none"
    /\ phase # "failed" =>
          /\ One(toServer, {"register"}) /\ One(toClient, {"ok", "err"})
          /\ replying # 0 \/ ~Outstanding => None(toServer, {"register"})
          /\ \/ None(toServer, {"register"}) /\ replying = 0 /\ Outstanding
             \/ None(toClient, {"ok", "err"})
          /\ ~Outstanding => replying = 0
          /\ \A f \in In(toServer) : f.type = "register" => f.port = Wanted
          /\ replying # 0 => LeadsTo(replying, Wanted)
          /\ \A f \in In(toClient) : f.type = "ok" => LeadsTo(f.id, Wanted)

DelInTurn ==
    /\ delCh # NoCaller => call[delCh] = "del" /\ ans[delCh] = "none" /\ arg[delCh] = delID
    /\ One(toServer, {"unregister"}) /\ One(toClient, {"uok", "uerr"})
    /\ delCh = NoCaller => None(toServer, {"unregister"})
    /\ \/ None(toServer, {"unregister"}) /\ delCh # NoCaller
       \/ None(toClient, {"uok", "uerr"})
    /\ \A f \in In(toServer) : f.type = "unregister" => f.id = delID
    /\ \A f \in In(toClient) : f.type = "uok" => f.id = delID

\* Tunnels the server has and the client does not list yet, and the reverse.
Adding == ({replying} \ {0}) \cup {f.id : f \in {g \in In(toClient) : g.type = "ok"}}
Removed == {f.id : f \in {g \in In(toClient) : g.type = "uok"}}

Lists ==
    phase # "failed" =>
        /\ held \cup Removed = ForwardIds \cup Adding
        /\ held \cap Removed = {} /\ ForwardIds \cap Adding = {}
        /\ Adding \subseteq held
        /\ \A c \in Caller : call[c] \in {"picked", "del"} => arg[c] \notin Adding

InTime ==
    ~late =>
        /\ AddInTurn /\ DelInTurn /\ Lists
        /\ \A c \in Caller : call[c] = "picked" => ans[c] = "none"
        /\ MappingsRight

ForwardsInv == Typed /\ Shape /\ Numbered /\ Budget /\ InTime /\ RemovedIsGone

-----------------------------------------------------------------------------
(***************************************************************************)
(* What adding a frame to a queue, and taking one, does to its frames.     *)
(***************************************************************************)
LEMMA QueueAppend ==
    ASSUME NEW F, NEW q \in Seq(F), NEW f \in F
    PROVE  /\ Append(q, f) \in Seq(F) /\ Len(q) \in Nat /\ Len(Append(q, f)) = Len(q) + 1
           /\ In(Append(q, f)) = In(q) \cup {f}
           /\ \A T : /\ f.type \notin T /\ None(q, T) => None(Append(q, f), T)
                     /\ f.type \notin T /\ One(q, T) => One(Append(q, f), T)
                     /\ None(q, T) => One(Append(q, f), T)
<1> DEFINE r == Append(q, f)
<1>1. /\ r \in Seq(F) /\ Len(q) \in Nat /\ Len(r) = Len(q) + 1
      /\ r[Len(q) + 1] = f /\ \A i \in 1..Len(q) : r[i] = q[i]
    OBVIOUS
<1> HIDE DEF r
<1>2. \A i \in 1..Len(r) : i \in 1..Len(q) \/ i = Len(q) + 1
    BY <1>1
<1>3. Len(q) + 1 \in 1..Len(r) /\ \A i \in 1..Len(q) : i \in 1..Len(r)
    BY <1>1
<1>4. In(r) = In(q) \cup {f}
    BY <1>1, <1>2, <1>3 DEF In
<1>5. ASSUME NEW T, None(q, T) PROVE \A i \in 1..Len(q) : q[i].type \notin T
    BY <1>5 DEF None, In
<1>6. ASSUME NEW T, f.type \notin T, One(q, T) PROVE One(r, T)
    BY <1>1, <1>2, <1>6 DEF One
<1>7. ASSUME NEW T, None(q, T) PROVE One(r, T)
    BY <1>1, <1>2, <1>5, <1>7 DEF One
<1>8. ASSUME NEW T, f.type \notin T, None(q, T) PROVE None(r, T)
    BY <1>4, <1>8 DEF None
<1>9. QED
    BY <1>1, <1>4, <1>6, <1>7, <1>8 DEF r

LEMMA QueueTail ==
    ASSUME NEW F, NEW q \in Seq(F), q # <<>>
    PROVE  /\ Tail(q) \in Seq(F) /\ Len(q) \in Nat /\ Len(Tail(q)) = Len(q) - 1
           /\ Head(q) \in F /\ In(q) = In(Tail(q)) \cup {Head(q)}
           /\ \A T : /\ None(q, T) => None(Tail(q), T)
                     /\ One(q, T) => One(Tail(q), T)
                     /\ One(q, T) /\ Head(q).type \in T => None(Tail(q), T)
                     /\ Head(q).type \in T => ~None(q, T)
<1> DEFINE r == Tail(q)
<1>1. /\ r \in Seq(F) /\ Len(q) \in Nat \ {0} /\ Len(r) = Len(q) - 1
      /\ Head(q) = q[1] /\ Head(q) \in F
      /\ \A i \in 1..Len(r) : r[i] = q[i + 1]
    OBVIOUS
<1> HIDE DEF r
<1>2. \A i \in 1..Len(r) : i + 1 \in 1..Len(q) /\ i + 1 # 1
    BY <1>1
<1>3. 1 \in 1..Len(q) /\ \A i \in 1..Len(q) : i = 1 \/ \E j \in 1..Len(r) : i = j + 1
    <2>1. 1 \in 1..Len(q)
        BY <1>1
    <2>2. ASSUME NEW i \in 1..Len(q), i # 1 PROVE i - 1 \in 1..Len(r) /\ i = (i - 1) + 1
        BY <1>1, <2>2
    <2>3. QED
        BY <2>1, <2>2
<1>4. In(q) = In(r) \cup {Head(q)}
    <2>1. \A i \in 1..Len(q) : q[i] = Head(q) \/ \E j \in 1..Len(r) : q[i] = r[j]
        BY <1>1, <1>3
    <2>2. \A j \in 1..Len(r) : \E i \in 1..Len(q) : r[j] = q[i]
        BY <1>1, <1>2
    <2>3. \E i \in 1..Len(q) : Head(q) = q[i]
        BY <1>1, <1>3
    <2>4. QED
        BY <2>1, <2>2, <2>3 DEF In
<1>5. ASSUME NEW T, None(q, T) PROVE None(r, T)
    BY <1>4, <1>5 DEF None
<1>6. ASSUME NEW T, One(q, T) PROVE One(r, T)
    <2>1. ASSUME NEW i \in 1..Len(r), NEW j \in 1..Len(r), r[i].type \in T, r[j].type \in T
          PROVE  i = j
        <3>1. i + 1 = j + 1
            BY <1>1, <1>2, <1>6, <2>1 DEF One
        <3>2. QED
            BY <1>1, <3>1
    <2>2. QED
        BY <2>1 DEF One
<1>7. ASSUME NEW T, One(q, T), Head(q).type \in T PROVE None(r, T)
    <2>1. \A i \in 1..Len(r) : r[i].type \notin T
        BY <1>1, <1>2, <1>3, <1>7 DEF One
    <2>2. QED
        BY <2>1 DEF None, In
<1>8. ASSUME NEW T, Head(q).type \in T PROVE ~None(q, T)
    BY <1>4, <1>8 DEF None
<1>9. QED
    BY <1>1, <1>4, <1>5, <1>6, <1>7, <1>8 DEF r

LEMMA QueueEmpty ==
    /\ In(<<>>) = {} /\ \A T : None(<<>>, T) /\ One(<<>>, T)
    /\ \A F : <<>> \in Seq(F)
<1>1. Len(<<>>) = 0 /\ 1..0 = {} /\ \A F : <<>> \in Seq(F)
    OBVIOUS
<1>2. In(<<>>) = {}
    BY <1>1 DEF In
<1>3. QED
    BY <1>1, <1>2 DEF None, One

(***************************************************************************)
(* RemovePort picks one of the forwards it found.                          *)
(***************************************************************************)
LEMMA MinIsOne ==
    ASSUME NEW S \in SUBSET Nat, S # {}
    PROVE  Min(S) \in S
<1> DEFINE R == {ss \in Nat \X Nat : ss[1] < ss[2]}
<1>1. R = OpToRel(<, Nat)
    BY Zenon DEF OpToRel
<1>2. IsWellFoundedOn(R, Nat)
    BY <1>1, NatLessThanWellFounded, Zenon
<1>3. PICK d \in S : \A e \in S : ~ (<<e, d>> \in R)
    BY <1>2, WFMin
<1>4. \A e \in S : d <= e
    <2> TAKE e \in S
    <2>1. d \in Nat /\ e \in Nat
        OBVIOUS
    <2>2. <<e, d>> \in Nat \X Nat /\ <<e, d>>[1] = e /\ <<e, d>>[2] = d
        BY <2>1
    <2>3. ~ (e < d)
        BY <1>3, <2>2
    <2>4. QED
        BY <2>1, <2>3
<1>5. QED
    BY <1>4 DEF Min

LEMMA PlanFacts ==
    /\ Len(Plan) \in Nat /\ MaxCalls \in Nat /\ MaxReqs \in Nat /\ NoCaller \notin Caller
    /\ \A i \in 1..Len(Plan) : Plan[i].kind \in Kind /\ Plan[i].port \in LocalPort
<1> DEFINE S == [kind : Kind, port : LocalPort]
<1>1. Plan \in Seq(S)
    BY ForwardsAssumption
<1>2. \A f \in S : f.kind \in Kind /\ f.port \in LocalPort
    OBVIOUS
<1> HIDE DEF S
<1>3. Len(Plan) \in Nat /\ \A i \in 1..Len(Plan) : Plan[i] \in S
    BY <1>1
<1>4. QED
    BY <1>2, <1>3, ForwardsAssumption

LEMMA FrameFacts ==
    /\ \A k \in Kind : \A p \in LocalPort :
          /\ Register(k, p) \in ToServer
          /\ Register(k, p).type = "register" /\ Register(k, p).port = p
          /\ Register(k, p).kind = k
    /\ \A n \in Ids : /\ Unregister(n) \in ToServer
                      /\ Unregister(n).type = "unregister" /\ Unregister(n).id = n
    /\ \A t \in {"ok", "err", "uok", "uerr", "request"} : \A n \in Ids \cup {0} :
          Answer(t, n) \in ToClient /\ Answer(t, n).type = t /\ Answer(t, n).id = n
BY DEF Register, Unregister, Answer, ToServer, ToClient, Kind

LEMMA FrameTypes ==
    /\ \A f \in ToServer : /\ f.type \in {"register", "unregister"} /\ f.kind \in Kind
                           /\ f.port \in LocalPort \cup {0} /\ f.id \in Ids \cup {0}
    /\ \A f \in ToClient : /\ f.type \in {"ok", "err", "uok", "uerr", "request"}
                           /\ f.id \in Ids \cup {0}
BY DEF ToServer, ToClient

LEMMA QueueTypes ==
    ASSUME Typed
    PROVE  /\ \A f \in In(toServer) : f \in ToServer
           /\ \A f \in In(toClient) : f \in ToClient
BY DEF Typed, In

-----------------------------------------------------------------------------
LEMMA InitInv == Init => ForwardsInv
<1> SUFFICES ASSUME Init PROVE ForwardsInv
    OBVIOUS
<1>1. /\ phase = "connect" /\ step = 0 /\ asked = FALSE /\ forwards = {} /\ made = {} /\ held = {}
      /\ addCh = NoCaller /\ delCh = NoCaller /\ addPort = 0 /\ delID = 0
      /\ replying = 0 /\ calls = 0 /\ reqs = 0 /\ late = FALSE
      /\ toServer = <<>> /\ toClient = <<>> /\ Len(toServer) = 0 /\ Len(toClient) = 0
      /\ \A c \in Caller : call[c] = "idle" /\ arg[c] = 0 /\ ans[c] = "none"
    BY DEF Init
<1>2. /\ call \in [Caller -> {"idle", "add", "picked", "del"}]
      /\ arg \in [Caller -> LocalPort \cup Ids \cup {0}] /\ ans \in [Caller -> {"none", "ok", "err"}]
    BY DEF Init
<1>3. Typed
    <2>1. 0 \in 0..Len(Plan) /\ 0 \in 0..MaxCalls /\ 0 \in 0..MaxReqs /\ 1..0 = {}
        BY PlanFacts
    <2>2. QED
        BY <1>1, <1>2, <2>1, QueueEmpty DEF Typed
<1>4. MadeIds = {} /\ ForwardIds = {} /\ Picked = {} /\ Adding = {} /\ Removed = {}
    BY <1>1, QueueEmpty DEF MadeIds, ForwardIds, Picked, Adding, Removed
<1>5. Shape
    BY <1>1, <1>4, QueueEmpty DEF Shape
<1>6. Numbered /\ Budget
    <2>1. IsFiniteSet({}) /\ Cardinality({}) = 0
        BY FS_EmptySet
    <2>2. 1..0 = {}
        OBVIOUS
    <2>3. QED
        BY <1>1, <1>4, <2>1, <2>2 DEF Numbered, Budget, Spent, Allowed
<1>7. AddInTurn /\ DelInTurn
    BY <1>1, QueueEmpty DEF AddInTurn, DelInTurn, Outstanding
<1>8. Lists
    BY <1>1, <1>4 DEF Lists
<1>9. InTime /\ RemovedIsGone
    BY <1>1, <1>7, <1>8 DEF InTime, MappingsRight, RemovedIsGone
<1>10. QED
    BY <1>3, <1>5, <1>6, <1>9 DEF ForwardsInv

-----------------------------------------------------------------------------
LEMMA Counts ==
    ASSUME Typed, Numbered, Budget
    PROVE  /\ Cardinality(made) \in Nat /\ Cardinality(Picked) \in Nat /\ Len(toServer) \in Nat
           /\ step \in Nat /\ calls \in Nat /\ Len(Plan) \in Nat /\ MaxCalls \in Nat
<1>1. Cardinality(made) \in Nat /\ Cardinality(Picked) \in Nat
    BY FS_CardinalityType DEF Numbered, Budget
<1>2. QED
    BY <1>1, PlanFacts DEF Typed

LEMMA BudgetChanges ==
    ASSUME Typed, Numbered, Budget, IsFiniteSet(Picked'),
           \/ Spent' = Spent /\ Allowed' = Allowed
           \/ Spent' = Spent - 1 /\ Allowed' = Allowed
           \/ Spent' = Spent /\ Allowed' = Allowed + 1
           \/ Spent' = Spent + 1 /\ Allowed' = Allowed + 1
    PROVE  Budget'
<1>1. Spent \in Nat /\ Allowed \in Nat
    <2>1. Spent \in Nat
        BY Counts DEF Spent
    <2>2. Allowed \in Nat
        BY Counts DEF Allowed
    <2>3. QED
        BY <2>1, <2>2
<1>2. QED
    BY <1>1 DEF Budget

-----------------------------------------------------------------------------
(***************************************************************************)
(* Connect.                                                                *)
(***************************************************************************)
LEMMA ConnectAsksKeeps ==
    ASSUME ForwardsInv, ConnectAsks
    PROVE  ForwardsInv'
<1> USE DEF ForwardsInv
<1> DEFINE f == Register(Plan[step + 1].kind, Plan[step + 1].port)
<1>1. /\ phase = "connect" /\ asked = FALSE /\ step < Len(Plan)
      /\ toServer' = Append(toServer, f) /\ asked' = TRUE
      /\ UNCHANGED <<phase, step, forwards, waiting, callerVars, toClient, serverVars>>
    BY DEF ConnectAsks, Typed
<1>2. /\ f \in ToServer /\ f.type = "register" /\ f.port = Plan[step + 1].port /\ f.port \in LocalPort
    <2>1. step + 1 \in 1..Len(Plan)
        BY <1>1, PlanFacts DEF Typed
    <2>2. Plan[step + 1].kind \in Kind /\ Plan[step + 1].port \in LocalPort
        BY <2>1, PlanFacts
    <2>3. QED
        BY <2>2, FrameFacts
<1> HIDE DEF f
<1> USE DEF waiting, callerVars, serverVars
<1>3. /\ toServer' \in Seq(ToServer) /\ Len(toServer') = Len(toServer) + 1
      /\ In(toServer') = In(toServer) \cup {f}
      /\ None(toServer, {"register"}) => One(toServer', {"register"})
      /\ None(toServer, {"unregister"}) => None(toServer', {"unregister"})
      /\ One(toServer, {"unregister"}) => One(toServer', {"unregister"})
    BY <1>1, <1>2, QueueAppend DEF Typed
<1>4. UNCHANGED <<MadeIds, ForwardIds, Picked, Adding, Removed, Wanted>>
    BY <1>1 DEF MadeIds, ForwardIds, Picked, Adding, Removed, Wanted
<1>5. Typed'
    BY <1>1, <1>3, <1>4 DEF Typed
<1>6. Shape'
    BY <1>1, <1>2, <1>3, <1>4 DEF Shape
<1>7. Numbered'
    BY <1>1, <1>4 DEF Numbered
<1>8. Budget'
    <2>1. Spent' = Spent + 1
        <3>1. UNCHANGED <<made, Picked>> /\ Len(toServer') = Len(toServer) + 1
            BY <1>1, <1>3, <1>4
        <3>2. QED
            BY <3>1, Counts DEF Spent
    <2>2. Allowed' = Allowed + 1
        <3>1. UNCHANGED <<step, calls>> /\ ~(asked \/ phase = "failed") /\ asked'
            BY <1>1
        <3>2. QED
            BY <3>1, Counts DEF Allowed
    <2>3. QED
        BY <1>4, <2>1, <2>2, BudgetChanges DEF Budget
<1>9. ASSUME ~late PROVE AddInTurn'
    <2>1. AddInTurn /\ ~Outstanding /\ addCh = NoCaller
        BY <1>1, <1>9 DEF InTime, Shape, Outstanding
    <2>2. /\ None(toServer, {"register"}) /\ replying = 0 /\ None(toClient, {"ok", "err"})
          /\ One(toClient, {"ok", "err"}) /\ \A g \in In(toServer) : g.type # "register"
          /\ \A g \in In(toClient) : g.type # "ok"
        BY <1>1, <2>1 DEF AddInTurn, None
    <2>3. Wanted' = f.port
        BY <1>1, <1>2 DEF Wanted
    <2>4. QED
        BY <1>1, <1>3, <2>1, <2>2, <2>3 DEF AddInTurn, Outstanding
<1>10. ASSUME ~late PROVE DelInTurn'
    BY <1>1, <1>2, <1>3, <1>10 DEF InTime, DelInTurn
<1>11. ASSUME ~late PROVE Lists'
    BY <1>1, <1>4, <1>11 DEF InTime, Lists
<1>12. InTime' /\ RemovedIsGone'
    BY <1>1, <1>9, <1>10, <1>11 DEF InTime, MappingsRight, RemovedIsGone
<1>13. QED
    BY <1>5, <1>6, <1>7, <1>8, <1>12

LEMMA ConnectAnsweredKeeps ==
    ASSUME ForwardsInv, ConnectAnswered
    PROVE  ForwardsInv'
<1> USE DEF ForwardsInv
<1> DEFINE f == Head(toClient)
           m == [id |-> f.id, port |-> Plan[step + 1].port]
<1>1. /\ phase = "connect" /\ asked = TRUE /\ toClient # <<>> /\ toClient' = Tail(toClient)
      /\ asked' = FALSE
      /\ UNCHANGED <<waiting, callerVars, toServer, serverVars>>
      /\ addCh = NoCaller /\ delCh = NoCaller /\ \A c \in Caller : call[c] = "idle"
      /\ step \in Nat /\ step < Len(Plan) /\ Len(Plan) \in Nat
    BY PlanFacts DEF ConnectAnswered, Typed, Shape
<1>2. /\ f.type = "ok" => step' = step + 1 /\ phase' = "connect" /\ forwards' = forwards \cup {m}
      /\ f.type # "ok" => step' = step /\ phase' = "failed" /\ forwards' = forwards
    BY <1>1 DEF ConnectAnswered, SetMapping
<1>3. /\ toClient' \in Seq(ToClient) /\ f \in ToClient
      /\ In(toClient) = In(toClient') \cup {f}
      /\ None(toClient, {"uok", "uerr"}) => None(toClient', {"uok", "uerr"})
      /\ One(toClient, {"uok", "uerr"}) => One(toClient', {"uok", "uerr"})
      /\ One(toClient, {"ok", "err"}) => One(toClient', {"ok", "err"})
      /\ One(toClient, {"ok", "err"}) /\ f.type = "ok" => None(toClient', {"ok", "err"})
      /\ f.type = "ok" => ~None(toClient, {"ok", "err"})
    BY <1>1, QueueTail DEF Typed
<1> HIDE DEF f
<1> USE DEF waiting, callerVars, serverVars
<1>4. UNCHANGED <<MadeIds, Picked>>
    BY <1>1 DEF MadeIds, Picked
<1>5. f.type = "ok" => f.id \in MadeIds /\ m \in [id : Ids, port : LocalPort] /\ m.id = f.id
    <2>1. MadeIds \subseteq Ids
        BY DEF Typed, MadeIds
    <2>2. Plan[step + 1].port \in LocalPort
        <3>1. step + 1 \in 1..Len(Plan)
            BY <1>1
        <3>2. QED
            BY <3>1, PlanFacts
    <2>3. QED
        BY <1>3, <2>1, <2>2 DEF Shape
<1>6. ForwardIds' = IF f.type = "ok" THEN ForwardIds \cup {f.id} ELSE ForwardIds
    BY <1>2, <1>5 DEF ForwardIds
<1> HIDE DEF m
<1>7. Typed'
    <2>1. step' \in 0..Len(Plan) /\ phase' \in {"connect", "failed"}
        BY <1>1, <1>2
    <2>2. forwards' \subseteq [id : Ids, port : LocalPort]
        BY <1>2, <1>5 DEF Typed
    <2>3. QED
        BY <1>1, <1>3, <1>4, <2>1, <2>2 DEF Typed
<1>8. Shape'
    BY <1>1, <1>2, <1>3, <1>4, <1>5, <1>6 DEF Shape
<1>9. Numbered'
    BY <1>1, <1>4 DEF Numbered
<1>10. Budget'
    <2>1. Spent' = Spent /\ Allowed' = Allowed
        BY <1>1, <1>2, <1>4, Counts DEF Spent, Allowed
    <2>2. QED
        BY <1>4, <2>1, BudgetChanges DEF Budget
<1>11. ASSUME ~late PROVE DelInTurn'
    <2>1. DelInTurn
        BY <1>11 DEF InTime
    <2>2. QED
        BY <1>1, <1>3, <2>1 DEF DelInTurn
<1>12. ASSUME ~late, f.type = "ok" PROVE AddInTurn' /\ Lists' /\ MappingsRight'
    <2>1. AddInTurn /\ Lists /\ MappingsRight
        BY <1>12 DEF InTime
    <2>2. /\ None(toServer, {"register"}) /\ replying = 0 /\ None(toClient', {"ok", "err"})
          /\ One(toServer, {"register"}) /\ One(toClient', {"ok", "err"})
          /\ LeadsTo(f.id, Wanted)
        BY <1>1, <1>3, <1>12, <2>1 DEF AddInTurn
    <2>3. /\ \A g \in In(toServer) : g.type # "register"
          /\ \A g \in In(toClient') : g.type # "ok"
        BY <2>2 DEF None
    <2>4. AddInTurn'
        BY <1>1, <2>2, <2>3 DEF AddInTurn, Outstanding
    <2>5. Adding = {f.id} /\ Adding' = {}
        <3>1. {g \in In(toClient) : g.type = "ok"} = {f} /\ {g \in In(toClient') : g.type = "ok"} = {}
            BY <1>3, <1>12, <2>3
        <3>2. {replying} \ {0} = {} /\ {replying'} \ {0} = {}
            BY <1>1, <2>2
        <3>3. QED
            BY <3>1, <3>2 DEF Adding
    <2>6. Removed' = Removed
        BY <1>3, <1>12 DEF Removed
    <2>7. Lists'
        <3>1. held' = held /\ ForwardIds' = ForwardIds \cup {f.id} /\ \A c \in Caller : call'[c] = "idle"
            BY <1>1, <1>6, <1>12
        <3>2. QED
            BY <1>1, <2>1, <2>5, <2>6, <3>1 DEF Lists
    <2>8. MappingsRight'
        BY <1>1, <1>2, <1>12, <2>1, <2>2 DEF MappingsRight, LeadsTo, Wanted, m
    <2>9. QED
        BY <2>4, <2>7, <2>8
<1>13. ASSUME ~late, f.type # "ok" PROVE AddInTurn' /\ Lists' /\ MappingsRight'
    BY <1>1, <1>2, <1>13 DEF InTime, AddInTurn, Lists, MappingsRight
<1>14. InTime' /\ RemovedIsGone'
    BY <1>1, <1>11, <1>12, <1>13 DEF InTime, RemovedIsGone
<1>15. QED
    BY <1>7, <1>8, <1>9, <1>10, <1>14

LEMMA ConnectedKeeps ==
    ASSUME ForwardsInv, Connected
    PROVE  ForwardsInv'
<1> USE DEF ForwardsInv
<1>1. /\ phase = "connect" /\ phase' = "run" /\ ~asked /\ addCh = NoCaller
      /\ UNCHANGED <<step, asked, forwards, waiting, callerVars, toServer, toClient, serverVars>>
    BY PlanFacts DEF Connected, Typed, Shape
<1> USE DEF waiting, callerVars, serverVars
<1>2. UNCHANGED <<MadeIds, ForwardIds, Picked, Adding, Removed>>
    BY <1>1 DEF MadeIds, ForwardIds, Picked, Adding, Removed
<1>3. Typed' /\ Shape' /\ Numbered' /\ Budget'
    <2>1. Typed' /\ Shape' /\ Numbered'
        BY <1>1, <1>2 DEF Typed, Shape, Numbered
    <2>2. Spent' = Spent /\ Allowed' = Allowed
        BY <1>1, <1>2 DEF Spent, Allowed
    <2>3. QED
        BY <1>2, <2>1, <2>2 DEF Budget
<1>4. ASSUME ~late PROVE AddInTurn'
    <2>1. AddInTurn /\ ~Outstanding
        BY <1>1, <1>4 DEF InTime, Outstanding
    <2>2. /\ \A g \in In(toServer) : g.type # "register"
          /\ \A g \in In(toClient) : g.type # "ok"
        BY <1>1, <2>1 DEF AddInTurn, None
    <2>3. QED
        BY <1>1, <2>1, <2>2 DEF AddInTurn, Outstanding
<1>5. InTime' /\ RemovedIsGone'
    BY <1>1, <1>2, <1>4 DEF InTime, DelInTurn, Lists, MappingsRight, RemovedIsGone
<1>6. QED
    BY <1>3, <1>5

-----------------------------------------------------------------------------
(***************************************************************************)
(* The callers.                                                            *)
(***************************************************************************)
LEMMA AddPortKeeps ==
    ASSUME ForwardsInv, NEW c \in Caller, NEW p \in LocalPort, AddPort(c, p)
    PROVE  ForwardsInv'
<1> USE DEF ForwardsInv
<1> DEFINE f == Register("http", p)
<1>1. /\ phase = "run" /\ call[c] = "idle" /\ calls < MaxCalls /\ calls' = calls + 1
      /\ addCh = NoCaller /\ addCh' = c /\ addPort' = p /\ toServer' = Append(toServer, f)
      /\ UNCHANGED <<connectVars, forwards, delCh, delID, late, toClient, serverVars>>
      /\ asked = FALSE /\ addCh' # NoCaller
    BY PlanFacts DEF AddPort, Calls, Typed, Shape
<1>2. /\ call' = [call EXCEPT ![c] = "add"] /\ arg' = [arg EXCEPT ![c] = p]
      /\ ans' = [ans EXCEPT ![c] = "none"]
    BY DEF AddPort
<1>3. /\ call'[c] = "add" /\ ans'[c] = "none"
      /\ \A d \in Caller \ {c} : call'[d] = call[d] /\ arg'[d] = arg[d] /\ ans'[d] = ans[d]
    BY <1>2 DEF Typed
<1>4. f \in ToServer /\ f.type = "register" /\ f.port = p
    BY FrameFacts DEF Kind
<1> HIDE DEF f
<1> USE DEF connectVars, serverVars
<1>5. /\ toServer' \in Seq(ToServer) /\ Len(toServer') = Len(toServer) + 1
      /\ In(toServer') = In(toServer) \cup {f}
      /\ None(toServer, {"register"}) => One(toServer', {"register"})
      /\ None(toServer, {"unregister"}) => None(toServer', {"unregister"})
      /\ One(toServer, {"unregister"}) => One(toServer', {"unregister"})
    BY <1>1, <1>4, QueueAppend DEF Typed
<1>6. UNCHANGED <<MadeIds, ForwardIds, Picked, Adding, Removed>>
    BY <1>1, <1>3 DEF MadeIds, ForwardIds, Picked, Adding, Removed
<1>7. Typed'
    BY <1>1, <1>2, <1>5, <1>6, PlanFacts DEF Typed
<1>8. Shape'
    BY <1>1, <1>3, <1>4, <1>5, <1>6 DEF Shape
<1>9. Numbered'
    BY <1>1, <1>6 DEF Numbered
<1>10. Budget'
    <2>1. Spent' = Spent + 1
        <3>1. UNCHANGED <<made, Picked>> /\ Len(toServer') = Len(toServer) + 1
            BY <1>1, <1>5, <1>6
        <3>2. QED
            BY <3>1, Counts DEF Spent
    <2>2. Allowed' = Allowed + 1
        <3>1. UNCHANGED <<step, asked, phase>> /\ calls' = calls + 1
            BY <1>1
        <3>2. QED
            BY <3>1, Counts DEF Allowed
    <2>3. QED
        BY <1>6, <2>1, <2>2, BudgetChanges DEF Budget
<1>11. ASSUME ~late PROVE AddInTurn'
    <2>1. AddInTurn /\ ~Outstanding
        BY <1>1, <1>11 DEF InTime, Outstanding
    <2>2. /\ None(toServer, {"register"}) /\ replying = 0 /\ None(toClient, {"ok", "err"})
          /\ One(toClient, {"ok", "err"}) /\ \A g \in In(toServer) : g.type # "register"
          /\ \A g \in In(toClient) : g.type # "ok"
        BY <1>1, <2>1 DEF AddInTurn, None
    <2>3. Wanted' = f.port
        BY <1>1, <1>4 DEF Wanted
    <2>4. QED
        BY <1>1, <1>3, <1>5, <2>1, <2>2, <2>3 DEF AddInTurn, Outstanding
<1>12. ASSUME ~late PROVE DelInTurn'
    <2>1. DelInTurn /\ delCh # c
        BY <1>1, <1>12, PlanFacts DEF InTime, DelInTurn
    <2>2. delCh \in Caller \cup {NoCaller}
        BY DEF Typed
    <2>3. QED
        BY <1>1, <1>3, <1>4, <1>5, <2>1, <2>2 DEF DelInTurn
<1>13. ASSUME ~late PROVE Lists'
    BY <1>1, <1>3, <1>6, <1>13 DEF InTime, Lists
<1>14. InTime' /\ RemovedIsGone'
    BY <1>1, <1>3, <1>11, <1>12, <1>13 DEF InTime, MappingsRight, RemovedIsGone
<1>15. QED
    BY <1>7, <1>8, <1>9, <1>10, <1>14

LEMMA RemovePortKeeps ==
    ASSUME ForwardsInv, NEW c \in Caller, NEW p \in LocalPort, RemovePort(c, p)
    PROVE  ForwardsInv'
<1> USE DEF ForwardsInv
<1> DEFINE S == {f.id : f \in {g \in forwards : g.port = p}}
<1>1. /\ phase = "run" /\ call[c] = "idle" /\ calls < MaxCalls /\ calls' = calls + 1
      /\ UNCHANGED <<connectVars, forwards, waiting, late, toServer, toClient, serverVars>>
    BY DEF RemovePort, Calls
<1>2. /\ call' = [call EXCEPT ![c] = "picked"] /\ arg' = [arg EXCEPT ![c] = Min(S)]
      /\ ans' = [ans EXCEPT ![c] = "none"]
    BY DEF RemovePort
<1>3. Min(S) \in S /\ S \subseteq ForwardIds /\ S \subseteq Ids
    <2>1. S \subseteq ForwardIds /\ S \subseteq Ids /\ S # {}
        BY DEF RemovePort, Typed, ForwardIds
    <2>2. S \in SUBSET Nat
        BY <2>1, PlanFacts DEF Ids
    <2>3. QED
        BY <2>1, <2>2, MinIsOne
<1> HIDE DEF S
<1>4. /\ call'[c] = "picked" /\ ans'[c] = "none" /\ arg'[c] \in ForwardIds
      /\ \A d \in Caller \ {c} : call'[d] = call[d] /\ arg'[d] = arg[d] /\ ans'[d] = ans[d]
    BY <1>2, <1>3 DEF Typed
<1> USE DEF connectVars, waiting, serverVars
<1>5. UNCHANGED <<MadeIds, ForwardIds, Adding, Removed, Wanted>>
    BY <1>1 DEF MadeIds, ForwardIds, Adding, Removed, Wanted
<1>6. Picked' = Picked \cup {c}
    BY <1>4 DEF Picked
<1>7. Typed'
    BY <1>1, <1>2, <1>3, <1>5, PlanFacts DEF Typed
<1>8. Shape'
    BY <1>1, <1>4, <1>5 DEF Shape
<1>9. Numbered'
    BY <1>1, <1>5 DEF Numbered
<1>10. Budget'
    <2>1. c \notin Picked
        BY <1>1 DEF Picked
    <2>2. IsFiniteSet(Picked') /\ Cardinality(Picked') = Cardinality(Picked) + 1
        BY <1>6, <2>1, FS_AddElement DEF Budget
    <2>3. Spent' = Spent + 1
        <3>1. UNCHANGED <<made, toServer>>
            BY <1>1
        <3>2. QED
            BY <2>2, <3>1, Counts DEF Spent
    <2>4. Allowed' = Allowed + 1
        <3>1. UNCHANGED <<step, asked, phase>> /\ calls' = calls + 1
            BY <1>1
        <3>2. QED
            BY <3>1, Counts DEF Allowed
    <2>5. QED
        BY <2>2, <2>3, <2>4, BudgetChanges
<1>11. ASSUME ~late PROVE AddInTurn' /\ DelInTurn'
    <2>1. AddInTurn /\ DelInTurn /\ addCh # c /\ delCh # c
        BY <1>1, <1>11, PlanFacts DEF InTime, AddInTurn, DelInTurn
    <2>2. addCh \in Caller \cup {NoCaller} /\ delCh \in Caller \cup {NoCaller}
        BY DEF Typed
    <2>3. AddInTurn'
        BY <1>1, <1>4, <1>5, <2>1, <2>2 DEF AddInTurn, Outstanding, LeadsTo
    <2>4. DelInTurn'
        BY <1>1, <1>4, <2>1, <2>2 DEF DelInTurn
    <2>5. QED
        BY <2>3, <2>4
<1>12. ASSUME ~late PROVE Lists'
    BY <1>1, <1>4, <1>5, <1>12 DEF InTime, Lists
<1>13. InTime' /\ RemovedIsGone'
    BY <1>1, <1>4, <1>11, <1>12 DEF InTime, MappingsRight, RemovedIsGone
<1>14. QED
    BY <1>7, <1>8, <1>9, <1>10, <1>13

LEMMA RemoveAsksKeeps ==
    ASSUME ForwardsInv, NEW c \in Caller, RemoveAsks(c)
    PROVE  ForwardsInv'
<1> USE DEF ForwardsInv
<1> DEFINE f == Unregister(arg[c])
<1>1. /\ call[c] = "picked" /\ phase = "run" /\ c # NoCaller
      /\ UNCHANGED <<connectVars, forwards, addCh, addPort, arg, ans, calls, late, toClient, serverVars>>
    BY PlanFacts DEF RemoveAsks, Shape
<1>2. \/ /\ delCh = NoCaller /\ delCh' = c /\ delID' = arg[c] /\ toServer' = Append(toServer, f)
         /\ call' = [call EXCEPT ![c] = "del"]
      \/ call' = [call EXCEPT ![c] = "idle"] /\ UNCHANGED <<delCh, delID, toServer>>
    BY DEF RemoveAsks
<1>3. /\ call'[c] \in {"del", "idle"} /\ \A d \in Caller \ {c} : call'[d] = call[d]
      /\ call' \in [Caller -> {"idle", "add", "picked", "del"}]
    BY <1>2 DEF Typed
<1>4. f \in ToServer /\ f.type = "unregister" /\ f.id = arg[c] /\ arg[c] \in MadeIds /\ arg[c] \in Ids
    <2>1. arg[c] \in MadeIds /\ MadeIds \subseteq Ids
        BY <1>1 DEF Typed, Shape, MadeIds
    <2>2. QED
        BY <2>1, FrameFacts
<1>5. /\ Append(toServer, f) \in Seq(ToServer) /\ Len(Append(toServer, f)) = Len(toServer) + 1
      /\ In(Append(toServer, f)) = In(toServer) \cup {f}
      /\ None(toServer, {"unregister"}) => One(Append(toServer, f), {"unregister"})
      /\ None(toServer, {"register"}) => None(Append(toServer, f), {"register"})
      /\ One(toServer, {"register"}) => One(Append(toServer, f), {"register"})
    BY <1>4, QueueAppend DEF Typed
<1> HIDE DEF f
<1> USE DEF connectVars, serverVars
<1>6. UNCHANGED <<MadeIds, ForwardIds, Adding, Removed, Wanted>> /\ Picked' = Picked \ {c}
    BY <1>1, <1>3 DEF MadeIds, ForwardIds, Adding, Removed, Wanted, Picked
<1>7. Typed'
    <2>1. toServer' \in Seq(ToServer) /\ delCh' \in Caller \cup {NoCaller} /\ delID' \in Ids \cup {0}
        BY <1>2, <1>4, <1>5 DEF Typed
    <2>2. QED
        BY <1>1, <1>3, <1>6, <2>1 DEF Typed
<1>8. \A g \in In(toServer') : g \in In(toServer) \/ g = f
    BY <1>2, <1>5
<1>9. Shape'
    BY <1>1, <1>3, <1>4, <1>6, <1>8 DEF Shape
<1>10. Numbered'
    BY <1>1, <1>6 DEF Numbered
<1>11. Budget'
    <2>1. c \in Picked
        BY <1>1 DEF Picked
    <2>2. IsFiniteSet(Picked') /\ Cardinality(Picked') = Cardinality(Picked) - 1
        BY <1>6, <2>1, FS_RemoveElement DEF Budget
    <2>3. Len(toServer') = Len(toServer) \/ Len(toServer') = Len(toServer) + 1
        BY <1>2, <1>5
    <2>4. Spent' = Spent - 1 \/ Spent' = Spent
        <3> DEFINE n == Cardinality(made)
                   l == Len(toServer)
                   k == Cardinality(Picked)
        <3>1. n \in Nat /\ l \in Nat /\ k \in Nat
            BY Counts
        <3>2. Spent = n + l + k /\ Spent' = n + Len(toServer') + (k - 1)
            BY <1>1, <2>2 DEF Spent
        <3> HIDE DEF n, l, k
        <3>3. Spent' = n + l + (k - 1) \/ Spent' = n + (l + 1) + (k - 1)
            BY <2>3, <3>2 DEF l
        <3>4. QED
            BY <3>1, <3>2, <3>3
    <2>5. Allowed' = Allowed
        BY <1>1 DEF Allowed
    <2>6. QED
        BY <2>2, <2>4, <2>5, BudgetChanges
<1>12. ASSUME ~late PROVE AddInTurn'
    <2>1. AddInTurn /\ addCh # c /\ addCh \in Caller \cup {NoCaller}
        BY <1>1, <1>12 DEF InTime, AddInTurn, Typed
    <2>2. /\ One(toServer, {"register"}) => One(toServer', {"register"})
          /\ None(toServer, {"register"}) => None(toServer', {"register"})
        BY <1>2, <1>5
    <2>3. QED
        BY <1>1, <1>3, <1>4, <1>6, <1>8, <2>1, <2>2 DEF AddInTurn, Outstanding, LeadsTo
<1>13. ASSUME ~late PROVE DelInTurn'
    <2>1. DelInTurn /\ ans[c] = "none" /\ delCh # c /\ delCh \in Caller \cup {NoCaller}
        BY <1>1, <1>13 DEF InTime, DelInTurn, Typed
    <2>2. CASE call' = [call EXCEPT ![c] = "idle"] /\ UNCHANGED <<delCh, delID, toServer>>
        BY <1>1, <1>3, <2>1, <2>2 DEF DelInTurn
    <2>3. CASE /\ delCh = NoCaller /\ delCh' = c /\ delID' = arg[c] /\ toServer' = Append(toServer, f)
               /\ call' = [call EXCEPT ![c] = "del"]
        <3>1. call'[c] = "del"
            BY <2>3 DEF Typed
        <3>2. /\ None(toServer, {"unregister"}) /\ None(toClient, {"uok", "uerr"})
              /\ One(toClient, {"uok", "uerr"})
              /\ \A g \in In(toServer) : g.type # "unregister"
              /\ \A g \in In(toClient) : g.type # "uok"
            BY <2>1, <2>3 DEF DelInTurn, None
        <3>3. QED
            BY <1>1, <1>4, <1>5, <2>1, <2>3, <3>1, <3>2 DEF DelInTurn
    <2>4. QED
        BY <1>2, <2>2, <2>3
<1>14. ASSUME ~late PROVE Lists'
    <2>1. \A d \in Caller : call'[d] \in {"picked", "del"} => call[d] \in {"picked", "del"}
        BY <1>1, <1>3
    <2>2. QED
        BY <1>1, <1>6, <1>14, <2>1 DEF InTime, Lists
<1>15. InTime' /\ RemovedIsGone'
    BY <1>1, <1>3, <1>12, <1>13, <1>14 DEF InTime, MappingsRight, RemovedIsGone
<1>16. QED
    BY <1>7, <1>9, <1>10, <1>11, <1>15

LEMMA CallEndsKeeps ==
    ASSUME ForwardsInv, NEW c \in Caller, CallReturns(c) \/ CallTimesOut(c)
    PROVE  ForwardsInv'
<1> USE DEF ForwardsInv
<1>1. /\ call[c] \in {"add", "del"} /\ call' = [call EXCEPT ![c] = "idle"]
      /\ addCh' \in {addCh, NoCaller} /\ delCh' \in {delCh, NoCaller}
      /\ UNCHANGED <<connectVars, forwards, addPort, delID, arg, ans, calls, toServer, toClient, serverVars>>
      /\ late' = TRUE \/ (late' = late /\ ans[c] # "none" /\ UNCHANGED <<addCh, delCh>>)
    <2>1. CASE CallReturns(c)
        BY <2>1 DEF CallReturns, waiting
    <2>2. CASE CallTimesOut(c)
        <3>1. addCh' \in {addCh, NoCaller} /\ delCh' \in {delCh, NoCaller}
            BY <2>2 DEF CallTimesOut
        <3>2. /\ call[c] \in {"add", "del"} /\ call' = [call EXCEPT ![c] = "idle"] /\ late' = TRUE
              /\ UNCHANGED <<connectVars, forwards, addPort, delID, arg, ans, calls,
                             toServer, toClient, serverVars>>
            BY <2>2 DEF CallTimesOut
        <3>3. QED
            BY <3>1, <3>2
    <2>3. QED
        BY <2>1, <2>2
<1>2. /\ call'[c] = "idle" /\ \A d \in Caller \ {c} : call'[d] = call[d]
      /\ call' \in [Caller -> {"idle", "add", "picked", "del"}]
    BY <1>1 DEF Typed
<1> USE DEF connectVars, serverVars
<1>3. UNCHANGED <<MadeIds, ForwardIds, Picked, Adding, Removed, Wanted>>
    BY <1>1, <1>2 DEF MadeIds, ForwardIds, Picked, Adding, Removed, Wanted
<1>4. Typed'
    <2>1. late' \in BOOLEAN /\ addCh' \in Caller \cup {NoCaller} /\ delCh' \in Caller \cup {NoCaller}
        BY <1>1 DEF Typed
    <2>2. QED
        BY <1>1, <1>2, <1>3, <2>1 DEF Typed
<1>5. Shape'
    BY <1>1, <1>2, <1>3 DEF Shape
<1>6. Numbered' /\ Budget'
    BY <1>1, <1>3 DEF Numbered, Budget, Spent, Allowed
<1>7. ASSUME ~late' PROVE AddInTurn' /\ DelInTurn' /\ Lists'
    <2>1. /\ ~late /\ ans[c] # "none" /\ UNCHANGED <<addCh, delCh>>
          /\ addCh \in Caller \cup {NoCaller} /\ delCh \in Caller \cup {NoCaller}
        BY <1>1, <1>7 DEF Typed
    <2>2. /\ AddInTurn /\ DelInTurn /\ Lists
          /\ addCh # NoCaller => addCh # c
          /\ delCh # NoCaller => delCh # c
        BY <2>1 DEF InTime, AddInTurn, DelInTurn
    <2>3. AddInTurn'
        BY <1>1, <1>2, <1>3, <2>1, <2>2 DEF AddInTurn, Outstanding, LeadsTo
    <2>4. DelInTurn'
        BY <1>1, <1>2, <2>1, <2>2 DEF DelInTurn
    <2>5. Lists'
        BY <1>1, <1>2, <1>3, <2>2 DEF Lists
    <2>6. QED
        BY <2>3, <2>4, <2>5
<1>8. late' = FALSE => late = FALSE
    BY <1>1 DEF Typed
<1>9. InTime' /\ RemovedIsGone'
    BY <1>1, <1>2, <1>4, <1>7, <1>8 DEF InTime, MappingsRight, RemovedIsGone, Typed
<1>10. QED
    BY <1>4, <1>5, <1>6, <1>9

-----------------------------------------------------------------------------
(***************************************************************************)
(* Run.                                                                    *)
(***************************************************************************)
LEMMA HandleAddResponseKeeps ==
    ASSUME ForwardsInv, HandleAddResponse
    PROVE  ForwardsInv'
<1> USE DEF ForwardsInv
<1> DEFINE f == Head(toClient)
           m == [id |-> f.id, port |-> addPort]
<1>1. /\ phase = "run" /\ toClient # <<>> /\ f.type \in {"ok", "err"} /\ toClient' = Tail(toClient)
      /\ addCh' = NoCaller /\ asked = FALSE /\ addCh \in Caller \cup {NoCaller}
      /\ UNCHANGED <<connectVars, addPort, delCh, delID, call, arg, calls, late, toServer, serverVars>>
    BY DEF HandleAddResponse, RunTakes, Typed, Shape
<1>2. /\ addCh = NoCaller => UNCHANGED <<forwards, ans>>
      /\ addCh # NoCaller => ans' = [ans EXCEPT ![addCh] = f.type]
      /\ addCh # NoCaller /\ f.type = "ok" => forwards' = forwards \cup {m}
      /\ addCh # NoCaller /\ f.type # "ok" => forwards' = forwards
    BY DEF HandleAddResponse, SetMapping
<1>3. /\ toClient' \in Seq(ToClient) /\ f \in ToClient
      /\ In(toClient) = In(toClient') \cup {f}
      /\ None(toClient, {"uok", "uerr"}) => None(toClient', {"uok", "uerr"})
      /\ One(toClient, {"uok", "uerr"}) => One(toClient', {"uok", "uerr"})
      /\ One(toClient, {"ok", "err"}) => One(toClient', {"ok", "err"}) /\ None(toClient', {"ok", "err"})
      /\ ~None(toClient, {"ok", "err"})
    BY <1>1, QueueTail DEF Typed
<1> HIDE DEF f
<1> USE DEF connectVars, serverVars
<1>4. UNCHANGED <<MadeIds, Picked>>
    BY <1>1 DEF MadeIds, Picked
<1>5. addCh # NoCaller /\ f.type = "ok" =>
          f.id \in MadeIds /\ m \in [id : Ids, port : LocalPort] /\ m.id = f.id
    <2>1. MadeIds \subseteq Ids
        BY DEF Typed, MadeIds
    <2>2. QED
        BY <1>3, <2>1 DEF Shape
<1>6. ForwardIds' = IF addCh # NoCaller /\ f.type = "ok" THEN ForwardIds \cup {f.id} ELSE ForwardIds
    <2>1. CASE addCh # NoCaller /\ f.type = "ok"
        <3>1. forwards' = forwards \cup {m} /\ m.id = f.id
            BY <1>2, <2>1
        <3>2. QED
            BY <2>1, <3>1 DEF ForwardIds
    <2>2. CASE ~(addCh # NoCaller /\ f.type = "ok")
        <3>1. forwards' = forwards
            BY <1>2, <2>2
        <3>2. QED
            BY <2>2, <3>1 DEF ForwardIds
    <2>3. QED
        BY <2>1, <2>2
<1>7. /\ forwards' \subseteq [id : Ids, port : LocalPort] /\ ans' \in [Caller -> {"none", "ok", "err"}]
      /\ \A d \in Caller : d # addCh => ans'[d] = ans[d]
    <2>1. forwards' \subseteq [id : Ids, port : LocalPort]
        BY <1>2, <1>5 DEF Typed
    <2>2. ans' \in [Caller -> {"none", "ok", "err"}] /\ \A d \in Caller : d # addCh => ans'[d] = ans[d]
        BY <1>1, <1>2 DEF Typed
    <2>3. QED
        BY <2>1, <2>2
<1>8. Typed'
    BY <1>1, <1>3, <1>4, <1>7 DEF Typed
<1>9. Shape'
    BY <1>1, <1>3, <1>4, <1>5, <1>6 DEF Shape
<1>10. Numbered' /\ Budget'
    BY <1>1, <1>4 DEF Numbered, Budget, Spent, Allowed
<1>11. ASSUME ~late
       PROVE  /\ addCh # NoCaller /\ call[addCh] = "add" /\ replying = 0
              /\ None(toServer, {"register"}) /\ One(toServer, {"register"})
              /\ None(toClient', {"ok", "err"}) /\ One(toClient', {"ok", "err"})
              /\ f.type = "ok" => LeadsTo(f.id, addPort)
    <2>1. AddInTurn
        BY <1>11 DEF InTime
    <2>2. Outstanding /\ Wanted = addPort
        BY <1>1, <1>3, <2>1 DEF AddInTurn, Wanted
    <2>3. QED
        BY <1>1, <1>3, <2>1, <2>2 DEF AddInTurn, Outstanding
<1>12. ASSUME ~late PROVE AddInTurn'
    BY <1>1, <1>11, <1>12 DEF AddInTurn, Outstanding, None
<1>13. ASSUME ~late PROVE DelInTurn'
    <2>1. DelInTurn /\ (delCh # NoCaller => delCh # addCh /\ delCh \in Caller)
        BY <1>1, <1>11, <1>13 DEF InTime, DelInTurn, Typed
    <2>2. QED
        BY <1>1, <1>3, <1>7, <2>1 DEF DelInTurn
<1>14. ASSUME ~late PROVE Lists' /\ MappingsRight' /\ (f.type = "ok" => f.id \in held)
    <2>1. /\ Lists /\ MappingsRight /\ {replying} \ {0} = {} /\ {replying'} \ {0} = {}
        BY <1>1, <1>11, <1>14 DEF InTime
    <2>2. \A g \in In(toClient') : g.type # "ok"
        BY <1>11, <1>14 DEF None
    <2>3. Adding' = {} /\ Removed' = Removed
        BY <1>1, <1>3, <2>1, <2>2 DEF Adding, Removed
    <2>4. CASE f.type = "ok"
        <3>1. {g \in In(toClient) : g.type = "ok"} = {f}
            BY <1>3, <2>2, <2>4
        <3>2. Adding = {f.id}
            BY <2>1, <3>1 DEF Adding
        <3>3. ForwardIds' = ForwardIds \cup {f.id} /\ held' = held
            BY <1>1, <1>6, <1>11, <1>14, <2>4
        <3>4. Lists' /\ f.id \in held
            BY <1>1, <2>1, <2>3, <3>2, <3>3 DEF Lists
        <3>5. MappingsRight'
            <4>1. forwards' = forwards \cup {m} /\ m.id = f.id /\ m.port = addPort /\ made' = made
                BY <1>1, <1>2, <1>11, <1>14, <2>4
            <4>2. QED
                BY <1>11, <1>14, <2>1, <2>4, <4>1 DEF MappingsRight, LeadsTo
        <3>6. QED
            BY <3>4, <3>5
    <2>5. CASE f.type # "ok"
        <3>1. {g \in In(toClient) : g.type = "ok"} = {}
            BY <1>3, <2>2, <2>5
        <3>2. Adding = {}
            BY <2>1, <3>1 DEF Adding
        <3>3. ForwardIds' = ForwardIds /\ held' = held /\ forwards' = forwards /\ made' = made
            BY <1>1, <1>2, <1>6, <2>5
        <3>4. QED
            BY <1>1, <2>1, <2>3, <2>5, <3>2, <3>3 DEF Lists, MappingsRight
    <2>6. QED
        BY <2>4, <2>5
<1>15. ASSUME ~late PROVE RemovedIsGone'
    <2>1. \A g \in forwards' : g \in forwards \/ g.id \in held
        BY <1>2, <1>5, <1>14, <1>15
    <2>2. \A d \in Caller : call[d] = "del" => ans'[d] = ans[d]
        BY <1>1, <1>7, <1>11, <1>15
    <2>3. QED
        BY <1>1, <2>1, <2>2, <1>15 DEF RemovedIsGone
<1>16. ASSUME ~late, NEW d \in Caller, call[d] = "picked" PROVE ans'[d] = "none"
    BY <1>7, <1>11, <1>16 DEF InTime
<1>17. InTime' /\ RemovedIsGone'
    BY <1>1, <1>12, <1>13, <1>14, <1>15, <1>16 DEF InTime, RemovedIsGone
<1>18. QED
    BY <1>8, <1>9, <1>10, <1>17

LEMMA HandleDelResponseKeeps ==
    ASSUME ForwardsInv, HandleDelResponse
    PROVE  ForwardsInv'
<1> USE DEF ForwardsInv
<1> DEFINE f == Head(toClient)
<1>1. /\ phase = "run" /\ toClient # <<>> /\ f.type \in {"uok", "uerr"} /\ toClient' = Tail(toClient)
      /\ delCh' = NoCaller /\ delCh \in Caller \cup {NoCaller}
      /\ UNCHANGED <<connectVars, addCh, addPort, delID, call, arg, calls, late, toServer, serverVars>>
    BY DEF HandleDelResponse, RunTakes, Typed
<1>2. /\ delCh = NoCaller => UNCHANGED <<forwards, ans>>
      /\ delCh # NoCaller => ans' = [ans EXCEPT ![delCh] = IF f.type = "uok" THEN "ok" ELSE "err"]
      /\ delCh # NoCaller /\ f.type = "uok" => forwards' = {g \in forwards : g.id # delID}
      /\ delCh # NoCaller /\ f.type # "uok" => forwards' = forwards
    BY DEF HandleDelResponse, RemoveMapping
<1>3. /\ toClient' \in Seq(ToClient) /\ f \in ToClient
      /\ In(toClient) = In(toClient') \cup {f}
      /\ None(toClient, {"ok", "err"}) => None(toClient', {"ok", "err"})
      /\ One(toClient, {"ok", "err"}) => One(toClient', {"ok", "err"})
      /\ One(toClient, {"uok", "uerr"}) => One(toClient', {"uok", "uerr"}) /\ None(toClient', {"uok", "uerr"})
      /\ ~None(toClient, {"uok", "uerr"})
    BY <1>1, QueueTail DEF Typed
<1> HIDE DEF f
<1> USE DEF connectVars, serverVars
<1>4. UNCHANGED <<MadeIds, Picked, Wanted>>
    BY <1>1 DEF MadeIds, Picked, Wanted
<1>5. /\ forwards' \subseteq forwards /\ ans' \in [Caller -> {"none", "ok", "err"}]
      /\ \A d \in Caller : d # delCh => ans'[d] = ans[d]
      /\ ForwardIds' \subseteq ForwardIds
    <2>1. forwards' \subseteq forwards
        BY <1>2
    <2>2. ans' \in [Caller -> {"none", "ok", "err"}] /\ \A d \in Caller : d # delCh => ans'[d] = ans[d]
        BY <1>1, <1>2 DEF Typed
    <2>3. QED
        BY <2>1, <2>2 DEF ForwardIds
<1>6. Typed'
    BY <1>1, <1>3, <1>4, <1>5 DEF Typed
<1>7. Shape'
    BY <1>1, <1>3, <1>4, <1>5 DEF Shape
<1>8. Numbered' /\ Budget'
    BY <1>1, <1>4 DEF Numbered, Budget, Spent, Allowed
<1>9. ASSUME ~late
      PROVE  /\ delCh # NoCaller /\ call[delCh] = "del" /\ arg[delCh] = delID
             /\ None(toServer, {"unregister"}) /\ One(toServer, {"unregister"})
             /\ None(toClient', {"uok", "uerr"}) /\ One(toClient', {"uok", "uerr"})
             /\ f.type = "uok" => f.id = delID
    BY <1>1, <1>3, <1>9 DEF InTime, DelInTurn
<1>10. ASSUME ~late PROVE AddInTurn'
    <2>1. AddInTurn /\ (addCh # NoCaller => addCh # delCh /\ addCh \in Caller)
        BY <1>1, <1>9, <1>10 DEF InTime, AddInTurn, Typed
    <2>2. QED
        BY <1>1, <1>3, <1>4, <1>5, <2>1 DEF AddInTurn, Outstanding, LeadsTo
<1>11. ASSUME ~late PROVE DelInTurn'
    BY <1>1, <1>9, <1>11 DEF DelInTurn, None
<1>12. ASSUME ~late PROVE Lists' /\ (f.type = "uok" => delID \notin held)
    <2>1. Lists /\ \A g \in In(toClient') : g.type # "uok"
        BY <1>9, <1>12 DEF InTime, None
    <2>2. Removed' = {} /\ Adding' = Adding
        BY <1>1, <1>3, <2>1 DEF Adding, Removed
    <2>3. CASE f.type = "uok"
        <3>1. {g \in In(toClient) : g.type = "uok"} = {f}
            BY <1>3, <2>1, <2>3
        <3>2. Removed = {delID}
            BY <1>9, <1>12, <2>3, <3>1 DEF Removed
        <3>3. ForwardIds' = ForwardIds \ {delID} /\ held' = held
            BY <1>1, <1>2, <1>9, <1>12, <2>3 DEF ForwardIds
        <3>4. QED
            BY <1>1, <2>1, <2>2, <3>2, <3>3 DEF Lists
    <2>4. CASE f.type # "uok"
        <3>1. {g \in In(toClient) : g.type = "uok"} = {}
            BY <1>3, <2>1, <2>4
        <3>2. Removed = {}
            BY <3>1 DEF Removed
        <3>3. ForwardIds' = ForwardIds /\ held' = held
            BY <1>1, <1>2, <2>4 DEF ForwardIds
        <3>4. QED
            BY <1>1, <2>1, <2>2, <2>4, <3>2, <3>3 DEF Lists
    <2>5. QED
        BY <2>3, <2>4
<1>13. ASSUME ~late PROVE RemovedIsGone'
    <2>1. ASSUME NEW d \in Caller, call[d] = "del", ans'[d] = "ok"
          PROVE  arg[d] \notin held /\ \A g \in forwards' : g.id # arg[d]
        <3>1. CASE d # delCh
            BY <1>5, <1>13, <2>1, <3>1 DEF RemovedIsGone
        <3>2. CASE d = delCh
            <4>1. f.type = "uok"
                BY <1>1, <1>2, <1>9, <1>13, <2>1, <3>2 DEF Typed
            <4>2. QED
                BY <1>2, <1>9, <1>12, <1>13, <3>2, <4>1
        <3>3. QED
            BY <3>1, <3>2
    <2>2. QED
        BY <1>1, <2>1 DEF RemovedIsGone
<1>14. ASSUME ~late, NEW d \in Caller, call[d] = "picked" PROVE ans'[d] = "none"
    BY <1>5, <1>9, <1>14 DEF InTime
<1>15. InTime' /\ RemovedIsGone'
    BY <1>1, <1>5, <1>10, <1>11, <1>12, <1>13, <1>14 DEF InTime, MappingsRight, RemovedIsGone
<1>16. QED
    BY <1>6, <1>7, <1>8, <1>15

LEMMA HandleRequestKeeps ==
    ASSUME ForwardsInv, HandleRequest
    PROVE  ForwardsInv'
<1> USE DEF ForwardsInv
<1> DEFINE f == Head(toClient)
<1>1. /\ phase = "run" /\ toClient # <<>> /\ f.type = "request" /\ toClient' = Tail(toClient)
      /\ UNCHANGED <<connectVars, forwards, waiting, callerVars, toServer, serverVars>>
    BY DEF HandleRequest, RunTakes
<1>2. /\ toClient' \in Seq(ToClient) /\ In(toClient) = In(toClient') \cup {f}
      /\ \A T : None(toClient, T) => None(toClient', T)
      /\ \A T : One(toClient, T) => One(toClient', T)
    BY <1>1, QueueTail DEF Typed
<1> HIDE DEF f
<1> USE DEF connectVars, waiting, callerVars, serverVars
<1>3. UNCHANGED <<MadeIds, ForwardIds, Picked, Adding, Removed, Wanted>>
    BY <1>1, <1>2 DEF MadeIds, ForwardIds, Picked, Adding, Removed, Wanted
<1>4. Typed'
    BY <1>1, <1>2, <1>3 DEF Typed
<1>5. Shape' /\ Numbered' /\ Budget'
    BY <1>1, <1>2, <1>3 DEF Shape, Numbered, Budget, Spent, Allowed
<1>6. ASSUME ~late PROVE AddInTurn' /\ DelInTurn' /\ Lists'
    <2>1. AddInTurn /\ DelInTurn /\ Lists
        BY <1>6 DEF InTime
    <2>2. AddInTurn'
        BY <1>1, <1>2, <1>3, <2>1 DEF AddInTurn, Outstanding, LeadsTo
    <2>3. DelInTurn'
        BY <1>1, <1>2, <2>1 DEF DelInTurn
    <2>4. Lists'
        BY <1>1, <1>3, <2>1 DEF Lists
    <2>5. QED
        BY <2>2, <2>3, <2>4
<1>7. InTime' /\ RemovedIsGone'
    BY <1>1, <1>6 DEF InTime, MappingsRight, RemovedIsGone
<1>8. QED
    BY <1>4, <1>5, <1>7

-----------------------------------------------------------------------------
(***************************************************************************)
(* The server.                                                             *)
(***************************************************************************)
LEMMA ServerRegistersKeeps ==
    ASSUME ForwardsInv, ServerRegisters
    PROVE  ForwardsInv'
<1> USE DEF ForwardsInv
<1> DEFINE f == Head(toServer)
           n == Cardinality(made) + 1
           t == [id |-> n, kind |-> f.kind, port |-> f.port]
<1>1. /\ replying = 0 /\ toServer # <<>> /\ f.type = "register" /\ toServer' = Tail(toServer)
      /\ made' = made \cup {t} /\ held' = held \cup {n} /\ replying' = n
      /\ UNCHANGED <<connectVars, forwards, waiting, callerVars, toClient, reqs>>
    BY DEF ServerRegisters, ServerReads
<1>2. /\ toServer' \in Seq(ToServer) /\ f \in ToServer /\ Len(toServer') = Len(toServer) - 1
      /\ In(toServer) = In(toServer') \cup {f}
      /\ None(toServer, {"unregister"}) => None(toServer', {"unregister"})
      /\ One(toServer, {"unregister"}) => One(toServer', {"unregister"})
      /\ One(toServer, {"register"}) => One(toServer', {"register"}) /\ None(toServer', {"register"})
      /\ ~None(toServer, {"register"}) /\ toServer \in Seq(ToServer)
    BY <1>1, QueueTail DEF Typed
<1>3. n \in Ids /\ n \in Nat \ {0} /\ n \notin MadeIds /\ MadeIds \subseteq Ids
    <2>1. Len(toServer) \in Nat \ {0}
        BY <1>1, <1>2
    <2>2. Allowed \in Nat /\ Allowed <= Len(Plan) + MaxCalls
        BY Counts DEF Typed, Shape, Allowed
    <2>3. n <= Len(Plan) + MaxCalls
        <3>1. n <= Spent /\ Spent \in Nat
            BY <2>1, Counts DEF Spent
        <3>2. QED
            BY <2>2, <3>1, Counts DEF Budget
    <2>4. n \notin MadeIds
        BY Counts DEF Numbered
    <2>5. MadeIds \subseteq Ids
        BY DEF Typed, MadeIds
    <2>6. QED
        BY <2>3, <2>4, <2>5, Counts DEF Ids
<1>4. t \in [id : Ids, kind : Kind, port : LocalPort] /\ t.id = n /\ t.port = f.port /\ f.port \in LocalPort
    <2>1. f.kind \in Kind /\ f.port \in LocalPort
        BY <1>1, <1>2, FrameTypes DEF Shape
    <2>2. QED
        BY <1>3, <2>1
<1>5. t \notin made /\ MadeIds' = MadeIds \cup {n}
    <2>1. t \notin made
        BY <1>3, <1>4 DEF MadeIds
    <2>2. QED
        BY <1>1, <1>4, <2>1 DEF MadeIds
<1>6. Cardinality(made') = n /\ IsFiniteSet(made')
    BY <1>1, <1>5, FS_AddElement DEF Numbered
<1> HIDE DEF f, n, t
<1> USE DEF connectVars, waiting, callerVars
<1>7. UNCHANGED <<ForwardIds, Picked, Removed, Wanted>>
    BY <1>1 DEF ForwardIds, Picked, Removed, Wanted
<1>8. Typed'
    <2>1. made' \subseteq [id : Ids, kind : Kind, port : LocalPort]
        BY <1>1, <1>4 DEF Typed
    <2>2. held' \subseteq MadeIds' /\ replying' \in held' \cup {0}
        BY <1>1, <1>5 DEF Typed
    <2>3. QED
        BY <1>1, <1>2, <2>1, <2>2 DEF Typed
<1>9. Shape'
    BY <1>1, <1>2, <1>5, <1>7 DEF Shape
<1>10. Numbered'
    <2>1. MadeIds' = 1..n
        BY <1>3, <1>5, Counts DEF Numbered, n
    <2>2. \A u \in made : u.id \in MadeIds
        BY DEF MadeIds
    <2>3. \A u, v \in made' : u.id = v.id => u = v
        BY <1>1, <1>3, <1>4, <2>2 DEF Numbered
    <2>4. QED
        BY <1>6, <2>1, <2>3 DEF Numbered
<1>11. Budget'
    <2>1. Spent' = Spent /\ Allowed' = Allowed
        BY <1>1, <1>2, <1>6, <1>7, Counts DEF Spent, Allowed, n
    <2>2. QED
        BY <1>7, <2>1 DEF Budget
<1>12. ASSUME ~late PROVE AddInTurn'
    <2>1. AddInTurn
        BY <1>12 DEF InTime
    <2>2. CASE phase = "failed"
        BY <1>1, <2>1, <2>2 DEF AddInTurn
    <2>3. CASE phase # "failed"
        <3>1. /\ One(toServer', {"register"}) /\ None(toServer', {"register"})
              /\ Outstanding /\ None(toClient, {"ok", "err"}) /\ One(toClient, {"ok", "err"})
              /\ f.port = Wanted
            BY <1>1, <1>2, <2>1, <2>3 DEF AddInTurn
        <3>2. /\ \A g \in In(toClient) : g.type # "ok"
              /\ \A g \in In(toServer') : g.type # "register"
            BY <3>1 DEF None
        <3>3. LeadsTo(replying, Wanted)'
            <4>1. t \in made' /\ t.id = replying' /\ t.port = Wanted'
                BY <1>1, <1>4, <1>7, <3>1
            <4>2. QED
                BY <4>1 DEF LeadsTo
        <3>4. QED
            BY <1>1, <2>1, <3>1, <3>2, <3>3 DEF AddInTurn, Outstanding
    <2>4. QED
        BY <2>2, <2>3
<1>13. ASSUME ~late PROVE DelInTurn'
    BY <1>1, <1>2, <1>13 DEF InTime, DelInTurn
<1>14. ASSUME ~late, phase # "failed" PROVE Lists'
    <2>1. Lists /\ DelInTurn /\ None(toClient, {"ok", "err"})
        BY <1>1, <1>2, <1>14 DEF InTime, AddInTurn
    <2>2. {g \in In(toClient) : g.type = "ok"} = {} /\ {replying} \ {0} = {} /\ {replying'} \ {0} = {n}
        BY <1>1, <1>3, <2>1 DEF None
    <2>3. Adding = {} /\ Adding' = {n}
        BY <1>1, <2>2 DEF Adding
    <2>4. Removed \subseteq MadeIds
        <3>1. Removed \subseteq ForwardIds
            BY <1>14, <2>1, <2>3 DEF Lists
        <3>2. QED
            BY <3>1 DEF Shape
    <2>5. ForwardIds \subseteq MadeIds /\ held \subseteq MadeIds
        BY DEF Shape, Typed
    <2>6. \A c \in Caller : call[c] \in {"picked", "del"} => arg[c] # n
        BY <1>3 DEF Shape
    <2>7. QED
        BY <1>1, <1>3, <1>7, <1>14, <2>1, <2>3, <2>4, <2>5, <2>6 DEF Lists
<1>15. RemovedIsGone'
    <2>1. \A c \in Caller : call[c] = "del" => arg[c] # n
        BY <1>3 DEF Shape
    <2>2. QED
        BY <1>1, <2>1 DEF RemovedIsGone
<1>16. InTime'
    <2>1. ~late /\ phase = "failed" => Lists'
        BY <1>1 DEF Lists
    <2>2. MappingsRight => MappingsRight'
        BY <1>1 DEF MappingsRight
    <2>3. QED
        BY <1>1, <1>12, <1>13, <1>14, <2>1, <2>2 DEF InTime
<1>17. QED
    BY <1>8, <1>9, <1>10, <1>11, <1>15, <1>16

LEMMA ServerRepliesKeeps ==
    ASSUME ForwardsInv, ServerReplies
    PROVE  ForwardsInv'
<1> USE DEF ForwardsInv
<1> DEFINE f == Answer("ok", replying)
<1>1. /\ replying # 0 /\ replying' = 0 /\ toClient' = Append(toClient, f)
      /\ UNCHANGED <<connectVars, forwards, waiting, callerVars, toServer, made, held, reqs>>
      /\ replying \in held /\ replying \in MadeIds /\ replying \in Ids
    BY DEF ServerReplies, Typed, MadeIds
<1>2. f \in ToClient /\ f.type = "ok" /\ f.id = replying
    BY <1>1, FrameFacts
<1> HIDE DEF f
<1>3. /\ toClient' \in Seq(ToClient) /\ In(toClient') = In(toClient) \cup {f}
      /\ None(toClient, {"uok", "uerr"}) => None(toClient', {"uok", "uerr"})
      /\ One(toClient, {"uok", "uerr"}) => One(toClient', {"uok", "uerr"})
      /\ None(toClient, {"ok", "err"}) => One(toClient', {"ok", "err"})
    <2>1. toClient \in Seq(ToClient) /\ f.type \notin {"uok", "uerr"}
        BY <1>2 DEF Typed
    <2>2. toClient' = Append(toClient, f) /\ f \in ToClient
        BY <1>1, <1>2
    <2>3. QED
        BY <2>1, <2>2, QueueAppend
<1> USE DEF connectVars, waiting, callerVars
<1>4. UNCHANGED <<MadeIds, ForwardIds, Picked, Wanted>>
    BY <1>1 DEF MadeIds, ForwardIds, Picked, Wanted
<1>5. Adding' = Adding /\ Removed' = Removed
    <2>1. /\ {g \in In(toClient') : g.type = "ok"} = {g \in In(toClient) : g.type = "ok"} \cup {f}
          /\ {g \in In(toClient') : g.type = "uok"} = {g \in In(toClient) : g.type = "uok"}
        BY <1>2, <1>3
    <2>2. {replying} \ {0} = {f.id} /\ {replying'} \ {0} = {}
        BY <1>1, <1>2
    <2>3. QED
        BY <2>1, <2>2 DEF Adding, Removed
<1>6. Typed'
    BY <1>1, <1>3, <1>4 DEF Typed
<1>7. Shape' /\ Numbered' /\ Budget'
    BY <1>1, <1>2, <1>3, <1>4 DEF Shape, Numbered, Budget, Spent, Allowed
<1>8. ASSUME ~late PROVE AddInTurn'
    <2>1. AddInTurn
        BY <1>8 DEF InTime
    <2>2. CASE phase = "failed"
        BY <1>1, <2>1, <2>2 DEF AddInTurn
    <2>3. CASE phase # "failed"
        <3>1. /\ None(toServer, {"register"}) /\ One(toServer, {"register"}) /\ Outstanding
              /\ None(toClient, {"ok", "err"}) /\ LeadsTo(f.id, Wanted)
            BY <1>1, <1>2, <2>1, <2>3 DEF AddInTurn
        <3>2. /\ \A g \in In(toServer) : g.type # "register"
              /\ \A g \in In(toClient') : g.type = "ok" => g = f
            BY <1>3, <3>1 DEF None
        <3>3. QED
            BY <1>1, <1>3, <1>4, <2>1, <3>1, <3>2 DEF AddInTurn, Outstanding, LeadsTo
    <2>4. QED
        BY <2>2, <2>3
<1>9. ASSUME ~late PROVE DelInTurn' /\ Lists'
    <2>1. DelInTurn'
        BY <1>1, <1>2, <1>3, <1>9 DEF InTime, DelInTurn
    <2>2. Lists'
        BY <1>1, <1>4, <1>5, <1>9 DEF InTime, Lists
    <2>3. QED
        BY <2>1, <2>2
<1>10. InTime' /\ RemovedIsGone'
    BY <1>1, <1>8, <1>9 DEF InTime, MappingsRight, RemovedIsGone
<1>11. QED
    BY <1>6, <1>7, <1>10

LEMMA ServerRefusesKeeps ==
    ASSUME ForwardsInv, ServerRefuses
    PROVE  ForwardsInv'
<1> USE DEF ForwardsInv
<1> DEFINE f == Head(toServer)
           a == Answer("err", 0)
<1>1. /\ replying = 0 /\ toServer # <<>> /\ f.type = "register" /\ toServer' = Tail(toServer)
      /\ toClient' = Append(toClient, a)
      /\ UNCHANGED <<connectVars, forwards, waiting, callerVars, serverVars>>
    BY DEF ServerRefuses, ServerReads
<1>2. a \in ToClient /\ a.type = "err"
    BY FrameFacts
<1> HIDE DEF a
<1>3. /\ toServer' \in Seq(ToServer) /\ Len(toServer') = Len(toServer) - 1
      /\ In(toServer) = In(toServer') \cup {f}
      /\ None(toServer, {"unregister"}) => None(toServer', {"unregister"})
      /\ One(toServer, {"unregister"}) => One(toServer', {"unregister"})
      /\ One(toServer, {"register"}) => One(toServer', {"register"}) /\ None(toServer', {"register"})
      /\ ~None(toServer, {"register"})
    BY <1>1, QueueTail DEF Typed
<1>4. /\ toClient' \in Seq(ToClient) /\ In(toClient') = In(toClient) \cup {a}
      /\ None(toClient, {"uok", "uerr"}) => None(toClient', {"uok", "uerr"})
      /\ One(toClient, {"uok", "uerr"}) => One(toClient', {"uok", "uerr"})
      /\ None(toClient, {"ok", "err"}) => One(toClient', {"ok", "err"})
    <2>1. toClient \in Seq(ToClient) /\ a.type \notin {"uok", "uerr"}
        BY <1>2 DEF Typed
    <2>2. toClient' = Append(toClient, a) /\ a \in ToClient
        BY <1>1, <1>2
    <2>3. QED
        BY <2>1, <2>2, QueueAppend
<1> HIDE DEF f
<1> USE DEF connectVars, waiting, callerVars, serverVars
<1>5. UNCHANGED <<MadeIds, ForwardIds, Picked, Wanted, Adding, Removed>>
    <2>1. /\ {g \in In(toClient') : g.type = "ok"} = {g \in In(toClient) : g.type = "ok"}
          /\ {g \in In(toClient') : g.type = "uok"} = {g \in In(toClient) : g.type = "uok"}
        BY <1>2, <1>4
    <2>2. QED
        BY <1>1, <2>1 DEF MadeIds, ForwardIds, Picked, Wanted, Adding, Removed
<1>6. Typed'
    BY <1>1, <1>3, <1>4, <1>5 DEF Typed
<1>7. Shape' /\ Numbered' /\ Budget'
    <2>1. Shape'
        BY <1>1, <1>2, <1>3, <1>4, <1>5 DEF Shape
    <2>2. Spent' = Spent - 1 /\ Allowed' = Allowed
        BY <1>1, <1>3, <1>5, Counts DEF Spent, Allowed
    <2>3. Budget'
        BY <1>5, <2>2, BudgetChanges DEF Budget
    <2>4. QED
        BY <1>1, <1>5, <2>1, <2>3 DEF Numbered
<1>8. ASSUME ~late PROVE AddInTurn'
    <2>1. AddInTurn
        BY <1>8 DEF InTime
    <2>2. CASE phase = "failed"
        BY <1>1, <2>1, <2>2 DEF AddInTurn
    <2>3. CASE phase # "failed"
        <3>1. /\ None(toServer', {"register"}) /\ One(toServer', {"register"}) /\ Outstanding
              /\ None(toClient, {"ok", "err"})
            BY <1>1, <1>3, <2>1, <2>3 DEF AddInTurn
        <3>2. /\ \A g \in In(toServer') : g.type # "register"
              /\ \A g \in In(toClient') : g.type # "ok"
            BY <1>2, <1>4, <3>1 DEF None
        <3>3. QED
            BY <1>1, <1>4, <2>1, <3>1, <3>2 DEF AddInTurn, Outstanding
    <2>4. QED
        BY <2>2, <2>3
<1>9. ASSUME ~late PROVE DelInTurn' /\ Lists'
    <2>1. DelInTurn'
        BY <1>1, <1>2, <1>3, <1>4, <1>9 DEF InTime, DelInTurn
    <2>2. Lists'
        BY <1>1, <1>5, <1>9 DEF InTime, Lists
    <2>3. QED
        BY <2>1, <2>2
<1>10. InTime' /\ RemovedIsGone'
    BY <1>1, <1>8, <1>9 DEF InTime, MappingsRight, RemovedIsGone
<1>11. QED
    BY <1>6, <1>7, <1>10

LEMMA ServerUnregistersKeeps ==
    ASSUME ForwardsInv, ServerUnregisters
    PROVE  ForwardsInv'
<1> USE DEF ForwardsInv
<1> DEFINE f == Head(toServer)
           known == \E t \in made : t.id = f.id /\ t.kind = "http" /\ f.id \in held
           a == Answer(IF known THEN "uok" ELSE "uerr", f.id)
<1>1. /\ replying = 0 /\ toServer # <<>> /\ f.type = "unregister" /\ toServer' = Tail(toServer)
      /\ held' = (IF known THEN held \ {f.id} ELSE held)
      /\ toClient' = Append(toClient, a)
      /\ UNCHANGED <<connectVars, forwards, waiting, callerVars, made, replying, reqs>>
    BY DEF ServerUnregisters, ServerReads
<1>2. /\ toServer' \in Seq(ToServer) /\ Len(toServer') = Len(toServer) - 1 /\ f \in ToServer
      /\ In(toServer) = In(toServer') \cup {f}
      /\ None(toServer, {"register"}) => None(toServer', {"register"})
      /\ One(toServer, {"register"}) => One(toServer', {"register"})
      /\ One(toServer, {"unregister"}) => One(toServer', {"unregister"}) /\ None(toServer', {"unregister"})
      /\ ~None(toServer, {"unregister"})
    BY <1>1, QueueTail DEF Typed
<1>3. /\ a \in ToClient /\ a.id = f.id /\ a.type = (IF known THEN "uok" ELSE "uerr")
      /\ known => f.id \in held
    BY <1>2, FrameFacts, FrameTypes
<1> HIDE DEF a, known
<1>4. /\ toClient' \in Seq(ToClient) /\ In(toClient') = In(toClient) \cup {a}
      /\ None(toClient, {"ok", "err"}) => None(toClient', {"ok", "err"})
      /\ One(toClient, {"ok", "err"}) => One(toClient', {"ok", "err"})
      /\ None(toClient, {"uok", "uerr"}) => One(toClient', {"uok", "uerr"})
    <2>1. toClient \in Seq(ToClient) /\ a.type \notin {"ok", "err"}
        BY <1>3 DEF Typed
    <2>2. toClient' = Append(toClient, a) /\ a \in ToClient
        BY <1>1, <1>3
    <2>3. QED
        BY <2>1, <2>2, QueueAppend
<1> HIDE DEF f
<1> USE DEF connectVars, waiting, callerVars
<1>5. UNCHANGED <<MadeIds, ForwardIds, Picked, Wanted, Adding>> /\ held' \subseteq held
    <2>1. {g \in In(toClient') : g.type = "ok"} = {g \in In(toClient) : g.type = "ok"}
        BY <1>3, <1>4
    <2>2. QED
        BY <1>1, <2>1 DEF MadeIds, ForwardIds, Picked, Wanted, Adding
<1>6. Typed'
    BY <1>1, <1>2, <1>4, <1>5 DEF Typed
<1>7. Shape' /\ Numbered' /\ Budget'
    <2>1. Shape'
        BY <1>1, <1>2, <1>3, <1>4, <1>5 DEF Shape
    <2>2. Spent' = Spent - 1 /\ Allowed' = Allowed
        BY <1>1, <1>2, <1>5, Counts DEF Spent, Allowed
    <2>3. Budget'
        BY <1>5, <2>2, BudgetChanges DEF Budget
    <2>4. QED
        BY <1>1, <1>5, <2>1, <2>3 DEF Numbered
<1>8. ASSUME ~late PROVE AddInTurn'
    BY <1>1, <1>2, <1>3, <1>4, <1>5, <1>8 DEF InTime, AddInTurn, Outstanding, LeadsTo
<1>9. ASSUME ~late
      PROVE  /\ delCh # NoCaller /\ f.id = delID /\ None(toClient, {"uok", "uerr"})
             /\ call[delCh] = "del" /\ arg[delCh] = delID /\ delCh \in Caller
             /\ None(toServer', {"unregister"}) /\ One(toServer', {"unregister"})
    BY <1>1, <1>2, <1>9 DEF InTime, DelInTurn, Typed
<1>10. ASSUME ~late PROVE DelInTurn'
    <2>1. DelInTurn
        BY <1>10 DEF InTime
    <2>2. /\ \A g \in In(toServer') : g.type # "unregister"
          /\ \A g \in In(toClient') : g.type = "uok" => g = a
        BY <1>4, <1>9, <1>10 DEF None
    <2>3. QED
        BY <1>1, <1>3, <1>4, <1>9, <1>10, <2>1, <2>2 DEF DelInTurn
<1>11. ASSUME ~late, phase # "failed" PROVE Lists'
    <2>1. Lists /\ delID \notin Adding
        BY <1>9, <1>11 DEF InTime, Lists
    <2>2. {g \in In(toClient) : g.type = "uok"} = {}
        BY <1>9, <1>11 DEF None
    <2>3. CASE known
        <3>1. {g \in In(toClient') : g.type = "uok"} = {a}
            BY <1>3, <1>4, <2>2, <2>3
        <3>2. Removed = {} /\ Removed' = {delID} /\ held' = held \ {delID} /\ delID \in held
            BY <1>1, <1>3, <1>9, <1>11, <2>2, <2>3, <3>1 DEF Removed
        <3>3. QED
            BY <1>1, <1>5, <1>11, <2>1, <3>2 DEF Lists
    <2>4. CASE ~known
        <3>1. {g \in In(toClient') : g.type = "uok"} = {}
            BY <1>3, <1>4, <2>2, <2>4
        <3>2. Removed' = Removed /\ held' = held
            BY <1>1, <2>2, <2>4, <3>1 DEF Removed
        <3>3. QED
            BY <1>1, <1>5, <1>11, <2>1, <3>2 DEF Lists
    <2>5. QED
        BY <2>3, <2>4
<1>12. ~late /\ phase = "failed" => Lists'
    BY <1>1 DEF Lists
<1>13. InTime' /\ RemovedIsGone'
    BY <1>1, <1>5, <1>8, <1>10, <1>11, <1>12 DEF InTime, MappingsRight, RemovedIsGone
<1>14. QED
    BY <1>6, <1>7, <1>13

LEMMA ServerForwardsKeeps ==
    ASSUME ForwardsInv, NEW n \in held, ServerForwards(n)
    PROVE  ForwardsInv'
<1> USE DEF ForwardsInv
<1> DEFINE f == Answer("request", n)
<1>1. /\ reqs < MaxReqs /\ reqs' = reqs + 1 /\ toClient' = Append(toClient, f)
      /\ UNCHANGED <<connectVars, forwards, waiting, callerVars, toServer, made, held, replying>>
      /\ n \in Ids
    BY DEF ServerForwards, Typed, MadeIds
<1>2. f \in ToClient /\ f.type = "request"
    BY <1>1, FrameFacts
<1> HIDE DEF f
<1>3. /\ toClient' \in Seq(ToClient) /\ In(toClient') = In(toClient) \cup {f}
      /\ None(toClient, {"uok", "uerr"}) => None(toClient', {"uok", "uerr"})
      /\ One(toClient, {"uok", "uerr"}) => One(toClient', {"uok", "uerr"})
      /\ None(toClient, {"ok", "err"}) => None(toClient', {"ok", "err"})
      /\ One(toClient, {"ok", "err"}) => One(toClient', {"ok", "err"})
    <2>1. toClient \in Seq(ToClient) /\ f.type \notin {"uok", "uerr"} /\ f.type \notin {"ok", "err"}
        BY <1>2 DEF Typed
    <2>2. toClient' = Append(toClient, f) /\ f \in ToClient
        BY <1>1, <1>2
    <2>3. QED
        BY <2>1, <2>2, QueueAppend
<1> USE DEF connectVars, waiting, callerVars
<1>4. UNCHANGED <<MadeIds, ForwardIds, Picked, Wanted, Adding, Removed>>
    <2>1. /\ {g \in In(toClient') : g.type = "ok"} = {g \in In(toClient) : g.type = "ok"}
          /\ {g \in In(toClient') : g.type = "uok"} = {g \in In(toClient) : g.type = "uok"}
        BY <1>2, <1>3
    <2>2. QED
        BY <1>1, <2>1 DEF MadeIds, ForwardIds, Picked, Wanted, Adding, Removed
<1>5. Typed'
    <2>1. reqs' \in 0..MaxReqs
        BY <1>1, PlanFacts DEF Typed
    <2>2. QED
        BY <1>1, <1>3, <1>4, <2>1 DEF Typed
<1>6. Shape' /\ Numbered' /\ Budget'
    BY <1>1, <1>2, <1>3, <1>4 DEF Shape, Numbered, Budget, Spent, Allowed
<1>7. ASSUME ~late PROVE AddInTurn' /\ DelInTurn' /\ Lists'
    <2>1. AddInTurn /\ DelInTurn /\ Lists
        BY <1>7 DEF InTime
    <2>2. AddInTurn'
        BY <1>1, <1>2, <1>3, <1>4, <2>1 DEF AddInTurn, Outstanding, LeadsTo
    <2>3. DelInTurn'
        BY <1>1, <1>2, <1>3, <2>1 DEF DelInTurn
    <2>4. Lists'
        BY <1>1, <1>4, <2>1 DEF Lists
    <2>5. QED
        BY <2>2, <2>3, <2>4
<1>8. InTime' /\ RemovedIsGone'
    BY <1>1, <1>7 DEF InTime, MappingsRight, RemovedIsGone
<1>9. QED
    BY <1>5, <1>6, <1>8

-----------------------------------------------------------------------------
LEMMA ForwardsInvStep == ForwardsInv /\ [Next]_vars => ForwardsInv'
<1> SUFFICES ASSUME ForwardsInv, [Next]_vars PROVE ForwardsInv'
    OBVIOUS
<1>1. CASE ConnectStep
    BY <1>1, ConnectAsksKeeps, ConnectAnsweredKeeps, ConnectedKeeps DEF ConnectStep
<1>2. CASE RunStep
    BY <1>2, HandleAddResponseKeeps, HandleDelResponseKeeps, HandleRequestKeeps DEF RunStep
<1>3. CASE ServerStep
    BY <1>3, ServerRegistersKeeps, ServerRepliesKeeps, ServerRefusesKeeps, ServerUnregistersKeeps
    DEF ServerStep
<1>4. CASE \E n \in held : ServerForwards(n)
    BY <1>4, ServerForwardsKeeps
<1>5. ASSUME NEW c \in Caller,
             \/ \E p \in LocalPort : AddPort(c, p) \/ RemovePort(c, p)
             \/ RemoveAsks(c) \/ CallReturns(c) \/ CallTimesOut(c)
      PROVE  ForwardsInv'
    BY <1>5, AddPortKeeps, RemovePortKeeps, RemoveAsksKeeps, CallEndsKeeps
<1>6. CASE UNCHANGED vars
    <2> USE DEF ForwardsInv, vars, connectVars, waiting, callerVars, serverVars
    <2>1. UNCHANGED <<MadeIds, ForwardIds, Picked, Wanted, Adding, Removed, Outstanding>>
        BY <1>6 DEF MadeIds, ForwardIds, Picked, Wanted, Adding, Removed, Outstanding
    <2>2. Typed' /\ Shape' /\ Numbered' /\ Budget'
        BY <1>6, <2>1 DEF Typed, Shape, Numbered, Budget, Spent, Allowed
    <2>3. AddInTurn => AddInTurn'
        BY <1>6, <2>1 DEF AddInTurn, LeadsTo
    <2>4. (DelInTurn => DelInTurn') /\ (Lists => Lists')
        BY <1>6, <2>1 DEF DelInTurn, Lists
    <2>5. InTime' /\ RemovedIsGone'
        BY <1>6, <2>3, <2>4 DEF InTime, MappingsRight, RemovedIsGone
    <2>6. QED
        BY <2>2, <2>5
<1>7. QED
    BY <1>1, <1>2, <1>3, <1>4, <1>5, <1>6 DEF Next

LEMMA ForwardsInvHolds == Spec => []ForwardsInv
BY InitInv, ForwardsInvStep, PTL DEF Spec

-----------------------------------------------------------------------------
(***************************************************************************)
(* Every variable of Connect, AddPort, RemovePort, Run and the server's    *)
(* side keeps its type; the server's numbers stay within the plan and the  *)
(* calls made, also after calls have timed out.                            *)
(***************************************************************************)
THEOREM TypeCorrect == Spec => []TypeOK
<1>1. ForwardsInv => TypeOK
    <2> SUFFICES ASSUME ForwardsInv PROVE TypeOK
        OBVIOUS
    <2>1. /\ \A n \in 1..Len(toServer) : toServer[n] \in ToServer
          /\ \A n \in 1..Len(toClient) : toClient[n] \in ToClient
        BY DEF ForwardsInv, Typed
    <2>2. QED
        BY <2>1 DEF ForwardsInv, Typed, TypeOK, MadeIds, ToServer, ToClient
<1>2. QED
    BY <1>1, ForwardsInvHolds, PTL

(***************************************************************************)
(* While every call has waited for its answer, portFor leads each tunnel   *)
(* to the port it was registered for.                                      *)
(***************************************************************************)
THEOREM MappingsAreRight == Spec => []InTimeMappingsRight
<1>1. ForwardsInv => InTimeMappingsRight
    BY DEF ForwardsInv, InTime, InTimeMappingsRight
<1>2. QED
    BY <1>1, ForwardsInvHolds, PTL

(***************************************************************************)
(* While every call has waited for its answer, the client's list and the   *)
(* server's tunnels are the same whenever nothing is under way.            *)
(***************************************************************************)
THEOREM ListsAgree == Spec => []QuietListsAgree
<1>1. ForwardsInv => QuietListsAgree
    <2> SUFFICES ASSUME ForwardsInv, ~late, Quiet PROVE ForwardIds = held
        BY DEF QuietListsAgree, ForwardIds
    <2>1. Adding = {} /\ Removed = {}
        BY QueueEmpty DEF Quiet, Adding, Removed
    <2>2. QED
        BY <2>1 DEF ForwardsInv, InTime, Lists, Quiet
<1>2. QED
    BY <1>1, ForwardsInvHolds, PTL

(***************************************************************************)
(* "OK removed port" is true: the tunnel is in neither list any more.      *)
(***************************************************************************)
THEOREM RemovedTunnelsAreGone == Spec => []RemovedIsGone
<1>1. ForwardsInv => RemovedIsGone
    BY DEF ForwardsInv
<1>2. QED
    BY <1>1, ForwardsInvHolds, PTL
=============================================================================
