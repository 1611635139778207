-------------------------- MODULE ClientHostProofs --------------------------
(***************************************************************************)
(* Safety of a client process, for every plan of names, every number of    *)
(* connections the server keeps and every set of releases: its updater     *)
(* always leaves a program to start, and a client that says it is ready    *)
(* has its names.                                                          *)
(***************************************************************************)
EXTENDS ClientHost, WellFoundedInduction, TLAPS

-----------------------------------------------------------------------------
(***************************************************************************)
(* Min and Max of the sets that newer and its specification look at.       *)
(***************************************************************************)
LEMMA MinOfNats ==
    ASSUME NEW S \in SUBSET Nat, S # {}
    PROVE  Min(S) \in S /\ \A y \in S : Min(S) <= y
<1> DEFINE R == {ss \in Nat \X Nat : ss[1] < ss[2]}
<1>1. R = OpToRel(<, Nat)
    BY Zenon DEF OpToRel
<1>2. IsWellFoundedOn(R, Nat)
    BY <1>1, NatLessThanWellFounded
<1>3. PICK x \in S : \A y \in S : ~(<<y, x>> \in R)
    BY <1>2, WFMin
<1>4. \A y \in S : x <= y
    <2> TAKE y \in S
    <2>1. <<y, x>> \in Nat \X Nat /\ <<y, x>>[1] = y /\ <<y, x>>[2] = x
        OBVIOUS
    <2>2. ~(y < x)
        BY <1>3, <2>1
    <2>3. QED
        BY <2>2
<1>5. QED
    BY <1>4 DEF Min

LEMMA MaxOfTwo ==
    ASSUME NEW a \in Nat, NEW b \in Nat
    PROVE  Max({a, b}) \in Nat /\ Max({a, b}) >= a /\ Max({a, b}) >= b
BY DEF Max

(***************************************************************************)
(* What newer calls newer has at least the same version number: the first  *)
(* part that decides is larger, and the parts before it agree.             *)
(***************************************************************************)
LEMMA NewerIsAtLeast ==
    ASSUME NEW v \in Release, NEW w \in Release, Newer(v, w)
    PROVE  AtLeast(w, v)
<1>1. /\ Parts[v] \in Seq(Nat \cup {-1}) /\ Parts[w] \in Seq(Nat \cup {-1})
    BY UpdateAssumption
<1>2. Len(Parts[v]) \in Nat /\ Len(Parts[w]) \in Nat
    BY <1>1
<1> DEFINE m == Max({Len(Parts[v]), Len(Parts[w])})
           D == {i \in 1..m : NumAt(v, i) # NumAt(w, i) \/ NumAt(w, i) < 0}
           f == Min(D)
<1>3. m \in Nat
    BY <1>2, MaxOfTwo
<1>4. \A i \in 1..m : NumAt(v, i) \in Int /\ NumAt(w, i) \in Int
    BY <1>1, <1>3 DEF NumAt
<1>5. /\ D # {} /\ NumAt(w, f) >= 0
      /\ NumAt(v, f) < 0 \/ NumAt(w, f) > NumAt(v, f)
    BY DEF Newer
<1>6. D \in SUBSET Nat
    BY <1>3
<1> HIDE DEF m
<1>7. f \in D /\ \A y \in D : f <= y
    BY <1>5, <1>6, MinOfNats
<1>8. f \in 1..m
    BY <1>7
<1>9. \A j \in 1..(f - 1) : NumAt(w, j) = NumAt(v, j)
    BY <1>3, <1>7, <1>8
<1> HIDE DEF f, D
<1>10. NumAt(w, f) > NumAt(v, f)
    BY <1>4, <1>5, <1>8
<1>11. Max({Len(Parts[w]), Len(Parts[v])}) = m
    <2>1. {Len(Parts[w]), Len(Parts[v])} = {Len(Parts[v]), Len(Parts[w])}
        OBVIOUS
    <2>2. QED
        BY <2>1, Zenon DEF m
<1>12. QED
    BY <1>8, <1>9, <1>10, <1>11 DEF AtLeast

LEMMA AtLeastItself == ASSUME NEW v \in Release PROVE AtLeast(v, v)
BY DEF AtLeast

-----------------------------------------------------------------------------
LEMMA UpdateStart == UpdateInit => UpdateTypeOK /\ UpdateInv
BY UpdateAssumption, AtLeastItself DEF UpdateInit, UpdateTypeOK, UpdateInv, GoodBinaryRemains

(***************************************************************************)
(* A step of the updater.                                                  *)
(***************************************************************************)
LEMMA UpdateStepKeeps ==
    ASSUME UpdateTypeOK, UpdateInv, UpdateStep
    PROVE  UpdateTypeOK' /\ UpdateInv'
<1> USE UpdateAssumption DEF UpdateTypeOK, UpdateInv, GoodBinaryRemains, Goes, GivesUp
<1>1. CASE DownloadOpens
    <2>1. PICK t \in Release : Newer(running, t) /\ want' = t
        BY <1>1 DEF DownloadOpens
    <2>2. AtLeast(t, running)
        BY <2>1, NewerIsAtLeast
    <2>3. QED
        BY <1>1, <2>1, <2>2 DEF DownloadOpens
<1>2. CASE DownloadEnds \/ DownloadFails
    BY <1>2 DEF DownloadEnds, DownloadFails
<1>3. CASE Verifies \/ VerifyFails
    BY <1>3 DEF Verifies, VerifyFails
<1>4. CASE RemovesBackup
    BY <1>4 DEF RemovesBackup
<1>5. CASE MovesAside \/ AsideFails
    BY <1>5 DEF MovesAside, AsideFails
<1>6. CASE Installs
    BY <1>6 DEF Installs
<1>7. CASE InstallFails
    BY <1>7 DEF InstallFails
<1>8. QED
    BY <1>1, <1>2, <1>3, <1>4, <1>5, <1>6, <1>7 DEF UpdateStep

(***************************************************************************)
(* The updater's process dies, or one is started from exe.                 *)
(***************************************************************************)
LEMMA UpdaterDiesKeeps ==
    ASSUME UpdateTypeOK, UpdateInv, UpdaterDies
    PROVE  UpdateTypeOK' /\ UpdateInv'
BY DEF UpdateTypeOK, UpdateInv, GoodBinaryRemains, UpdaterDies

LEMMA StartsFromKeeps ==
    ASSUME UpdateTypeOK, UpdateInv, StartsFrom(files.exe)
    PROVE  UpdateTypeOK' /\ UpdateInv'
<1>1. files.exe \in Release
    BY DEF UpdateTypeOK, StartsFrom
<1>2. AtLeast(files.exe, files.exe)
    BY <1>1, AtLeastItself
<1>3. QED
    BY <1>1, <1>2 DEF UpdateTypeOK, UpdateInv, GoodBinaryRemains, StartsFrom

LEMMA UpdateKeeps ==
    UpdateTypeOK /\ UpdateInv /\ [HostNext]_hostVars => UpdateTypeOK' /\ UpdateInv'
<1> SUFFICES ASSUME UpdateTypeOK, UpdateInv, [HostNext]_hostVars PROVE UpdateTypeOK' /\ UpdateInv'
    OBVIOUS
<1>1. CASE UNCHANGED hostVars \/ Tunnelling
    <2>1. UNCHANGED <<files, update, want, running>>
        BY <1>1 DEF hostVars, updateVars, Tunnelling
    <2>2. QED
        BY <2>1, SMTT(30) DEF UpdateTypeOK, UpdateInv, GoodBinaryRemains
<1>2. CASE Updating
    BY <1>2, UpdateStepKeeps DEF Updating
<1>3. CASE Quits \/ RelaunchFails \/ Crashes
    BY <1>3, UpdaterDiesKeeps DEF Quits, RelaunchFails, Crashes
<1>4. CASE Relaunches \/ Starts
    BY <1>4, StartsFromKeeps DEF Relaunches, Starts
<1>5. QED
    BY <1>1, <1>2, <1>3, <1>4 DEF HostNext

(***************************************************************************)
(* Wherever an update fails or the process dies, a whole and signed        *)
(* release that is at least the running one remains at exe or exe.old.     *)
(***************************************************************************)
THEOREM AGoodBinaryRemains == HostSafety => []GoodBinaryRemains
<1>1. HostInit => UpdateTypeOK /\ UpdateInv
    BY UpdateStart DEF HostInit
<1>2. UpdateInv => GoodBinaryRemains
    BY DEF UpdateInv
<1>3. QED
    BY <1>1, <1>2, UpdateKeeps, PTL DEF HostSafety

-----------------------------------------------------------------------------
(***************************************************************************)
(* The queue of frames under way: what adding and taking one does to the   *)
(* answers in it.                                                          *)
(***************************************************************************)
LEMMA QueueAppend ==
    ASSUME NEW s \in Seq(Frame), NEW f \in Frame
    PROVE  /\ Append(s, f) \in Seq(Frame)
           /\ NoOk(s) /\ f # "ok" => NoOk(Append(s, f))
           /\ OneOk(s) /\ f # "ok" => OneOk(Append(s, f))
           /\ NoOk(s) => OneOk(Append(s, f))
           /\ f # "ok" /\ ~NoOk(Append(s, f)) => ~NoOk(s)
<1>1. /\ Append(s, f) \in Seq(Frame) /\ Len(Append(s, f)) = Len(s) + 1 /\ Len(s) \in Nat
      /\ \A i \in 1..Len(s) : Append(s, f)[i] = s[i]
      /\ Append(s, f)[Len(s) + 1] = f
    OBVIOUS
<1>2. \A i \in 1..Len(Append(s, f)) : i \in 1..Len(s) \/ i = Len(s) + 1
    BY <1>1
<1>3. QED
    BY <1>1, <1>2 DEF NoOk, OneOk

LEMMA QueueTail ==
    ASSUME NEW s \in Seq(Frame), s # <<>>
    PROVE  /\ Tail(s) \in Seq(Frame)
           /\ NoOk(s) => NoOk(Tail(s))
           /\ OneOk(s) => OneOk(Tail(s))
           /\ OneOk(s) /\ Head(s) = "ok" => NoOk(Tail(s))
           /\ Head(s) = "ok" => ~NoOk(s)
<1>1. /\ Tail(s) \in Seq(Frame) /\ Len(Tail(s)) = Len(s) - 1 /\ Len(s) \in Nat \ {0}
      /\ \A i \in 1..Len(Tail(s)) : Tail(s)[i] = s[i + 1] /\ i + 1 \in 1..Len(s)
      /\ Head(s) = s[1]
    OBVIOUS
<1>2. QED
    BY <1>1 DEF NoOk, OneOk

(***************************************************************************)
(* The parts of the plan are names.                                        *)
(***************************************************************************)
LEMMA PlanNames ==
    /\ Len(Plan) \in Nat \ {0}
    /\ \A i \in 1..Len(Plan) : Plan[i] \in Name
BY SessionAssumption DEF Name

LEMMA NoEndsType ==
    /\ NoEnds \in Ends
    /\ NoEnds.client = FALSE /\ NoEnds.server = "none" /\ NoEnds.asked = 0 /\ NoEnds.in = <<>>
<1>1. <<>> \in Seq(Frame)
    OBVIOUS
<1>2. QED
    BY <1>1, PlanNames DEF NoEnds, Ends

LEMMA ForgetKeeps ==
    ASSUME NEW e \in Ends
    PROVE  /\ Forget(e) \in Ends
           /\ Forget(e).client = e.client /\ Forget(e).server = e.server
<1>1. CASE ~e.client /\ e.server = "none"
    <2>1. e.client = FALSE
        BY <1>1 DEF Ends
    <2>2. QED
        BY <1>1, <2>1, NoEndsType DEF Forget
<1>2. CASE ~(~e.client /\ e.server = "none")
    BY <1>2 DEF Forget
<1>3. QED
    BY <1>1, <1>2

LEMMA SessionStart == SessionInit => SessionTypeOK /\ SessionInv
<1> SUFFICES ASSUME SessionInit PROVE SessionTypeOK /\ SessionInv
    OBVIOUS
<1>1. \A c \in Conn : ends[c] = NoEnds
    BY DEF SessionInit
<1>2. ends \in [Conn -> Ends]
    BY <1>1, NoEndsType DEF SessionInit
<1>3. SessionTypeOK
    <2>1. registry \in [Name -> Conn \cup {NoConn}]
        BY DEF SessionInit
    <2>2. step \in 0..Len(Plan)
        BY PlanNames DEF SessionInit
    <2>3. ctl \in BOOLEAN
        BY DEF SessionInit
    <2>4. QED
        BY <1>2, <2>1, <2>2, <2>3 DEF SessionInit, SessionTypeOK
<1>4. \A c \in Conn : ends[c].client <=> conn = c
    BY <1>1, NoEndsType, SessionAssumption DEF SessionInit
<1>5. QED
    BY <1>3, <1>4, PlanNames DEF SessionInit, SessionInv

(***************************************************************************)
(* The client closes its connection: no end but that one changes, and the  *)
(* server's side of it does not.                                           *)
(***************************************************************************)
LEMMA ClosesConnKeeps ==
    ASSUME SessionTypeOK, SessionInv, ClosesConn
    PROVE  /\ conn' = NoConn
           /\ ends' \in [Conn -> Ends]
           /\ \A c \in Conn : ~ends'[c].client /\ ends'[c].server = ends[c].server
<1> USE SessionAssumption DEF SessionTypeOK
<1>1. CASE conn = NoConn
    BY <1>1 DEF SessionInv, ClosesConn
<1>2. CASE conn # NoConn
    <2> DEFINE e == [ends[conn] EXCEPT !.client = FALSE, !.in = <<>>]
    <2>0. <<>> \in Seq(Frame) /\ ends[conn] \in Ends
        BY <1>2
    <2>1. e \in Ends /\ ~e.client /\ e.server = ends[conn].server
        BY <2>0 DEF Ends
    <2>2. ends' = [ends EXCEPT ![conn] = Forget(e)] /\ conn' = NoConn
        BY <1>2 DEF ClosesConn, ClientCloses
    <2> HIDE DEF e
    <2>3. Forget(e) \in Ends /\ ~Forget(e).client /\ Forget(e).server = ends[conn].server
        BY <2>1, ForgetKeeps
    <2>4. QED
        BY <1>2, <2>2, <2>3 DEF SessionInv
<1>3. QED
    BY <1>1, <1>2

(***************************************************************************)
(* A step that only ends the client's connection leaves it without one: of *)
(* the invariant, only what the registry says is left.                     *)
(***************************************************************************)
LEMMA ConnectionGone ==
    ASSUME SessionTypeOK, SessionInv, ClosesConn, UNCHANGED <<registry, weather>>,
           phase' \in {"top", "dial", "lost", "exit", "down"}, ctl' \in BOOLEAN,
           step' \in {0, step}, phase' = "dial" => step' = 0
    PROVE  SessionTypeOK' /\ SessionInv'
<1>1. /\ conn' = NoConn /\ ends' \in [Conn -> Ends]
      /\ \A c \in Conn : ~ends'[c].client /\ ends'[c].server = ends[c].server
    BY ClosesConnKeeps
<1>2. step' \in 0..Len(Plan)
    BY PlanNames DEF SessionTypeOK
<1>3. SessionTypeOK'
    BY <1>1, <1>2 DEF SessionTypeOK
<1>4. \A c \in Conn : ends'[c].client <=> conn' = c
    BY <1>1, SessionAssumption
<1>5. \A n \in Name : registry'[n] # NoConn => ends'[registry'[n]].server # "none"
    BY <1>1 DEF SessionTypeOK, SessionInv
<1>6. QED
    BY <1>1, <1>3, <1>4, <1>5 DEF SessionInv

LEMMA LoopTopKeeps == ASSUME SessionTypeOK, SessionInv, LoopTop PROVE SessionTypeOK' /\ SessionInv'
BY ConnectionGone DEF LoopTop

LEMMA RunEndsKeeps == ASSUME SessionTypeOK, SessionInv, RunEnds PROVE SessionTypeOK' /\ SessionInv'
BY ConnectionGone DEF RunEnds, SessionTypeOK

LEMMA InterruptedKeeps ==
    ASSUME SessionTypeOK, SessionInv, Interrupted PROVE SessionTypeOK' /\ SessionInv'
BY ConnectionGone DEF Interrupted

LEMMA ProcessEndsKeeps ==
    ASSUME SessionTypeOK, SessionInv, NEW then \in {"top", "down"}, ProcessEnds(then)
    PROVE  SessionTypeOK' /\ SessionInv'
BY ConnectionGone DEF ProcessEnds

(***************************************************************************)
(* Steps of the loop that change neither the connection nor its ends.      *)
(***************************************************************************)
LEMMA LoopMovesKeeps ==
    ASSUME SessionTypeOK, SessionInv,
           DialFails \/ ConnectFails \/ BackoffElapses \/ SleepElapses \/ ProcessStarts \/ WeatherClears
    PROVE  SessionTypeOK' /\ SessionInv'
<1>1. UNCHANGED <<conn, ctl, ends, registry>>
    BY DEF DialFails, ConnectFails, BackoffElapses, SleepElapses, ProcessStarts, WeatherClears,
       wireVars, loopVars
<1>2. CASE WeatherClears
    <2>1. UNCHANGED <<phase, conn, step, ctl, ends, registry>> /\ weather' \in {"storm", "busy", "calm"}
        BY <1>2 DEF WeatherClears, loopVars, wireVars, SessionTypeOK
    <2>2. QED
        BY <2>1 DEF SessionTypeOK, SessionInv, AskedInTurn
<1>3. CASE ~WeatherClears
    <2>1. phase' \in {"backoff", "top"} /\ step' \in {0, step} /\ UNCHANGED weather
        BY <1>3 DEF DialFails, ConnectFails, BackoffElapses, SleepElapses, ProcessStarts
    <2>2. step' \in 0..Len(Plan)
        BY <2>1, PlanNames DEF SessionTypeOK
    <2>3. SessionTypeOK'
        BY <1>1, <2>1, <2>2 DEF SessionTypeOK
    <2>4. QED
        BY <1>1, <2>1, <2>3 DEF SessionInv
<1>4. QED
    BY <1>2, <1>3

(***************************************************************************)
(* A step that replaces one connection's end by e.                         *)
(***************************************************************************)
LEMMA EndChanges ==
    ASSUME SessionTypeOK, SessionInv, NEW c \in Conn, NEW e \in Ends,
           ends' = [ends EXCEPT ![c] = e], UNCHANGED <<phase, conn, step, ctl, registry, weather>>,
           e.client = ends[c].client,
           e.server = "none" => \A n \in Name : registry[n] # c,
           c = conn /\ phase \in {"ask", "wait", "running"} /\ e.server \in {"read", "reply"}
               => AskedInTurn(c, e)
    PROVE  SessionTypeOK' /\ SessionInv'
<1>1. ends' \in [Conn -> Ends] /\ ends'[c] = e /\ \A d \in Conn \ {c} : ends'[d] = ends[d]
    BY DEF SessionTypeOK
<1>2. SessionTypeOK'
    BY <1>1 DEF SessionTypeOK
<1>3. \A d \in Conn : ends'[d].client <=> conn' = d
    BY <1>1 DEF SessionInv
<1>4. \A n \in Name : registry'[n] # NoConn => ends'[registry'[n]].server # "none"
    BY <1>1 DEF SessionTypeOK, SessionInv
<1>5. ASSUME phase' \in {"ask", "wait", "running"}, ends'[conn'].server \in {"read", "reply"}
      PROVE  AskedInTurn(conn, ends[conn])'
    <2>1. conn \in Conn
        BY <1>5 DEF SessionTypeOK, SessionInv
    <2>2. CASE conn = c
        <3>1. AskedInTurn(c, e)
            BY <1>1, <1>5, <2>2
        <3>2. QED
            BY <1>1, <2>2, <3>1 DEF AskedInTurn
    <2>3. CASE conn # c
        <3>1. AskedInTurn(conn, ends[conn]) /\ ends'[conn] = ends[conn]
            BY <1>1, <1>5, <2>1, <2>3 DEF SessionInv
        <3>2. QED
            BY <3>1 DEF AskedInTurn
    <2>4. QED
        BY <2>2, <2>3
<1>6. QED
    BY <1>2, <1>3, <1>4, <1>5 DEF SessionInv

LEMMA DeliveredType ==
    ASSUME SessionTypeOK, NEW c \in Conn, NEW f \in Frame
    PROVE  /\ Delivered(c, f) \in Seq(Frame)
           /\ Delivered(c, f) \in {ends[c].in, Append(ends[c].in, f)}
BY DEF SessionTypeOK, Ends, Delivered

LEMMA RunHandlesKeeps ==
    ASSUME SessionTypeOK, SessionInv, RunHandles PROVE SessionTypeOK' /\ SessionInv'
<1>1. phase = "running" /\ conn \in Conn /\ ends[conn].in # <<>>
    BY DEF RunHandles, SessionTypeOK, SessionInv
<1>2. ends[conn] \in Ends /\ ends[conn].in \in Seq(Frame)
    BY <1>1 DEF SessionTypeOK, Ends
<1> DEFINE e == [ends[conn] EXCEPT !.in = Tail(@)]
<1>3. Tail(ends[conn].in) \in Seq(Frame)
    BY <1>1, <1>2, QueueTail
<1>4. e \in Ends /\ e.client = ends[conn].client /\ e.server = ends[conn].server
    BY <1>2, <1>3 DEF Ends
<1>5. ends' = [ends EXCEPT ![conn] = e] /\ UNCHANGED <<phase, conn, step, ctl, registry, weather>>
    BY DEF RunHandles, loopVars
<1>6. e.server = "none" => \A n \in Name : registry[n] # conn
    BY <1>1, <1>4, SessionAssumption DEF SessionInv
<1>7. e.server \in {"read", "reply"} => AskedInTurn(conn, e)
    BY <1>1, <1>4 DEF SessionInv, AskedInTurn
<1> HIDE DEF e
<1>8. QED
    BY <1>1, <1>4, <1>5, <1>6, <1>7, EndChanges

LEMMA ServerRepliesKeeps ==
    ASSUME SessionTypeOK, SessionInv, NEW c \in Conn, ServerReplies(c)
    PROVE  SessionTypeOK' /\ SessionInv'
<1>1. ends[c] \in Ends /\ ends[c].in \in Seq(Frame) /\ ends[c].server = "reply" /\ "ok" \in Frame
    BY DEF SessionTypeOK, Ends, ServerReplies, Frame
<1> DEFINE q == Delivered(c, "ok")
           e == [ends[c] EXCEPT !.server = "read", !.in = q]
<1>2. q \in Seq(Frame) /\ q \in {ends[c].in, Append(ends[c].in, "ok")}
    BY <1>1, DeliveredType
<1> HIDE DEF q
<1>3. e \in Ends /\ e.client = ends[c].client /\ e.server = "read" /\ e.asked = ends[c].asked /\ e.in = q
    BY <1>1, <1>2 DEF Ends
<1>4. ends' = [ends EXCEPT ![c] = e] /\ UNCHANGED <<phase, conn, step, ctl, registry, weather>>
    BY DEF ServerReplies, loopVars, q
<1>5. c = conn /\ phase \in {"ask", "wait", "running"} => AskedInTurn(c, e)
    <2> SUFFICES ASSUME c = conn, phase \in {"ask", "wait", "running"} PROVE AskedInTurn(c, e)
        OBVIOUS
    <2>1. AskedInTurn(c, ends[c])
        BY <1>1 DEF SessionInv
    <2>2. NoOk(ends[c].in) => OneOk(q)
        <3>1. NoOk(ends[c].in) => OneOk(ends[c].in)
            BY DEF NoOk, OneOk
        <3>2. NoOk(ends[c].in) => OneOk(Append(ends[c].in, "ok"))
            BY <1>1, QueueAppend
        <3>3. QED
            BY <1>2, <3>1, <3>2
    <2>3. QED
        BY <1>1, <1>3, <2>1, <2>2 DEF AskedInTurn
<1> HIDE DEF e
<1>6. QED
    BY <1>3, <1>4, <1>5, EndChanges

LEMMA VisitKeeps ==
    ASSUME SessionTypeOK, SessionInv, NEW n \in Name, Visit(n)
    PROVE  SessionTypeOK' /\ SessionInv'
<1>1. PICK c \in Conn : c = registry[n]
    BY DEF SessionTypeOK, Visit
<1>2. ends[c] \in Ends /\ ends[c].in \in Seq(Frame) /\ "req" \in Frame
    BY DEF SessionTypeOK, Ends, Frame
<1> DEFINE q == Append(ends[c].in, "req")
           e == [ends[c] EXCEPT !.in = q]
<1>3. /\ q \in Seq(Frame)
      /\ NoOk(ends[c].in) => NoOk(q)
      /\ OneOk(ends[c].in) => OneOk(q)
      /\ ~NoOk(q) => ~NoOk(ends[c].in)
    BY <1>2, QueueAppend
<1>4. ends' = [ends EXCEPT ![c] = e] /\ UNCHANGED <<phase, conn, step, ctl, registry, weather>>
    BY <1>1 DEF Visit, loopVars
<1> HIDE DEF q
<1>5. e \in Ends /\ e.client = ends[c].client /\ e.server = ends[c].server
      /\ e.asked = ends[c].asked /\ e.in = q
    BY <1>2, <1>3 DEF Ends
<1>6. e.server = "none" => \A m \in Name : registry[m] # c
    BY <1>5, SessionAssumption DEF SessionInv
<1>7. c = conn /\ phase \in {"ask", "wait", "running"} /\ e.server \in {"read", "reply"}
        => AskedInTurn(c, e)
    BY <1>3, <1>5 DEF SessionInv, AskedInTurn
<1> HIDE DEF e
<1>8. QED
    BY <1>4, <1>5, <1>6, <1>7, EndChanges

LEMMA ServerNoticesKeeps ==
    ASSUME SessionTypeOK, SessionInv, NEW c \in Conn, ServerNotices(c) \/ LinkFails(c)
    PROVE  SessionTypeOK' /\ SessionInv'
<1>1. ends[c] \in Ends
    BY DEF SessionTypeOK
<1>2. PICK e \in Ends : /\ ends' = [ends EXCEPT ![c] = e]
                        /\ e.client = ends[c].client /\ e.asked = ends[c].asked /\ e.in = ends[c].in
                        /\ e.server \in {"clean", ends[c].server}
    <2>1. CASE ServerNotices(c)
        <3> DEFINE e == [ends[c] EXCEPT !.server = "clean"]
        <3>1. ends' = [ends EXCEPT ![c] = e]
            BY <2>1 DEF ServerNotices
        <3>2. e \in Ends /\ e.client = ends[c].client /\ e.asked = ends[c].asked
              /\ e.in = ends[c].in /\ e.server = "clean"
            BY <1>1 DEF Ends
        <3>3. QED
            BY <3>1, <3>2
    <2>2. CASE LinkFails(c)
        <3> DEFINE e == [ends[c] EXCEPT !.link = FALSE]
        <3>1. ends' = [ends EXCEPT ![c] = e]
            BY <2>2 DEF LinkFails
        <3>2. e \in Ends /\ e.client = ends[c].client /\ e.asked = ends[c].asked
              /\ e.in = ends[c].in /\ e.server = ends[c].server
            BY <1>1 DEF Ends
        <3>3. QED
            BY <3>1, <3>2
    <2>3. QED
        BY <2>1, <2>2
<1>3. UNCHANGED <<phase, conn, step, ctl, registry, weather>>
    BY DEF ServerNotices, LinkFails, loopVars
<1>4. e.server = "none" => \A m \in Name : registry[m] # c
    BY <1>2, SessionAssumption DEF SessionInv
<1>5. c = conn /\ phase \in {"ask", "wait", "running"} /\ e.server \in {"read", "reply"}
        => AskedInTurn(c, e)
    BY <1>2 DEF SessionInv, AskedInTurn
<1>6. QED
    BY <1>2, <1>3, <1>4, <1>5, EndChanges

LEMMA CleanupEndsKeeps ==
    ASSUME SessionTypeOK, SessionInv, NEW c \in Conn, CleanupEnds(c)
    PROVE  SessionTypeOK' /\ SessionInv'
<1> DEFINE d == [ends[c] EXCEPT !.server = "none", !.asked = 0]
<1>1. ends[c] \in Ends /\ 0 \in 0..Len(Plan)
    BY PlanNames DEF SessionTypeOK
<1>2. d \in Ends /\ d.client = ends[c].client /\ d.server = "none"
    BY <1>1 DEF Ends
<1>3. ends' = [ends EXCEPT ![c] = Forget(d)] /\ UNCHANGED <<phase, conn, step, ctl, registry, weather>>
    BY DEF CleanupEnds, loopVars
<1> HIDE DEF d
<1>4. Forget(d) \in Ends /\ Forget(d).client = ends[c].client /\ Forget(d).server = "none"
    BY <1>2, ForgetKeeps
<1>5. \A n \in Name : registry[n] # c
    BY DEF CleanupEnds
<1>6. QED
    BY <1>3, <1>4, <1>5, EndChanges

(***************************************************************************)
(* handleRegister gives a name to nobody else's loss.                      *)
(***************************************************************************)
LEMMA ServerRegistersKeeps ==
    ASSUME SessionTypeOK, SessionInv, NEW c \in Conn, ServerRegisters(c)
    PROVE  SessionTypeOK' /\ SessionInv'
<1>1. ends[c] \in Ends /\ ends[c].server = "read" /\ ends[c].asked # 0 /\ 0 \in 0..Len(Plan)
    BY PlanNames DEF SessionTypeOK, ServerRegisters
<1>2. ends[c].asked \in 1..Len(Plan) /\ ends[c].in \in Seq(Frame)
    BY <1>1, PlanNames DEF Ends
<1>3. PICK n \in Name : n = Plan[ends[c].asked]
    BY <1>2, PlanNames
<1>4. UNCHANGED <<phase, conn, step, ctl, weather>>
    BY DEF ServerRegisters, loopVars
<1>5. CASE registry[n] = NoConn
    <2> DEFINE e == [ends[c] EXCEPT !.asked = 0, !.server = "reply"]
    <2>1. ends' = [ends EXCEPT ![c] = e] /\ registry' = [registry EXCEPT ![n] = c]
        BY <1>3, <1>5 DEF ServerRegisters
    <2>2. e \in Ends /\ e.client = ends[c].client /\ e.server = "reply" /\ e.asked = 0
          /\ e.in = ends[c].in
        BY <1>1 DEF Ends
    <2> HIDE DEF e
    <2>3. ends' \in [Conn -> Ends] /\ ends'[c] = e /\ \A d \in Conn \ {c} : ends'[d] = ends[d]
        BY <2>1, <2>2 DEF SessionTypeOK
    <2>4. /\ registry' \in [Name -> Conn \cup {NoConn}] /\ registry'[n] = c
          /\ \A m \in Name : registry[m] # NoConn => registry'[m] = registry[m]
          /\ \A m \in Name \ {n} : registry'[m] = registry[m]
        BY <1>5, <2>1 DEF SessionTypeOK
    <2>5. SessionTypeOK'
        BY <1>4, <2>3, <2>4 DEF SessionTypeOK
    <2>6. \A d \in Conn : ends'[d].client <=> conn' = d
        BY <1>4, <2>2, <2>3 DEF SessionInv
    <2>7. \A m \in Name : registry'[m] # NoConn => ends'[registry'[m]].server # "none"
        BY <2>2, <2>3, <2>4 DEF SessionTypeOK, SessionInv
    <2>8. ASSUME phase' \in {"ask", "wait", "running"}, ends'[conn'].server \in {"read", "reply"}
          PROVE  AskedInTurn(conn, ends[conn])'
        <3>1. conn \in Conn /\ step \in 0..Len(Plan) /\ (phase = "wait" => step < Len(Plan))
            BY <1>4, <2>8 DEF SessionTypeOK, SessionInv
        <3>2. ends[conn].server \in {"read", "reply"}
            BY <1>1, <1>4, <2>3, <2>8, <3>1
        <3>3. AskedInTurn(conn, ends[conn])
            BY <1>4, <2>8, <3>2 DEF SessionInv
        <3>4. \A i \in 1..Len(Plan) : registry[Plan[i]] = conn => registry'[Plan[i]] = conn
            BY <2>4, <3>1, PlanNames, SessionAssumption
        <3>5. \A i \in 1..step : i \in 1..Len(Plan)
            BY <3>1, PlanNames
        <3>6. phase = "wait" => step + 1 \in 1..Len(Plan)
            BY <3>1, PlanNames
        <3>7. CASE conn = c
            <4>1. phase # "ask"
                BY <1>1, <3>3, <3>7 DEF AskedInTurn
            <4>2. phase = "wait" => ends[c].asked = step + 1 /\ NoOk(e.in)
                BY <1>1, <2>2, <3>3, <3>7 DEF AskedInTurn
            <4>3. phase = "wait" => registry'[Plan[step + 1]] = c
                BY <1>3, <2>4, <4>2
            <4>4. OneOk(e.in) \/ ~NoOk(e.in)
                BY DEF NoOk, OneOk
            <4>5. QED
                BY <1>4, <2>2, <2>3, <3>3, <3>4, <3>5, <3>7, <4>1, <4>2, <4>3, <4>4 DEF AskedInTurn
        <3>8. CASE conn # c
            <4>1. ends'[conn] = ends[conn]
                BY <2>3, <3>1, <3>8
            <4>2. QED
                BY <1>4, <3>3, <3>4, <3>5, <3>6, <4>1 DEF AskedInTurn
        <3>9. QED
            BY <3>7, <3>8
    <2>9. QED
        BY <1>4, <2>5, <2>6, <2>7, <2>8 DEF SessionInv
<1>6. CASE registry[n] # NoConn
    <2> DEFINE q == Delivered(c, "err")
               e == [ends[c] EXCEPT !.asked = 0, !.in = q]
    <2>1. ends' = [ends EXCEPT ![c] = e] /\ UNCHANGED registry
        BY <1>3, <1>6 DEF ServerRegisters
    <2>2. "err" \in Frame
        BY DEF Frame
    <2>3. q \in Seq(Frame) /\ q \in {ends[c].in, Append(ends[c].in, "err")}
        BY <2>2, DeliveredType
    <2>4. /\ NoOk(ends[c].in) => NoOk(q)
          /\ OneOk(ends[c].in) => OneOk(q)
          /\ ~NoOk(q) => ~NoOk(ends[c].in)
        BY <1>2, <2>2, <2>3, QueueAppend
    <2> HIDE DEF q
    <2>5. e \in Ends /\ e.client = ends[c].client /\ e.server = "read" /\ e.asked = 0 /\ e.in = q
        BY <1>1, <2>3 DEF Ends
    <2>6. c = conn /\ phase \in {"ask", "wait", "running"} => AskedInTurn(c, e)
        <3> SUFFICES ASSUME c = conn, phase \in {"ask", "wait", "running"} PROVE AskedInTurn(c, e)
            OBVIOUS
        <3>1. AskedInTurn(c, ends[c])
            BY <1>1 DEF SessionInv
        <3>2. QED
            BY <1>1, <2>4, <2>5, <3>1 DEF AskedInTurn
    <2> HIDE DEF e
    <2>7. QED
        BY <1>4, <2>1, <2>5, <2>6, EndChanges
<1>7. QED
    BY <1>5, <1>6

(***************************************************************************)
(* Clean-up takes names from its own connection only, and a restart of the *)
(* server takes all of them along with the connections.                    *)
(***************************************************************************)
LEMMA CleanupReleasesKeeps ==
    ASSUME SessionTypeOK, SessionInv, NEW c \in Conn, CleanupReleases(c)
    PROVE  SessionTypeOK' /\ SessionInv'
<1>1. UNCHANGED <<phase, conn, step, ctl, ends, weather>> /\ ends[c].server = "clean"
    BY DEF CleanupReleases, loopVars
<1>2. PICK n \in Name : registry[n] = c /\ registry' = [registry EXCEPT ![n] = NoConn]
    BY DEF CleanupReleases
<1>3. /\ registry' \in [Name -> Conn \cup {NoConn}]
      /\ registry'[n] = NoConn
      /\ \A m \in Name \ {n} : registry'[m] = registry[m]
    BY <1>2 DEF SessionTypeOK
<1>4. SessionTypeOK'
    BY <1>1, <1>3 DEF SessionTypeOK
<1>5. \A m \in Name : registry'[m] # NoConn => ends'[registry'[m]].server # "none"
    BY <1>1, <1>3 DEF SessionInv
<1>6. ASSUME phase' \in {"ask", "wait", "running"}, ends'[conn'].server \in {"read", "reply"}
      PROVE  AskedInTurn(conn, ends[conn])'
    <2>1. AskedInTurn(conn, ends[conn]) /\ conn # c
        BY <1>1, <1>6 DEF SessionInv
    <2>2. \A m \in Name : registry[m] = conn => registry'[m] = conn
        BY <1>2, <1>3, <2>1
    <2>3. /\ \A i \in 1..step : Plan[i] \in Name
          /\ phase = "wait" => Plan[step + 1] \in Name
        <3>1. step \in 0..Len(Plan) /\ (phase = "wait" => step < Len(Plan))
            BY DEF SessionTypeOK, SessionInv
        <3>2. (\A i \in 1..step : i \in 1..Len(Plan)) /\ (phase = "wait" => step + 1 \in 1..Len(Plan))
            BY <3>1, PlanNames
        <3>3. QED
            BY <3>2, PlanNames
    <2>4. QED
        BY <1>1, <2>1, <2>2, <2>3 DEF AskedInTurn
<1>7. QED
    BY <1>1, <1>4, <1>5, <1>6 DEF SessionInv

LEMMA ServerRestartsKeeps ==
    ASSUME SessionTypeOK, SessionInv, ServerRestarts
    PROVE  SessionTypeOK' /\ SessionInv'
<1>1. /\ UNCHANGED <<phase, conn, step, ctl, weather>>
      /\ registry' = [n \in Name |-> NoConn]
      /\ ends' = [c \in Conn |-> Forget([ends[c] EXCEPT !.server = "none", !.asked = 0])]
    BY DEF ServerRestarts, loopVars
<1>2. ASSUME NEW c \in Conn
      PROVE  ends'[c] \in Ends /\ ends'[c].client = ends[c].client /\ ends'[c].server = "none"
    <2> DEFINE d == [ends[c] EXCEPT !.server = "none", !.asked = 0]
    <2>1. ends[c] \in Ends /\ 0 \in 0..Len(Plan)
        BY PlanNames DEF SessionTypeOK
    <2>2. d \in Ends /\ d.client = ends[c].client /\ d.server = "none"
        BY <2>1 DEF Ends
    <2>3. ends'[c] = Forget(d)
        BY <1>1
    <2> HIDE DEF d
    <2>4. QED
        BY <2>2, <2>3, ForgetKeeps
<1>3. ends' \in [Conn -> Ends]
    BY <1>1, <1>2
<1>4. SessionTypeOK'
    BY <1>1, <1>3 DEF SessionTypeOK
<1>5. phase' \in {"ask", "wait", "running"} => ends'[conn'].server = "none"
    BY <1>1, <1>2 DEF SessionTypeOK, SessionInv
<1>6. \A c \in Conn : ends'[c].client <=> conn' = c
    BY <1>1, <1>2 DEF SessionInv
<1>7. \A n \in Name : registry'[n] = NoConn
    BY <1>1
<1>8. QED
    BY <1>1, <1>4, <1>5, <1>6, <1>7 DEF SessionInv

(***************************************************************************)
(* Connect.  A connection that is dialled is new to both sides: no name    *)
(* leads to it.                                                            *)
(***************************************************************************)
LEMMA DialKeeps ==
    ASSUME SessionTypeOK, SessionInv, Dial PROVE SessionTypeOK' /\ SessionInv'
<1>1. phase = "dial" /\ conn = NoConn /\ phase' = "ask" /\ UNCHANGED <<step, ctl, registry, weather>>
    BY DEF Dial, SessionInv
<1>2. PICK c \in Conn : c = conn' /\ ends[c] = NoEnds
    BY DEF Dial
<1> DEFINE e == [NoEnds EXCEPT !.client = TRUE, !.server = "read"]
<1>3. ends' = [ends EXCEPT ![c].client = TRUE, ![c].server = "read"]
    BY <1>2 DEF Dial
<1>4. e \in Ends /\ e.client = TRUE /\ e.server = "read" /\ e.asked = 0 /\ e.in = <<>>
    BY NoEndsType DEF Ends
<1>5. ends' = [ends EXCEPT ![c] = e]
    BY <1>2, <1>3
<1> HIDE DEF e
<1>6. ends' \in [Conn -> Ends] /\ ends'[c] = e /\ \A d \in Conn \ {c} : ends'[d] = ends[d]
    BY <1>4, <1>5 DEF SessionTypeOK
<1>7. SessionTypeOK'
    BY <1>1, <1>2, <1>6 DEF SessionTypeOK
<1>8. \A d \in Conn : ends'[d].client <=> conn' = d
    BY <1>1, <1>2, <1>4, <1>6, SessionAssumption DEF SessionInv
<1>9. \A n \in Name : registry[n] # c
    BY <1>2, NoEndsType, SessionAssumption DEF SessionInv
<1>10. \A n \in Name : registry'[n] # NoConn => ends'[registry'[n]].server # "none"
    BY <1>1, <1>6, <1>9 DEF SessionTypeOK, SessionInv
<1>11. step = 0
    BY <1>1 DEF SessionInv
<1>12. NoOk(<<>>)
    BY DEF NoOk
<1>13. AskedInTurn(conn, ends[conn])'
    BY <1>1, <1>2, <1>4, <1>6, <1>11, <1>12 DEF AskedInTurn
<1>14. QED
    BY <1>1, <1>2, <1>7, <1>8, <1>10, <1>11, <1>13, PlanNames, SessionAssumption DEF SessionInv

LEMMA RegisterAsksKeeps ==
    ASSUME SessionTypeOK, SessionInv, RegisterAsks PROVE SessionTypeOK' /\ SessionInv'
<1>1. /\ phase = "ask" /\ phase' = "wait" /\ UNCHANGED <<conn, step, ctl, registry, weather>>
      /\ conn \in Conn /\ step \in 0..Len(Plan) /\ step < Len(Plan)
    BY DEF RegisterAsks, SessionTypeOK, SessionInv
<1>2. ends[conn] \in Ends
    BY <1>1 DEF SessionTypeOK
<1>3. step + 1 \in 0..Len(Plan)
    BY <1>1, PlanNames
<1> DEFINE a == [ends[conn] EXCEPT !.asked = step + 1]
<1>4. a \in Ends /\ a.client = ends[conn].client /\ a.server = ends[conn].server
      /\ a.in = ends[conn].in /\ a.asked = step + 1
    BY <1>2, <1>3 DEF Ends
<1>5. ends' = ends \/ ends' = [ends EXCEPT ![conn] = a]
    BY DEF RegisterAsks
<1> HIDE DEF a
<1>6. /\ ends' \in [Conn -> Ends]
      /\ ends'[conn] \in {a, ends[conn]}
      /\ \A d \in Conn : ends'[d].client = ends[d].client /\ ends'[d].server = ends[d].server
    BY <1>1, <1>4, <1>5 DEF SessionTypeOK
<1>7. SessionTypeOK'
    BY <1>1, <1>6 DEF SessionTypeOK
<1>8. \A d \in Conn : ends'[d].client <=> conn' = d
    BY <1>1, <1>6 DEF SessionInv
<1>9. \A n \in Name : registry'[n] # NoConn => ends'[registry'[n]].server # "none"
    BY <1>1, <1>6 DEF SessionTypeOK, SessionInv
<1>10. ends'[conn'].server \in {"read", "reply"} => AskedInTurn(conn, ends[conn])'
    <2> SUFFICES ASSUME ends'[conn'].server \in {"read", "reply"} PROVE AskedInTurn(conn, ends[conn])'
        OBVIOUS
    <2>1. AskedInTurn(conn, ends[conn])
        BY <1>1, <1>6 DEF SessionInv
    <2>2. NoOk(ends[conn].in) => OneOk(ends[conn].in)
        BY DEF NoOk, OneOk
    <2>3. QED
        BY <1>1, <1>4, <1>6, <2>1, <2>2 DEF AskedInTurn
<1>11. QED
    BY <1>1, <1>7, <1>8, <1>9, <1>10, SessionAssumption DEF SessionInv

LEMMA RegisterAnsweredKeeps ==
    ASSUME SessionTypeOK, SessionInv, RegisterAnswered PROVE SessionTypeOK' /\ SessionInv'
<1>1. /\ phase = "wait" /\ UNCHANGED <<conn, registry, weather>>
      /\ conn \in Conn /\ step \in 0..Len(Plan) /\ step < Len(Plan) /\ step' = step + 1
      /\ ends[conn].in # <<>> /\ Head(ends[conn].in) = "ok"
    BY DEF RegisterAnswered, SessionTypeOK, SessionInv
<1>2. /\ phase' \in {"running", "ask"}
      /\ phase' = "running" <=> step + 1 = Len(Plan)
    BY DEF RegisterAnswered
<1>3. ctl' \in BOOLEAN
    <2>1. CASE step + 1 = Len(Plan)
        BY <2>1 DEF RegisterAnswered
    <2>2. CASE step + 1 # Len(Plan)
        BY <2>2 DEF RegisterAnswered, SessionTypeOK
    <2>3. QED
        BY <2>1, <2>2
<1>4. step' \in 0..Len(Plan) /\ (phase' = "ask" => step' < Len(Plan)) /\ step + 1 \in 1..Len(Plan)
    BY <1>1, <1>2, PlanNames
<1>5. ends[conn] \in Ends /\ ends[conn].in \in Seq(Frame)
    BY <1>1 DEF SessionTypeOK, Ends
<1> DEFINE q == Tail(ends[conn].in)
           e == [ends[conn] EXCEPT !.in = q]
<1>6. /\ q \in Seq(Frame) /\ ~NoOk(ends[conn].in)
      /\ OneOk(ends[conn].in) => NoOk(q)
    BY <1>1, <1>5, QueueTail
<1>7. ends' = [ends EXCEPT ![conn] = e]
    BY DEF RegisterAnswered
<1> HIDE DEF q
<1>8. e \in Ends /\ e.client = ends[conn].client /\ e.server = ends[conn].server
      /\ e.asked = ends[conn].asked /\ e.in = q
    BY <1>5, <1>6 DEF Ends
<1> HIDE DEF e
<1>9. ends' \in [Conn -> Ends] /\ ends'[conn] = e /\ \A d \in Conn \ {conn} : ends'[d] = ends[d]
    BY <1>1, <1>7, <1>8 DEF SessionTypeOK
<1>10. SessionTypeOK'
    BY <1>1, <1>2, <1>3, <1>4, <1>9 DEF SessionTypeOK
<1>11. \A d \in Conn : ends'[d].client <=> conn' = d
    BY <1>1, <1>8, <1>9 DEF SessionInv
<1>12. \A n \in Name : registry'[n] # NoConn => ends'[registry'[n]].server # "none"
    BY <1>1, <1>8, <1>9 DEF SessionTypeOK, SessionInv
<1>13. ends'[conn'].server \in {"read", "reply"} => AskedInTurn(conn, ends[conn])'
    <2> SUFFICES ASSUME ends'[conn'].server \in {"read", "reply"} PROVE AskedInTurn(conn, ends[conn])'
        OBVIOUS
    <2>1. AskedInTurn(conn, ends[conn])
        BY <1>1, <1>8, <1>9 DEF SessionInv
    <2>2. /\ registry[Plan[step + 1]] = conn /\ NoOk(q)
          /\ e.asked = 0 /\ e.server = "read"
        BY <1>1, <1>6, <1>8, <1>9, <2>1 DEF AskedInTurn
    <2>3. \A i \in 1..(step + 1) : i \in 1..step \/ i = step + 1
        BY <1>1
    <2>4. \A i \in 1..step' : registry'[Plan[i]] = conn'
        BY <1>1, <2>1, <2>2, <2>3 DEF AskedInTurn
    <2>5. QED
        BY <1>1, <1>2, <1>8, <1>9, <2>2, <2>4 DEF AskedInTurn
<1>14. QED
    BY <1>1, <1>2, <1>4, <1>10, <1>11, <1>12, <1>13, SessionAssumption DEF SessionInv

-----------------------------------------------------------------------------
LEMMA SessionKeeps ==
    SessionTypeOK /\ SessionInv /\ [HostNext]_hostVars => SessionTypeOK' /\ SessionInv'
<1> SUFFICES ASSUME SessionTypeOK, SessionInv, [HostNext]_hostVars
             PROVE  SessionTypeOK' /\ SessionInv'
    OBVIOUS
<1>1. CASE UNCHANGED hostVars \/ Updating
    <2>1. UNCHANGED <<phase, conn, step, ctl, ends, registry, weather>>
        BY <1>1 DEF hostVars, sessionVars, loopVars, wireVars, Updating
    <2>2. QED
        BY <2>1 DEF SessionTypeOK, SessionInv, AskedInTurn
<1>2. CASE LoopStep
    BY <1>2, LoopTopKeeps, DialKeeps, LoopMovesKeeps, RegisterAsksKeeps, RegisterAnsweredKeeps,
       RunHandlesKeeps, RunEndsKeeps DEF LoopStep
<1>3. CASE Environment
    BY <1>3, VisitKeeps, ServerNoticesKeeps, ServerRestartsKeeps, LoopMovesKeeps DEF Environment
<1>4. ASSUME NEW c \in Conn, ServerStep(c) PROVE SessionTypeOK' /\ SessionInv'
    BY <1>4, ServerRegistersKeeps, ServerRepliesKeeps, ServerNoticesKeeps, CleanupReleasesKeeps,
       CleanupEndsKeeps DEF ServerStep
<1>5. CASE Quits
    BY <1>5, InterruptedKeeps DEF Quits
<1>6. CASE Relaunches \/ RelaunchFails \/ Crashes
    BY <1>6, ProcessEndsKeeps DEF Relaunches, RelaunchFails, Crashes
<1>7. CASE Starts
    BY <1>7, LoopMovesKeeps DEF Starts
<1>8. QED
    BY <1>1, <1>2, <1>3, <1>4, <1>5, <1>6, <1>7 DEF HostNext, Tunnelling

(***************************************************************************)
(* A client that says its tunnels are ready, while its handler serves it,  *)
(* has every name of its plan.                                             *)
(***************************************************************************)
THEOREM RunningIsRouted == HostSafety => []RunningMeansRouted
<1>1. HostInit => SessionTypeOK /\ SessionInv
    BY SessionStart DEF HostInit
<1>2. SessionTypeOK /\ SessionInv => RunningMeansRouted
    <2> SUFFICES ASSUME SessionInv, phase = "running", ends[conn].server \in {"read", "reply"},
                        NEW n \in Name
                 PROVE  registry[n] = conn
        BY DEF RunningMeansRouted, Routed
    <2>1. step = Len(Plan) /\ AskedInTurn(conn, ends[conn])
        BY DEF SessionInv
    <2>2. PICK i \in 1..Len(Plan) : n = Plan[i]
        BY DEF Name
    <2>3. QED
        BY <2>1, <2>2 DEF AskedInTurn
<1>3. QED
    BY <1>1, <1>2, SessionKeeps, PTL DEF HostSafety

(***************************************************************************)
(* Type correctness of the client process.                                 *)
(***************************************************************************)
THEOREM TypeCorrect == HostSafety => []TypeOK
<1>1. HostInit => SessionTypeOK /\ SessionInv /\ UpdateTypeOK /\ UpdateInv
    BY SessionStart, UpdateStart DEF HostInit
<1>2. SessionTypeOK /\ UpdateTypeOK => TypeOK
    BY DEF TypeOK
<1>3. QED
    BY <1>1, <1>2, SessionKeeps, UpdateKeeps, PTL DEF HostSafety
=============================================================================
