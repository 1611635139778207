--------------------------- MODULE ServerTunnels ---------------------------
(***************************************************************************)
(* The server's tunnel connections: internal/server/handler.go (all but    *)
(* the relaying of requests), registry.go, and the connection limit of     *)
(* cmd/server/main.go.                                                     *)
(*                                                                         *)
(* Every client connection h has a ClientHandler.  Two goroutines of it    *)
(* change the state modelled here: the reader (Run's loop, the only one    *)
(* that handles frames) and the authentication timer's callback.  Both can *)
(* call cleanup, whose body a sync.Once runs once; the handlers share the  *)
(* HTTP and the TLS registry and the port allocator.                       *)
(*                                                                         *)
(* A client may send any frame at any time.  Frames the code answers with  *)
(* an error and no change of state (before authentication, malformed, over *)
(* the limit, a taken name, an unknown tunnel, no free port, a feature     *)
(* that is off) are stuttering steps.  Tunnel ids are 64 random bits in    *)
(* the code; here each is fresh.                                           *)
(*                                                                         *)
(* The websocket reader hands out frames it had buffered before the        *)
(* connection was closed, and cleanup may run in the timer's goroutine     *)
(* while the reader goes on: `late' counts the frames a handler acts on    *)
(* after its cleanup began.                                                *)
(***************************************************************************)
EXTENDS PortAllocator

CONSTANTS
    Handler,       \* client connections; each connects at most once
    Sub,           \* subdomains a client may ask for or be given
    Features,      \* the kinds of tunnel this server offers
    MaxTunnels,    \* protocol.MaxTunnelsPerClient
    MaxConns,      \* maxConns, the capacity of connSem
    HostTooLong,   \* "host:port" exceeds what EncodeRegisterOK can encode
    MaxIds,        \* bound: tunnels created in a behaviour
    MaxLate,       \* bound: frames a handler receives after its cleanup began
    NoTunnel

Named == {"http", "tls"}
Kind == Named \cup {"tcp"}

ASSUME ServerAssumption ==
    /\ Features \in SUBSET Kind /\ "http" \in Features
    /\ MaxTunnels \in Nat /\ MaxConns \in Nat
    /\ MaxIds \in Nat /\ MaxLate \in Nat
    /\ HostTooLong \in BOOLEAN

Tunnel == [id : Nat, kind : Kind, owner : Handler, at : Sub \cup Ports]

ASSUME NoTunnelAssumption == NoTunnel \notin Tunnel \cup Handler

VARIABLES
    conn,       \* the WebSocket: "none", "open", or "closed" by cleanup
    reader,     \* where Run's goroutine is
    authed,     \* h.authenticated
    timer,      \* the auth timer's goroutine
    cleaner,    \* closeOnce: who runs cleanup's body, or "done"
    stage,      \* the map cleanup's body is iterating, or "last"
    todo,       \* the entries that iteration has still to produce
    cur,        \* the entry it is working on, or NoTunnel
    count,      \* h.tunnelCount
    port,       \* the port handleRegisterTCP has allocated, or NoPort
    act,        \* the tunnel the reader is undoing or unregistering, or NoTunnel
    late,       \* frames handled since cleanup began
    held,       \* h.tunnels, h.tcpTunnels and h.tlsTunnels of every handler
    registry,   \* the entries of the two registries
    listening,  \* TCP tunnels whose public listener is open
    pool,       \* the port allocator
    ids,        \* tunnels created so far
    up          \* the server process runs

handlerVars == <<conn, reader, authed, timer, cleaner, stage, todo, cur,
                 count, port, act, late>>
sharedVars == <<held, registry, listening, pool, ids, up>>
vars == <<handlerVars, sharedVars>>

Init ==
    /\ conn = [h \in Handler |-> "none"]
    /\ reader = [h \in Handler |-> "none"]
    /\ authed = [h \in Handler |-> FALSE]
    /\ timer = [h \in Handler |-> "off"]
    /\ cleaner = [h \in Handler |-> "none"]
    /\ stage = [h \in Handler |-> "last"]
    /\ todo = [h \in Handler |-> {}]
    /\ cur = [h \in Handler |-> NoTunnel]
    /\ count = [h \in Handler |-> 0]
    /\ port = [h \in Handler |-> NoPort]
    /\ act = [h \in Handler |-> NoTunnel]
    /\ late = [h \in Handler |-> 0]
    /\ held = {} /\ registry = {} /\ listening = {}
    /\ pool = NewPortAllocator
    /\ ids = 0
    /\ up = TRUE

-----------------------------------------------------------------------------
(***************************************************************************)
(* Connection slots, the registry, and what a frame meets.                 *)
(***************************************************************************)
SlotsTaken == {h \in Handler : reader[h] \notin {"none", "out"}}

TunnelsOf(S, h) == {t \in S : t.owner = h}

Held(h, k) == {t \in held : t.owner = h /\ t.kind = k}

Taken(k, s) == \E t \in registry : t.kind = k /\ t.at = s

\* Mutant of Unregister: one registry where there are two.
UnregisterAnyKind(k, s) == registry' = {t \in registry : t.at # s}

\* Registry.Unregister deletes by name, whoever the entry belongs to.
Unregister(k, s) ==
    registry' = {t \in registry : ~(t.kind = k /\ t.at = s)}

\* ReadMessage can return a frame: always before cleanup began, and after it
\* the ones already buffered.
FrameArrives(h) ==
    /\ reader[h] = "read"
    /\ cleaner[h] = "none" \/ late[h] < MaxLate

CountLate(h) ==
    late' = IF cleaner[h] = "none" THEN late ELSE [late EXCEPT ![h] = @ + 1]

\* An insertion into a map that cleanup is iterating may or may not be met.
Inserted(h, t) ==
    /\ held' = held \cup {t}
    /\ count' = [count EXCEPT ![h] = @ + 1]
    /\ \/ UNCHANGED todo
       \/ /\ cleaner[h] = "timer" /\ stage[h] = t.kind
          /\ todo' = [todo EXCEPT ![h] = @ \cup {t}]

-----------------------------------------------------------------------------
(***************************************************************************)
(* The connection's life: /_tunnel takes a slot of connSem or answers 503, *)
(* then Run reads until ReadMessage fails (the peer is gone, the pong      *)
(* deadline passed, or cleanup closed the connection).                     *)
(***************************************************************************)
Connect(h) ==
    /\ conn[h] = "none"
    /\ Cardinality(SlotsTaken) < MaxConns
    /\ conn' = [conn EXCEPT ![h] = "open"]
    /\ reader' = [reader EXCEPT ![h] = "read"]
    /\ timer' = [timer EXCEPT ![h] = "armed"]
    /\ UNCHANGED <<authed, cleaner, stage, todo, cur, count, port, act, late, sharedVars>>

\* Run returns: authTimer.Stop(), then cleanup().
ReadError(h) ==
    /\ reader[h] = "read"
    /\ reader' = [reader EXCEPT ![h] = "leaving"]
    /\ timer' = [timer EXCEPT ![h] = IF @ = "armed" THEN "off" ELSE @]
    /\ UNCHANGED <<conn, authed, cleaner, stage, todo, cur, count, port, act, late, sharedVars>>

\* Mutant of TimerFires: the check is the wrong way round.
TimerFiresInverted(h) ==
    /\ timer[h] = "armed"
    /\ timer' = [timer EXCEPT ![h] = IF authed[h] THEN "expired" ELSE "off"]
    /\ UNCHANGED <<conn, reader, authed, cleaner, stage, todo, cur, count, port, act, late, sharedVars>>

TimerFires(h) ==
    /\ timer[h] = "armed"
    /\ timer' = [timer EXCEPT ![h] = IF authed[h] THEN "off" ELSE "expired"]
    /\ UNCHANGED <<conn, reader, authed, cleaner, stage, todo, cur, count, port, act, late, sharedVars>>

-----------------------------------------------------------------------------
(***************************************************************************)
(* Frames.                                                                 *)
(***************************************************************************)
AuthAccepted(h) ==
    /\ FrameArrives(h)
    /\ authed' = [authed EXCEPT ![h] = TRUE]
    /\ CountLate(h)
    /\ UNCHANGED <<conn, reader, timer, cleaner, stage, todo, cur, count, port, act, sharedVars>>

\* A malformed MsgAuth or a wrong token: the handler cleans up and reads on.
AuthRejected(h) ==
    /\ FrameArrives(h)
    /\ reader' = [reader EXCEPT ![h] = "closing"]
    /\ CountLate(h)
    /\ UNCHANGED <<conn, authed, timer, cleaner, stage, todo, cur, count, port, act, sharedVars>>

CloseRequested(h) ==
    /\ FrameArrives(h) /\ authed[h]
    /\ reader' = [reader EXCEPT ![h] = "closing"]
    /\ CountLate(h)
    /\ UNCHANGED <<conn, authed, timer, cleaner, stage, todo, cur, count, port, act, sharedVars>>

\* handleRegister and handleRegisterTLS: one critical section of h.mu.
RegisterNamed(h, k, s) ==
    /\ FrameArrives(h) /\ authed[h]
    /\ k \in Features
    /\ count[h] < MaxTunnels
    /\ ~Taken(k, s)
    /\ ids < MaxIds /\ ids' = ids + 1
    /\ LET t == [id |-> ids + 1, kind |-> k, owner |-> h, at |-> s]
       IN  /\ registry' = registry \cup {t}
           /\ Inserted(h, t)
    /\ CountLate(h)
    /\ UNCHANGED <<conn, reader, authed, timer, cleaner, stage, cur, port, act,
                   listening, pool, up>>

\* handleUnregister knows h.tunnels only.  The name is freed after h.mu.
UnregisterRequested(h, t) ==
    /\ FrameArrives(h) /\ authed[h]
    /\ t \in Held(h, "http")
    /\ held' = held \ {t}
    /\ count' = [count EXCEPT ![h] = @ - 1]
    /\ todo' = [todo EXCEPT ![h] = @ \ {t}]
    /\ act' = [act EXCEPT ![h] = t]
    /\ reader' = [reader EXCEPT ![h] = "unregister"]
    /\ CountLate(h)
    /\ UNCHANGED <<conn, authed, timer, cleaner, stage, cur, port,
                   registry, listening, pool, ids, up>>

\* Mutant of UnregisterName: the entry leaves the map, the name stays.
UnregisterNameForgotten(h) ==
    /\ reader[h] = "unregister"
    /\ act' = [act EXCEPT ![h] = NoTunnel]
    /\ reader' = [reader EXCEPT ![h] = "read"]
    /\ UNCHANGED <<conn, authed, timer, cleaner, stage, todo, cur, count, port, late,
                   held, registry, listening, pool, ids, up>>

UnregisterName(h) ==
    /\ reader[h] = "unregister"
    /\ Unregister("http", act[h].at)
    /\ act' = [act EXCEPT ![h] = NoTunnel]
    /\ reader' = [reader EXCEPT ![h] = "read"]
    /\ UNCHANGED <<conn, authed, timer, cleaner, stage, todo, cur, count, port, late,
                   held, listening, pool, ids, up>>

-----------------------------------------------------------------------------
(***************************************************************************)
(* handleRegisterTCP: the limit is checked and a port allocated; then the  *)
(* public listener opens, or does not and the port goes back.  Only the    *)
(* reader changes tunnelCount, so the check still holds at the insertion.  *)
(***************************************************************************)
\* Mutant of RegisterTCP: the limit is not checked for TCP tunnels.
RegisterTCPUnlimited(h, preferred) ==
    /\ FrameArrives(h) /\ authed[h]
    /\ "tcp" \in Features
    /\ AllocatedPort(pool, preferred) # NoPort
    /\ pool' = Allocate(pool, preferred)
    /\ port' = [port EXCEPT ![h] = AllocatedPort(pool, preferred)]
    /\ reader' = [reader EXCEPT ![h] = "listen"]
    /\ CountLate(h)
    /\ UNCHANGED <<conn, authed, timer, cleaner, stage, todo, cur, count, act,
                   held, registry, listening, ids, up>>

RegisterTCP(h, preferred) ==
    /\ FrameArrives(h) /\ authed[h]
    /\ "tcp" \in Features
    /\ count[h] < MaxTunnels
    /\ AllocatedPort(pool, preferred) # NoPort
    /\ pool' = Allocate(pool, preferred)
    /\ port' = [port EXCEPT ![h] = AllocatedPort(pool, preferred)]
    /\ reader' = [reader EXCEPT ![h] = "listen"]
    /\ CountLate(h)
    /\ UNCHANGED <<conn, authed, timer, cleaner, stage, todo, cur, count, act,
                   held, registry, listening, ids, up>>

\* Binding a port twice fails; so it may if another program has the port.
ListenSucceeds(h) ==
    /\ reader[h] = "listen"
    /\ \A t \in listening : t.at # port[h]
    /\ ids < MaxIds /\ ids' = ids + 1
    /\ LET t == [id |-> ids + 1, kind |-> "tcp", owner |-> h, at |-> port[h]]
       IN  /\ listening' = listening \cup {t}
           /\ Inserted(h, t)
           /\ act' = [act EXCEPT ![h] = IF HostTooLong THEN t ELSE NoTunnel]
    /\ reader' = [reader EXCEPT ![h] = IF HostTooLong THEN "undo" ELSE "read"]
    /\ port' = [port EXCEPT ![h] = NoPort]
    /\ late' = IF cleaner[h] # "none" /\ late[h] = 0
               THEN [late EXCEPT ![h] = 1] ELSE late
    /\ UNCHANGED <<conn, authed, timer, cleaner, stage, cur, registry, pool, up>>

\* Mutant of ListenFails: the error path keeps the port.
ListenFailsKeepsPort(h) ==
    /\ reader[h] = "listen"
    /\ port' = [port EXCEPT ![h] = NoPort]
    /\ reader' = [reader EXCEPT ![h] = "read"]
    /\ UNCHANGED <<conn, authed, timer, cleaner, stage, todo, cur, count, act, late,
                   held, registry, listening, pool, ids, up>>

ListenFails(h) ==
    /\ reader[h] = "listen"
    /\ pool' = Release(pool, port[h])
    /\ port' = [port EXCEPT ![h] = NoPort]
    /\ reader' = [reader EXCEPT ![h] = "read"]
    /\ UNCHANGED <<conn, authed, timer, cleaner, stage, todo, cur, count, act, late,
                   held, registry, listening, ids, up>>

\* closeTCPTunnel: the listener is closed before its port is released.
CloseListener(t) ==
    /\ t \in listening
    /\ listening' = listening \ {t}
    /\ UNCHANGED pool

\* Mutant of ReleasePort: the port goes back while its listener is open.
ReleasePortEarly(t) ==
    /\ pool' = Release(pool, t.at)
    /\ UNCHANGED listening

ReleasePort(t) ==
    /\ t \notin listening
    /\ pool' = Release(pool, t.at)
    /\ UNCHANGED listening

\* The reply could not be encoded: closeTCPTunnel, but the entry stays.
UndoClose(h) ==
    /\ reader[h] = "undo"
    /\ CloseListener(act[h])
    /\ UNCHANGED <<handlerVars, held, registry, ids, up>>

\* Mutant of UndoRelease: the listener is closed and the port kept.
UndoReleaseForgotten(h) ==
    /\ reader[h] = "undo"
    /\ act[h] \notin listening
    /\ act' = [act EXCEPT ![h] = NoTunnel]
    /\ reader' = [reader EXCEPT ![h] = "read"]
    /\ UNCHANGED <<conn, authed, timer, cleaner, stage, todo, cur, count, port, late,
                   sharedVars>>

UndoRelease(h) ==
    /\ reader[h] = "undo"
    /\ ReleasePort(act[h])
    /\ act' = [act EXCEPT ![h] = NoTunnel]
    /\ reader' = [reader EXCEPT ![h] = "read"]
    /\ UNCHANGED <<conn, authed, timer, cleaner, stage, todo, cur, count, port, late,
                   held, registry, ids, up>>

-----------------------------------------------------------------------------
(***************************************************************************)
(* cleanup().  A caller that finds the Once taken waits until it is done.  *)
(* The three maps are iterated without h.mu and keep their entries.        *)
(***************************************************************************)
CleanupStarts(h, who) ==
    /\ cleaner[h] = "none"
    /\ \/ who = "reader" /\ reader[h] \in {"closing", "leaving"}
       \/ who = "timer" /\ timer[h] = "expired"
    /\ cleaner' = [cleaner EXCEPT ![h] = who]
    /\ stage' = [stage EXCEPT ![h] = "http"]
    /\ todo' = [todo EXCEPT ![h] = Held(h, "http")]
    /\ UNCHANGED <<conn, reader, authed, timer, cur, count, port, act, late, sharedVars>>

CleanupPicks(h, t) ==
    /\ cur[h] = NoTunnel
    /\ t \in todo[h]
    /\ cur' = [cur EXCEPT ![h] = t]
    /\ todo' = [todo EXCEPT ![h] = @ \ {t}]
    /\ UNCHANGED <<conn, reader, authed, timer, cleaner, stage, count, port, act, late, sharedVars>>

CleanupUnregisters(h) ==
    /\ cur[h] # NoTunnel /\ cur[h].kind \in Named
    /\ Unregister(cur[h].kind, cur[h].at)
    /\ cur' = [cur EXCEPT ![h] = NoTunnel]
    /\ UNCHANGED <<conn, reader, authed, timer, cleaner, stage, todo, count, port, act, late,
                   held, listening, pool, ids, up>>

CleanupCloses(h) ==
    /\ cur[h] # NoTunnel /\ cur[h].kind = "tcp"
    /\ CloseListener(cur[h])
    /\ UNCHANGED <<handlerVars, held, registry, ids, up>>

CleanupReleases(h) ==
    /\ cur[h] # NoTunnel /\ cur[h].kind = "tcp"
    /\ ReleasePort(cur[h])
    /\ cur' = [cur EXCEPT ![h] = NoTunnel]
    /\ UNCHANGED <<conn, reader, authed, timer, cleaner, stage, todo, count, port, act, late,
                   held, registry, ids, up>>

\* Mutant of StageAfter: cleanup forgets h.tlsTunnels.
StageAfterNoTLS(s) == IF s = "http" THEN "tcp" ELSE "last"

StageAfter(s) == IF s = "http" THEN "tcp" ELSE IF s = "tcp" THEN "tls" ELSE "last"

CleanupNextMap(h) ==
    /\ stage[h] # "last"
    /\ cur[h] = NoTunnel /\ todo[h] = {}
    /\ stage' = [stage EXCEPT ![h] = StageAfter(@)]
    /\ todo' = [todo EXCEPT ![h] = Held(h, StageAfter(stage[h]))]
    /\ UNCHANGED <<conn, reader, authed, timer, cleaner, cur, count, port, act, late, sharedVars>>

\* Mutant of CleanupEnds: the connection stays open.
CleanupEndsOpen(h) ==
    /\ cleaner[h] \in {"reader", "timer"}
    /\ stage[h] = "last"
    /\ cleaner' = [cleaner EXCEPT ![h] = "done"]
    /\ UNCHANGED <<conn, reader, authed, timer, stage, todo, cur, count, port, act, late, sharedVars>>

\* Pending requests are dropped, h.done and the connection closed.
CleanupEnds(h) ==
    /\ cleaner[h] \in {"reader", "timer"}
    /\ stage[h] = "last"
    /\ conn' = [conn EXCEPT ![h] = "closed"]
    /\ cleaner' = [cleaner EXCEPT ![h] = "done"]
    /\ UNCHANGED <<reader, authed, timer, stage, todo, cur, count, port, act, late, sharedVars>>

\* cleanup returned: the reader reads on after a frame, or Run ends and the
\* slot of connSem is given back.
ReaderCleaned(h) ==
    /\ cleaner[h] = "done" /\ reader[h] \in {"closing", "leaving"}
    /\ reader' = [reader EXCEPT ![h] = IF @ = "closing" THEN "read" ELSE "out"]
    /\ UNCHANGED <<conn, authed, timer, cleaner, stage, todo, cur, count, port, act, late, sharedVars>>

TimerCleaned(h) ==
    /\ cleaner[h] = "done" /\ timer[h] = "expired"
    /\ timer' = [timer EXCEPT ![h] = "off"]
    /\ UNCHANGED <<conn, reader, authed, cleaner, stage, todo, cur, count, port, act, late, sharedVars>>

(***************************************************************************)
(* The Go runtime stops the program when it notices a map written while    *)
(* another goroutine iterates it: here, by the reader under the timer's    *)
(* cleanup.                                                                *)
(***************************************************************************)
MapRaceIsFatal(h) ==
    /\ FrameArrives(h) /\ authed[h]
    /\ cleaner[h] = "timer" /\ stage[h] \in Features
    /\ count[h] < MaxTunnels \/ (stage[h] = "http" /\ Held(h, "http") # {})
    /\ up' = FALSE
    /\ UNCHANGED <<handlerVars, held, registry, listening, pool, ids>>

-----------------------------------------------------------------------------
Frame(h) ==
    \/ AuthAccepted(h) \/ AuthRejected(h) \/ CloseRequested(h)
    \/ \E k \in Named, s \in Sub : RegisterNamed(h, k, s)
    \/ \E t \in held : UnregisterRequested(h, t)
    \/ \E p \in Ports \cup {NoPort} : RegisterTCP(h, p)
    \/ MapRaceIsFatal(h)

ReaderStep(h) ==
    \/ UnregisterName(h)
    \/ ListenSucceeds(h) \/ ListenFails(h) \/ UndoClose(h) \/ UndoRelease(h)
    \/ CleanupStarts(h, "reader") \/ ReaderCleaned(h)

TimerStep(h) == TimerFires(h) \/ CleanupStarts(h, "timer") \/ TimerCleaned(h)

CleanupStep(h) ==
    \/ \E t \in todo[h] : CleanupPicks(h, t)
    \/ CleanupUnregisters(h) \/ CleanupCloses(h) \/ CleanupReleases(h)
    \/ CleanupNextMap(h) \/ CleanupEnds(h)

Next ==
    /\ up
    /\ \E h \in Handler :
        \/ Connect(h) \/ ReadError(h) \/ Frame(h)
        \/ ReaderStep(h) \/ TimerStep(h) \/ CleanupStep(h)

Spec == Init /\ [][Next]_vars

(***************************************************************************)
(* Goroutines that can run do run, the timer fires, and a closed           *)
(* connection's reader fails once its buffer is empty.  Nothing obliges a  *)
(* client to send a frame or to go away.                                   *)
(***************************************************************************)
Fairness ==
    \A h \in Handler :
        /\ WF_vars(up /\ ReaderStep(h))
        /\ WF_vars(up /\ TimerStep(h))
        /\ WF_vars(up /\ CleanupStep(h))
        /\ WF_vars(up /\ conn[h] = "closed" /\ ReadError(h))

FairSpec == Spec /\ Fairness

-----------------------------------------------------------------------------
TypeOK ==
    /\ conn \in [Handler -> {"none", "open", "closed"}]
    /\ reader \in [Handler -> {"none", "read", "listen", "undo", "unregister",
                               "closing", "leaving", "out"}]
    /\ authed \in [Handler -> BOOLEAN]
    /\ timer \in [Handler -> {"off", "armed", "expired"}]
    /\ cleaner \in [Handler -> {"none", "reader", "timer", "done"}]
    /\ stage \in [Handler -> Kind \cup {"last"}]
    /\ todo \in [Handler -> SUBSET Tunnel]
    /\ cur \in [Handler -> Tunnel \cup {NoTunnel}]
    /\ count \in [Handler -> Int]
    /\ port \in [Handler -> Ports \cup {NoPort}]
    /\ \A h \in Handler : reader[h] = "listen" => port[h] \in Ports
    /\ act \in [Handler -> Tunnel \cup {NoTunnel}]
    /\ late \in [Handler -> Nat]
    /\ held \subseteq Tunnel /\ registry \subseteq Tunnel /\ listening \subseteq Tunnel
    /\ pool \in Pool
    /\ ids \in Nat
    /\ up \in BOOLEAN

(***************************************************************************)
(* No route without an owner: every entry of a registry is in the map of   *)
(* the handler it names, or that handler is about to unregister it.  An    *)
(* entry that were in no map could never be removed again.                 *)
(***************************************************************************)
RegistryBacked ==
    \A t \in registry : t \in held \/ act[t.owner] = t

(***************************************************************************)
(* tunnelCount is the number of entries of the three maps, and never       *)
(* exceeds the limit, although handleRegisterTCP lets go of the mutex      *)
(* between the check and the increment.                                    *)
(***************************************************************************)
CountExact ==
    \A h \in Handler :
        /\ count[h] = Cardinality(TunnelsOf(held, h))
        /\ count[h] <= MaxTunnels

(***************************************************************************)
(* No port is given out twice: the port of an open listener is in use in   *)
(* the allocator and has no other listener, and a port that was allocated  *)
(* and not yet bound is bound by nobody, so Listen can fail only because   *)
(* of another program.  (A reply that cannot be encoded breaks this.)      *)
(***************************************************************************)
PortsExclusive ==
    ~HostTooLong =>
        /\ \A t \in listening : t.at \in pool.used
        /\ \A t, u \in listening : t.at = u.at => t = u
        /\ \A h \in Handler : port[h] # NoPort =>
              /\ port[h] \in pool.used
              /\ \A t \in listening : t.at # port[h]
              /\ \A g \in Handler \ {h} : port[g] # port[h]

\* What handler h still owns of the shared resources.
Owned(h) == TunnelsOf(registry \cup listening, h)

(***************************************************************************)
(* A connection whose cleanup has run owns no name and no listener,        *)
(* provided its reader acted on no frame after the cleanup began: no entry *)
(* is missed, in whichever goroutine cleanup runs and whatever the other   *)
(* handlers do meanwhile.  (The reader may still be half-way through an    *)
(* Unregister it had begun on.)                                            *)
(***************************************************************************)
CleanupReleasesAll ==
    \A h \in Handler :
        /\ cleaner[h] = "done"
        /\ late[h] = 0
        /\ reader[h] # "unregister"
        => Owned(h) = {}

(***************************************************************************)
(* No port is lost: one that the allocator has marked used is being        *)
(* registered, is the port of an open listener, or is about to be released *)
(* by whoever closed that listener.                                        *)
(***************************************************************************)
UsedPortsHaveHolders ==
    \A p \in pool.used :
        \/ \E h \in Handler : port[h] = p
        \/ \E t \in listening : t.at = p
        \/ \E h \in Handler : \E t \in {cur[h], act[h]} \ {NoTunnel} :
              t.kind = "tcp" /\ t.at = p

(***************************************************************************)
(* A live connection's tunnels stay reachable: while its cleanup has not   *)
(* begun, every HTTP and TLS tunnel of a handler is the one its name leads *)
(* to, as long as no handler acts on frames after its own cleanup.         *)
(***************************************************************************)
RoutesKept ==
    (\A h \in Handler : late[h] = 0) =>
        \A t \in held : t.kind \in Named /\ cleaner[t.owner] = "none" => t \in registry

(***************************************************************************)
(* A connection that does not authenticate gives its slot of connSem back: *)
(* the timer's cleanup ends the reader.                                    *)
(***************************************************************************)
IdleConnectionsDropped ==
    \A h \in Handler :
        reader[h] = "read" /\ ~authed[h] ~> authed[h] \/ reader[h] = "out" \/ ~up

(***************************************************************************)
(* Once cleanup has begun the connection's slot is freed: neither of its   *)
(* two callers waits for the other for ever.                               *)
(***************************************************************************)
CleanupFreesSlot ==
    \A h \in Handler : cleaner[h] # "none" ~> reader[h] = "out" \/ ~up

-----------------------------------------------------------------------------
(***************************************************************************)
(* The strengthenings that make the invariants inductive.                  *)
(*                                                                         *)
(* Where each goroutine is determines what it is working on, and everything*)
(* a handler works on is its own.                                          *)
(***************************************************************************)
Structure ==
    /\ \A h \in Handler :
        /\ conn[h] = "none" => reader[h] = "none"
        /\ port[h] # NoPort <=> reader[h] = "listen"
        /\ act[h] # NoTunnel <=> reader[h] \in {"undo", "unregister"}
        /\ reader[h] = "undo" => HostTooLong /\ act[h].kind = "tcp"
        /\ reader[h] = "unregister" => act[h].kind = "http"
        /\ act[h] # NoTunnel => act[h].owner = h
        /\ cur[h] # NoTunnel =>
              cur[h].owner = h /\ cur[h].kind = stage[h] /\ cur[h].id <= ids /\ cur[h] \notin todo[h]
        /\ \A t \in todo[h] : t.owner = h /\ t.kind = stage[h] /\ t \in held
        /\ stage[h] # "last" => cleaner[h] \in {"reader", "timer"}
    /\ \A t \in held : t.id <= ids
    /\ \A t \in listening : t \in held /\ t.kind = "tcp"
    /\ \A t \in registry : t.kind \in Named

\* The tunnels that have a port: the listener is open, or closed just now.
PortHolders ==
    listening \cup {t \in {cur[h] : h \in Handler} \ {NoTunnel} : t.kind = "tcp"}

\* Every holder has a port of its own, and cleanup closes no tunnel twice.
PortsHeldOnce ==
    ~HostTooLong =>
        /\ \A t, u \in PortHolders : t.at = u.at => t = u
        /\ \A t \in PortHolders : t.at \in pool.used /\ \A h \in Handler : port[h] # t.at
        /\ \A h \in Handler : port[h] # NoPort =>
              port[h] \in pool.used /\ \A g \in Handler \ {h} : port[g] # port[h]
        /\ \A h \in Handler : stage[h] = "tcp" => todo[h] \subseteq listening
        /\ \A t \in held :
              t.kind = "tcp" /\ (cleaner[t.owner] = "none" \/ stage[t.owner] = "http")
                  => t \in listening

CountInv ==
    /\ CountExact
    /\ IsFiniteSet(held)
    /\ \A h \in Handler : reader[h] = "listen" => count[h] < MaxTunnels

\* Cleanup has been through t's map and is not working on t.
StageOf(k) == IF k = "http" THEN 1 ELSE IF k = "tcp" THEN 2 ELSE IF k = "tls" THEN 3 ELSE 4

Passed(t) ==
    /\ cleaner[t.owner] # "none"
    /\ StageOf(t.kind) <= StageOf(stage[t.owner])
    /\ t \notin todo[t.owner] /\ cur[t.owner] # t

NamesUnique ==
    \A t, u \in registry : t.kind = u.kind /\ t.at = u.at => t = u

\* What cleanup has passed is released; what it has not, is not, unless some
\* handler acts on late frames.
PassedReleased ==
    \A t \in held : late[t.owner] = 0 /\ Passed(t) => t \notin registry \cup listening

NotPassedRouted ==
    (\A h \in Handler : late[h] = 0) =>
        /\ \A t \in held : t.kind \in Named /\ ~Passed(t) => t \in registry
        /\ \A h \in Handler : reader[h] = "unregister" => act[h] \in registry \ held /\ act[h].id <= ids
        /\ \A h \in Handler : cur[h] # NoTunnel => cur[h] \in held

-----------------------------------------------------------------------------
(***************************************************************************)
(* The public ports are let as PortLease says, late frames or not: the     *)
(* tenant of a port is the handler that allocated it, from Allocate to     *)
(* Release.  (When HostTooLong, cleanup releases a port a second time.)    *)
(***************************************************************************)
TenantOf(p) ==
    IF \E h \in Handler : port[h] = p
    THEN CHOOSE h \in Handler : port[h] = p
    ELSE IF \E t \in PortHolders : t.at = p
         THEN (CHOOSE t \in PortHolders : t.at = p).owner
         ELSE NoTunnel

Leases == INSTANCE PortLease WITH
    Tenant <- Handler, Port <- Ports, Free <- NoTunnel,
    lease <- [p \in Ports |-> TenantOf(p)],
    bound <- {t.at : t \in listening}

ImplementsLeases == Leases!LeaseSpec
=============================================================================
