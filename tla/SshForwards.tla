---------------------------- MODULE SshForwards ----------------------------
(***************************************************************************)
(* The agentless SSH front end, internal/sshtun/server.go: remote forwards *)
(* (tcpip-forward, cancel-tcpip-forward) of several SSH connections over   *)
(* one port allocator.                                                     *)
(*                                                                         *)
(* One goroutine per connection, handleGlobalRequests, takes the requests  *)
(* one by one and owns the connection's `forwards' map.  When the          *)
(* connection dies the requests queued before are still taken; then the    *)
(* deferred function closes every forward.  A request names a 32-bit port, *)
(* which the code truncates to 16 bits.  Replies and the splicing of       *)
(* connections are left out.                                               *)
(***************************************************************************)
EXTENDS PortAllocator

CONSTANTS
    Conn,        \* SSH connections; each connects at most once
    Requested,   \* the 32-bit ports clients ask for
    MaxReqs,     \* bound: requests taken per connection
    NoConn

ASSUME SshAssumption ==
    /\ Requested \subseteq Nat
    /\ MaxReqs \in Nat
    /\ NoConn \notin Conn

VARIABLES
    pc,         \* what handleGlobalRequests of c is doing
    alive,      \* the SSH connection is up
    sshPort,    \* the port c is working on, or NoPort
    forwards,   \* the keys of c's map
    listener,   \* who has the public listener of a port open, or NoConn
    alloc,      \* s.alloc
    taken       \* requests taken, for the bound

sshVars == <<pc, alive, sshPort, forwards, listener, alloc, taken>>

SshInit ==
    /\ pc = [c \in Conn |-> "new"]
    /\ alive = [c \in Conn |-> FALSE]
    /\ sshPort = [c \in Conn |-> NoPort]
    /\ forwards = [c \in Conn |-> {}]
    /\ listener = [p \in Ports |-> NoConn]
    /\ alloc = NewPortAllocator
    /\ taken = [c \in Conn |-> 0]

\* uint16(b.Port)
Truncated(n) == n % 65536

-----------------------------------------------------------------------------
\* handleConn: the handshake succeeded.
Accept(c) ==
    /\ pc[c] = "new"
    /\ pc' = [pc EXCEPT ![c] = "serve"]
    /\ alive' = [alive EXCEPT ![c] = TRUE]
    /\ UNCHANGED <<sshPort, forwards, listener, alloc, taken>>

\* The client goes away; requests already queued remain to be taken.
Hangup(c) ==
    /\ alive[c]
    /\ alive' = [alive EXCEPT ![c] = FALSE]
    /\ UNCHANGED <<pc, sshPort, forwards, listener, alloc, taken>>

Takes(c) ==
    /\ pc[c] = "serve"
    /\ taken[c] < MaxReqs
    /\ taken' = [taken EXCEPT ![c] = @ + 1]

\* startForward, up to the call of Listen.  A refusal changes nothing.
StartForward(c, n) ==
    /\ Takes(c)
    /\ AllocatedPort(alloc, Truncated(n)) # NoPort
    /\ alloc' = Allocate(alloc, Truncated(n))
    /\ sshPort' = [sshPort EXCEPT ![c] = AllocatedPort(alloc, Truncated(n))]
    /\ pc' = [pc EXCEPT ![c] = "listen"]
    /\ UNCHANGED <<alive, forwards, listener>>

ForwardListens(c) ==
    /\ pc[c] = "listen"
    /\ listener[sshPort[c]] = NoConn
    /\ listener' = [listener EXCEPT ![sshPort[c]] = c]
    /\ forwards' = [forwards EXCEPT ![c] = @ \cup {sshPort[c]}]
    /\ sshPort' = [sshPort EXCEPT ![c] = NoPort]
    /\ pc' = [pc EXCEPT ![c] = "serve"]
    /\ UNCHANGED <<alive, alloc, taken>>

\* Mutant of ForwardListenFails: the error path keeps the port.
ForwardListenFailsKeepsPort(c) ==
    /\ pc[c] = "listen"
    /\ sshPort' = [sshPort EXCEPT ![c] = NoPort]
    /\ pc' = [pc EXCEPT ![c] = "serve"]
    /\ UNCHANGED <<alive, forwards, listener, alloc, taken>>

ForwardListenFails(c) ==
    /\ pc[c] = "listen"
    /\ alloc' = Release(alloc, sshPort[c])
    /\ sshPort' = [sshPort EXCEPT ![c] = NoPort]
    /\ pc' = [pc EXCEPT ![c] = "serve"]
    /\ UNCHANGED <<alive, forwards, listener, taken>>

\* Mutant of CancelForward: the listener is looked up by port alone.
CancelAnyForward(c, n) ==
    /\ Takes(c)
    /\ Truncated(n) \in UNION {forwards[d] : d \in Conn}
    /\ listener' = [listener EXCEPT ![Truncated(n)] = NoConn]
    /\ sshPort' = [sshPort EXCEPT ![c] = Truncated(n)]
    /\ pc' = [pc EXCEPT ![c] = "release"]
    /\ UNCHANGED <<alive, forwards, alloc>>

\* cancelForward: only a port of this connection's map is closed.
CancelForward(c, n) ==
    /\ Takes(c)
    /\ Truncated(n) \in forwards[c]
    /\ listener' = [listener EXCEPT ![Truncated(n)] = NoConn]
    /\ sshPort' = [sshPort EXCEPT ![c] = Truncated(n)]
    /\ pc' = [pc EXCEPT ![c] = "release"]
    /\ UNCHANGED <<alive, forwards, alloc>>

\* Mutant of ReleaseForward: the entry of a cancelled forward stays.
ReleaseForwardKeepsEntry(c) ==
    /\ pc[c] = "release"
    /\ alloc' = Release(alloc, sshPort[c])
    /\ sshPort' = [sshPort EXCEPT ![c] = NoPort]
    /\ pc' = [pc EXCEPT ![c] = "serve"]
    /\ UNCHANGED <<alive, forwards, listener, taken>>

ReleaseForward(c) ==
    /\ pc[c] = "release"
    /\ alloc' = Release(alloc, sshPort[c])
    /\ forwards' = [forwards EXCEPT ![c] = @ \ {sshPort[c]}]
    /\ sshPort' = [sshPort EXCEPT ![c] = NoPort]
    /\ pc' = [pc EXCEPT ![c] = "serve"]
    /\ UNCHANGED <<alive, listener, taken>>

-----------------------------------------------------------------------------
\* The request channel is closed and drained: the deferred function runs.
ServeEnds(c) ==
    /\ pc[c] = "serve"
    /\ ~alive[c]
    /\ pc' = [pc EXCEPT ![c] = "drain"]
    /\ UNCHANGED <<alive, sshPort, forwards, listener, alloc, taken>>

\* Mutant of DrainCloses: the port is given back, its listener left open.
DrainLeavesOpen(c, p) ==
    /\ pc[c] = "drain"
    /\ sshPort[c] = NoPort
    /\ p \in forwards[c]
    /\ sshPort' = [sshPort EXCEPT ![c] = p]
    /\ UNCHANGED <<pc, alive, forwards, listener, alloc, taken>>

DrainCloses(c, p) ==
    /\ pc[c] = "drain"
    /\ sshPort[c] = NoPort
    /\ p \in forwards[c]
    /\ listener' = [listener EXCEPT ![p] = NoConn]
    /\ sshPort' = [sshPort EXCEPT ![c] = p]
    /\ UNCHANGED <<pc, alive, forwards, alloc, taken>>

\* The map is not changed by the code; an entry is visited once.
DrainReleases(c) ==
    /\ pc[c] = "drain"
    /\ sshPort[c] # NoPort
    /\ alloc' = Release(alloc, sshPort[c])
    /\ forwards' = [forwards EXCEPT ![c] = @ \ {sshPort[c]}]
    /\ sshPort' = [sshPort EXCEPT ![c] = NoPort]
    /\ UNCHANGED <<pc, alive, listener, taken>>

\* Mutant of DrainEnds: one forward is enough.
DrainEndsEarly(c) ==
    /\ pc[c] = "drain"
    /\ sshPort[c] = NoPort
    /\ Cardinality(forwards[c]) <= 1
    /\ pc' = [pc EXCEPT ![c] = "gone"]
    /\ UNCHANGED <<alive, sshPort, forwards, listener, alloc, taken>>

DrainEnds(c) ==
    /\ pc[c] = "drain"
    /\ sshPort[c] = NoPort
    /\ forwards[c] = {}
    /\ pc' = [pc EXCEPT ![c] = "gone"]
    /\ UNCHANGED <<alive, sshPort, forwards, listener, alloc, taken>>

-----------------------------------------------------------------------------
Serve(c) ==
    \/ ForwardListens(c) \/ ForwardListenFails(c)
    \/ ReleaseForward(c) \/ ServeEnds(c)
    \/ \E p \in forwards[c] : DrainCloses(c, p)
    \/ DrainReleases(c) \/ DrainEnds(c)

SshNext ==
    \E c \in Conn :
        \/ Accept(c) \/ Hangup(c) \/ Serve(c)
        \/ \E n \in Requested : StartForward(c, n) \/ CancelForward(c, n)

SshSpec == SshInit /\ [][SshNext]_sshVars

\* The goroutine of a connection runs whenever it can.
SshFairSpec == SshSpec /\ \A c \in Conn : WF_sshVars(Serve(c))

-----------------------------------------------------------------------------
SshTypeOK ==
    /\ pc \in [Conn -> {"new", "serve", "listen", "release", "drain", "gone"}]
    /\ alive \in [Conn -> BOOLEAN]
    /\ sshPort \in [Conn -> Ports \cup {NoPort}]
    /\ forwards \in [Conn -> SUBSET Ports]
    /\ listener \in [Ports -> Conn \cup {NoConn}]
    /\ alloc \in Pool
    /\ taken \in [Conn -> Nat]

(***************************************************************************)
(* The map of a connection lists exactly the public listeners it has open  *)
(* (but the one it is closing): none is forgotten and none is another's.   *)
(***************************************************************************)
ForwardsMatchListeners ==
    \A c \in Conn, p \in Ports :
        listener[p] = c <=> p \in forwards[c] /\ ~(pc[c] \in {"release", "drain"} /\ sshPort[c] = p)

(***************************************************************************)
(* A connection that is gone has nothing: no public listener is open for   *)
(* it, and every port in use is that of a forward, or of a request under   *)
(* way, of a connection that is still there.                               *)
(***************************************************************************)
GoneHasNothing ==
    /\ \A c \in Conn, p \in Ports : pc[c] = "gone" => listener[p] # c
    /\ \A p \in alloc.used :
          \E c \in Conn : pc[c] # "gone" /\ (p \in forwards[c] \/ sshPort[c] = p)

(***************************************************************************)
(* A connection that hung up is eventually rid of all its forwards.        *)
(***************************************************************************)
HangupFreesPorts ==
    \A c \in Conn :
        pc[c] # "new" /\ ~alive[c] ~> pc[c] = "gone" /\ \A p \in Ports : listener[p] # c

-----------------------------------------------------------------------------
\* Connection c has port p: it is in the map, or being worked on.
SshHas(c, p) == p \in forwards[c] \/ sshPort[c] = p

(***************************************************************************)
(* The strengthening that makes the invariants inductive: where the        *)
(* goroutine is says what it works on, and the ports in use are those that *)
(* some connection has, each of them one connection.                       *)
(***************************************************************************)
SshStructure ==
    /\ \A c \in Conn :
        /\ pc[c] \in {"listen", "release"} => sshPort[c] # NoPort
        /\ sshPort[c] # NoPort => pc[c] \in {"listen", "release", "drain"}
        /\ sshPort[c] # NoPort => (sshPort[c] \in forwards[c] <=> pc[c] # "listen")
        /\ pc[c] \in {"new", "gone"} => forwards[c] = {}
    /\ \A p \in Ports : p \in alloc.used <=> \E c \in Conn : SshHas(c, p)
    /\ \A c, d \in Conn, p \in Ports : SshHas(c, p) /\ SshHas(d, p) => c = d

-----------------------------------------------------------------------------
(***************************************************************************)
(* Public ports are let as PortLease says: the tenant of a port is the     *)
(* connection that allocated it, until it releases it.                     *)
(***************************************************************************)
SshTenantOf(p) ==
    IF \E c \in Conn : SshHas(c, p)
    THEN CHOOSE c \in Conn : SshHas(c, p)
    ELSE NoConn

SshLeases == INSTANCE PortLease WITH
    Tenant <- Conn, Port <- Ports, Free <- NoConn,
    lease <- [p \in Ports |-> SshTenantOf(p)],
    bound <- {p \in Ports : listener[p] # NoConn}

SshImplementsLeases == SshLeases!LeaseSpec
=============================================================================
