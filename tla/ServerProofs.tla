---------------------------- MODULE ServerProofs ----------------------------
(***************************************************************************)
(* Safety of the server, for every value of the constants: the allocator   *)
(* of public ports, for every range of ports; the tunnel connections, for  *)
(* every number of clients, names, ports, tunnels per client and late      *)
(* frames; and the SSH front end, for every number of connections and      *)
(* requests (its names have Ssh or Forward in them).                       *)
(***************************************************************************)
EXTENDS ServerTunnels, SshForwards, PortScan, FiniteSetTheorems, WellFoundedInduction, TLAPS

-----------------------------------------------------------------------------
(***************************************************************************)
(* The allocator of public ports.                                          *)
(***************************************************************************)

(***************************************************************************)
(* What the proofs use of the range: two positive integers in order.       *)
(***************************************************************************)
LEMMA RangeInOrder ==
    /\ PortStart \in Int /\ PortEnd \in Int
    /\ 1 <= PortStart /\ PortStart <= PortEnd
<1>1. MaxPort \in Int
    BY DEF MaxPort
<1>2. QED
    BY <1>1, PortRangeAssumption

(***************************************************************************)
(* No port of the range is the value that stands for none.                 *)
(***************************************************************************)
LEMMA PortsPositive == NoPort \notin Ports
BY RangeInOrder DEF Ports, NoPort

(***************************************************************************)
(* A port's distance from where the scan starts is a number of iterations: *)
(* never negative, and smaller than the length of the range.               *)
(***************************************************************************)
LEMMA ScanDistanceType ==
    ASSUME NEW from \in Ports, NEW p \in Ports
    PROVE  ScanDistance(from, p) \in 0..(PortEnd - PortStart)
BY RangeInOrder DEF Ports, ScanDistance

(***************************************************************************)
(* A scan of a range that has a free port finds one, and finds the one     *)
(* nearest to where it starts.                                             *)
(***************************************************************************)
LEMMA FirstFreeIsFree ==
    ASSUME NEW al \in Pool, FreePorts(al) # {}
    PROVE  /\ FirstFree(al) \in FreePorts(al)
           /\ \A q \in FreePorts(al) :
                 ScanDistance(al.next, FirstFree(al)) <= ScanDistance(al.next, q)
<1> DEFINE D == {ScanDistance(al.next, p) : p \in FreePorts(al)}
<1>1. \A p \in FreePorts(al) : p \in Ports /\ ScanDistance(al.next, p) \in Nat
    BY ScanDistanceType, RangeInOrder DEF Pool, FreePorts, Ports
<1>2. D \subseteq Nat /\ D # {}
    BY <1>1
<1> DEFINE R == {ss \in Nat \X Nat : ss[1] < ss[2]}
<1> HIDE DEF D
<1>3. R = OpToRel(<, Nat)
    BY Zenon DEF OpToRel
<1>4. IsWellFoundedOn(R, Nat)
    BY <1>3, NatLessThanWellFounded, Zenon
<1>5. PICK d \in D : \A e \in D : ~ (<<e, d>> \in R)
    BY <1>2, <1>4, WFMin
<1>6. \A e \in D : d <= e
    <2> TAKE e \in D
    <2>1. d \in Nat /\ e \in Nat
        BY <1>2
    <2>2. <<e, d>> \in Nat \X Nat /\ <<e, d>>[1] = e /\ <<e, d>>[2] = d
        BY <2>1
    <2>3. ~ (e < d)
        BY <1>5, <2>2
    <2>4. QED
        BY <2>1, <2>3
<1> USE DEF D
<1>7. PICK p \in FreePorts(al) : d = ScanDistance(al.next, p)
    OBVIOUS
<1>8. \A q \in FreePorts(al) : ScanDistance(al.next, p) <= ScanDistance(al.next, q)
    BY <1>6, <1>7
<1>9. QED
    BY <1>7, <1>8 DEF FirstFree

(***************************************************************************)
(* Allocate answers a port that was free before and is used after, and     *)
(* answers none only when the asked one is not free or none is; nobody     *)
(* else's port changes hands, and the pool stays well formed.              *)
(***************************************************************************)
THEOREM AllocateCorrect ==
    ASSUME NEW al \in Pool, NEW preferred \in Nat
    PROVE  LET p == AllocatedPort(al, preferred)
           IN  /\ Allocate(al, preferred) \in Pool
               /\ p = NoPort => Allocate(al, preferred) = al
               /\ p # NoPort => /\ p \in Ports \ al.used
                                /\ Allocate(al, preferred).used = al.used \cup {p}
               /\ p = NoPort <=> IF preferred = NoPort THEN al.used = Ports
                                 ELSE preferred \notin Ports \ al.used
<1> DEFINE p == AllocatedPort(al, preferred)
<1>1. NoPort \notin Ports
    BY PortsPositive
<1>2. al.used \in SUBSET Ports /\ al.next \in Ports
    BY DEF Pool
<1>3. p = NoPort \/ p \in FreePorts(al)
    BY FirstFreeIsFree DEF AllocatedPort
<1>4. p = NoPort <=> IF preferred = NoPort THEN al.used = Ports
                     ELSE preferred \notin Ports \ al.used
    <2>1. FreePorts(al) = {} <=> al.used = Ports
        BY <1>2 DEF FreePorts
    <2>2. QED
        BY <1>1, <2>1, FirstFreeIsFree DEF AllocatedPort, FreePorts
<1>5. \A q \in Ports : NextAfter(q) \in Ports
    BY RangeInOrder DEF Ports, NextAfter
<1>6. Allocate(al, preferred) \in Pool
    <2>1. CASE p = NoPort
        BY <2>1 DEF Allocate
    <2>2. CASE p # NoPort
        BY <1>2, <1>3, <1>5, <2>2 DEF Allocate, Pool, FreePorts
    <2>3. QED
        BY <2>1, <2>2
<1>7. QED
    BY <1>3, <1>4, <1>6 DEF Allocate, FreePorts

(***************************************************************************)
(* Release frees the port it is given and no other.                        *)
(***************************************************************************)
THEOREM ReleaseCorrect ==
    ASSUME NEW al \in Pool, NEW p
    PROVE  /\ Release(al, p) \in Pool
           /\ Release(al, p).used = al.used \ {p}
           /\ Release(al, p).next = al.next
BY DEF Release, Pool

-----------------------------------------------------------------------------
(***************************************************************************)
(* One iteration goes one port further; after the whole range it is back.  *)
(***************************************************************************)
LEMMA NextIsOneFurther ==
    ASSUME NEW from \in Ports, NEW p \in Ports
    PROVE  /\ NextAfter(p) \in Ports
           /\ IF ScanDistance(from, p) = Total - 1
              THEN NextAfter(p) = from
              ELSE ScanDistance(from, NextAfter(p)) = ScanDistance(from, p) + 1
BY RangeInOrder DEF Ports, NextAfter, ScanDistance, Total

\* No two ports are met in the same iteration.
LEMMA DistanceIsInjective ==
    ASSUME NEW from \in Ports, NEW p \in Ports, NEW q \in Ports,
           ScanDistance(from, p) = ScanDistance(from, q)
    PROVE  p = q
BY RangeInOrder DEF Ports, ScanDistance

\* A port is neither of the two values that stand for "no port yet".
LEMMA PortIsAnAnswer ==
    ASSUME NEW p \in Ports
    PROVE  p # NoPort /\ p # Scanning
<1>1. p \in Int /\ p >= 1
    BY RangeInOrder DEF Ports
<1>2. p # 0 /\ p # -1
    BY <1>1
<1>3. QED
    BY <1>2 DEF NoPort, Scanning

LEMMA ScanStarts == ScanInit => ScanInv /\ ScanMatchesAllocate
<1> SUFFICES ASSUME ScanInit PROVE ScanInv /\ ScanMatchesAllocate
    OBVIOUS
<1>1. Total \in Nat \ {0} /\ Scanning = -1
    BY RangeInOrder DEF Total, Scanning
<1>2. \A p \in Ports : /\ ScanDistance(scanFrom.next, p) >= 0
                       /\ ScanDistance(scanFrom.next, scanFrom.next) = 0
    BY ScanDistanceType, RangeInOrder DEF ScanInit, Pool, Ports, ScanDistance
<1>3. scanFrom.next \in Ports
    BY DEF ScanInit, Pool
<1>4. \A p \in Ports : ~(ScanDistance(scanFrom.next, p) < 0)
    BY <1>2, <1>3, ScanDistanceType, RangeInOrder
<1>5. QED
    BY <1>1, <1>2, <1>3, <1>4 DEF ScanInit, ScanInv, ScanMatchesAllocate

LEMMA ScanStepKeeps ==
    ScanInv /\ ScanMatchesAllocate /\ ScanStep => ScanInv' /\ ScanMatchesAllocate'
<1> SUFFICES ASSUME ScanInv, ScanStep PROVE ScanInv' /\ ScanMatchesAllocate'
    OBVIOUS
<1> DEFINE p == scan.next
           from == scanFrom.next
<1>1. /\ scanFrom \in Pool /\ scanFrom' = scanFrom /\ scan \in Pool
      /\ from \in Ports /\ p \in Ports /\ scanFrom.used \subseteq Ports
      /\ scan.used = scanFrom.used /\ ScanDistance(from, p) = scanned
      /\ scanned \in 0..Total /\ scanned < Total /\ scanned' = scanned + 1 /\ Total \in Nat
      /\ \A q \in Ports : ScanDistance(from, q) < scanned => q \in scanFrom.used
    <2>1. /\ scanFrom \in Pool /\ scanFrom' = scanFrom /\ scan \in Pool
          /\ scan.used = scanFrom.used /\ scanned \in 0..Total /\ scanned < Total /\ scanned' = scanned + 1
          /\ scanned < Total => ScanDistance(scanFrom.next, scan.next) = scanned
          /\ \A q \in Ports : ScanDistance(scanFrom.next, q) < scanned => q \in scanFrom.used
        BY DEF ScanInv, ScanStep
    <2>2. from \in Ports /\ p \in Ports /\ scanFrom.used \subseteq Ports
        BY <2>1 DEF Pool
    <2>3. Total \in Nat
        BY RangeInOrder DEF Total
    <2>4. QED
        BY <2>1, <2>2, <2>3
<1>2. NextAfter(p) \in Ports
    BY <1>1, NextIsOneFurther
<1>3. CASE p \in scan.used
    <2>1. scan' = [scan EXCEPT !.next = NextAfter(p)] /\ found' = Scanning
        BY <1>3 DEF ScanStep
    <2>2. scan' \in Pool /\ scan'.used = scanFrom.used /\ scan'.next = NextAfter(p)
        BY <1>1, <1>2, <2>1 DEF Pool
    <2>3. scanned' < Total => ScanDistance(from, NextAfter(p)) = scanned'
        BY <1>1, NextIsOneFurther
    <2>4. scanned' = Total => NextAfter(p) = from
        BY <1>1, NextIsOneFurther
    <2>5. ASSUME NEW q \in Ports, ScanDistance(from, q) < scanned' PROVE q \in scanFrom.used
        <3>1. ScanDistance(from, q) \in Int
            BY <1>1, ScanDistanceType, RangeInOrder DEF Ports
        <3>2. ScanDistance(from, q) < scanned \/ ScanDistance(from, q) = scanned
            BY <1>1, <2>5, <3>1
        <3>3. QED
            BY <1>1, <1>3, <3>2, DistanceIsInjective
    <2>6. scanned' \in 0..Total
        BY <1>1
    <2>7. QED
        BY <1>1, <2>1, <2>2, <2>3, <2>4, <2>5, <2>6 DEF ScanInv, ScanMatchesAllocate
<1>4. CASE p \notin scan.used
    <2>1. /\ scan' = [used |-> scan.used \cup {p}, next |-> NextAfter(p)]
          /\ found' = p
        BY <1>4 DEF ScanStep
    <2>2. p # NoPort /\ p # Scanning
        BY <1>1, PortIsAnAnswer
    <2>3. scan' \in Pool
        BY <1>1, <1>2, <2>1 DEF Pool
    <2>4. p \in FreePorts(scanFrom)
        BY <1>1, <1>4 DEF FreePorts
    <2>5. FirstFree(scanFrom) \in Ports /\ FirstFree(scanFrom) \notin scanFrom.used
          /\ ScanDistance(from, FirstFree(scanFrom)) <= ScanDistance(from, p)
        BY <1>1, <2>4, FirstFreeIsFree DEF FreePorts
    <2>6. ScanDistance(from, FirstFree(scanFrom)) = ScanDistance(from, p)
        <3>1. ScanDistance(from, FirstFree(scanFrom)) \in Int
            BY <1>1, <2>5, ScanDistanceType, RangeInOrder DEF Ports
        <3>2. QED
            BY <1>1, <2>5, <3>1
    <2>7. FirstFree(scanFrom) = p
        BY <1>1, <2>5, <2>6, DistanceIsInjective
    <2>8. AllocatedPort(scanFrom, NoPort) = p
        BY <2>4, <2>7 DEF AllocatedPort
    <2>9. Allocate(scanFrom, NoPort) = scan'
        BY <1>1, <2>1, <2>2, <2>8 DEF Allocate
    <2>10. scanned' \in 0..Total
        BY <1>1
    <2>11. QED
        BY <1>1, <2>1, <2>2, <2>3, <2>8, <2>9, <2>10 DEF ScanInv, ScanMatchesAllocate
<1>5. QED
    BY <1>3, <1>4

LEMMA ScanGivesUpKeeps ==
    ScanInv /\ ScanMatchesAllocate /\ ScanGivesUp => ScanInv' /\ ScanMatchesAllocate'
<1> SUFFICES ASSUME ScanInv, ScanGivesUp PROVE ScanInv' /\ ScanMatchesAllocate'
    OBVIOUS
<1>1. /\ scanFrom \in Pool /\ scan \in Pool /\ scan.used = scanFrom.used /\ scan.next = scanFrom.next
      /\ \A q \in Ports : ScanDistance(scanFrom.next, q) < Total => q \in scanFrom.used
      /\ scanFrom' = scanFrom /\ scan' = scan /\ scanned' = scanned /\ found' = NoPort /\ scanned \in 0..Total
    BY DEF ScanInv, ScanGivesUp
<1>2. scanFrom.next \in Ports
    BY <1>1 DEF Pool
<1>3. \A q \in Ports : ScanDistance(scanFrom.next, q) < Total
    BY <1>2, ScanDistanceType, RangeInOrder DEF Total
<1>4. FreePorts(scanFrom) = {}
    BY <1>1, <1>3 DEF FreePorts
<1>5. AllocatedPort(scanFrom, NoPort) = NoPort /\ Allocate(scanFrom, NoPort) = scanFrom
    BY <1>4 DEF AllocatedPort, Allocate
<1>6. scan = scanFrom
    BY <1>1 DEF Pool
<1>7. NoPort # Scanning
    BY DEF NoPort, Scanning
<1>8. QED
    BY <1>1, <1>5, <1>6, <1>7 DEF ScanInv, ScanMatchesAllocate

(***************************************************************************)
(* The loop of Allocate(0) answers what the operator Allocate says and     *)
(* leaves the pool it says, whatever the range, the ports in use and the   *)
(* place where the scan starts.                                            *)
(***************************************************************************)
THEOREM ScanIsAllocate == ScanSpec => []ScanMatchesAllocate
<1> DEFINE Inv == ScanInv /\ ScanMatchesAllocate
<1>1. ScanInit => Inv
    BY ScanStarts
<1>2. Inv /\ [ScanNext]_scanVars => Inv'
    <2>1. Inv /\ UNCHANGED scanVars => Inv'
        BY DEF scanVars, ScanInv, ScanMatchesAllocate
    <2>2. QED
        BY <2>1, ScanStepKeeps, ScanGivesUpKeeps DEF ScanNext
<1>3. Inv => ScanMatchesAllocate
    OBVIOUS
<1>4. QED
    BY <1>1, <1>2, <1>3, PTL DEF ScanSpec
-----------------------------------------------------------------------------
(***************************************************************************)
(* The tunnel connections and the registries.                              *)
(***************************************************************************)

(***************************************************************************)
(* What the rest needs to know of a step of the allocator.                 *)
(***************************************************************************)
LEMMA RegisterTCPPool ==
    ASSUME TypeOK, NEW h \in Handler, NEW p \in Ports \cup {NoPort}, RegisterTCP(h, p)
    PROVE  /\ pool' \in Pool
           /\ port'[h] \in Ports \ pool.used
           /\ port' = [port EXCEPT ![h] = port'[h]]
           /\ pool'.used = pool.used \cup {port'[h]}
<1>1. p \in Nat /\ pool \in Pool
    <2>1. pool \in Pool
        BY DEF TypeOK
    <2>2. PortStart \in Nat /\ PortEnd \in Nat
        BY RangeInOrder
    <2>3. CASE p = NoPort
        BY <2>1, <2>3 DEF NoPort
    <2>4. CASE p \in Ports
        BY <2>1, <2>2, <2>4 DEF Ports
    <2>5. QED
        BY <2>3, <2>4
<1> DEFINE q == AllocatedPort(pool, p)
<1>2. q # NoPort /\ pool' = Allocate(pool, p) /\ port' = [port EXCEPT ![h] = q]
    BY DEF RegisterTCP
<1>3. /\ Allocate(pool, p) \in Pool
      /\ q \in Ports \ pool.used
      /\ Allocate(pool, p).used = pool.used \cup {q}
    BY <1>1, <1>2, AllocateCorrect
<1>4. port'[h] = q
    BY <1>2 DEF TypeOK
<1>5. QED
    BY <1>2, <1>3, <1>4

LEMMA CountLateType ==
    ASSUME TypeOK, NEW h \in Handler, CountLate(h)
    PROVE  late' \in [Handler -> Nat]
BY DEF TypeOK, CountLate

-----------------------------------------------------------------------------
LEMMA TypeInit == Init => TypeOK
<1>1. NewPortAllocator \in Pool
    BY RangeInOrder DEF NewPortAllocator, Pool, Ports
<1>2. QED
    BY <1>1 DEF Init, TypeOK

LEMMA TypeStep == TypeOK /\ [Next]_vars => TypeOK'
<1> SUFFICES ASSUME TypeOK, [Next]_vars PROVE TypeOK'
    OBVIOUS
<1> USE DEF handlerVars, sharedVars
<1>1. CASE UNCHANGED vars
    BY <1>1 DEF TypeOK, vars
<1>2. ASSUME NEW h \in Handler, Connect(h) PROVE TypeOK'
    BY <1>2 DEF TypeOK, Connect
<1>3. ASSUME NEW h \in Handler, ReadError(h) PROVE TypeOK'
    BY <1>3 DEF TypeOK, ReadError
<1>4. ASSUME NEW h \in Handler, TimerFires(h) PROVE TypeOK'
    BY <1>4 DEF TypeOK, TimerFires
<1>5. ASSUME NEW h \in Handler, AuthAccepted(h) \/ AuthRejected(h) \/ CloseRequested(h)
      PROVE  TypeOK'
    <2>1. CountLate(h)
        BY <1>5 DEF AuthAccepted, AuthRejected, CloseRequested
    <2>2. CASE AuthAccepted(h)
        BY <2>1, <2>2, CountLateType DEF TypeOK, AuthAccepted
    <2>3. CASE AuthRejected(h)
        BY <2>1, <2>3, CountLateType DEF TypeOK, AuthRejected
    <2>4. CASE CloseRequested(h)
        BY <2>1, <2>4, CountLateType DEF TypeOK, CloseRequested
    <2>5. QED
        BY <1>5, <2>2, <2>3, <2>4
<1>6. ASSUME NEW h \in Handler, NEW k \in Named, NEW s \in Sub, RegisterNamed(h, k, s)
      PROVE  TypeOK'
    <2> DEFINE t == [id |-> ids + 1, kind |-> k, owner |-> h, at |-> s]
    <2>1. t \in Tunnel
        BY DEF TypeOK, Tunnel, Kind
    <2> HIDE DEF t
    <2>2. /\ registry' = registry \cup {t} /\ held' = held \cup {t}
          /\ todo' \in {todo, [todo EXCEPT ![h] = @ \cup {t}]}
          /\ count' = [count EXCEPT ![h] = @ + 1]
        BY <1>6 DEF RegisterNamed, Inserted, t
    <2>3. QED
        BY <1>6, <2>1, <2>2 DEF TypeOK, RegisterNamed, CountLate
<1>7. ASSUME NEW h \in Handler, NEW t \in held, UnregisterRequested(h, t) PROVE TypeOK'
    BY <1>7 DEF TypeOK, UnregisterRequested, CountLate
<1>8. ASSUME NEW h \in Handler, UnregisterName(h) PROVE TypeOK'
    BY <1>8 DEF TypeOK, UnregisterName, Unregister
<1>9. ASSUME NEW h \in Handler, NEW p \in Ports \cup {NoPort}, RegisterTCP(h, p) PROVE TypeOK'
    <2>1. late' \in [Handler -> Nat]
        BY <1>9, CountLateType DEF RegisterTCP
    <2>2. /\ pool' \in Pool
          /\ port'[h] \in Ports
          /\ port' = [port EXCEPT ![h] = port'[h]]
        BY <1>9, RegisterTCPPool
    <2>3. port' \in [Handler -> Ports \cup {NoPort}]
        BY <2>2 DEF TypeOK
    <2>4. reader' = [reader EXCEPT ![h] = "listen"]
        BY <1>9 DEF RegisterTCP
    <2>5. QED
        BY <1>9, <2>1, <2>2, <2>3, <2>4 DEF TypeOK, RegisterTCP
<1>10. ASSUME NEW h \in Handler, ListenSucceeds(h) PROVE TypeOK'
    <2> DEFINE t == [id |-> ids + 1, kind |-> "tcp", owner |-> h, at |-> port[h]]
    <2>1. t \in Tunnel
        BY <1>10 DEF TypeOK, Tunnel, Kind, ListenSucceeds
    <2> HIDE DEF t
    <2>2. /\ listening' = listening \cup {t} /\ held' = held \cup {t}
          /\ todo' \in {todo, [todo EXCEPT ![h] = @ \cup {t}]}
          /\ act' \in {[act EXCEPT ![h] = t], [act EXCEPT ![h] = NoTunnel]}
          /\ count' = [count EXCEPT ![h] = @ + 1]
        BY <1>10 DEF ListenSucceeds, Inserted, t
    <2>3. QED
        BY <1>10, <2>1, <2>2 DEF TypeOK, ListenSucceeds
<1>11. ASSUME NEW h \in Handler, ListenFails(h) PROVE TypeOK'
    BY <1>11, ReleaseCorrect DEF TypeOK, ListenFails
<1>12. ASSUME NEW h \in Handler, UndoClose(h) \/ UndoRelease(h) PROVE TypeOK'
    BY <1>12, ReleaseCorrect DEF TypeOK, UndoClose, UndoRelease, CloseListener, ReleasePort
<1>13. ASSUME NEW h \in Handler, NEW who \in {"reader", "timer"}, CleanupStarts(h, who)
       PROVE  TypeOK'
    BY <1>13 DEF TypeOK, CleanupStarts, Held, Kind, Named
<1>14. ASSUME NEW h \in Handler, NEW t \in todo[h], CleanupPicks(h, t) PROVE TypeOK'
    BY <1>14 DEF TypeOK, CleanupPicks
<1>15. ASSUME NEW h \in Handler, CleanupUnregisters(h) PROVE TypeOK'
    BY <1>15 DEF TypeOK, CleanupUnregisters, Unregister
<1>16. ASSUME NEW h \in Handler, CleanupCloses(h) \/ CleanupReleases(h) PROVE TypeOK'
    BY <1>16, ReleaseCorrect
    DEF TypeOK, CleanupCloses, CleanupReleases, CloseListener, ReleasePort
<1>17. ASSUME NEW h \in Handler, CleanupNextMap(h) PROVE TypeOK'
    BY <1>17 DEF TypeOK, CleanupNextMap, StageAfter, Held, Kind, Named
<1>18. ASSUME NEW h \in Handler, CleanupEnds(h) \/ ReaderCleaned(h) \/ TimerCleaned(h)
       PROVE  TypeOK'
    BY <1>18 DEF TypeOK, CleanupEnds, ReaderCleaned, TimerCleaned
<1>19. ASSUME NEW h \in Handler, MapRaceIsFatal(h) PROVE TypeOK'
    BY <1>19 DEF TypeOK, MapRaceIsFatal
<1>20. QED
    BY <1>1, <1>2, <1>3, <1>4, <1>5, <1>6, <1>7, <1>8, <1>9, <1>10, <1>11, <1>12,
       <1>13, <1>14, <1>15, <1>16, <1>17, <1>18, <1>19
    DEF Next, Frame, ReaderStep, TimerStep, CleanupStep

(***************************************************************************)
(* Type correctness.                                                       *)
(***************************************************************************)
THEOREM TypeCorrect == Spec => []TypeOK
BY TypeInit, TypeStep, PTL DEF Spec

-----------------------------------------------------------------------------
(***************************************************************************)
(* A tunnel made in this step is new: it is in no map, and nobody works on *)
(* it.                                                                     *)
(***************************************************************************)
LEMMA NewTunnel ==
    ASSUME TypeOK, Structure, NEW h \in Handler, NEW k \in Kind, NEW a \in Sub \cup Ports,
           NEW t, t = [id |-> ids + 1, kind |-> k, owner |-> h, at |-> a]
    PROVE  /\ t \in Tunnel /\ t # NoTunnel
           /\ t.id = ids + 1 /\ t.kind = k /\ t.owner = h /\ t.at = a
           /\ t \notin held /\ t \notin listening
           /\ \A g \in Handler : cur[g] # t /\ t \notin todo[g]
<1>1. t \in Tunnel /\ t.id = ids + 1 /\ t.kind = k /\ t.owner = h /\ t.at = a
    BY DEF TypeOK, Tunnel
<1>2. t # NoTunnel
    BY <1>1, NoTunnelAssumption
<1>3. t \notin held
    BY <1>1 DEF TypeOK, Structure
<1>4. \A g \in Handler : cur[g] # t /\ t \notin todo[g]
    BY <1>1, <1>2, <1>3 DEF TypeOK, Structure
<1>5. QED
    BY <1>1, <1>2, <1>3, <1>4 DEF Structure

(***************************************************************************)
(* When cleanup is iterating no map it is working on nothing.              *)
(***************************************************************************)
LEMMA NothingInHand ==
    ASSUME TypeOK, Structure, NEW h \in Handler, stage[h] = "last" \/ cleaner[h] \in {"none", "done"}
    PROVE  stage[h] = "last" /\ cur[h] = NoTunnel /\ todo[h] = {}
<1>1. stage[h] = "last"
    BY DEF Structure
<1>2. \A t \in Tunnel : t.kind # "last"
    BY DEF Tunnel, Kind, Named
<1>3. QED
    BY <1>1, <1>2 DEF TypeOK, Structure

LEMMA StructureInit == Init => Structure
BY DEF Init, Structure

LEMMA StructureStep == TypeOK /\ Structure /\ [Next]_vars => Structure'
<1> SUFFICES ASSUME TypeOK, Structure, [Next]_vars PROVE Structure'
    OBVIOUS
<1> USE DEF handlerVars, sharedVars
<1>1. CASE UNCHANGED vars
    BY <1>1 DEF TypeOK, Structure, Kind, Named, Held, vars
<1>2. ASSUME NEW h \in Handler, Connect(h) PROVE Structure'
    BY <1>2 DEF TypeOK, Structure, Kind, Named, Held, Connect
<1>3. ASSUME NEW h \in Handler, ReadError(h) PROVE Structure'
    BY <1>3 DEF TypeOK, Structure, Kind, Named, Held, ReadError
<1>4. ASSUME NEW h \in Handler, TimerFires(h) PROVE Structure'
    BY <1>4 DEF TypeOK, Structure, Kind, Named, Held, TimerFires
<1>5. ASSUME NEW h \in Handler, AuthAccepted(h) PROVE Structure'
    BY <1>5 DEF TypeOK, Structure, Kind, Named, Held, AuthAccepted, FrameArrives
<1>6. ASSUME NEW h \in Handler, AuthRejected(h) PROVE Structure'
    BY <1>6 DEF TypeOK, Structure, Kind, Named, Held, AuthRejected, FrameArrives
<1>7. ASSUME NEW h \in Handler, CloseRequested(h) PROVE Structure'
    BY <1>7 DEF TypeOK, Structure, Kind, Named, Held, CloseRequested, FrameArrives
<1>8. ASSUME NEW h \in Handler, NEW k \in Named, NEW s \in Sub, RegisterNamed(h, k, s)
      PROVE  Structure'
    <2> DEFINE t == [id |-> ids + 1, kind |-> k, owner |-> h, at |-> s]
    <2>1. k \in Kind /\ s \in Sub \cup Ports
        BY <1>8 DEF Kind
    <2>2. /\ t \in Tunnel /\ t # NoTunnel /\ t.id = ids + 1 /\ t.kind = k /\ t.owner = h
          /\ \A g \in Handler : cur[g] # t
        BY <2>1, NewTunnel
    <2> HIDE DEF t
    <2>3. /\ held' = held \cup {t}
          /\ \/ todo' = todo
             \/ cleaner[h] = "timer" /\ stage[h] = t.kind /\ todo' = [todo EXCEPT ![h] = @ \cup {t}]
          /\ registry' = registry \cup {t}
        BY <1>8 DEF RegisterNamed, Inserted, t
    <2>4. \A g \in Handler : \A u \in todo'[g] : u.owner = g /\ u.kind = stage[g] /\ u \in held'
        BY <2>2, <2>3 DEF TypeOK, Structure
    <2>5. \A g \in Handler : cur[g] # NoTunnel => cur[g].id <= ids' /\ cur[g] \notin todo'[g]
        BY <1>8, <2>2, <2>3 DEF TypeOK, Tunnel, Structure, RegisterNamed
    <2>6. \A u \in held' : u.id <= ids'
        BY <1>8, <2>2, <2>3 DEF TypeOK, Tunnel, Structure, RegisterNamed
    <2>7. QED
        BY <1>8, <2>2, <2>3, <2>4, <2>5, <2>6 DEF Structure, RegisterNamed
<1>9. ASSUME NEW h \in Handler, NEW t \in held, UnregisterRequested(h, t)
      PROVE  Structure'
    <2>1. t # NoTunnel /\ t.owner = h /\ t.kind = "http"
        BY <1>9, NoTunnelAssumption DEF TypeOK, UnregisterRequested, Held
    <2>2. QED
        BY <1>9, <2>1 DEF TypeOK, Structure, UnregisterRequested, FrameArrives
<1>10. ASSUME NEW h \in Handler, UnregisterName(h) PROVE Structure'
    BY <1>10 DEF TypeOK, Structure, Kind, Named, Held, UnregisterName, Unregister
<1>11. ASSUME NEW h \in Handler, NEW p \in Ports \cup {NoPort}, RegisterTCP(h, p)
      PROVE  Structure'
    BY <1>11 DEF TypeOK, Structure, Kind, Named, Held, RegisterTCP, FrameArrives
<1>12. ASSUME NEW h \in Handler, ListenSucceeds(h) PROVE Structure'
    <2> DEFINE t == [id |-> ids + 1, kind |-> "tcp", owner |-> h, at |-> port[h]]
    <2>1. "tcp" \in Kind /\ port[h] \in Sub \cup Ports
        BY <1>12 DEF Kind, TypeOK, ListenSucceeds
    <2>2. /\ t \in Tunnel /\ t # NoTunnel /\ t.id = ids + 1 /\ t.kind = "tcp" /\ t.owner = h
          /\ \A g \in Handler : cur[g] # t
        BY <2>1, NewTunnel
    <2> HIDE DEF t
    <2>3. /\ held' = held \cup {t}
          /\ \/ todo' = todo
             \/ cleaner[h] = "timer" /\ stage[h] = t.kind /\ todo' = [todo EXCEPT ![h] = @ \cup {t}]
          /\ listening' = listening \cup {t}
          /\ act' = [act EXCEPT ![h] = IF HostTooLong THEN t ELSE NoTunnel]
        BY <1>12 DEF ListenSucceeds, Inserted, t
    <2>4. \A g \in Handler : \A u \in todo'[g] : u.owner = g /\ u.kind = stage[g] /\ u \in held'
        BY <2>2, <2>3 DEF TypeOK, Structure
    <2>5. \A g \in Handler : cur[g] # NoTunnel => cur[g].id <= ids' /\ cur[g] \notin todo'[g]
        BY <1>12, <2>2, <2>3 DEF TypeOK, Tunnel, Structure, ListenSucceeds
    <2>6. \A u \in held' : u.id <= ids'
        BY <1>12, <2>2, <2>3 DEF TypeOK, Tunnel, Structure, ListenSucceeds
    <2>7. /\ reader' = [reader EXCEPT ![h] = IF HostTooLong THEN "undo" ELSE "read"]
          /\ port' = [port EXCEPT ![h] = NoPort]
          /\ reader[h] = "listen"
          /\ UNCHANGED <<conn, cleaner, stage, cur, registry>>
        BY <1>12 DEF ListenSucceeds
    <2>8. \A g \in Handler :
            /\ conn'[g] = "none" => reader'[g] = "none"
            /\ port'[g] # NoPort <=> reader'[g] = "listen"
            /\ act'[g] # NoTunnel <=> reader'[g] \in {"undo", "unregister"}
            /\ reader'[g] = "undo" => HostTooLong /\ act'[g].kind = "tcp"
            /\ reader'[g] = "unregister" => act'[g].kind = "http"
            /\ act'[g] # NoTunnel => act'[g].owner = g
        BY <2>2, <2>3, <2>7 DEF TypeOK, Structure
    <2>9. QED
        BY <2>2, <2>3, <2>4, <2>5, <2>6, <2>7, <2>8 DEF Structure
<1>13. ASSUME NEW h \in Handler, ListenFails(h) PROVE Structure'
    BY <1>13 DEF TypeOK, Structure, Kind, Named, Held, ListenFails
<1>14. ASSUME NEW h \in Handler, UndoClose(h) PROVE Structure'
    BY <1>14 DEF TypeOK, Structure, Kind, Named, Held, UndoClose, CloseListener
<1>15. ASSUME NEW h \in Handler, UndoRelease(h) PROVE Structure'
    BY <1>15 DEF TypeOK, Structure, Kind, Named, Held, UndoRelease, ReleasePort
<1>16. ASSUME NEW h \in Handler, NEW who \in {"reader", "timer"}, CleanupStarts(h, who)
      PROVE  Structure'
    <2>1. cur[h] = NoTunnel
        BY <1>16, NothingInHand DEF CleanupStarts
    <2>2. QED
        BY <1>16, <2>1 DEF TypeOK, Structure, CleanupStarts, Held
<1>17. ASSUME NEW h \in Handler, NEW t \in todo[h], CleanupPicks(h, t) PROVE Structure'
    BY <1>17 DEF TypeOK, Structure, Kind, Named, Held, CleanupPicks
<1>18. ASSUME NEW h \in Handler, CleanupUnregisters(h) PROVE Structure'
    BY <1>18 DEF TypeOK, Structure, Kind, Named, Held, CleanupUnregisters, Unregister
<1>19. ASSUME NEW h \in Handler, CleanupCloses(h) PROVE Structure'
    BY <1>19 DEF TypeOK, Structure, Kind, Named, Held, CleanupCloses, CloseListener
<1>20. ASSUME NEW h \in Handler, CleanupReleases(h) PROVE Structure'
    BY <1>20 DEF TypeOK, Structure, Kind, Named, Held, CleanupReleases, ReleasePort
<1>21. ASSUME NEW h \in Handler, CleanupNextMap(h) PROVE Structure'
    BY <1>21 DEF TypeOK, Structure, Kind, Named, Held, CleanupNextMap, StageAfter
<1>22. ASSUME NEW h \in Handler, CleanupEnds(h) PROVE Structure'
    BY <1>22 DEF TypeOK, Structure, Kind, Named, Held, CleanupEnds
<1>23. ASSUME NEW h \in Handler, ReaderCleaned(h) PROVE Structure'
    BY <1>23 DEF TypeOK, Structure, Kind, Named, Held, ReaderCleaned
<1>24. ASSUME NEW h \in Handler, TimerCleaned(h) PROVE Structure'
    BY <1>24 DEF TypeOK, Structure, Kind, Named, Held, TimerCleaned
<1>25. ASSUME NEW h \in Handler, MapRaceIsFatal(h) PROVE Structure'
    BY <1>25 DEF TypeOK, Structure, Kind, Named, Held, MapRaceIsFatal
<1>26. QED
    BY <1>1, <1>2, <1>3, <1>4, <1>5, <1>6, <1>7, <1>8, <1>9, <1>10, <1>11, <1>12, <1>13,
       <1>14, <1>15, <1>16, <1>17, <1>18, <1>19, <1>20, <1>21, <1>22, <1>23, <1>24, <1>25
    DEF Next, Frame, ReaderStep, TimerStep, CleanupStep

-----------------------------------------------------------------------------
LEMMA RegistryBackedStep == TypeOK /\ Structure /\ RegistryBacked /\ [Next]_vars => RegistryBacked'
<1> SUFFICES ASSUME TypeOK, Structure, RegistryBacked, [Next]_vars PROVE RegistryBacked'
    OBVIOUS
<1> USE DEF handlerVars, sharedVars
<1>1. CASE UNCHANGED vars
    BY <1>1 DEF TypeOK, Structure, RegistryBacked, vars
<1>2. ASSUME NEW h \in Handler, Connect(h) PROVE RegistryBacked'
    BY <1>2 DEF TypeOK, Structure, RegistryBacked, Connect
<1>3. ASSUME NEW h \in Handler, ReadError(h) PROVE RegistryBacked'
    BY <1>3 DEF TypeOK, Structure, RegistryBacked, ReadError
<1>4. ASSUME NEW h \in Handler, TimerFires(h) PROVE RegistryBacked'
    BY <1>4 DEF TypeOK, Structure, RegistryBacked, TimerFires
<1>5. ASSUME NEW h \in Handler, AuthAccepted(h) PROVE RegistryBacked'
    BY <1>5 DEF TypeOK, Structure, RegistryBacked, AuthAccepted, FrameArrives
<1>6. ASSUME NEW h \in Handler, AuthRejected(h) PROVE RegistryBacked'
    BY <1>6 DEF TypeOK, Structure, RegistryBacked, AuthRejected, FrameArrives
<1>7. ASSUME NEW h \in Handler, CloseRequested(h) PROVE RegistryBacked'
    BY <1>7 DEF TypeOK, Structure, RegistryBacked, CloseRequested, FrameArrives
<1>8. ASSUME NEW h \in Handler, NEW k \in Named, NEW s \in Sub, RegisterNamed(h, k, s)
      PROVE  RegistryBacked'
    BY <1>8 DEF TypeOK, Structure, RegistryBacked, RegisterNamed, Inserted, FrameArrives
<1>9. ASSUME NEW h \in Handler, NEW t \in held, UnregisterRequested(h, t)
      PROVE  RegistryBacked'
    <2>1. \A u \in registry : u.owner \in Handler
        BY DEF TypeOK, Tunnel
    <2>2. reader[h] = "read" /\ t.owner = h
        BY <1>9 DEF UnregisterRequested, FrameArrives, Held
    <2>3. act[h] \notin registry
        BY <2>2, NoTunnelAssumption DEF TypeOK, Structure
    <2>4. /\ held' = held \ {t} /\ UNCHANGED registry
          /\ act'[h] = t /\ \A g \in Handler \ {h} : act'[g] = act[g]
        BY <1>9 DEF TypeOK, UnregisterRequested
    <2>5. QED
        BY <2>1, <2>2, <2>3, <2>4 DEF RegistryBacked
<1>10. ASSUME NEW h \in Handler, UnregisterName(h) PROVE RegistryBacked'
    BY <1>10 DEF TypeOK, Structure, RegistryBacked, UnregisterName, Unregister
<1>11. ASSUME NEW h \in Handler, NEW p \in Ports \cup {NoPort}, RegisterTCP(h, p)
      PROVE  RegistryBacked'
    BY <1>11 DEF TypeOK, Structure, RegistryBacked, RegisterTCP, FrameArrives
<1>12. ASSUME NEW h \in Handler, ListenSucceeds(h) PROVE RegistryBacked'
    <2>1. \A u \in registry : u.owner \in Handler
        BY DEF TypeOK, Tunnel
    <2>2. act[h] \notin registry
        BY <1>12, <2>1, NoTunnelAssumption DEF TypeOK, Structure, ListenSucceeds
    <2>3. held \subseteq held' /\ UNCHANGED registry /\ \A g \in Handler \ {h} : act'[g] = act[g]
        BY <1>12 DEF TypeOK, ListenSucceeds, Inserted
    <2>4. QED
        BY <2>1, <2>2, <2>3 DEF RegistryBacked
<1>13. ASSUME NEW h \in Handler, ListenFails(h) PROVE RegistryBacked'
    BY <1>13 DEF TypeOK, Structure, RegistryBacked, ListenFails
<1>14. ASSUME NEW h \in Handler, UndoClose(h) PROVE RegistryBacked'
    BY <1>14 DEF TypeOK, Structure, RegistryBacked, UndoClose, CloseListener
<1>15. ASSUME NEW h \in Handler, UndoRelease(h) PROVE RegistryBacked'
    <2>1. \A u \in registry : u.owner \in Handler
        BY DEF TypeOK, Tunnel
    <2>2. act[h] \notin registry
        BY <1>15 DEF Structure, Named, UndoRelease
    <2>3. QED
        BY <1>15, <2>1, <2>2 DEF TypeOK, RegistryBacked, UndoRelease
<1>16. ASSUME NEW h \in Handler, NEW who \in {"reader", "timer"}, CleanupStarts(h, who)
      PROVE  RegistryBacked'
    BY <1>16 DEF TypeOK, Structure, RegistryBacked, CleanupStarts
<1>17. ASSUME NEW h \in Handler, NEW t \in todo[h], CleanupPicks(h, t)
      PROVE  RegistryBacked'
    BY <1>17 DEF TypeOK, Structure, RegistryBacked, CleanupPicks
<1>18. ASSUME NEW h \in Handler, CleanupUnregisters(h) PROVE RegistryBacked'
    BY <1>18 DEF TypeOK, Structure, RegistryBacked, CleanupUnregisters, Unregister
<1>19. ASSUME NEW h \in Handler, CleanupCloses(h) PROVE RegistryBacked'
    BY <1>19 DEF TypeOK, Structure, RegistryBacked, CleanupCloses, CloseListener
<1>20. ASSUME NEW h \in Handler, CleanupReleases(h) PROVE RegistryBacked'
    BY <1>20 DEF TypeOK, Structure, RegistryBacked, CleanupReleases, ReleasePort
<1>21. ASSUME NEW h \in Handler, CleanupNextMap(h) PROVE RegistryBacked'
    BY <1>21 DEF TypeOK, Structure, RegistryBacked, CleanupNextMap, StageAfter
<1>22. ASSUME NEW h \in Handler, CleanupEnds(h) PROVE RegistryBacked'
    BY <1>22 DEF TypeOK, Structure, RegistryBacked, CleanupEnds
<1>23. ASSUME NEW h \in Handler, ReaderCleaned(h) PROVE RegistryBacked'
    BY <1>23 DEF TypeOK, Structure, RegistryBacked, ReaderCleaned
<1>24. ASSUME NEW h \in Handler, TimerCleaned(h) PROVE RegistryBacked'
    BY <1>24 DEF TypeOK, Structure, RegistryBacked, TimerCleaned
<1>25. ASSUME NEW h \in Handler, MapRaceIsFatal(h) PROVE RegistryBacked'
    BY <1>25 DEF TypeOK, Structure, RegistryBacked, MapRaceIsFatal
<1>26. QED
    BY <1>1, <1>2, <1>3, <1>4, <1>5, <1>6, <1>7, <1>8, <1>9, <1>10, <1>11, <1>12, <1>13,
       <1>14, <1>15, <1>16, <1>17, <1>18, <1>19, <1>20, <1>21, <1>22, <1>23, <1>24, <1>25
    DEF Next, Frame, ReaderStep, TimerStep, CleanupStep

LEMMA NamesUniqueStep == TypeOK /\ NamesUnique /\ [Next]_vars => NamesUnique'
<1> SUFFICES ASSUME TypeOK, NamesUnique, [Next]_vars PROVE NamesUnique'
    OBVIOUS
<1> USE DEF handlerVars, sharedVars
<1>1. CASE UNCHANGED vars
    BY <1>1 DEF NamesUnique, vars
<1>2. ASSUME NEW h \in Handler, Connect(h) PROVE NamesUnique'
    BY <1>2 DEF NamesUnique, Connect
<1>3. ASSUME NEW h \in Handler, ReadError(h) PROVE NamesUnique'
    BY <1>3 DEF NamesUnique, ReadError
<1>4. ASSUME NEW h \in Handler, TimerFires(h) PROVE NamesUnique'
    BY <1>4 DEF NamesUnique, TimerFires
<1>5. ASSUME NEW h \in Handler, AuthAccepted(h) PROVE NamesUnique'
    BY <1>5 DEF NamesUnique, AuthAccepted, FrameArrives
<1>6. ASSUME NEW h \in Handler, AuthRejected(h) PROVE NamesUnique'
    BY <1>6 DEF NamesUnique, AuthRejected, FrameArrives
<1>7. ASSUME NEW h \in Handler, CloseRequested(h) PROVE NamesUnique'
    BY <1>7 DEF NamesUnique, CloseRequested, FrameArrives
<1>8. ASSUME NEW h \in Handler, NEW k \in Named, NEW s \in Sub, RegisterNamed(h, k, s)
      PROVE  NamesUnique'
    <2> DEFINE t == [id |-> ids + 1, kind |-> k, owner |-> h, at |-> s]
    <2>1. t.kind = k /\ t.at = s
        OBVIOUS
    <2>2. registry' = registry \cup {t} /\ \A u \in registry : ~(u.kind = k /\ u.at = s)
        BY <1>8 DEF RegisterNamed, Taken
    <2> HIDE DEF t
    <2>3. QED
        BY <2>1, <2>2 DEF NamesUnique
<1>9. ASSUME NEW h \in Handler, NEW t \in held, UnregisterRequested(h, t)
      PROVE  NamesUnique'
    BY <1>9 DEF NamesUnique, UnregisterRequested, FrameArrives
<1>10. ASSUME NEW h \in Handler, UnregisterName(h) PROVE NamesUnique'
    BY <1>10 DEF NamesUnique, UnregisterName, Unregister
<1>11. ASSUME NEW h \in Handler, NEW p \in Ports \cup {NoPort}, RegisterTCP(h, p)
      PROVE  NamesUnique'
    BY <1>11 DEF NamesUnique, RegisterTCP, FrameArrives
<1>12. ASSUME NEW h \in Handler, ListenSucceeds(h) PROVE NamesUnique'
    BY <1>12 DEF NamesUnique, ListenSucceeds, Inserted
<1>13. ASSUME NEW h \in Handler, ListenFails(h) PROVE NamesUnique'
    BY <1>13 DEF NamesUnique, ListenFails
<1>14. ASSUME NEW h \in Handler, UndoClose(h) PROVE NamesUnique'
    BY <1>14 DEF NamesUnique, UndoClose, CloseListener
<1>15. ASSUME NEW h \in Handler, UndoRelease(h) PROVE NamesUnique'
    BY <1>15 DEF NamesUnique, UndoRelease, ReleasePort
<1>16. ASSUME NEW h \in Handler, NEW who \in {"reader", "timer"}, CleanupStarts(h, who)
      PROVE  NamesUnique'
    BY <1>16 DEF NamesUnique, CleanupStarts
<1>17. ASSUME NEW h \in Handler, NEW t \in todo[h], CleanupPicks(h, t)
      PROVE  NamesUnique'
    BY <1>17 DEF NamesUnique, CleanupPicks
<1>18. ASSUME NEW h \in Handler, CleanupUnregisters(h) PROVE NamesUnique'
    BY <1>18 DEF NamesUnique, CleanupUnregisters, Unregister
<1>19. ASSUME NEW h \in Handler, CleanupCloses(h) PROVE NamesUnique'
    BY <1>19 DEF NamesUnique, CleanupCloses, CloseListener
<1>20. ASSUME NEW h \in Handler, CleanupReleases(h) PROVE NamesUnique'
    BY <1>20 DEF NamesUnique, CleanupReleases, ReleasePort
<1>21. ASSUME NEW h \in Handler, CleanupNextMap(h) PROVE NamesUnique'
    BY <1>21 DEF NamesUnique, CleanupNextMap, StageAfter
<1>22. ASSUME NEW h \in Handler, CleanupEnds(h) PROVE NamesUnique'
    BY <1>22 DEF NamesUnique, CleanupEnds
<1>23. ASSUME NEW h \in Handler, ReaderCleaned(h) PROVE NamesUnique'
    BY <1>23 DEF NamesUnique, ReaderCleaned
<1>24. ASSUME NEW h \in Handler, TimerCleaned(h) PROVE NamesUnique'
    BY <1>24 DEF NamesUnique, TimerCleaned
<1>25. ASSUME NEW h \in Handler, MapRaceIsFatal(h) PROVE NamesUnique'
    BY <1>25 DEF NamesUnique, MapRaceIsFatal
<1>26. QED
    BY <1>1, <1>2, <1>3, <1>4, <1>5, <1>6, <1>7, <1>8, <1>9, <1>10, <1>11, <1>12, <1>13,
       <1>14, <1>15, <1>16, <1>17, <1>18, <1>19, <1>20, <1>21, <1>22, <1>23, <1>24, <1>25
    DEF Next, Frame, ReaderStep, TimerStep, CleanupStep

LEMMA UsedPortsStep == TypeOK /\ Structure /\ UsedPortsHaveHolders /\ [Next]_vars => UsedPortsHaveHolders'
<1> SUFFICES ASSUME TypeOK, Structure, UsedPortsHaveHolders, [Next]_vars PROVE UsedPortsHaveHolders'
    OBVIOUS
<1> USE DEF handlerVars, sharedVars
<1>1. CASE UNCHANGED vars
    BY <1>1 DEF UsedPortsHaveHolders, vars
<1>2. ASSUME NEW h \in Handler, Connect(h) PROVE UsedPortsHaveHolders'
    BY <1>2 DEF UsedPortsHaveHolders, Connect
<1>3. ASSUME NEW h \in Handler, ReadError(h) PROVE UsedPortsHaveHolders'
    BY <1>3 DEF UsedPortsHaveHolders, ReadError
<1>4. ASSUME NEW h \in Handler, TimerFires(h) PROVE UsedPortsHaveHolders'
    BY <1>4 DEF UsedPortsHaveHolders, TimerFires
<1>5. ASSUME NEW h \in Handler, AuthAccepted(h) PROVE UsedPortsHaveHolders'
    BY <1>5 DEF UsedPortsHaveHolders, AuthAccepted, FrameArrives
<1>6. ASSUME NEW h \in Handler, AuthRejected(h) PROVE UsedPortsHaveHolders'
    BY <1>6 DEF UsedPortsHaveHolders, AuthRejected, FrameArrives
<1>7. ASSUME NEW h \in Handler, CloseRequested(h) PROVE UsedPortsHaveHolders'
    BY <1>7 DEF UsedPortsHaveHolders, CloseRequested, FrameArrives
<1>8. ASSUME NEW h \in Handler, NEW k \in Named, NEW s \in Sub, RegisterNamed(h, k, s)
      PROVE  UsedPortsHaveHolders'
    BY <1>8 DEF UsedPortsHaveHolders, RegisterNamed, Inserted, FrameArrives
<1>9. ASSUME NEW h \in Handler, NEW t \in held, UnregisterRequested(h, t)
      PROVE  UsedPortsHaveHolders'
    BY <1>9
    DEF TypeOK, Structure, UsedPortsHaveHolders, UnregisterRequested, FrameArrives
<1>10. ASSUME NEW h \in Handler, UnregisterName(h) PROVE UsedPortsHaveHolders'
    BY <1>10 DEF TypeOK, Structure, UsedPortsHaveHolders, UnregisterName, Unregister
<1>11. ASSUME NEW h \in Handler, NEW p \in Ports \cup {NoPort}, RegisterTCP(h, p)
      PROVE  UsedPortsHaveHolders'
    <2>1. pool'.used = pool.used \cup {port'[h]} /\ port' = [port EXCEPT ![h] = port'[h]]
        BY <1>11, RegisterTCPPool
    <2>2. port[h] = NoPort
        BY <1>11 DEF Structure, RegisterTCP, FrameArrives
    <2>3. \A p1 \in pool.used : p1 # NoPort
        <3>1. pool \in Pool
            BY DEF TypeOK
        <3>2. QED
            BY <3>1, PortsPositive DEF Pool
    <2>4. \A g \in Handler \ {h} : port'[g] = port[g]
        BY <2>1 DEF TypeOK
    <2>5. UNCHANGED <<cur, act, listening>>
        BY <1>11 DEF RegisterTCP
    <2>6. QED
        BY <2>1, <2>2, <2>3, <2>4, <2>5 DEF UsedPortsHaveHolders
<1>12. ASSUME NEW h \in Handler, ListenSucceeds(h) PROVE UsedPortsHaveHolders'
    <2> DEFINE t == [id |-> ids + 1, kind |-> "tcp", owner |-> h, at |-> port[h]]
    <2>1. t.at = port[h]
        OBVIOUS
    <2>2. listening' = listening \cup {t} /\ act[h] = NoTunnel /\ port' = [port EXCEPT ![h] = NoPort]
        BY <1>12 DEF Structure, ListenSucceeds
    <2> HIDE DEF t
    <2>3. \A g \in Handler \ {h} : port'[g] = port[g] /\ act'[g] = act[g]
        BY <1>12 DEF TypeOK, ListenSucceeds
    <2>4. UNCHANGED <<cur, pool>>
        BY <1>12 DEF ListenSucceeds
    <2>5. QED
        BY <2>1, <2>2, <2>3, <2>4 DEF UsedPortsHaveHolders
<1>13. ASSUME NEW h \in Handler, ListenFails(h) PROVE UsedPortsHaveHolders'
    <2>1. pool'.used = pool.used \ {port[h]}
        BY <1>13, ReleaseCorrect DEF TypeOK, ListenFails
    <2>2. \A g \in Handler \ {h} : port'[g] = port[g]
        BY <1>13 DEF TypeOK, ListenFails
    <2>3. QED
        BY <1>13, <2>1, <2>2 DEF UsedPortsHaveHolders, ListenFails
<1>14. ASSUME NEW h \in Handler, UndoClose(h) PROVE UsedPortsHaveHolders'
    BY <1>14 DEF TypeOK, Structure, UsedPortsHaveHolders, UndoClose, CloseListener
<1>15. ASSUME NEW h \in Handler, UndoRelease(h) PROVE UsedPortsHaveHolders'
    <2>1. pool'.used = pool.used \ {act[h].at}
        BY <1>15, ReleaseCorrect DEF TypeOK, UndoRelease, ReleasePort
    <2>2. \A g \in Handler \ {h} : act'[g] = act[g]
        BY <1>15 DEF TypeOK, UndoRelease
    <2>3. QED
        BY <1>15, <2>1, <2>2 DEF UsedPortsHaveHolders, UndoRelease, ReleasePort
<1>16. ASSUME NEW h \in Handler, NEW who \in {"reader", "timer"}, CleanupStarts(h, who)
      PROVE  UsedPortsHaveHolders'
    BY <1>16 DEF UsedPortsHaveHolders, CleanupStarts
<1>17. ASSUME NEW h \in Handler, NEW t \in todo[h], CleanupPicks(h, t)
      PROVE  UsedPortsHaveHolders'
    BY <1>17 DEF TypeOK, Structure, UsedPortsHaveHolders, CleanupPicks
<1>18. ASSUME NEW h \in Handler, CleanupUnregisters(h) PROVE UsedPortsHaveHolders'
    <2>1. cur[h].kind # "tcp"
        BY <1>18 DEF CleanupUnregisters, Named
    <2>2. \A g \in Handler \ {h} : cur'[g] = cur[g]
        BY <1>18 DEF TypeOK, CleanupUnregisters
    <2>3. QED
        BY <1>18, <2>1, <2>2 DEF UsedPortsHaveHolders, CleanupUnregisters
<1>19. ASSUME NEW h \in Handler, CleanupCloses(h) PROVE UsedPortsHaveHolders'
    BY <1>19 DEF TypeOK, Structure, UsedPortsHaveHolders, CleanupCloses, CloseListener
<1>20. ASSUME NEW h \in Handler, CleanupReleases(h) PROVE UsedPortsHaveHolders'
    <2>1. pool'.used = pool.used \ {cur[h].at}
        BY <1>20, ReleaseCorrect DEF TypeOK, CleanupReleases, ReleasePort
    <2>2. \A g \in Handler \ {h} : cur'[g] = cur[g]
        BY <1>20 DEF TypeOK, CleanupReleases
    <2>3. QED
        BY <1>20, <2>1, <2>2 DEF UsedPortsHaveHolders, CleanupReleases, ReleasePort
<1>21. ASSUME NEW h \in Handler, CleanupNextMap(h) PROVE UsedPortsHaveHolders'
    BY <1>21 DEF UsedPortsHaveHolders, CleanupNextMap, StageAfter
<1>22. ASSUME NEW h \in Handler, CleanupEnds(h) PROVE UsedPortsHaveHolders'
    BY <1>22 DEF UsedPortsHaveHolders, CleanupEnds
<1>23. ASSUME NEW h \in Handler, ReaderCleaned(h) PROVE UsedPortsHaveHolders'
    BY <1>23 DEF UsedPortsHaveHolders, ReaderCleaned
<1>24. ASSUME NEW h \in Handler, TimerCleaned(h) PROVE UsedPortsHaveHolders'
    BY <1>24 DEF UsedPortsHaveHolders, TimerCleaned
<1>25. ASSUME NEW h \in Handler, MapRaceIsFatal(h) PROVE UsedPortsHaveHolders'
    BY <1>25 DEF UsedPortsHaveHolders, MapRaceIsFatal
<1>26. QED
    BY <1>1, <1>2, <1>3, <1>4, <1>5, <1>6, <1>7, <1>8, <1>9, <1>10, <1>11, <1>12, <1>13,
       <1>14, <1>15, <1>16, <1>17, <1>18, <1>19, <1>20, <1>21, <1>22, <1>23, <1>24, <1>25
    DEF Next, Frame, ReaderStep, TimerStep, CleanupStep

(***************************************************************************)
(* Adding a tunnel to a finite set of tunnels, or removing one, changes    *)
(* the number of its owner's by one and nobody else's.                     *)
(***************************************************************************)
LEMMA CountAdd ==
    ASSUME NEW S, IsFiniteSet(S), NEW t, t \notin S, NEW g
    PROVE  /\ IsFiniteSet(S \cup {t})
           /\ Cardinality(TunnelsOf(S, g)) \in Nat
           /\ Cardinality(TunnelsOf(S \cup {t}, g)) =
                Cardinality(TunnelsOf(S, g)) + (IF t.owner = g THEN 1 ELSE 0)
<1> DEFINE Old == TunnelsOf(S, g)
           New == TunnelsOf(S \cup {t}, g)
<1>1. IsFiniteSet(Old) /\ Cardinality(Old) \in Nat
    BY FS_Subset, FS_CardinalityType, Old \subseteq S DEF TunnelsOf
<1>2. IsFiniteSet(S \cup {t})
    BY FS_AddElement
<1>3. CASE t.owner = g
    <2>1. New = Old \cup {t} /\ t \notin Old
        BY <1>3 DEF TunnelsOf
    <2>2. Cardinality(New) = Cardinality(Old) + 1
        BY <1>1, <2>1, FS_AddElement
    <2>3. QED
        BY <1>1, <1>2, <1>3, <2>2
<1>4. CASE t.owner # g
    <2>1. New = Old
        BY <1>4 DEF TunnelsOf
    <2>2. QED
        BY <1>1, <1>2, <1>4, <2>1
<1>5. QED
    BY <1>3, <1>4

LEMMA CountRemove ==
    ASSUME NEW S, IsFiniteSet(S), NEW t \in S, NEW g
    PROVE  /\ IsFiniteSet(S \ {t})
           /\ Cardinality(TunnelsOf(S, g)) \in Nat
           /\ Cardinality(TunnelsOf(S \ {t}, g)) =
                Cardinality(TunnelsOf(S, g)) - (IF t.owner = g THEN 1 ELSE 0)
<1>1. IsFiniteSet(S \ {t}) /\ t \notin S \ {t} /\ (S \ {t}) \cup {t} = S
    BY FS_RemoveElement
<1>2. /\ IsFiniteSet((S \ {t}) \cup {t})
      /\ Cardinality(TunnelsOf(S \ {t}, g)) \in Nat
      /\ Cardinality(TunnelsOf((S \ {t}) \cup {t}, g)) =
           Cardinality(TunnelsOf(S \ {t}, g)) + (IF t.owner = g THEN 1 ELSE 0)
    BY <1>1, CountAdd
<1>3. QED
    BY <1>1, <1>2

LEMMA CountStep == TypeOK /\ Structure /\ CountInv /\ [Next]_vars => CountInv'
<1> SUFFICES ASSUME TypeOK, Structure, CountInv, [Next]_vars PROVE CountInv'
    OBVIOUS
<1> USE DEF handlerVars, sharedVars
<1>1. CASE UNCHANGED vars
    BY <1>1 DEF TypeOK, CountInv, CountExact, vars
<1>2. ASSUME NEW h \in Handler, Connect(h) PROVE CountInv'
    BY <1>2 DEF TypeOK, CountInv, CountExact, Connect
<1>3. ASSUME NEW h \in Handler, ReadError(h) PROVE CountInv'
    BY <1>3 DEF TypeOK, CountInv, CountExact, ReadError
<1>4. ASSUME NEW h \in Handler, TimerFires(h) PROVE CountInv'
    BY <1>4 DEF TypeOK, CountInv, CountExact, TimerFires
<1>5. ASSUME NEW h \in Handler, AuthAccepted(h) PROVE CountInv'
    BY <1>5 DEF TypeOK, CountInv, CountExact, AuthAccepted, FrameArrives
<1>6. ASSUME NEW h \in Handler, AuthRejected(h) PROVE CountInv'
    BY <1>6 DEF TypeOK, CountInv, CountExact, AuthRejected, FrameArrives
<1>7. ASSUME NEW h \in Handler, CloseRequested(h) PROVE CountInv'
    BY <1>7 DEF TypeOK, CountInv, CountExact, CloseRequested, FrameArrives
<1>8. ASSUME NEW h \in Handler, NEW k \in Named, NEW s \in Sub, RegisterNamed(h, k, s)
      PROVE  CountInv'
    <2> DEFINE t == [id |-> ids + 1, kind |-> k, owner |-> h, at |-> s]
    <2>1. k \in Kind /\ s \in Sub \cup Ports
        BY <1>8 DEF Kind
    <2>2. t.owner = h /\ t \notin held
        BY <2>1, NewTunnel
    <2> HIDE DEF t
    <2>3. held' = held \cup {t} /\ count' = [count EXCEPT ![h] = @ + 1]
        BY <1>8 DEF RegisterNamed, Inserted, t
    <2>4. count[h] < MaxTunnels
        BY <1>8 DEF CountInv, RegisterNamed, FrameArrives
    <2>5. \A g \in Handler : count'[g] = count[g] + (IF g = h THEN 1 ELSE 0)
        BY <2>3 DEF TypeOK
    <2>6. \A g \in Handler : Cardinality(TunnelsOf(held, g)) \in Nat /\
                Cardinality(TunnelsOf(held \cup {t}, g)) =
                    Cardinality(TunnelsOf(held, g)) + (IF g = h THEN 1 ELSE 0)
        BY <2>2, CountAdd DEF CountInv
    <2>7. IsFiniteSet(held')
        BY <2>2, <2>3, CountAdd DEF CountInv
    <2>8. \A g \in Handler : reader'[g] = "listen" => reader[g] = "listen" /\ g # h
        BY <1>8 DEF TypeOK, RegisterNamed, FrameArrives
    <2>9. MaxTunnels \in Int /\ \A g \in Handler : count[g] \in Int
        BY ServerAssumption DEF TypeOK
    <2>10. CountExact'
        <3> SUFFICES ASSUME NEW g \in Handler
                     PROVE  count'[g] = Cardinality(TunnelsOf(held', g)) /\ count'[g] <= MaxTunnels
            BY DEF CountExact
        <3>1. count[g] = Cardinality(TunnelsOf(held, g)) /\ count[g] <= MaxTunnels
            BY DEF CountInv, CountExact
        <3>2. QED
            BY <2>3, <2>4, <2>5, <2>6, <2>9, <3>1
    <2>11. \A g \in Handler : reader'[g] = "listen" => count'[g] < MaxTunnels
        BY <2>5, <2>8, <2>9 DEF CountInv
    <2>12. QED
        BY <2>7, <2>10, <2>11 DEF CountInv
<1>9. ASSUME NEW h \in Handler, NEW t \in held, UnregisterRequested(h, t)
      PROVE  CountInv'
    <2>1. t.owner = h /\ reader[h] = "read" /\ held' = held \ {t}
        BY <1>9 DEF UnregisterRequested, Held, FrameArrives
    <2>2. \A g \in Handler : count'[g] = count[g] - (IF g = h THEN 1 ELSE 0)
        BY <1>9 DEF TypeOK, UnregisterRequested
    <2>3. \A g \in Handler : Cardinality(TunnelsOf(held, g)) \in Nat /\
                Cardinality(TunnelsOf(held \ {t}, g)) =
                    Cardinality(TunnelsOf(held, g)) - (IF g = h THEN 1 ELSE 0)
        BY <2>1, CountRemove DEF CountInv
    <2>4. IsFiniteSet(held')
        BY <2>1, CountRemove DEF CountInv
    <2>5. \A g \in Handler : reader'[g] = "listen" => reader[g] = "listen" /\ g # h
        BY <1>9 DEF TypeOK, UnregisterRequested
    <2>6. MaxTunnels \in Int /\ \A g \in Handler : count[g] \in Int
        BY ServerAssumption DEF TypeOK
    <2>7. CountExact'
        <3> SUFFICES ASSUME NEW g \in Handler
                     PROVE  count'[g] = Cardinality(TunnelsOf(held', g)) /\ count'[g] <= MaxTunnels
            BY DEF CountExact
        <3>1. count[g] = Cardinality(TunnelsOf(held, g)) /\ count[g] <= MaxTunnels
            BY DEF CountInv, CountExact
        <3>2. QED
            BY <2>1, <2>2, <2>3, <2>6, <3>1
    <2>8. \A g \in Handler : reader'[g] = "listen" => count'[g] < MaxTunnels
        BY <2>2, <2>5, <2>6 DEF CountInv
    <2>9. QED
        BY <2>4, <2>7, <2>8 DEF CountInv
<1>10. ASSUME NEW h \in Handler, UnregisterName(h) PROVE CountInv'
    BY <1>10 DEF TypeOK, CountInv, CountExact, UnregisterName, Unregister
<1>11. ASSUME NEW h \in Handler, NEW p \in Ports \cup {NoPort}, RegisterTCP(h, p)
      PROVE  CountInv'
    BY <1>11 DEF TypeOK, CountInv, CountExact, RegisterTCP, FrameArrives
<1>12. ASSUME NEW h \in Handler, ListenSucceeds(h) PROVE CountInv'
    <2> DEFINE t == [id |-> ids + 1, kind |-> "tcp", owner |-> h, at |-> port[h]]
    <2>1. "tcp" \in Kind /\ port[h] \in Sub \cup Ports
        BY <1>12 DEF Kind, TypeOK, ListenSucceeds
    <2>2. t.owner = h /\ t \notin held
        BY <2>1, NewTunnel
    <2> HIDE DEF t
    <2>3. held' = held \cup {t} /\ count' = [count EXCEPT ![h] = @ + 1]
        BY <1>12 DEF ListenSucceeds, Inserted, t
    <2>4. count[h] < MaxTunnels
        BY <1>12 DEF CountInv, ListenSucceeds
    <2>5. \A g \in Handler : count'[g] = count[g] + (IF g = h THEN 1 ELSE 0)
        BY <2>3 DEF TypeOK
    <2>6. \A g \in Handler : Cardinality(TunnelsOf(held, g)) \in Nat /\
                Cardinality(TunnelsOf(held \cup {t}, g)) =
                    Cardinality(TunnelsOf(held, g)) + (IF g = h THEN 1 ELSE 0)
        BY <2>2, CountAdd DEF CountInv
    <2>7. IsFiniteSet(held')
        BY <2>2, <2>3, CountAdd DEF CountInv
    <2>8. \A g \in Handler : reader'[g] = "listen" => reader[g] = "listen" /\ g # h
        BY <1>12 DEF TypeOK, ListenSucceeds
    <2>9. MaxTunnels \in Int /\ \A g \in Handler : count[g] \in Int
        BY ServerAssumption DEF TypeOK
    <2>10. CountExact'
        <3> SUFFICES ASSUME NEW g \in Handler
                     PROVE  count'[g] = Cardinality(TunnelsOf(held', g)) /\ count'[g] <= MaxTunnels
            BY DEF CountExact
        <3>1. count[g] = Cardinality(TunnelsOf(held, g)) /\ count[g] <= MaxTunnels
            BY DEF CountInv, CountExact
        <3>2. QED
            BY <2>3, <2>4, <2>5, <2>6, <2>9, <3>1
    <2>11. \A g \in Handler : reader'[g] = "listen" => count'[g] < MaxTunnels
        BY <2>5, <2>8, <2>9 DEF CountInv
    <2>12. QED
        BY <2>7, <2>10, <2>11 DEF CountInv
<1>13. ASSUME NEW h \in Handler, ListenFails(h) PROVE CountInv'
    BY <1>13 DEF TypeOK, CountInv, CountExact, ListenFails
<1>14. ASSUME NEW h \in Handler, UndoClose(h) PROVE CountInv'
    BY <1>14 DEF TypeOK, CountInv, CountExact, UndoClose, CloseListener
<1>15. ASSUME NEW h \in Handler, UndoRelease(h) PROVE CountInv'
    BY <1>15 DEF TypeOK, CountInv, CountExact, UndoRelease, ReleasePort
<1>16. ASSUME NEW h \in Handler, NEW who \in {"reader", "timer"}, CleanupStarts(h, who)
      PROVE  CountInv'
    BY <1>16 DEF TypeOK, CountInv, CountExact, CleanupStarts
<1>17. ASSUME NEW h \in Handler, NEW t \in todo[h], CleanupPicks(h, t) PROVE CountInv'
    BY <1>17 DEF TypeOK, CountInv, CountExact, CleanupPicks
<1>18. ASSUME NEW h \in Handler, CleanupUnregisters(h) PROVE CountInv'
    BY <1>18 DEF TypeOK, CountInv, CountExact, CleanupUnregisters, Unregister
<1>19. ASSUME NEW h \in Handler, CleanupCloses(h) PROVE CountInv'
    BY <1>19 DEF TypeOK, CountInv, CountExact, CleanupCloses, CloseListener
<1>20. ASSUME NEW h \in Handler, CleanupReleases(h) PROVE CountInv'
    BY <1>20 DEF TypeOK, CountInv, CountExact, CleanupReleases, ReleasePort
<1>21. ASSUME NEW h \in Handler, CleanupNextMap(h) PROVE CountInv'
    BY <1>21 DEF TypeOK, CountInv, CountExact, CleanupNextMap, StageAfter
<1>22. ASSUME NEW h \in Handler, CleanupEnds(h) PROVE CountInv'
    BY <1>22 DEF TypeOK, CountInv, CountExact, CleanupEnds
<1>23. ASSUME NEW h \in Handler, ReaderCleaned(h) PROVE CountInv'
    BY <1>23 DEF TypeOK, CountInv, CountExact, ReaderCleaned
<1>24. ASSUME NEW h \in Handler, TimerCleaned(h) PROVE CountInv'
    BY <1>24 DEF TypeOK, CountInv, CountExact, TimerCleaned
<1>25. ASSUME NEW h \in Handler, MapRaceIsFatal(h) PROVE CountInv'
    BY <1>25 DEF TypeOK, CountInv, CountExact, MapRaceIsFatal
<1>26. QED
    BY <1>1, <1>2, <1>3, <1>4, <1>5, <1>6, <1>7, <1>8, <1>9, <1>10, <1>11, <1>12, <1>13,
       <1>14, <1>15, <1>16, <1>17, <1>18, <1>19, <1>20, <1>21, <1>22, <1>23, <1>24, <1>25
    DEF Next, Frame, ReaderStep, TimerStep, CleanupStep

LEMMA PortsStep == TypeOK /\ Structure /\ PortsHeldOnce /\ [Next]_vars => PortsHeldOnce'
<1> SUFFICES ASSUME TypeOK, Structure, PortsHeldOnce, [Next]_vars PROVE PortsHeldOnce'
    OBVIOUS
<1> USE DEF handlerVars, sharedVars
<1>1. CASE UNCHANGED vars
    BY <1>1 DEF TypeOK, Structure, PortsHeldOnce, PortHolders, vars
<1>2. ASSUME NEW h \in Handler, Connect(h) PROVE PortsHeldOnce'
    BY <1>2 DEF TypeOK, Structure, PortsHeldOnce, PortHolders, Connect
<1>3. ASSUME NEW h \in Handler, ReadError(h) PROVE PortsHeldOnce'
    BY <1>3 DEF TypeOK, Structure, PortsHeldOnce, PortHolders, ReadError
<1>4. ASSUME NEW h \in Handler, TimerFires(h) PROVE PortsHeldOnce'
    BY <1>4 DEF TypeOK, Structure, PortsHeldOnce, PortHolders, TimerFires
<1>5. ASSUME NEW h \in Handler, AuthAccepted(h) PROVE PortsHeldOnce'
    BY <1>5
    DEF TypeOK, Structure, PortsHeldOnce, PortHolders, AuthAccepted, FrameArrives
<1>6. ASSUME NEW h \in Handler, AuthRejected(h) PROVE PortsHeldOnce'
    BY <1>6
    DEF TypeOK, Structure, PortsHeldOnce, PortHolders, AuthRejected, FrameArrives
<1>7. ASSUME NEW h \in Handler, CloseRequested(h) PROVE PortsHeldOnce'
    BY <1>7
    DEF TypeOK, Structure, PortsHeldOnce, PortHolders, CloseRequested, FrameArrives
<1>8. ASSUME NEW h \in Handler, NEW k \in Named, NEW s \in Sub, RegisterNamed(h, k, s)
      PROVE  PortsHeldOnce'
    <2> DEFINE t == [id |-> ids + 1, kind |-> k, owner |-> h, at |-> s]
    <2>1. t.kind = k /\ k # "tcp" /\ t.owner = h
        BY DEF Named
    <2>2. held' = held \cup {t}
          /\ (todo' = todo \/ (stage[h] = t.kind /\ todo' = [todo EXCEPT ![h] = @ \cup {t}]))
        BY <1>8 DEF RegisterNamed, Inserted
    <2> HIDE DEF t
    <2>3. \A g \in Handler : stage[g] = "tcp" => todo'[g] = todo[g]
        BY <2>1, <2>2 DEF TypeOK
    <2>4. UNCHANGED <<cur, listening, pool, port, stage, cleaner>>
        BY <1>8 DEF RegisterNamed
    <2>5. QED
        BY <2>1, <2>2, <2>3, <2>4 DEF PortsHeldOnce, PortHolders
<1>9. ASSUME NEW h \in Handler, NEW t \in held, UnregisterRequested(h, t)
      PROVE  PortsHeldOnce'
    <2>1. UNCHANGED <<listening, cur, stage, cleaner, pool, port>> /\ held' \subseteq held
        BY <1>9 DEF UnregisterRequested
    <2>2. \A g \in Handler : todo'[g] \subseteq todo[g]
        BY <1>9 DEF TypeOK, UnregisterRequested
    <2>3. PortHolders' = PortHolders
        BY <2>1 DEF PortHolders
    <2>4. QED
        BY <2>1, <2>2, <2>3 DEF PortsHeldOnce
<1>10. ASSUME NEW h \in Handler, UnregisterName(h) PROVE PortsHeldOnce'
    BY <1>10
    DEF TypeOK, Structure, PortsHeldOnce, PortHolders, UnregisterName, Unregister
<1>11. ASSUME NEW h \in Handler, NEW p \in Ports \cup {NoPort}, RegisterTCP(h, p)
      PROVE  PortsHeldOnce'
    <2>1. /\ port'[h] \notin pool.used
          /\ port' = [port EXCEPT ![h] = port'[h]]
          /\ pool'.used = pool.used \cup {port'[h]}
        BY <1>11, RegisterTCPPool
    <2>2. \A g \in Handler \ {h} : port'[g] = port[g]
        BY <2>1 DEF TypeOK
    <2>3. UNCHANGED <<cur, listening, held, todo, stage, cleaner>>
        BY <1>11 DEF RegisterTCP
    <2>4. UNCHANGED PortHolders
        BY <2>3 DEF PortHolders
    <2>5. CASE HostTooLong
        BY <2>5 DEF PortsHeldOnce
    <2>6. CASE ~HostTooLong
        <3>1. \A g \in Handler \ {h} : port'[g] # NoPort => port'[g] \in pool.used
            BY <2>2, <2>6 DEF PortsHeldOnce
        <3>2. \A t \in PortHolders : t.at \in pool.used
            BY <2>6 DEF PortsHeldOnce
        <3>3. port'[h] # NoPort
            BY <1>11, RegisterTCPPool, PortsPositive
        <3>4. \A t \in PortHolders, g \in Handler : port'[g] # t.at
            BY <2>1, <2>2, <2>6, <3>2 DEF PortsHeldOnce
        <3>5. \A g \in Handler : port'[g] # NoPort =>
                 port'[g] \in pool'.used /\ \A f \in Handler \ {g} : port'[f] # port'[g]
            BY <2>1, <2>2, <2>6, <3>1, <3>3 DEF PortsHeldOnce
        <3>6. QED
            BY <2>1, <2>3, <2>4, <2>6, <3>2, <3>4, <3>5 DEF PortsHeldOnce
    <2>7. QED
        BY <2>5, <2>6
<1>12. ASSUME NEW h \in Handler, ListenSucceeds(h) PROVE PortsHeldOnce'
    <2> DEFINE t == [id |-> ids + 1, kind |-> "tcp", owner |-> h, at |-> port[h]]
    <2>1. t.kind = "tcp" /\ t.owner = h /\ t.at = port[h]
        OBVIOUS
    <2>2. /\ listening' = listening \cup {t}
          /\ held' = held \cup {t}
          /\ (todo' = todo \/ todo' = [todo EXCEPT ![h] = @ \cup {t}])
        BY <1>12 DEF ListenSucceeds, Inserted
    <2> HIDE DEF t
    <2>3. port[h] # NoPort /\ port'[h] = NoPort /\ \A g \in Handler \ {h} : port'[g] = port[g]
        BY <1>12, PortsPositive DEF TypeOK, ListenSucceeds
    <2>4. UNCHANGED <<cur, pool, stage, cleaner>>
        BY <1>12 DEF ListenSucceeds
    <2>5. PortHolders' = PortHolders \cup {t}
        BY <2>2, <2>4 DEF PortHolders
    <2>6. CASE HostTooLong
        BY <2>6 DEF PortsHeldOnce
    <2>7. CASE ~HostTooLong
        <3>1. port[h] \in pool.used /\ \A u \in PortHolders : u.at # port[h] /\ u.at \in pool.used
            BY <2>3, <2>7 DEF PortsHeldOnce
        <3>2. \A u, v \in PortHolders' : u.at = v.at => u = v
            BY <2>1, <2>5, <2>7, <3>1 DEF PortsHeldOnce
        <3>3. NoPort \notin pool.used
            BY PortsPositive, pool.used \subseteq Ports DEF TypeOK, Pool
        <3>4. \A u \in PortHolders', g \in Handler : u.at \in pool'.used /\ port'[g] # u.at
            BY <2>1, <2>3, <2>4, <2>5, <2>7, <3>1, <3>3 DEF PortsHeldOnce
        <3>5. \A g \in Handler : port'[g] # NoPort =>
                 port'[g] \in pool'.used /\ \A f \in Handler \ {g} : port'[f] # port'[g]
            BY <2>3, <2>4, <2>7 DEF PortsHeldOnce
        <3>6. \A g \in Handler : stage'[g] = "tcp" => todo'[g] \subseteq listening'
            BY <2>2, <2>4, <2>7 DEF TypeOK, PortsHeldOnce
        <3>7. QED
            BY <2>2, <2>4, <2>7, <3>2, <3>4, <3>5, <3>6 DEF PortsHeldOnce
    <2>8. QED
        BY <2>6, <2>7
<1>13. ASSUME NEW h \in Handler, ListenFails(h) PROVE PortsHeldOnce'
    <2>1. pool'.used = pool.used \ {port[h]} /\ port[h] # NoPort
        BY <1>13, ReleaseCorrect, PortsPositive DEF TypeOK, ListenFails
    <2>2. port'[h] = NoPort /\ \A g \in Handler \ {h} : port'[g] = port[g]
        BY <1>13 DEF TypeOK, ListenFails
    <2>3. UNCHANGED <<cur, listening, held, todo, stage, cleaner>>
        BY <1>13 DEF ListenFails
    <2>4. UNCHANGED PortHolders
        BY <2>3 DEF PortHolders
    <2>5. NoPort \notin pool.used
        BY PortsPositive, pool.used \subseteq Ports DEF TypeOK, Pool
    <2>6. QED
        BY <2>1, <2>2, <2>3, <2>4, <2>5 DEF PortsHeldOnce
<1>14. ASSUME NEW h \in Handler, UndoClose(h) PROVE PortsHeldOnce'
    BY <1>14 DEF TypeOK, Structure, PortsHeldOnce, PortHolders, UndoClose, CloseListener
<1>15. ASSUME NEW h \in Handler, UndoRelease(h) PROVE PortsHeldOnce'
    BY <1>15 DEF TypeOK, Structure, PortsHeldOnce, PortHolders, UndoRelease, ReleasePort
<1>16. ASSUME NEW h \in Handler, NEW who \in {"reader", "timer"}, CleanupStarts(h, who)
      PROVE  PortsHeldOnce'
    BY <1>16 DEF TypeOK, Structure, PortsHeldOnce, PortHolders, CleanupStarts
<1>17. ASSUME NEW h \in Handler, NEW t \in todo[h], CleanupPicks(h, t)
      PROVE  PortsHeldOnce'
    BY <1>17 DEF TypeOK, Structure, PortsHeldOnce, PortHolders, CleanupPicks
<1>18. ASSUME NEW h \in Handler, CleanupUnregisters(h) PROVE PortsHeldOnce'
    BY <1>18
    DEF TypeOK, Structure, PortsHeldOnce, PortHolders, CleanupUnregisters, Unregister
<1>19. ASSUME NEW h \in Handler, CleanupCloses(h) PROVE PortsHeldOnce'
    BY <1>19
    DEF TypeOK, Structure, PortsHeldOnce, PortHolders, CleanupCloses, CloseListener
<1>20. ASSUME NEW h \in Handler, CleanupReleases(h) PROVE PortsHeldOnce'
    <2>1. pool'.used = pool.used \ {cur[h].at} /\ UNCHANGED <<listening, held, todo, stage, cleaner, port>>
        BY <1>20, ReleaseCorrect DEF TypeOK, CleanupReleases, ReleasePort
    <2>2. cur'[h] = NoTunnel /\ \A g \in Handler \ {h} : cur'[g] = cur[g]
        BY <1>20 DEF TypeOK, CleanupReleases
    <2>3. /\ cur[h] # NoTunnel /\ cur[h].kind = "tcp" /\ cur[h] \notin listening
          /\ \A g \in Handler \ {h} : cur[g] # NoTunnel => cur[g] # cur[h]
        BY <1>20 DEF Structure, CleanupReleases, ReleasePort
    <2>4. PortHolders' = PortHolders \ {cur[h]} /\ cur[h] \in PortHolders
        BY <2>1, <2>2, <2>3 DEF PortHolders
    <2>5. QED
        BY <2>1, <2>4 DEF PortsHeldOnce
<1>21. ASSUME NEW h \in Handler, CleanupNextMap(h) PROVE PortsHeldOnce'
    <2>1. UNCHANGED <<cur, listening, held, pool, port, cleaner>> /\ cleaner[h] # "none"
        BY <1>21 DEF Structure, CleanupNextMap
    <2>2. UNCHANGED PortHolders
        BY <2>1 DEF PortHolders
    <2>3. /\ stage'[h] # "http" /\ (stage'[h] = "tcp" => stage[h] = "http" /\ todo'[h] = Held(h, "tcp"))
          /\ \A g \in Handler \ {h} : stage'[g] = stage[g] /\ todo'[g] = todo[g]
        BY <1>21 DEF TypeOK, CleanupNextMap, StageAfter
    <2>4. \A t \in held : t.owner \in Handler
        BY DEF TypeOK, Tunnel
    <2>5. ASSUME ~HostTooLong PROVE \A g \in Handler : stage'[g] = "tcp" => todo'[g] \subseteq listening
        BY <2>3, <2>5 DEF PortsHeldOnce, Held
    <2>6. QED
        BY <2>1, <2>2, <2>3, <2>4, <2>5 DEF PortsHeldOnce
<1>22. ASSUME NEW h \in Handler, CleanupEnds(h) PROVE PortsHeldOnce'
    BY <1>22 DEF TypeOK, Structure, PortsHeldOnce, PortHolders, CleanupEnds
<1>23. ASSUME NEW h \in Handler, ReaderCleaned(h) PROVE PortsHeldOnce'
    BY <1>23 DEF TypeOK, Structure, PortsHeldOnce, PortHolders, ReaderCleaned
<1>24. ASSUME NEW h \in Handler, TimerCleaned(h) PROVE PortsHeldOnce'
    BY <1>24 DEF TypeOK, Structure, PortsHeldOnce, PortHolders, TimerCleaned
<1>25. ASSUME NEW h \in Handler, MapRaceIsFatal(h) PROVE PortsHeldOnce'
    BY <1>25 DEF TypeOK, Structure, PortsHeldOnce, PortHolders, MapRaceIsFatal
<1>26. QED
    BY <1>1, <1>2, <1>3, <1>4, <1>5, <1>6, <1>7, <1>8, <1>9, <1>10, <1>11, <1>12, <1>13,
       <1>14, <1>15, <1>16, <1>17, <1>18, <1>19, <1>20, <1>21, <1>22, <1>23, <1>24, <1>25
    DEF Next, Frame, ReaderStep, TimerStep, CleanupStep

-----------------------------------------------------------------------------
LEMMA InvInit ==
    Init => /\ TypeOK /\ Structure /\ RegistryBacked /\ NamesUnique
            /\ UsedPortsHaveHolders /\ CountInv /\ PortsHeldOnce
<1> SUFFICES ASSUME Init
             PROVE  /\ TypeOK /\ Structure /\ RegistryBacked /\ NamesUnique
                    /\ UsedPortsHaveHolders /\ CountInv /\ PortsHeldOnce
    OBVIOUS
<1>1. TypeOK /\ Structure
    BY TypeInit, StructureInit
<1>2. RegistryBacked /\ NamesUnique /\ UsedPortsHaveHolders
    BY DEF Init, RegistryBacked, NamesUnique, UsedPortsHaveHolders, NewPortAllocator
<1>3. CountInv
    <2>1. held = {} /\ \A h \in Handler : count[h] = 0 /\ reader[h] = "none"
        BY DEF Init
    <2>2. \A h \in Handler : TunnelsOf(held, h) = {}
        BY <2>1 DEF TunnelsOf
    <2>3. IsFiniteSet(held) /\ Cardinality({}) = 0
        BY <2>1, FS_EmptySet
    <2>4. CountExact
        BY <2>1, <2>2, <2>3, ServerAssumption DEF CountExact
    <2>5. QED
        BY <2>1, <2>3, <2>4 DEF CountInv
<1>4. PortsHeldOnce
    BY DEF Init, PortsHeldOnce, PortHolders
<1>5. QED
    BY <1>1, <1>2, <1>3, <1>4

(***************************************************************************)
(* Every registry entry belongs to a handler that can still remove it.     *)
(***************************************************************************)
THEOREM RegistryIsBacked == Spec => []RegistryBacked
BY InvInit, TypeStep, StructureStep, RegistryBackedStep, PTL DEF Spec

(***************************************************************************)
(* tunnelCount is exact and within the limit.                              *)
(***************************************************************************)
THEOREM CountIsExact == Spec => []CountExact
<1>1. CountInv => CountExact
    BY DEF CountInv
<1>2. QED
    BY <1>1, InvInit, TypeStep, StructureStep, CountStep, PTL DEF Spec

(***************************************************************************)
(* No public port is given to two tunnels, and none is bound while it is   *)
(* free in the allocator.                                                  *)
(***************************************************************************)
THEOREM PortsAreExclusive == Spec => []PortsExclusive
<1>1. PortsHeldOnce => PortsExclusive
    BY DEF PortsHeldOnce, PortsExclusive, PortHolders
<1>2. QED
    BY <1>1, InvInit, TypeStep, StructureStep, PortsStep, PTL DEF Spec

(***************************************************************************)
(* No port stays in use without a holder.                                  *)
(***************************************************************************)
THEOREM NoPortIsLost == Spec => []UsedPortsHaveHolders
BY InvInit, TypeStep, StructureStep, UsedPortsStep, PTL DEF Spec

-----------------------------------------------------------------------------
(***************************************************************************)
(* A handler that has acted on a late frame stays one that has.            *)
(***************************************************************************)
LEMMA LateStays ==
    ASSUME TypeOK, [Next]_vars
    PROVE  \A h \in Handler : late'[h] = 0 => late[h] = 0
<1> USE DEF handlerVars, sharedVars
<1>1. CASE UNCHANGED vars
    BY <1>1 DEF vars
<1>2. ASSUME NEW h \in Handler, CountLate(h) \/ UNCHANGED late
      PROVE  \A g \in Handler : late'[g] = 0 => late[g] = 0
    BY <1>2 DEF TypeOK, CountLate
<1>3. ASSUME NEW h \in Handler, ListenSucceeds(h) PROVE \A g \in Handler : late'[g] = 0 => late[g] = 0
    BY <1>3 DEF TypeOK, ListenSucceeds
<1>4. ASSUME NEW h \in Handler,
             \/ Connect(h) \/ ReadError(h) \/ Frame(h) \/ TimerStep(h) \/ CleanupStep(h)
             \/ UnregisterName(h) \/ ListenFails(h) \/ UndoClose(h) \/ UndoRelease(h)
             \/ CleanupStarts(h, "reader") \/ ReaderCleaned(h)
      PROVE  CountLate(h) \/ UNCHANGED late
    BY <1>4 DEF Connect, ReadError, TimerStep, CleanupStep, TimerFires, CleanupStarts, TimerCleaned,
                Frame, AuthAccepted, AuthRejected, CloseRequested, RegisterNamed,
                UnregisterRequested, RegisterTCP, MapRaceIsFatal,
                CleanupPicks, CleanupUnregisters, CleanupCloses, CleanupReleases, CleanupNextMap,
                CleanupEnds, UnregisterName, ListenFails, UndoClose, UndoRelease, ReaderCleaned
<1>5. QED
    BY <1>1, <1>2, <1>3, <1>4 DEF Next, ReaderStep

(***************************************************************************)
(* What cleanup has passed stays released, while its handler acts on no    *)
(* late frame: a name it freed can be taken by another handler's tunnel    *)
(* only, and no entry is put back.                                         *)
(***************************************************************************)
LEMMA PassedReleasedStep ==
    TypeOK /\ Structure /\ PassedReleased /\ [Next]_vars => PassedReleased'
<1> SUFFICES ASSUME TypeOK, Structure, PassedReleased, [Next]_vars,
                    NEW u \in held', late'[u.owner] = 0, Passed(u)'
             PROVE  u \notin registry' \cup listening'
    BY DEF PassedReleased
<1> USE DEF handlerVars, sharedVars
<1>1. held \subseteq Tunnel /\ \A t \in Tunnel : t.owner \in Handler /\ t.kind \in Kind
    BY DEF TypeOK, Tunnel
<1>2. held' \subseteq Tunnel
    BY TypeStep DEF TypeOK
<1>3. late[u.owner] = 0
    BY <1>1, <1>2, LateStays
<1>4. registry' \subseteq registry /\ listening' \subseteq listening /\ u \in held /\ Passed(u)
      => u \notin registry' \cup listening'
    BY <1>3 DEF PassedReleased
<1>5. CASE UNCHANGED vars
    BY <1>4, <1>5 DEF vars, Passed
<1>6. ASSUME NEW h \in Handler,
             \/ Connect(h) \/ ReadError(h) \/ TimerFires(h) \/ AuthAccepted(h) \/ AuthRejected(h)
             \/ CloseRequested(h) \/ ListenFails(h) \/ UndoClose(h) \/ UndoRelease(h)
             \/ ReaderCleaned(h) \/ TimerCleaned(h) \/ MapRaceIsFatal(h) \/ UnregisterName(h)
             \/ \E p \in Ports \cup {NoPort} : RegisterTCP(h, p)
      PROVE  u \notin registry' \cup listening'
    BY <1>4, <1>6
    DEF Passed, Connect, ReadError, TimerFires, AuthAccepted, AuthRejected, CloseRequested,
        ListenFails, UndoClose, UndoRelease, CloseListener, ReleasePort, ReaderCleaned,
        TimerCleaned, MapRaceIsFatal, UnregisterName, Unregister, RegisterTCP
<1>7. ASSUME NEW h \in Handler, NEW k \in Named, NEW s \in Sub, RegisterNamed(h, k, s)
      PROVE  u \notin registry' \cup listening'
    <2> DEFINE t == [id |-> ids + 1, kind |-> k, owner |-> h, at |-> s]
    <2>1. t.owner = h /\ t \notin held
        BY <1>7, NewTunnel DEF Kind
    <2> HIDE DEF t
    <2>2. /\ held' = held \cup {t} /\ registry' = registry \cup {t}
          /\ \A g \in Handler : todo[g] \subseteq todo'[g]
          /\ UNCHANGED <<cleaner, stage, cur, listening>>
        BY <1>7 DEF TypeOK, RegisterNamed, Inserted, t
    <2>3. cleaner[h] # "none" => late'[h] # 0
        BY <1>7 DEF TypeOK, RegisterNamed, CountLate
    <2>4. u # t /\ u \in held
        BY <2>1, <2>2, <2>3 DEF Passed
    <2>5. Passed(u)
        BY <1>1, <2>2, <2>4 DEF Passed
    <2>6. QED
        BY <1>3, <2>2, <2>4, <2>5 DEF PassedReleased
<1>8. ASSUME NEW h \in Handler, ListenSucceeds(h) PROVE u \notin registry' \cup listening'
    <2> DEFINE t == [id |-> ids + 1, kind |-> "tcp", owner |-> h, at |-> port[h]]
    <2>1. t.owner = h /\ t \notin held
        <3>1. "tcp" \in Kind /\ port[h] \in Sub \cup Ports
            BY <1>8 DEF Kind, TypeOK, ListenSucceeds
        <3>2. QED
            BY <3>1, NewTunnel
    <2> HIDE DEF t
    <2>2. /\ held' = held \cup {t} /\ listening' = listening \cup {t}
          /\ \A g \in Handler : todo[g] \subseteq todo'[g]
          /\ UNCHANGED <<cleaner, stage, cur, registry>>
        BY <1>8 DEF TypeOK, ListenSucceeds, Inserted, t
    <2>3. cleaner[h] # "none" => late'[h] # 0
        BY <1>8 DEF TypeOK, ListenSucceeds
    <2>4. u # t /\ u \in held
        BY <2>1, <2>2, <2>3 DEF Passed
    <2>5. Passed(u)
        BY <1>1, <2>2, <2>4 DEF Passed
    <2>6. QED
        BY <1>3, <2>2, <2>4, <2>5 DEF PassedReleased
<1>9. ASSUME NEW h \in Handler, NEW t \in held, UnregisterRequested(h, t)
      PROVE  u \notin registry' \cup listening'
    BY <1>1, <1>4, <1>9 DEF TypeOK, Passed, UnregisterRequested
<1>10. ASSUME NEW h \in Handler, NEW who \in {"reader", "timer"}, CleanupStarts(h, who)
       PROVE  u \notin registry' \cup listening'
    <2>1. /\ cleaner[h] = "none" /\ UNCHANGED <<held, registry, listening, cur>>
          /\ stage'[h] = "http" /\ todo'[h] = Held(h, "http")
          /\ \A g \in Handler \ {h} : cleaner'[g] = cleaner[g] /\ stage'[g] = stage[g] /\ todo'[g] = todo[g]
        BY <1>10 DEF TypeOK, CleanupStarts
    <2>2. u.kind \in Kind /\ u.owner \in Handler
        BY <1>1, <2>1
    <2>3. CASE u.owner = h
        <3>1. StageOf(u.kind) <= StageOf("http")
            BY <2>1, <2>3 DEF Passed
        <3>2. u.kind = "http"
            BY <2>2, <3>1 DEF StageOf, Kind, Named
        <3>3. QED
            BY <2>1, <2>3, <3>2 DEF Passed, Held
    <2>4. CASE u.owner # h
        BY <1>4, <2>1, <2>2, <2>4 DEF Passed
    <2>5. QED
        BY <2>3, <2>4
<1>11. ASSUME NEW h \in Handler, NEW t \in todo[h], CleanupPicks(h, t)
       PROVE  u \notin registry' \cup listening'
    BY <1>1, <1>4, <1>11, NoTunnelAssumption DEF TypeOK, Passed, CleanupPicks
<1>12. ASSUME NEW h \in Handler, CleanupUnregisters(h) PROVE u \notin registry' \cup listening'
    <2>1. CASE u = cur[h]
        BY <1>12, <2>1 DEF Structure, Named, CleanupUnregisters, Unregister
    <2>2. CASE u # cur[h]
        BY <1>1, <1>4, <1>12, <2>2 DEF TypeOK, Passed, CleanupUnregisters, Unregister
    <2>3. QED
        BY <2>1, <2>2
<1>13. ASSUME NEW h \in Handler, CleanupCloses(h) PROVE u \notin registry' \cup listening'
    BY <1>4, <1>13 DEF Passed, CleanupCloses, CloseListener
<1>14. ASSUME NEW h \in Handler, CleanupReleases(h) PROVE u \notin registry' \cup listening'
    <2>1. CASE u = cur[h]
        BY <1>14, <2>1 DEF Structure, Named, CleanupReleases, ReleasePort
    <2>2. CASE u # cur[h]
        BY <1>1, <1>4, <1>14, <2>2 DEF TypeOK, Passed, CleanupReleases, ReleasePort
    <2>3. QED
        BY <2>1, <2>2
<1>15. ASSUME NEW h \in Handler, CleanupNextMap(h) PROVE u \notin registry' \cup listening'
    <2>1. /\ stage[h] \in Kind /\ UNCHANGED <<held, registry, listening, cur, cleaner>>
          /\ cur[h] = NoTunnel /\ todo[h] = {}
          /\ stage'[h] = StageAfter(stage[h]) /\ todo'[h] = Held(h, StageAfter(stage[h]))
          /\ \A g \in Handler \ {h} : stage'[g] = stage[g] /\ todo'[g] = todo[g]
        BY <1>15 DEF TypeOK, CleanupNextMap
    <2>2. u \in held /\ u.kind \in Kind /\ u.owner \in Handler /\ u # NoTunnel
        BY <1>1, <2>1, NoTunnelAssumption
    <2>3. CASE u.owner = h
        <3>1. StageOf(u.kind) <= StageOf(StageAfter(stage[h])) /\ u.kind # StageAfter(stage[h])
            BY <2>1, <2>2, <2>3 DEF Passed, Held
        <3>2. StageOf(u.kind) <= StageOf(stage[h])
            BY <2>1, <2>2, <3>1 DEF StageOf, StageAfter, Kind, Named
        <3>3. QED
            BY <1>4, <2>1, <2>2, <2>3, <3>2 DEF Passed
    <2>4. CASE u.owner # h
        BY <1>4, <2>1, <2>2, <2>4 DEF Passed
    <2>5. QED
        BY <2>3, <2>4
<1>16. ASSUME NEW h \in Handler, CleanupEnds(h) PROVE u \notin registry' \cup listening'
    BY <1>1, <1>4, <1>16 DEF TypeOK, Passed, CleanupEnds
<1>17. QED
    BY <1>5, <1>6, <1>7, <1>8, <1>9, <1>10, <1>11, <1>12, <1>13, <1>14, <1>15, <1>16
    DEF Next, Frame, ReaderStep, TimerStep, CleanupStep

(***************************************************************************)
(* An entry cleanup has not come to keeps its route: Unregister, which     *)
(* deletes by name, is called only for a name that leads to the caller's   *)
(* own entry.                                                              *)
(***************************************************************************)
LEMMA NotPassedRoutedStep ==
    /\ TypeOK /\ Structure /\ NamesUnique /\ NotPassedRouted /\ [Next]_vars
    => NotPassedRouted'
<1> SUFFICES ASSUME TypeOK, Structure, NamesUnique, NotPassedRouted, [Next]_vars,
                    \A g \in Handler : late'[g] = 0
             PROVE  /\ \A t \in held' : t.kind \in Named /\ ~Passed(t)' => t \in registry'
                    /\ \A g \in Handler : reader'[g] = "unregister" => act'[g] \in registry' \ held' /\ act'[g].id <= ids'
                    /\ \A g \in Handler : cur'[g] # NoTunnel => cur'[g] \in held'
    BY DEF NotPassedRouted
<1> USE DEF handlerVars, sharedVars
<1> DEFINE Goal == /\ \A t \in held' : t.kind \in Named /\ ~Passed(t)' => t \in registry'
                   /\ \A g \in Handler : reader'[g] = "unregister" => act'[g] \in registry' \ held' /\ act'[g].id <= ids'
                   /\ \A g \in Handler : cur'[g] # NoTunnel => cur'[g] \in held'
<1>1. held \subseteq Tunnel /\ \A t \in Tunnel : t.owner \in Handler /\ t.kind \in Kind
    BY DEF TypeOK, Tunnel
<1>2. /\ \A t \in held : t.kind \in Named /\ ~Passed(t) => t \in registry
      /\ \A g \in Handler : reader[g] = "unregister" => act[g] \in registry \ held /\ act[g].id <= ids
      /\ \A g \in Handler : cur[g] # NoTunnel => cur[g] \in held
    BY LateStays DEF NotPassedRouted
<1>3. CASE UNCHANGED vars
    BY <1>2, <1>3 DEF vars, Passed
<1>4. ASSUME NEW h \in Handler,
             \/ Connect(h) \/ ReadError(h) \/ TimerFires(h) \/ AuthAccepted(h) \/ AuthRejected(h)
             \/ CloseRequested(h) \/ ListenFails(h) \/ UndoClose(h) \/ UndoRelease(h)
             \/ ReaderCleaned(h) \/ TimerCleaned(h) \/ MapRaceIsFatal(h)
             \/ CleanupCloses(h)
             \/ \E p \in Ports \cup {NoPort} : RegisterTCP(h, p)
      PROVE  Goal
    <2>1. /\ UNCHANGED <<held, registry, cleaner, stage, todo, cur, ids>>
          /\ \A g \in Handler : reader'[g] = "unregister" => reader[g] = "unregister" /\ act'[g] = act[g]
        BY <1>4
        DEF TypeOK, Connect, ReadError, TimerFires, AuthAccepted, AuthRejected, CloseRequested,
            ListenFails, UndoClose, UndoRelease, ReaderCleaned, TimerCleaned, MapRaceIsFatal,
            RegisterTCP, CleanupCloses
    <2>2. QED
        BY <1>2, <2>1 DEF Passed
<1>5. ASSUME NEW h \in Handler, NEW k \in Named, NEW s \in Sub, RegisterNamed(h, k, s) PROVE Goal
    <2> DEFINE t == [id |-> ids + 1, kind |-> k, owner |-> h, at |-> s]
    <2>1. t.owner = h /\ t.id = ids + 1 /\ ids \in Nat
        BY DEF TypeOK
    <2> HIDE DEF t
    <2>2. /\ held' = held \cup {t} /\ registry' = registry \cup {t} /\ ids' = ids + 1
          /\ UNCHANGED <<cleaner, stage, cur, reader, act>>
        BY <1>5 DEF RegisterNamed, Inserted, t
    <2>3. cleaner[h] = "none" /\ UNCHANGED todo
        BY <1>5 DEF TypeOK, RegisterNamed, Inserted, CountLate
    <2>4. \A u \in held' : u.kind \in Named /\ ~Passed(u)' => u \in registry'
        BY <1>2, <2>2, <2>3 DEF Passed
    <2>5. \A g \in Handler : reader'[g] = "unregister" => act'[g] \in registry' \ held' /\ act'[g].id <= ids'
        <3> SUFFICES ASSUME NEW g \in Handler, reader'[g] = "unregister"
                     PROVE  act'[g] \in registry' \ held' /\ act'[g].id <= ids'
            OBVIOUS
        <3>1. act[g] \in Tunnel /\ act[g] \in registry \ held /\ act[g].id <= ids
            BY <1>2, <2>2 DEF TypeOK
        <3>2. QED
            BY <2>1, <2>2, <3>1 DEF Tunnel
    <2>6. QED
        BY <1>2, <2>2, <2>4, <2>5
<1>6. ASSUME NEW h \in Handler, ListenSucceeds(h) PROVE Goal
    <2> DEFINE t == [id |-> ids + 1, kind |-> "tcp", owner |-> h, at |-> port[h]]
    <2>1. t.owner = h /\ t.kind \notin Named /\ t.id = ids + 1 /\ ids \in Nat
        BY DEF TypeOK, Named
    <2> HIDE DEF t
    <2>2. /\ held' = held \cup {t} /\ ids' = ids + 1
          /\ UNCHANGED <<registry, cleaner, stage, cur>>
          /\ \A g \in Handler : reader'[g] = "unregister" => reader[g] = "unregister" /\ act'[g] = act[g]
        BY <1>6 DEF TypeOK, ListenSucceeds, Inserted, t
    <2>3. cleaner[h] = "none" /\ UNCHANGED todo
        BY <1>6 DEF TypeOK, ListenSucceeds, Inserted
    <2>4. \A u \in held' : u.kind \in Named /\ ~Passed(u)' => u \in registry'
        BY <1>2, <2>1, <2>2, <2>3 DEF Passed
    <2>5. \A g \in Handler : reader'[g] = "unregister" => act'[g] \in registry' \ held' /\ act'[g].id <= ids'
        <3> SUFFICES ASSUME NEW g \in Handler, reader'[g] = "unregister"
                     PROVE  act'[g] \in registry' \ held' /\ act'[g].id <= ids'
            OBVIOUS
        <3>1. act'[g] \in Tunnel /\ act'[g] \in registry \ held /\ act'[g].id <= ids
            BY <1>2, <2>2 DEF TypeOK
        <3>2. QED
            BY <2>1, <2>2, <3>1 DEF Tunnel
    <2>6. QED
        BY <1>2, <2>2, <2>4, <2>5
<1>7. ASSUME NEW h \in Handler, NEW t \in held, UnregisterRequested(h, t) PROVE Goal
    <2>1. /\ t.owner = h /\ t.kind \in Named /\ cleaner[h] = "none"
          /\ held' = held \ {t} /\ UNCHANGED <<registry, cleaner, stage, cur, ids>>
          /\ todo'[h] = todo[h] \ {t} /\ act'[h] = t
          /\ \A g \in Handler \ {h} : todo'[g] = todo[g] /\ act'[g] = act[g] /\ reader'[g] = reader[g]
        BY <1>7 DEF TypeOK, UnregisterRequested, Held, CountLate, Named
    <2>2. t \in registry
        BY <1>2, <2>1 DEF Passed
    <2>3. \A u \in held' : u.kind \in Named /\ ~Passed(u)' => u \in registry'
        BY <1>1, <1>2, <2>1 DEF Passed
    <2>4. \A g \in Handler : reader'[g] = "unregister" => act'[g] \in registry' \ held' /\ act'[g].id <= ids'
        BY <1>2, <2>1, <2>2 DEF Structure
    <2>5. \A g \in Handler : cur[g] # NoTunnel => cur[g] \in held'
        <3> SUFFICES ASSUME NEW g \in Handler, cur[g] # NoTunnel PROVE cur[g] \in held'
            OBVIOUS
        <3>1. cur[g] # t
            BY <2>1, NothingInHand DEF Structure
        <3>2. QED
            BY <1>2, <2>1, <3>1
    <2>6. QED
        BY <2>1, <2>3, <2>4, <2>5
<1>8. ASSUME NEW h \in Handler, UnregisterName(h) PROVE Goal
    <2>1. /\ registry' = {t \in registry : ~(t.kind = "http" /\ t.at = act[h].at)}
          /\ UNCHANGED <<held, cleaner, stage, todo, cur, ids>>
          /\ reader[h] = "unregister" /\ reader'[h] = "read"
          /\ \A g \in Handler \ {h} : act'[g] = act[g] /\ reader'[g] = reader[g]
        BY <1>8 DEF TypeOK, UnregisterName, Unregister
    <2>2. act[h] \in registry \ held /\ act[h].kind = "http" /\ act[h].owner = h
        BY <1>2, <2>1 DEF Structure
    <2>3. registry' = registry \ {act[h]}
        BY <2>1, <2>2 DEF NamesUnique
    <2>4. \A g \in Handler \ {h} : reader[g] = "unregister" => act[g] # act[h]
        BY <2>2 DEF Structure
    <2>5. QED
        BY <1>2, <2>1, <2>2, <2>3, <2>4 DEF Passed
<1>9. ASSUME NEW h \in Handler, NEW who \in {"reader", "timer"}, CleanupStarts(h, who) PROVE Goal
    <2>1. /\ cleaner[h] = "none" /\ UNCHANGED <<held, registry, cur, reader, act, ids>>
          /\ \A g \in Handler \ {h} : cleaner'[g] = cleaner[g] /\ stage'[g] = stage[g] /\ todo'[g] = todo[g]
        BY <1>9 DEF TypeOK, CleanupStarts
    <2>2. \A t \in held : ~Passed(t)' => ~Passed(t)
        BY <1>1, <2>1 DEF Passed
    <2>3. QED
        BY <1>2, <2>1, <2>2
<1>10. ASSUME NEW h \in Handler, NEW t \in todo[h], CleanupPicks(h, t) PROVE Goal
    <2>1. /\ UNCHANGED <<held, registry, reader, act, cleaner, stage, ids>>
          /\ cur'[h] = t /\ todo'[h] = todo[h] \ {t}
          /\ \A g \in Handler \ {h} : cur'[g] = cur[g] /\ todo'[g] = todo[g]
        BY <1>10 DEF TypeOK, CleanupPicks
    <2>2. \A u \in held : ~Passed(u)' => ~Passed(u)
        BY <1>1, <2>1 DEF Passed
    <2>3. t \in held
        BY DEF Structure
    <2>4. QED
        BY <1>2, <2>1, <2>2, <2>3
<1>11. ASSUME NEW h \in Handler, CleanupUnregisters(h) PROVE Goal
    <2>1. /\ registry' = {t \in registry : ~(t.kind = cur[h].kind /\ t.at = cur[h].at)}
          /\ UNCHANGED <<held, cleaner, stage, todo, reader, act, ids>>
          /\ cur[h] # NoTunnel /\ cur[h].kind \in Named /\ cur'[h] = NoTunnel
          /\ \A g \in Handler \ {h} : cur'[g] = cur[g]
        BY <1>11 DEF TypeOK, CleanupUnregisters, Unregister
    <2>2. cur[h] \in held /\ cur[h].owner = h /\ cur[h].kind = stage[h] /\ cur[h] \notin todo[h]
        BY <1>2, <2>1 DEF Structure
    <2>3. cur[h] \in registry
        BY <1>2, <2>1, <2>2 DEF Passed
    <2>4. registry' = registry \ {cur[h]}
        BY <2>1, <2>3 DEF NamesUnique
    <2>5. ASSUME NEW u \in held, ~Passed(u)' PROVE ~Passed(u) /\ u # cur[h]
        <3>1. u \in Tunnel /\ u # NoTunnel /\ u.owner \in Handler
            BY <1>1, NoTunnelAssumption
        <3>2. ~Passed(u)
            BY <2>1, <2>5, <3>1 DEF Passed
        <3>3. cleaner[h] # "none"
            BY <2>1, NothingInHand
        <3>4. u = cur[h] => Passed(u)'
            <4>1. u = cur[h] => StageOf(u.kind) <= StageOf(stage[h])
                BY <2>2 DEF StageOf
            <4>2. QED
                BY <2>1, <2>2, <3>1, <3>3, <4>1 DEF Passed
        <3>5. QED
            BY <2>5, <3>2, <3>4
    <2>6. QED
        BY <1>2, <2>1, <2>2, <2>4, <2>5
<1>12. ASSUME NEW h \in Handler, CleanupReleases(h) PROVE Goal
    <2>1. /\ UNCHANGED <<held, registry, cleaner, stage, todo, reader, act, ids>>
          /\ cur'[h] = NoTunnel
          /\ \A g \in Handler \ {h} : cur'[g] = cur[g]
        BY <1>12 DEF TypeOK, CleanupReleases
    <2>2. \A u \in held : ~Passed(u)' => ~Passed(u)
        BY <1>1, <2>1, NoTunnelAssumption DEF Passed
    <2>3. QED
        BY <1>2, <2>1, <2>2
<1>13. ASSUME NEW h \in Handler, CleanupNextMap(h) PROVE Goal
    <2>1. /\ stage[h] \in Kind /\ UNCHANGED <<held, registry, cur, cleaner, reader, act, ids>>
          /\ stage'[h] = StageAfter(stage[h]) /\ todo'[h] = Held(h, StageAfter(stage[h]))
          /\ \A g \in Handler \ {h} : stage'[g] = stage[g] /\ todo'[g] = todo[g]
        BY <1>13 DEF TypeOK, CleanupNextMap
    <2>2. ASSUME NEW u \in held, ~Passed(u)' PROVE ~Passed(u)
        <3>1. u.kind \in Kind /\ u.owner \in Handler
            BY <1>1
        <3>2. CASE u.owner = h
            <4>1. StageOf(u.kind) <= StageOf(stage[h])
                  => StageOf(u.kind) <= StageOf(StageAfter(stage[h])) /\ u.kind # StageAfter(stage[h])
                BY <2>1, <3>1 DEF StageOf, StageAfter, Kind, Named
            <4>2. QED
                BY <2>1, <2>2, <3>2, <4>1 DEF Passed, Held
        <3>3. CASE u.owner # h
            BY <2>1, <2>2, <3>1, <3>3 DEF Passed
        <3>4. QED
            BY <3>2, <3>3
    <2>3. QED
        BY <1>2, <2>1, <2>2
<1>14. ASSUME NEW h \in Handler, CleanupEnds(h) PROVE Goal
    <2>1. /\ UNCHANGED <<held, registry, cur, stage, todo, reader, act, ids>>
          /\ cleaner[h] # "none" /\ cleaner'[h] # "none"
          /\ \A g \in Handler \ {h} : cleaner'[g] = cleaner[g]
        BY <1>14 DEF TypeOK, CleanupEnds
    <2>2. \A u \in held : ~Passed(u)' => ~Passed(u)
        BY <1>1, <2>1 DEF Passed
    <2>3. QED
        BY <1>2, <2>1, <2>2
<1>15. QED
    BY <1>3, <1>4, <1>5, <1>6, <1>7, <1>8, <1>9, <1>10, <1>11, <1>12, <1>13, <1>14
    DEF Next, Frame, ReaderStep, TimerStep, CleanupStep
(***************************************************************************)
(* Cleanup misses nothing: what a connection has registered before its     *)
(* cleanup began is gone when cleanup is done, in whichever goroutine it   *)
(* ran and whatever the other connections did meanwhile.                   *)
(***************************************************************************)
THEOREM CleanupIsComplete == Spec => []CleanupReleasesAll
<1>1. Init => PassedReleased
    BY DEF Init, PassedReleased
<1>2. TypeOK /\ Structure /\ RegistryBacked /\ PassedReleased => CleanupReleasesAll
    <2> SUFFICES ASSUME TypeOK, Structure, RegistryBacked, PassedReleased,
                        NEW h \in Handler, cleaner[h] = "done", late[h] = 0, reader[h] # "unregister",
                        NEW t \in registry \cup listening, t.owner = h
                 PROVE  FALSE
        BY DEF CleanupReleasesAll, Owned, TunnelsOf
    <2>1. stage[h] = "last" /\ cur[h] = NoTunnel /\ todo[h] = {}
        BY NothingInHand
    <2>2. t \in held
        <3>1. CASE t \in listening
            BY <3>1 DEF Structure
        <3>2. CASE t \in registry
            <4>1. act[h] = t => t = NoTunnel \/ t.kind = "tcp"
                BY DEF Structure
            <4>2. t # NoTunnel /\ t.kind # "tcp"
                BY <3>2, NoTunnelAssumption DEF TypeOK, Structure, Named
            <4>3. QED
                BY <3>2, <4>1, <4>2 DEF RegistryBacked
        <3>3. QED
            BY <3>1, <3>2
    <2>3. t \in Tunnel /\ t # NoTunnel /\ t.kind \in Kind
        BY <2>2, NoTunnelAssumption DEF TypeOK, Tunnel
    <2>4. StageOf(t.kind) <= StageOf("last")
        BY <2>3 DEF StageOf, Kind, Named
    <2>5. Passed(t)
        BY <2>1, <2>3, <2>4 DEF Passed
    <2>6. QED
        BY <2>2, <2>5 DEF PassedReleased
<1>3. QED
    BY <1>1, <1>2, InvInit, TypeStep, StructureStep, RegistryBackedStep, PassedReleasedStep, PTL
    DEF Spec

(***************************************************************************)
(* A live connection's names lead to it.                                   *)
(***************************************************************************)
THEOREM RoutesAreKept == Spec => []RoutesKept
<1>1. Init => NotPassedRouted
    BY DEF Init, NotPassedRouted
<1>2. NotPassedRouted => RoutesKept
    BY DEF NotPassedRouted, RoutesKept, Passed
<1>3. QED
    BY <1>1, <1>2, InvInit, TypeStep, StructureStep, NamesUniqueStep, NotPassedRoutedStep, PTL
    DEF Spec

-----------------------------------------------------------------------------
(***************************************************************************)
(* Handler h has port p: it is registering it, or has a tunnel that holds  *)
(* it.                                                                     *)
(***************************************************************************)
Has(h, p) == port[h] = p \/ \E t \in PortHolders : t.at = p /\ t.owner = h

\* Who has what, when no port is released twice.
LeaseInv == TypeOK /\ Structure /\ PortsHeldOnce /\ UsedPortsHaveHolders /\ ~HostTooLong

(***************************************************************************)
(* The tenant of a port is the one handler that has it, and a port without *)
(* one is free in the allocator.                                           *)
(***************************************************************************)
TenantsRight ==
    \A p \in Ports :
        /\ \A h \in Handler : Has(h, p) => TenantOf(p) = h
        /\ (\A h \in Handler : ~Has(h, p)) => TenantOf(p) = NoTunnel
        /\ p \in pool.used <=> \E h \in Handler : Has(h, p)

LEMMA TenantHas == LeaseInv => TenantsRight
<1> SUFFICES ASSUME LeaseInv, NEW p \in Ports
             PROVE  /\ \A h \in Handler : Has(h, p) => TenantOf(p) = h
                    /\ (\A h \in Handler : ~Has(h, p)) => TenantOf(p) = NoTunnel
                    /\ p \in pool.used <=> \E h \in Handler : Has(h, p)
    BY DEF TenantsRight
<1>1. p # NoPort
    BY PortsPositive
<1>2. \A t \in PortHolders : t.owner \in Handler
    BY DEF LeaseInv, TypeOK, PortHolders, Tunnel
<1>3. ASSUME NEW h \in Handler, Has(h, p) PROVE TenantOf(p) = h
    <2>1. CASE port[h] = p
        <3>1. \A g \in Handler : port[g] = p => g = h
            BY <1>1, <2>1 DEF LeaseInv, PortsHeldOnce
        <3>2. QED
            BY <2>1, <3>1 DEF TenantOf
    <2>2. CASE port[h] # p
        <3>1. PICK t \in PortHolders : t.at = p /\ t.owner = h
            BY <1>3, <2>2 DEF Has
        <3>2. \A g \in Handler : port[g] # p
            BY <3>1 DEF LeaseInv, PortsHeldOnce
        <3>3. \A u \in PortHolders : u.at = p => u = t
            BY <3>1 DEF LeaseInv, PortsHeldOnce
        <3>4. (CHOOSE u \in PortHolders : u.at = p) = t
            BY <3>1, <3>3
        <3>5. QED
            BY <3>1, <3>2, <3>4 DEF TenantOf
    <2>3. QED
        BY <2>1, <2>2
<1>4. (\A h \in Handler : ~Has(h, p)) => TenantOf(p) = NoTunnel
    BY <1>2 DEF Has, TenantOf
<1>5. p \in pool.used => \E h \in Handler : Has(h, p)
    <2> SUFFICES ASSUME p \in pool.used PROVE \E h \in Handler : Has(h, p)
        OBVIOUS
    <2>1. CASE \E h \in Handler : port[h] = p
        BY <2>1 DEF Has
    <2>2. CASE \E t \in listening : t.at = p
        BY <1>2, <2>2 DEF Has, PortHolders
    <2>3. CASE \E h \in Handler : \E t \in {cur[h], act[h]} \ {NoTunnel} : t.kind = "tcp" /\ t.at = p
        <3>1. \A h \in Handler : act[h] # NoTunnel => act[h].kind # "tcp"
            BY DEF LeaseInv, Structure
        <3>2. PICK h \in Handler : cur[h] # NoTunnel /\ cur[h].kind = "tcp" /\ cur[h].at = p
            BY <2>3, <3>1
        <3>3. QED
            BY <1>2, <3>2 DEF Has, PortHolders
    <2>4. QED
        BY <2>1, <2>2, <2>3 DEF LeaseInv, UsedPortsHaveHolders
<1>6. ASSUME NEW h \in Handler, Has(h, p) PROVE p \in pool.used
    BY <1>1, <1>6 DEF LeaseInv, PortsHeldOnce, Has
<1>7. QED
    BY <1>3, <1>4, <1>5, <1>6

(***************************************************************************)
(* The same of the next state.                                             *)
(***************************************************************************)
LEMMA TenantHasNext == LeaseInv' => TenantsRight'
BY TenantHas, PTL

(***************************************************************************)
(* A step that changes who has port q, and no other port, changes the      *)
(* lease of q only.                                                        *)
(***************************************************************************)
LEMMA OneLease ==
    ASSUME TenantsRight, TenantsRight', NEW q \in Ports,
           \A p \in Ports \ {q}, g \in Handler : Has(g, p)' <=> Has(g, p)
    PROVE  [p \in Ports |-> TenantOf(p)]' = [[p \in Ports |-> TenantOf(p)] EXCEPT ![q] = TenantOf(q)']
<1>1. ASSUME NEW p \in Ports \ {q} PROVE TenantOf(p)' = TenantOf(p)
    BY <1>1 DEF TenantsRight
<1>2. QED
    BY <1>1, Zenon

(***************************************************************************)
(* A step that changes nobody's ports changes no lease.                    *)
(***************************************************************************)
LEMMA SameLeases ==
    ASSUME TenantsRight, TenantsRight', \A p \in Ports, g \in Handler : Has(g, p)' <=> Has(g, p)
    PROVE  [p \in Ports |-> TenantOf(p)]' = [p \in Ports |-> TenantOf(p)]
<1>1. ASSUME NEW p \in Ports PROVE TenantOf(p)' = TenantOf(p)
    BY <1>1 DEF TenantsRight
<1>2. QED
    BY <1>1, Zenon

(***************************************************************************)
(* Every step lets, binds, unbinds or returns one port, or changes no      *)
(* lease.                                                                  *)
(***************************************************************************)
LEMMA LeaseStep == LeaseInv /\ LeaseInv' /\ [Next]_vars => [Leases!LeaseNext]_(Leases!leaseVars)
<1> SUFFICES ASSUME LeaseInv, LeaseInv', [Next]_vars PROVE [Leases!LeaseNext]_(Leases!leaseVars)
    OBVIOUS
<1> DEFINE lease == [p \in Ports |-> TenantOf(p)]
           bound == {t.at : t \in listening}
<1>1. TenantsRight /\ TenantsRight'
    BY TenantHas, TenantHasNext
<1>2. TypeOK /\ Structure /\ PortsHeldOnce /\ ~HostTooLong
    BY DEF LeaseInv
<1>3. ASSUME lease' = lease, bound' = bound PROVE [Leases!LeaseNext]_(Leases!leaseVars)
    BY <1>3 DEF Leases!leaseVars
<1>4. ASSUME UNCHANGED <<port, cur, listening>> PROVE [Leases!LeaseNext]_(Leases!leaseVars)
    <2>1. \A p \in Ports, g \in Handler : Has(g, p)' <=> Has(g, p)
        BY <1>4 DEF Has, PortHolders
    <2>2. QED
        BY <1>1, <1>3, <1>4, <2>1, SameLeases
<1>5. CASE UNCHANGED vars
    BY <1>4, <1>5 DEF vars, handlerVars, sharedVars
<1>6. ASSUME NEW h \in Handler, NEW q \in Ports,
             Leases!Let(h, q) \/ Leases!Bind(h, q) \/ Leases!Unbind(h, q) \/ Leases!Return(h, q)
      PROVE  [Leases!LeaseNext]_(Leases!leaseVars)
    BY <1>6 DEF Leases!LeaseNext
<1>7. \A t \in PortHolders : t.at \in Ports /\ t.owner \in Handler
    BY <1>2 DEF TypeOK, PortHolders, PortsHeldOnce, Tunnel, Pool
<1> USE DEF handlerVars, sharedVars
<1>8. ASSUME NEW h \in Handler,
             \/ Connect(h) \/ ReadError(h) \/ TimerFires(h) \/ AuthAccepted(h) \/ AuthRejected(h)
             \/ CloseRequested(h) \/ (\E k \in Named, s \in Sub : RegisterNamed(h, k, s))
             \/ (\E t \in held : UnregisterRequested(h, t)) \/ UnregisterName(h) \/ MapRaceIsFatal(h)
             \/ CleanupStarts(h, "reader") \/ CleanupStarts(h, "timer") \/ CleanupNextMap(h)
             \/ CleanupEnds(h) \/ ReaderCleaned(h) \/ TimerCleaned(h)
      PROVE  [Leases!LeaseNext]_(Leases!leaseVars)
    <2>1. UNCHANGED <<port, cur, listening>>
        BY <1>8 DEF Connect, ReadError, TimerFires, AuthAccepted, AuthRejected, CloseRequested,
           RegisterNamed, UnregisterRequested, UnregisterName, MapRaceIsFatal, CleanupStarts,
           CleanupNextMap, CleanupEnds, ReaderCleaned, TimerCleaned
    <2>2. QED
        BY <1>4, <2>1
<1>9. ASSUME NEW h \in Handler, NEW p \in Ports \cup {NoPort}, RegisterTCP(h, p)
      PROVE  [Leases!LeaseNext]_(Leases!leaseVars)
    <2>1. PICK q \in Ports : q \notin pool.used /\ q = port'[h] /\ port' = [port EXCEPT ![h] = q]
        BY <1>2, <1>9, RegisterTCPPool
    <2>2. UNCHANGED <<cur, listening>> /\ port[h] = NoPort
        BY <1>2, <1>9 DEF RegisterTCP, Structure, FrameArrives
    <2>3. \A r \in Ports \ {q}, g \in Handler : Has(g, r)' <=> Has(g, r)
        BY <1>2, <2>1, <2>2, PortsPositive DEF Has, PortHolders, TypeOK
    <2>4. TenantOf(q) = NoTunnel
        BY <1>1, <2>1 DEF TenantsRight
    <2>5. Has(h, q)'
        BY <2>1 DEF Has
    <2>6. TenantOf(q)' = h
        BY <1>1, <2>5 DEF TenantsRight
    <2>7. q \notin bound
        BY <1>2, <2>1 DEF PortsHeldOnce, PortHolders
    <2>8. lease' = [lease EXCEPT ![q] = TenantOf(q)']
        BY <1>1, <2>3, OneLease
    <2>9. Leases!Let(h, q)
        BY <2>2, <2>4, <2>6, <2>7, <2>8 DEF Leases!Let
    <2>10. QED
        BY <1>6, <2>9
<1>10. ASSUME NEW h \in Handler, ListenSucceeds(h) PROVE [Leases!LeaseNext]_(Leases!leaseVars)
    <2>1. PICK q \in Ports : q = port[h]
        BY <1>2, <1>10 DEF TypeOK, ListenSucceeds
    <2> DEFINE t == [id |-> ids + 1, kind |-> "tcp", owner |-> h, at |-> q]
    <2>2. /\ listening' = listening \cup {t} /\ cur' = cur
          /\ port' = [port EXCEPT ![h] = NoPort] /\ q \notin bound
        BY <1>10, <2>1 DEF ListenSucceeds
    <2>3. t.at = q /\ t.owner = h
        OBVIOUS
    <2> HIDE DEF t
    <2>4. PortHolders' = PortHolders \cup {t}
        BY <2>2 DEF PortHolders
    <2>5. \A r \in Ports, g \in Handler : Has(g, r)' <=> Has(g, r)
        BY <1>2, <2>1, <2>2, <2>3, <2>4, PortsPositive DEF Has, TypeOK
    <2>6. lease' = lease
        BY <1>1, <2>5, SameLeases
    <2>7. TenantOf(q) = h
        BY <1>1, <2>1 DEF TenantsRight, Has
    <2>8. bound' = bound \cup {q}
        BY <2>2, <2>3
    <2>9. Leases!Bind(h, q)
        BY <2>2, <2>6, <2>7, <2>8 DEF Leases!Bind
    <2>10. QED
        BY <1>6, <2>9
<1>11. ASSUME NEW h \in Handler, ListenFails(h) PROVE [Leases!LeaseNext]_(Leases!leaseVars)
    <2>1. PICK q \in Ports : q = port[h]
        BY <1>2, <1>11 DEF TypeOK, ListenFails
    <2>2. UNCHANGED <<cur, listening>> /\ port' = [port EXCEPT ![h] = NoPort] /\ q # NoPort
        BY <1>11, PortsPositive DEF ListenFails
    <2>3. \A g \in Handler : (g # h => port[g] # q) /\ \A t \in PortHolders : t.at # q
        BY <1>2, <2>1, <2>2 DEF PortsHeldOnce
    <2>4. PortHolders' = PortHolders
        BY <2>2 DEF PortHolders
    <2>5. \A r \in Ports \ {q}, g \in Handler : Has(g, r)' <=> Has(g, r)
        BY <1>2, <2>1, <2>2, <2>4, PortsPositive DEF Has, TypeOK
    <2>6. TenantOf(q) = h
        BY <1>1, <2>1 DEF TenantsRight, Has
    <2>7. \A g \in Handler : port'[g] # q
        BY <1>2, <2>2, <2>3 DEF TypeOK
    <2>8. \A g \in Handler : ~Has(g, q)'
        BY <2>3, <2>4, <2>7 DEF Has
    <2>9. TenantOf(q)' = NoTunnel
        BY <1>1, <2>8 DEF TenantsRight
    <2>10. q \notin bound
        BY <2>3 DEF PortHolders
    <2>11. lease' = [lease EXCEPT ![q] = TenantOf(q)']
        BY <1>1, <2>5, OneLease
    <2>12. Leases!Return(h, q)
        BY <2>2, <2>6, <2>9, <2>10, <2>11 DEF Leases!Return
    <2>13. QED
        BY <1>6, <2>12
<1>12. ASSUME NEW h \in Handler, UndoClose(h) \/ UndoRelease(h)
       PROVE  [Leases!LeaseNext]_(Leases!leaseVars)
    BY <1>2, <1>12 DEF Structure, UndoClose, UndoRelease
<1>13. ASSUME NEW h \in Handler, NEW t \in todo[h], CleanupPicks(h, t)
       PROVE  [Leases!LeaseNext]_(Leases!leaseVars)
    <2>1. t.kind = "tcp" => t \in listening
        BY <1>2 DEF Structure, PortsHeldOnce
    <2>2. cur[h] = NoTunnel /\ cur' = [cur EXCEPT ![h] = t] /\ UNCHANGED <<port, listening>>
        BY <1>13 DEF CleanupPicks
    <2>3. PortHolders' = PortHolders
        BY <1>2, <2>1, <2>2 DEF TypeOK, PortHolders
    <2>4. \A p \in Ports, g \in Handler : Has(g, p)' <=> Has(g, p)
        BY <2>2, <2>3 DEF Has
    <2>5. QED
        BY <1>1, <1>3, <2>2, <2>4, SameLeases
<1>14. ASSUME NEW h \in Handler, CleanupUnregisters(h) PROVE [Leases!LeaseNext]_(Leases!leaseVars)
    <2>1. /\ cur[h].kind # "tcp" /\ cur' = [cur EXCEPT ![h] = NoTunnel]
          /\ UNCHANGED <<port, listening>>
        BY <1>14 DEF CleanupUnregisters, Named
    <2>2. PortHolders' = PortHolders
        BY <1>2, <2>1 DEF TypeOK, PortHolders
    <2>3. \A p \in Ports, g \in Handler : Has(g, p)' <=> Has(g, p)
        BY <2>1, <2>2 DEF Has
    <2>4. QED
        BY <1>1, <1>3, <2>1, <2>3, SameLeases
<1>15. ASSUME NEW h \in Handler, CleanupCloses(h) PROVE [Leases!LeaseNext]_(Leases!leaseVars)
    <2>1. PICK t \in PortHolders : t = cur[h]
        BY <1>15 DEF CleanupCloses, PortHolders
    <2>2. /\ t \in listening /\ listening' = listening \ {t} /\ t # NoTunnel /\ t.kind = "tcp"
          /\ UNCHANGED <<port, cur>>
        BY <1>15, <2>1 DEF CleanupCloses, CloseListener
    <2>3. PortHolders' = PortHolders
        BY <2>1, <2>2 DEF PortHolders
    <2>4. \A p \in Ports, g \in Handler : Has(g, p)' <=> Has(g, p)
        BY <2>2, <2>3 DEF Has
    <2>5. lease' = lease
        BY <1>1, <2>4, SameLeases
    <2>6. t.at \in Ports /\ t.owner = h
        BY <1>2, <1>7, <2>1, <2>2 DEF Structure
    <2>7. TenantOf(t.at) = h
        BY <1>1, <2>6 DEF TenantsRight, Has
    <2>8. \A u \in listening : u.at = t.at => u = t
        BY <1>2 DEF PortsHeldOnce, PortHolders
    <2>9. bound' = bound \ {t.at} /\ t.at \in bound
        BY <2>2, <2>8
    <2>10. Leases!Unbind(h, t.at)
        BY <2>5, <2>6, <2>7, <2>9 DEF Leases!Unbind
    <2>11. QED
        BY <1>6, <2>6, <2>10
<1>16. ASSUME NEW h \in Handler, CleanupReleases(h) PROVE [Leases!LeaseNext]_(Leases!leaseVars)
    <2>1. PICK t \in PortHolders : t = cur[h]
        BY <1>16 DEF CleanupReleases, PortHolders
    <2>2. PICK q \in Ports : q = t.at
        BY <1>7
    <2>3. /\ t \notin listening /\ t # NoTunnel /\ t.kind = "tcp"
          /\ cur' = [cur EXCEPT ![h] = NoTunnel]
          /\ UNCHANGED <<port, listening>>
        BY <1>16, <2>1 DEF CleanupReleases, ReleasePort
    <2>4. \A g \in Handler : cur[g] # NoTunnel => cur[g].owner = g
        BY <1>2 DEF Structure
    <2>5. PortHolders' = PortHolders \ {t}
        BY <1>2, <2>1, <2>3, <2>4 DEF TypeOK, PortHolders
    <2>6. \A u \in PortHolders : u.at = q => u = t
        BY <1>2, <2>1, <2>2 DEF PortsHeldOnce
    <2>7. \A g \in Handler : port'[g] # q
        BY <1>2, <2>1, <2>2, <2>3 DEF PortsHeldOnce
    <2>8. \A g \in Handler : ~Has(g, q)'
        BY <2>5, <2>6, <2>7 DEF Has
    <2>9. \A r \in Ports \ {q}, g \in Handler : Has(g, r)' <=> Has(g, r)
        BY <2>2, <2>3, <2>5 DEF Has
    <2>10. TenantOf(q) = h
        BY <1>1, <1>2, <2>1, <2>2, <2>3 DEF Structure, TenantsRight, Has
    <2>11. TenantOf(q)' = NoTunnel
        BY <1>1, <2>8 DEF TenantsRight
    <2>12. q \notin bound
        BY <2>3, <2>6 DEF PortHolders
    <2>13. lease' = [lease EXCEPT ![q] = TenantOf(q)']
        BY <1>1, <2>9, OneLease
    <2>14. Leases!Return(h, q)
        BY <2>3, <2>10, <2>11, <2>12, <2>13 DEF Leases!Return
    <2>15. QED
        BY <1>6, <2>14
<1>17. QED
    BY <1>5, <1>8, <1>9, <1>10, <1>11, <1>12, <1>13, <1>14, <1>15, <1>16
    DEF Next, Frame, ReaderStep, TimerStep, CleanupStep

LEMMA LeaseInitially == Init => Leases!LeaseInit
<1> SUFFICES ASSUME Init PROVE Leases!LeaseInit
    OBVIOUS
<1>1. \A h \in Handler : port[h] = NoPort /\ cur[h] = NoTunnel
    BY DEF Init
<1>2. listening = {} /\ PortHolders = {}
    BY <1>1 DEF Init, PortHolders
<1>3. \A p \in Ports : TenantOf(p) = NoTunnel
    BY <1>1, <1>2, PortsPositive DEF TenantOf
<1>4. QED
    BY <1>2, <1>3 DEF Leases!LeaseInit

(***************************************************************************)
(* The tunnel handlers let the public ports as PortLease says, when the    *)
(* server's host name is short enough for EncodeRegisterOK: closeTCPTunnel *)
(* then runs once per tunnel, and closes before it releases.               *)
(***************************************************************************)
THEOREM PortsAreLeased == ASSUME ~HostTooLong PROVE Spec => ImplementsLeases
<1>1. Spec => []LeaseInv
    BY InvInit, TypeInit, TypeStep, StructureInit, StructureStep, PortsStep, UsedPortsStep, PTL
    DEF Spec, LeaseInv
<1>2. QED
    BY <1>1, LeaseInitially, LeaseStep, PTL DEF Spec, ImplementsLeases, Leases!LeaseSpec
-----------------------------------------------------------------------------
(***************************************************************************)
(* The SSH front end: the maps match the listeners, no port is lost, and   *)
(* the public ports are let as PortLease says.                             *)
(***************************************************************************)

(***************************************************************************)
(* startForward takes a port that was free.                                *)
(***************************************************************************)
LEMMA StartForwardPool ==
    ASSUME SshTypeOK, NEW c \in Conn, NEW n \in Requested, StartForward(c, n)
    PROVE  \E q \in Ports \ alloc.used :
              /\ alloc' \in Pool
              /\ alloc'.used = alloc.used \cup {q}
              /\ sshPort' = [sshPort EXCEPT ![c] = q]
<1>1. Truncated(n) \in Nat
    BY SshAssumption DEF Truncated
<1>2. alloc \in Pool
    BY DEF SshTypeOK
<1> DEFINE q == AllocatedPort(alloc, Truncated(n))
<1>3. /\ q # NoPort /\ alloc' = Allocate(alloc, Truncated(n))
      /\ sshPort' = [sshPort EXCEPT ![c] = q]
    BY DEF StartForward
<1>4. /\ Allocate(alloc, Truncated(n)) \in Pool
      /\ q \in Ports \ alloc.used
      /\ Allocate(alloc, Truncated(n)).used = alloc.used \cup {q}
    BY <1>1, <1>2, <1>3, AllocateCorrect
<1>5. QED
    BY <1>3, <1>4

-----------------------------------------------------------------------------
LEMMA SshTypeInit == SshInit => SshTypeOK
<1>1. NewPortAllocator \in Pool
    BY RangeInOrder DEF NewPortAllocator, Pool, Ports
<1>2. QED
    BY <1>1 DEF SshInit, SshTypeOK

LEMMA SshTypeStep == SshTypeOK /\ SshStructure /\ [SshNext]_sshVars => SshTypeOK'
<1> SUFFICES ASSUME SshTypeOK, SshStructure, [SshNext]_sshVars PROVE SshTypeOK'
    OBVIOUS
<1>1. CASE UNCHANGED sshVars
    BY <1>1 DEF SshTypeOK, sshVars
<1>2. ASSUME NEW c \in Conn, Accept(c) \/ Hangup(c) \/ ServeEnds(c) \/ DrainEnds(c) PROVE SshTypeOK'
    BY <1>2 DEF SshTypeOK, Accept, Hangup, ServeEnds, DrainEnds
<1>3. ASSUME NEW c \in Conn, NEW n \in Requested, StartForward(c, n) PROVE SshTypeOK'
    <2>1. PICK q \in Ports : alloc' \in Pool /\ sshPort' = [sshPort EXCEPT ![c] = q]
        BY <1>3, StartForwardPool
    <2>2. QED
        BY <1>3, <2>1 DEF SshTypeOK, StartForward, Takes
<1>4. ASSUME NEW c \in Conn, ForwardListens(c) PROVE SshTypeOK'
    BY <1>4 DEF SshTypeOK, SshStructure, ForwardListens
<1>5. ASSUME NEW c \in Conn, ForwardListenFails(c) \/ ReleaseForward(c) \/ DrainReleases(c) PROVE SshTypeOK'
    <2>1. alloc' \in Pool
        BY <1>5, ReleaseCorrect DEF SshTypeOK, ForwardListenFails, ReleaseForward, DrainReleases
    <2>2. QED
        BY <1>5, <2>1 DEF SshTypeOK, ForwardListenFails, ReleaseForward, DrainReleases
<1>6. ASSUME NEW c \in Conn, NEW n \in Requested, CancelForward(c, n) PROVE SshTypeOK'
    BY <1>6 DEF SshTypeOK, CancelForward, Takes
<1>7. ASSUME NEW c \in Conn, NEW p \in forwards[c], DrainCloses(c, p) PROVE SshTypeOK'
    BY <1>7 DEF SshTypeOK, DrainCloses
<1>8. QED
    BY <1>1, <1>2, <1>3, <1>4, <1>5, <1>6, <1>7 DEF SshNext, Serve

-----------------------------------------------------------------------------
LEMMA SshStructureInit == SshInit => SshStructure
BY PortsPositive DEF SshInit, SshStructure, SshHas, NewPortAllocator

(***************************************************************************)
(* Where the goroutines are and which ports they have, after every step.   *)
(***************************************************************************)
LEMMA SshStructureStep == SshTypeOK /\ SshStructure /\ [SshNext]_sshVars => SshStructure'
<1> SUFFICES ASSUME SshTypeOK, SshStructure, [SshNext]_sshVars PROVE SshStructure'
    OBVIOUS
<1> USE PortsPositive
<1>1. CASE UNCHANGED sshVars
    BY <1>1 DEF SshStructure, SshHas, sshVars
<1>2. ASSUME NEW c \in Conn, Accept(c) \/ Hangup(c) \/ ServeEnds(c) \/ DrainEnds(c) PROVE SshStructure'
    BY <1>2 DEF SshTypeOK, SshStructure, SshHas, Accept, Hangup, ServeEnds, DrainEnds
<1>3. ASSUME NEW c \in Conn, NEW n \in Requested, StartForward(c, n) PROVE SshStructure'
    <2>1. PICK q \in Ports \ alloc.used :
              alloc'.used = alloc.used \cup {q} /\ sshPort' = [sshPort EXCEPT ![c] = q]
        BY <1>3, StartForwardPool
    <2>2. /\ pc[c] = "serve" /\ pc' = [pc EXCEPT ![c] = "listen"]
          /\ UNCHANGED forwards /\ sshPort[c] = NoPort
        BY <1>3 DEF StartForward, Takes, SshStructure
    <2>3. \A d \in Conn : ~SshHas(d, q)
        BY <2>1 DEF SshStructure
    <2>4. \A d \in Conn, p \in Ports : SshHas(d, p)' <=> SshHas(d, p) \/ (d = c /\ p = q)
        BY <2>1, <2>2 DEF SshTypeOK, SshHas
    <2>5. QED
        BY <2>1, <2>2, <2>3, <2>4 DEF SshTypeOK, SshStructure, SshHas
<1>4. ASSUME NEW c \in Conn, ForwardListens(c) PROVE SshStructure'
    <2>1. \A d \in Conn, p \in Ports : SshHas(d, p)' <=> SshHas(d, p)
        BY <1>4 DEF SshTypeOK, SshStructure, SshHas, ForwardListens
    <2>2. QED
        BY <1>4, <2>1 DEF SshTypeOK, SshStructure, ForwardListens
<1>5. ASSUME NEW c \in Conn, ForwardListenFails(c) \/ ReleaseForward(c) \/ DrainReleases(c) PROVE SshStructure'
    <2>1. PICK q \in Ports : q = sshPort[c]
        BY <1>5 DEF SshTypeOK, SshStructure, ForwardListenFails, ReleaseForward, DrainReleases
    <2>2. alloc'.used = alloc.used \ {q}
        BY <1>5, <2>1, ReleaseCorrect DEF SshTypeOK, ForwardListenFails, ReleaseForward, DrainReleases
    <2>3. \A d \in Conn, p \in Ports : SshHas(d, p)' <=> SshHas(d, p) /\ p # q
        BY <1>5, <2>1 DEF SshTypeOK, SshStructure, SshHas, ForwardListenFails, ReleaseForward, DrainReleases
    <2>4. QED
        BY <1>5, <2>1, <2>2, <2>3
        DEF SshTypeOK, SshStructure, ForwardListenFails, ReleaseForward, DrainReleases
<1>6. ASSUME NEW c \in Conn, NEW n \in Requested, CancelForward(c, n) PROVE SshStructure'
    <2>1. \A d \in Conn, p \in Ports : SshHas(d, p)' <=> SshHas(d, p)
        BY <1>6 DEF SshTypeOK, SshStructure, SshHas, CancelForward, Takes
    <2>2. QED
        BY <1>6, <2>1 DEF SshTypeOK, SshStructure, CancelForward, Takes
<1>7. ASSUME NEW c \in Conn, NEW p \in forwards[c], DrainCloses(c, p) PROVE SshStructure'
    <2>1. \A d \in Conn, q \in Ports : SshHas(d, q)' <=> SshHas(d, q)
        BY <1>7 DEF SshTypeOK, SshStructure, SshHas, DrainCloses
    <2>2. QED
        BY <1>7, <2>1 DEF SshTypeOK, SshStructure, DrainCloses
<1>8. QED
    BY <1>1, <1>2, <1>3, <1>4, <1>5, <1>6, <1>7 DEF SshNext, Serve

(***************************************************************************)
(* Type correctness.                                                       *)
(***************************************************************************)
THEOREM SshTypeCorrect == SshSpec => []SshTypeOK
BY SshTypeInit, SshTypeStep, SshStructureInit, SshStructureStep, PTL DEF SshSpec

-----------------------------------------------------------------------------
LEMMA MatchInit == SshInit => ForwardsMatchListeners
BY SshAssumption DEF SshInit, ForwardsMatchListeners

LEMMA MatchStep ==
    SshTypeOK /\ SshStructure /\ ForwardsMatchListeners /\ [SshNext]_sshVars => ForwardsMatchListeners'
<1> SUFFICES ASSUME SshTypeOK, SshStructure, ForwardsMatchListeners, [SshNext]_sshVars
             PROVE  ForwardsMatchListeners'
    OBVIOUS
<1> USE PortsPositive, SshAssumption
<1>1. CASE UNCHANGED sshVars
    BY <1>1 DEF ForwardsMatchListeners, sshVars
<1>2. ASSUME NEW c \in Conn, Accept(c) \/ Hangup(c) \/ ServeEnds(c) \/ DrainEnds(c)
      PROVE  ForwardsMatchListeners'
    BY <1>2 DEF SshTypeOK, SshStructure, ForwardsMatchListeners, Accept, Hangup, ServeEnds, DrainEnds
<1>3. ASSUME NEW c \in Conn, NEW n \in Requested, StartForward(c, n) PROVE ForwardsMatchListeners'
    BY <1>3 DEF SshTypeOK, SshStructure, ForwardsMatchListeners, StartForward, Takes
<1>4. ASSUME NEW c \in Conn, ForwardListens(c) PROVE ForwardsMatchListeners'
    BY <1>4 DEF SshTypeOK, SshStructure, SshHas, ForwardsMatchListeners, ForwardListens
<1>5. ASSUME NEW c \in Conn, ForwardListenFails(c) \/ ReleaseForward(c) \/ DrainReleases(c)
      PROVE  ForwardsMatchListeners'
    BY <1>5
    DEF SshTypeOK, SshStructure, ForwardsMatchListeners, ForwardListenFails, ReleaseForward, DrainReleases
<1>6. ASSUME NEW c \in Conn, NEW n \in Requested, CancelForward(c, n) PROVE ForwardsMatchListeners'
    BY <1>6 DEF SshTypeOK, SshStructure, SshHas, ForwardsMatchListeners, CancelForward, Takes
<1>7. ASSUME NEW c \in Conn, NEW p \in forwards[c], DrainCloses(c, p) PROVE ForwardsMatchListeners'
    BY <1>7 DEF SshTypeOK, SshStructure, SshHas, ForwardsMatchListeners, DrainCloses
<1>8. QED
    BY <1>1, <1>2, <1>3, <1>4, <1>5, <1>6, <1>7 DEF SshNext, Serve

(***************************************************************************)
(* A connection's map lists exactly the listeners it has open.             *)
(***************************************************************************)
THEOREM MapsMatchListeners == SshSpec => []ForwardsMatchListeners
BY SshTypeInit, SshTypeStep, SshStructureInit, SshStructureStep, MatchInit, MatchStep, PTL DEF SshSpec

(***************************************************************************)
(* A connection that is gone has no listener open, and a port in use       *)
(* belongs to a connection that is not gone: whatever order requests,      *)
(* hang-ups and failing listeners come in, none is lost.                   *)
(***************************************************************************)
THEOREM NothingOutlivesItsConnection == SshSpec => []GoneHasNothing
<1>1. SshTypeOK /\ SshStructure /\ ForwardsMatchListeners => GoneHasNothing
    <2> SUFFICES ASSUME SshTypeOK, SshStructure, ForwardsMatchListeners PROVE GoneHasNothing
        OBVIOUS
    <2>1. ASSUME NEW c \in Conn, NEW p \in Ports, pc[c] = "gone" PROVE listener[p] # c
        BY <2>1 DEF SshStructure, ForwardsMatchListeners
    <2>2. ASSUME NEW p \in alloc.used
          PROVE  \E c \in Conn : pc[c] # "gone" /\ (p \in forwards[c] \/ sshPort[c] = p)
        BY PortsPositive DEF SshTypeOK, SshStructure, SshHas, Pool
    <2>3. QED
        BY <2>1, <2>2 DEF GoneHasNothing
<1>2. QED
    BY <1>1, SshTypeInit, SshTypeStep, SshStructureInit, SshStructureStep, MatchInit, MatchStep, PTL
    DEF SshSpec

-----------------------------------------------------------------------------
(***************************************************************************)
(* The tenant of a port is the one connection that has it.                 *)
(***************************************************************************)
SshInv == SshTypeOK /\ SshStructure /\ ForwardsMatchListeners

SshTenantsRight ==
    \A p \in Ports :
        /\ \A c \in Conn : SshHas(c, p) => SshTenantOf(p) = c
        /\ (\A c \in Conn : ~SshHas(c, p)) => SshTenantOf(p) = NoConn

LEMMA SshTenantHas == SshInv => SshTenantsRight
<1> SUFFICES ASSUME SshInv, NEW p \in Ports
             PROVE  /\ \A c \in Conn : SshHas(c, p) => SshTenantOf(p) = c
                    /\ (\A c \in Conn : ~SshHas(c, p)) => SshTenantOf(p) = NoConn
    BY DEF SshTenantsRight
<1>1. ASSUME NEW c \in Conn, SshHas(c, p) PROVE SshTenantOf(p) = c
    <2>1. \A d \in Conn : SshHas(d, p) => d = c
        BY <1>1 DEF SshInv, SshStructure
    <2>2. QED
        BY <1>1, <2>1 DEF SshTenantOf
<1>2. QED
    BY <1>1 DEF SshTenantOf

LEMMA SshTenantHasNext == SshInv' => SshTenantsRight'
BY SshTenantHas, PTL

(***************************************************************************)
(* A step that changes who has port q, and no other port, changes the      *)
(* lease of q only; one that changes nobody's ports changes no lease.      *)
(***************************************************************************)
LEMMA SshOneLease ==
    ASSUME SshTenantsRight, SshTenantsRight', NEW q \in Ports,
           \A p \in Ports \ {q}, c \in Conn : SshHas(c, p)' <=> SshHas(c, p)
    PROVE  [p \in Ports |-> SshTenantOf(p)]' = [[p \in Ports |-> SshTenantOf(p)] EXCEPT ![q] = SshTenantOf(q)']
<1>1. ASSUME NEW p \in Ports \ {q} PROVE SshTenantOf(p)' = SshTenantOf(p)
    BY <1>1 DEF SshTenantsRight
<1>2. QED
    BY <1>1, Zenon

LEMMA SshSameLeases ==
    ASSUME SshTenantsRight, SshTenantsRight', \A p \in Ports, c \in Conn : SshHas(c, p)' <=> SshHas(c, p)
    PROVE  [p \in Ports |-> SshTenantOf(p)]' = [p \in Ports |-> SshTenantOf(p)]
<1>1. ASSUME NEW p \in Ports PROVE SshTenantOf(p)' = SshTenantOf(p)
    BY <1>1 DEF SshTenantsRight
<1>2. QED
    BY <1>1, Zenon

(***************************************************************************)
(* Every step lets, binds, unbinds or returns one port, or changes no      *)
(* lease.                                                                  *)
(***************************************************************************)
LEMMA SshLeaseStep == SshInv /\ SshInv' /\ [SshNext]_sshVars => [SshLeases!LeaseNext]_(SshLeases!leaseVars)
<1> SUFFICES ASSUME SshInv, SshInv', [SshNext]_sshVars PROVE [SshLeases!LeaseNext]_(SshLeases!leaseVars)
    OBVIOUS
<1> DEFINE lease == [p \in Ports |-> SshTenantOf(p)]
           bound == {p \in Ports : listener[p] # NoConn}
<1> USE PortsPositive, SshAssumption
<1>1. SshTenantsRight /\ SshTenantsRight' /\ SshTypeOK /\ SshStructure /\ ForwardsMatchListeners
    BY SshTenantHas, SshTenantHasNext DEF SshInv
<1>2. ASSUME lease' = lease, bound' = bound PROVE [SshLeases!LeaseNext]_(SshLeases!leaseVars)
    BY <1>2 DEF SshLeases!leaseVars
<1>3. ASSUME NEW c \in Conn, NEW q \in Ports,
             SshLeases!Let(c, q) \/ SshLeases!Bind(c, q) \/ SshLeases!Unbind(c, q) \/ SshLeases!Return(c, q)
      PROVE  [SshLeases!LeaseNext]_(SshLeases!leaseVars)
    BY <1>3 DEF SshLeases!LeaseNext
<1>4. ASSUME UNCHANGED <<sshPort, forwards, listener>> PROVE [SshLeases!LeaseNext]_(SshLeases!leaseVars)
    <2>1. \A p \in Ports, c \in Conn : SshHas(c, p)' <=> SshHas(c, p)
        BY <1>4 DEF SshHas
    <2>2. QED
        BY <1>1, <1>2, <1>4, <2>1, SshSameLeases
<1>5. CASE UNCHANGED sshVars
    BY <1>4, <1>5 DEF sshVars
<1>6. ASSUME NEW c \in Conn, Accept(c) \/ Hangup(c) \/ ServeEnds(c) \/ DrainEnds(c)
      PROVE  [SshLeases!LeaseNext]_(SshLeases!leaseVars)
    BY <1>4, <1>6 DEF Accept, Hangup, ServeEnds, DrainEnds
<1>7. ASSUME NEW c \in Conn, NEW n \in Requested, StartForward(c, n)
      PROVE  [SshLeases!LeaseNext]_(SshLeases!leaseVars)
    <2>1. PICK q \in Ports \ alloc.used : sshPort' = [sshPort EXCEPT ![c] = q]
        BY <1>1, <1>7, StartForwardPool
    <2>2. UNCHANGED <<forwards, listener>> /\ sshPort[c] = NoPort
        BY <1>1, <1>7 DEF StartForward, Takes, SshStructure
    <2>3. \A d \in Conn : ~SshHas(d, q)
        BY <1>1 DEF SshStructure
    <2>4. SshHas(c, q)' /\ \A p \in Ports \ {q}, d \in Conn : SshHas(d, p)' <=> SshHas(d, p)
        BY <1>1, <2>1, <2>2 DEF SshTypeOK, SshHas
    <2>5. SshTenantOf(q) = NoConn /\ SshTenantOf(q)' = c
        BY <1>1, <2>3, <2>4 DEF SshTenantsRight
    <2>6. q \notin bound
        BY <1>1, <2>3 DEF SshTypeOK, ForwardsMatchListeners, SshHas
    <2>7. lease' = [lease EXCEPT ![q] = SshTenantOf(q)']
        BY <1>1, <2>4, SshOneLease
    <2>8. SshLeases!Let(c, q)
        BY <2>2, <2>5, <2>6, <2>7 DEF SshLeases!Let
    <2>9. QED
        BY <1>3, <2>8
<1>8. ASSUME NEW c \in Conn, ForwardListens(c) PROVE [SshLeases!LeaseNext]_(SshLeases!leaseVars)
    <2>1. PICK q \in Ports : q = sshPort[c]
        BY <1>1, <1>8 DEF SshTypeOK, SshStructure, ForwardListens
    <2>2. \A p \in Ports, d \in Conn : SshHas(d, p)' <=> SshHas(d, p)
        BY <1>1, <1>8 DEF SshTypeOK, SshHas, ForwardListens
    <2>3. lease' = lease /\ SshTenantOf(q) = c
        BY <1>1, <2>1, <2>2, SshSameLeases DEF SshTenantsRight, SshHas
    <2>4. q \notin bound /\ bound' = bound \cup {q}
        BY <1>1, <1>8, <2>1 DEF SshTypeOK, ForwardListens
    <2>5. SshLeases!Bind(c, q)
        BY <2>3, <2>4 DEF SshLeases!Bind
    <2>6. QED
        BY <1>3, <2>5
<1>9. ASSUME NEW c \in Conn, ForwardListenFails(c) \/ ReleaseForward(c) \/ DrainReleases(c)
      PROVE  [SshLeases!LeaseNext]_(SshLeases!leaseVars)
    <2>1. PICK q \in Ports : q = sshPort[c]
        BY <1>1, <1>9 DEF SshTypeOK, SshStructure, ForwardListenFails, ReleaseForward, DrainReleases
    <2>2. \A d \in Conn, p \in Ports : SshHas(d, p)' <=> SshHas(d, p) /\ p # q
        BY <1>1, <1>9, <2>1 DEF SshTypeOK, SshStructure, SshHas, ForwardListenFails, ReleaseForward, DrainReleases
    <2>3. SshTenantOf(q) = c /\ SshTenantOf(q)' = NoConn
        BY <1>1, <2>1, <2>2 DEF SshTenantsRight, SshHas
    <2>4. q \notin bound
        BY <1>1, <1>9, <2>1
        DEF SshTypeOK, SshStructure, SshHas, ForwardsMatchListeners, ForwardListenFails, ReleaseForward, DrainReleases
    <2>5. lease' = [lease EXCEPT ![q] = SshTenantOf(q)'] /\ UNCHANGED listener
        BY <1>1, <1>9, <2>2, SshOneLease DEF ForwardListenFails, ReleaseForward, DrainReleases
    <2>6. SshLeases!Return(c, q)
        BY <2>3, <2>4, <2>5 DEF SshLeases!Return
    <2>7. QED
        BY <1>3, <2>6
<1>10. ASSUME NEW c \in Conn, NEW q \in Ports, sshPort[c] = NoPort, q \in forwards[c],
              pc[c] \in {"serve", "drain"},
              listener' = [listener EXCEPT ![q] = NoConn],
              sshPort' = [sshPort EXCEPT ![c] = q], UNCHANGED forwards
       PROVE  [SshLeases!LeaseNext]_(SshLeases!leaseVars)
    <2>1. \A p \in Ports, d \in Conn : SshHas(d, p)' <=> SshHas(d, p)
        BY <1>1, <1>10 DEF SshTypeOK, SshHas
    <2>2. lease' = lease /\ SshTenantOf(q) = c
        BY <1>1, <1>10, <2>1, SshSameLeases DEF SshTenantsRight, SshHas
    <2>3. q \in bound /\ bound' = bound \ {q}
        BY <1>1, <1>10 DEF SshTypeOK, ForwardsMatchListeners
    <2>4. SshLeases!Unbind(c, q)
        BY <2>2, <2>3 DEF SshLeases!Unbind
    <2>5. QED
        BY <1>3, <2>4
<1>11. ASSUME NEW c \in Conn, NEW n \in Requested, CancelForward(c, n)
       PROVE  [SshLeases!LeaseNext]_(SshLeases!leaseVars)
    <2>1. Truncated(n) \in Ports
        BY <1>1, <1>11 DEF SshTypeOK, CancelForward
    <2>2. QED
        BY <1>1, <1>10, <1>11, <2>1 DEF SshStructure, CancelForward, Takes
<1>12. ASSUME NEW c \in Conn, NEW p \in forwards[c], DrainCloses(c, p)
       PROVE  [SshLeases!LeaseNext]_(SshLeases!leaseVars)
    <2>1. p \in Ports
        BY <1>1 DEF SshTypeOK
    <2>2. QED
        BY <1>10, <1>12, <2>1 DEF DrainCloses
<1>13. QED
    BY <1>5, <1>6, <1>7, <1>8, <1>9, <1>11, <1>12 DEF SshNext, Serve

LEMMA SshLeaseInitially == SshInit => SshLeases!LeaseInit
<1> SUFFICES ASSUME SshInit PROVE SshLeases!LeaseInit
    OBVIOUS
<1>1. \A p \in Ports, c \in Conn : ~SshHas(c, p)
    BY PortsPositive DEF SshInit, SshHas
<1>2. \A p \in Ports : SshTenantOf(p) = NoConn /\ listener[p] = NoConn
    BY <1>1 DEF SshInit, SshTenantOf
<1>3. QED
    BY <1>2 DEF SshLeases!LeaseInit

(***************************************************************************)
(* The SSH front end lets the public ports as PortLease says: to one       *)
(* connection at a time, from Allocate to Release, and never while the     *)
(* previous listener is open.                                              *)
(***************************************************************************)
THEOREM SshPortsAreLeased == SshSpec => SshImplementsLeases
<1>1. SshSpec => []SshInv
    BY SshTypeInit, SshTypeStep, SshStructureInit, SshStructureStep, MatchInit, MatchStep, PTL
    DEF SshSpec, SshInv
<1>2. QED
    BY <1>1, SshLeaseInitially, SshLeaseStep, PTL DEF SshSpec, SshImplementsLeases, SshLeases!LeaseSpec
=============================================================================
