----------------------------- MODULE PortScan -----------------------------
(***************************************************************************)
(* The loop of PortAllocator.Allocate (internal/server/tcp.go), one step   *)
(* per iteration, run on one pool after another so that every pool of the  *)
(* range is scanned.  The allocator's mutex is held throughout, so nothing *)
(* else touches the pool while a scan runs.                                *)
(***************************************************************************)
EXTENDS PortAllocator

VARIABLES
    scan,       \* the pool: used and next, as the loop changes them
    scanFrom,   \* the pool the scan began with
    scanned,    \* the loop counter i
    found       \* Scanning, or the port answered (NoPort: none free)

scanVars == <<scan, scanFrom, scanned, found>>

Scanning == -1

Total == PortEnd - PortStart + 1

ScanInit ==
    /\ scan \in Pool
    /\ scanFrom = scan
    /\ scanned = 0
    /\ found = Scanning

\* One iteration: take p := a.next, advance next, stop if p is free.
ScanStep ==
    /\ found = Scanning
    /\ scanned < Total
    /\ LET p == scan.next
       IN  IF p \in scan.used
           THEN /\ scan' = [scan EXCEPT !.next = NextAfter(p)]
                /\ UNCHANGED found
           ELSE /\ scan' = [used |-> scan.used \cup {p}, next |-> NextAfter(p)]
                /\ found' = p
    /\ scanned' = scanned + 1
    /\ UNCHANGED scanFrom

ScanGivesUp ==
    /\ found = Scanning
    /\ scanned = Total
    /\ found' = NoPort
    /\ UNCHANGED <<scan, scanFrom, scanned>>

ScanNext == ScanStep \/ ScanGivesUp

ScanSpec == ScanInit /\ [][ScanNext]_scanVars

-----------------------------------------------------------------------------
(***************************************************************************)
(* The loop of Allocate(0) answers the port, and leaves the pool, that the *)
(* operator Allocate of PortAllocator says, whatever is in use and         *)
(* wherever the scan starts: the wrap at PortEnd, a full range and a range *)
(* of one port included.                                                   *)
(***************************************************************************)
ScanMatchesAllocate ==
    found # Scanning =>
        /\ found = AllocatedPort(scanFrom, NoPort)
        /\ scan = Allocate(scanFrom, NoPort)

(***************************************************************************)
(* The loop invariant: `used' is as it was, `next' is `scanned' ports      *)
(* further on round the range, and every port passed is in use.            *)
(***************************************************************************)
ScanInv ==
    /\ scanFrom \in Pool /\ scan \in Pool /\ scanned \in 0..Total
    /\ found = Scanning =>
          /\ scan.used = scanFrom.used
          /\ scanned < Total => ScanDistance(scanFrom.next, scan.next) = scanned
          /\ scanned = Total => scan.next = scanFrom.next
          /\ \A p \in Ports : ScanDistance(scanFrom.next, p) < scanned => p \in scanFrom.used
=============================================================================
