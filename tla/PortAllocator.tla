--------------------------- MODULE PortAllocator ---------------------------
(***************************************************************************)
(* The pool of public TCP ports of internal/server/tcp.go.                 *)
(*                                                                         *)
(* Allocate and Release each run under the allocator's mutex, so each is   *)
(* one atomic operator here: a pool record [used, next] goes in, the       *)
(* changed pool (and, for Allocate, the answer) comes out.  The module has *)
(* no variables: ServerTunnels and SshForwards own a pool each, as         *)
(* cmd/server/main.go gives each front end an allocator of its own.        *)
(*                                                                         *)
(* The scan loop is given here by what it finds, the free port met first   *)
(* going round the range from `next'.  PortScan transcribes the loop       *)
(* itself, and ServerProofs shows that the two agree.                      *)
(***************************************************************************)
EXTENDS Integers, FiniteSets

CONSTANTS PortStart, PortEnd    \* the inclusive range of NewPortAllocator

(***************************************************************************)
(* parsePortRange (cmd/server/main.go) admits 1..65535 with start <= end.  *)
(***************************************************************************)
MaxPort == 65535

ASSUME PortRangeAssumption ==
    /\ PortStart \in 1..MaxPort
    /\ PortEnd \in PortStart..MaxPort

Ports == PortStart..PortEnd

\* What Allocate takes and answers when nothing is asked for, or nothing given.
NoPort == 0

Pool == [used : SUBSET Ports, next : Ports]

NewPortAllocator == [used |-> {}, next |-> PortStart]

(***************************************************************************)
(* How many iterations the scan needs to come to p when it starts at       *)
(* `from': the step after PortEnd is PortStart.                            *)
(***************************************************************************)
ScanDistance(from, p) ==
    IF p >= from THEN p - from ELSE (p - from) + (PortEnd - PortStart + 1)

\* Mutant of NextAfter: no wrap at the end of the range.
NextAfterNoWrap(p) == p + 1

NextAfter(p) == IF p = PortEnd THEN PortStart ELSE p + 1

FreePorts(pool) == Ports \ pool.used

FirstFree(pool) ==
    CHOOSE p \in FreePorts(pool) :
        \A q \in FreePorts(pool) :
            ScanDistance(pool.next, p) <= ScanDistance(pool.next, q)

(***************************************************************************)
(* The port Allocate(preferred) answers, NoPort for an error.              *)
(***************************************************************************)
AllocatedPort(pool, preferred) ==
    IF preferred # NoPort
    THEN IF preferred \in FreePorts(pool) THEN preferred ELSE NoPort
    ELSE IF FreePorts(pool) # {} THEN FirstFree(pool) ELSE NoPort

(***************************************************************************)
(* The pool after Allocate(preferred).  Asking for a port leaves the scan  *)
(* position alone; so does a scan of a full range, which comes round to    *)
(* where it began.                                                         *)
(***************************************************************************)
Allocate(pool, preferred) ==
    LET p == AllocatedPort(pool, preferred)
    IN  IF p = NoPort
        THEN pool
        ELSE [used |-> pool.used \cup {p},
              next |-> IF preferred = NoPort THEN NextAfter(p) ELSE pool.next]

Release(pool, p) == [pool EXCEPT !.used = @ \ {p}]
=============================================================================
