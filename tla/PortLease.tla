----------------------------- MODULE PortLease -----------------------------
(***************************************************************************)
(* What both front ends that publish TCP ports promise about them, the     *)
(* tunnel handlers of internal/server and the SSH server of                *)
(* internal/sshtun: a public port is let to one tenant at a time, only the *)
(* tenant listens on it, and it goes back only by the tenant's hand and    *)
(* after the listener is closed.  A port is never let and bound again      *)
(* under a listener that is still open.                                    *)
(***************************************************************************)
CONSTANTS Tenant, Port, Free    \* Free is not a tenant

VARIABLES
    lease,    \* the tenant of each port, or Free
    bound     \* the ports with an open listener

leaseVars == <<lease, bound>>

LeaseInit ==
    /\ lease = [p \in Port |-> Free]
    /\ bound = {}

Let(c, p) ==
    /\ lease[p] = Free
    /\ p \notin bound
    /\ lease' = [lease EXCEPT ![p] = c]
    /\ UNCHANGED bound

Bind(c, p) ==
    /\ lease[p] = c
    /\ p \notin bound
    /\ bound' = bound \cup {p}
    /\ UNCHANGED lease

Unbind(c, p) ==
    /\ lease[p] = c
    /\ p \in bound
    /\ bound' = bound \ {p}
    /\ UNCHANGED lease

Return(c, p) ==
    /\ lease[p] = c
    /\ p \notin bound
    /\ lease' = [lease EXCEPT ![p] = Free]
    /\ UNCHANGED bound

\* Stuttering is excluded first, which spares TLC most evaluations of the rest.
LeaseNext ==
    /\ leaseVars' # leaseVars
    /\ \E c \in Tenant, p \in Port :
          Let(c, p) \/ Bind(c, p) \/ Unbind(c, p) \/ Return(c, p)

LeaseSpec == LeaseInit /\ [][LeaseNext]_leaseVars
=============================================================================
