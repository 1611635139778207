---------------------------- MODULE StreamFrames ----------------------------
(***************************************************************************)
(* The frames of one request on the shared WebSocket, and what a queue of  *)
(* them carries.  A MsgStreamData frame holds one chunk of a stream,       *)
(* numbered from 1; the other frames hold none.                            *)
(***************************************************************************)
EXTENDS Integers, Sequences

Msg(t) == [type |-> t, chunk |-> 0]
Data(n) == [type |-> "data", chunk |-> n]

IsData(f) == f.type = "data"

\* The chunks 1, 2, ... in order, none twice and none left out.
InOrder(got) == \A i \in 1..Len(got) : got[i] = i

\* The chunks of the data frames of q are lo + 1, ..., hi, in this order.
Carries(q, lo, hi) ==
    /\ \A i \in 1..Len(q) : IsData(q[i]) => q[i].chunk \in (lo + 1)..hi
    /\ \A i, j \in 1..Len(q) :
          i < j /\ IsData(q[i]) /\ IsData(q[j]) => q[i].chunk < q[j].chunk
    /\ \A n \in (lo + 1)..hi : \E i \in 1..Len(q) : IsData(q[i]) /\ q[i].chunk = n
=============================================================================
