-------------------------- MODULE MCClientForwards --------------------------
\* What Connect registers, for TLC; the local ports are 81 and 82.
EXTENDS ClientForwards
CONSTANTS c1, c2

PlanHTTP == <<[kind |-> "http", port |-> 81]>>
PlanMixed == <<[kind |-> "http", port |-> 81], [kind |-> "tcp", port |-> 82]>>
=============================================================================
