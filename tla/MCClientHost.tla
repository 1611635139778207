---------------------------- MODULE MCClientHost ----------------------------
\* ClientHost for TLC: two names, and three tags of which one has no number.
EXTENDS ClientHost

MCPlan == <<"api", "web">>
MCParts == [v12 |-> <<1, 2>>, v110 |-> <<1, 10>>, v1x |-> <<1, -1>>]
=============================================================================
