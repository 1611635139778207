-------------------------- MODULE MCServerTunnels --------------------------
EXTENDS ServerTunnels, TLC

CONSTANTS h1, h2, s1

Symmetry == Permutations(Handler)
=============================================================================
