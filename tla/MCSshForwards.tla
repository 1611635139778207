--------------------------- MODULE MCSshForwards ---------------------------
EXTENDS SshForwards

CONSTANTS c1, c2
=============================================================================
