--------------------------- MODULE MCNetworkChange ---------------------------
\* Instances of NetworkChange for TLC.
EXTENDS NetworkChange
==============================================================================
