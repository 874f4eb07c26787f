----------------------------- MODULE MCConnections -----------------------------
\* Connections on a small instance; the configuration gives the constants.
EXTENDS Connections
=============================================================================
