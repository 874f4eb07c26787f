----------------------------- MODULE MCEventLoop -----------------------------
\* EventLoop on small instances; the configurations give the constants.
EXTENDS EventLoop
=============================================================================
