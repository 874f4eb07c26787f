-------------------------- MODULE MCEventLoopThread --------------------------
\* EventLoopThread on small instances; the configurations give the constants.
EXTENDS EventLoopThread
=============================================================================
