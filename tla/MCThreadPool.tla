---------------------------- MODULE MCThreadPool ----------------------------
\* ThreadPool on small instances; the configuration gives the constants.
EXTENDS ThreadPool
=============================================================================
