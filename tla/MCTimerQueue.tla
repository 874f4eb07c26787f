---------------------------- MODULE MCTimerQueue ----------------------------
\* TimerQueue on small instances; the configurations give the constants.
EXTENDS TimerQueue
=============================================================================
