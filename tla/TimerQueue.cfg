\* Two timers, one-shot or repeating, due at once or later; the wall clock is
\* set once, one way or the other.
CONSTANTS
    Timers = {a, b}
    Delays = {0, 2}
    Intervals = {0, 1, 2}
    MaxLate = 2
    MaxMailbox = 1
    MaxJumps = 1
    NoTimer = NoTimer
SPECIFICATION FairSpec
INVARIANTS NoTimerForgotten NoTimerLate TimersKeptOnce
PROPERTIES TimersFire
CHECK_DEADLOCK FALSE
