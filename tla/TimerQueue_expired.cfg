CONSTANTS
    Timers = {a, b}
    Delays = {1}
    Intervals = {0}
    MaxLate = 2
    MaxMailbox = 1
    MaxJumps = 0
    NoTimer = NoTimer
SPECIFICATION Spec
INVARIANTS BatchTimersExist
CHECK_DEADLOCK FALSE
