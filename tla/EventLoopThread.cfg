\* The owner, the runner and two users; two tasks, queued by the users, by
\* handlers or by each other.  The process may stop on an assertion, and the
\* program may end.
CONSTANTS
    Owner = owner
    Threads = {owner, u1, u2}
    Tasks = {a, b}
    LoopQueuesAt = {"handle", "run"}
SPECIFICATION ThreadFairSpec
INVARIANTS PointerNeverDangles
PROPERTIES StartReturns DestructorReturnsOnceLooping
CHECK_DEADLOCK FALSE
