\* Two calling threads, three tasks; code on the loop's thread queues in
\* handlers and in tasks.  The process stops for good when an assertion fails.
CONSTANTS
    Threads = {t1, t2}
    Tasks = {a, b, c}
    LoopQueuesAt = {"handle", "run"}
SPECIFICATION FairSpec
INVARIANTS WakeupNotLost QuitNotLost
PROPERTIES ImplementsTaskQueue TasksAreServed QuitIsHonoured
CHECK_DEADLOCK FALSE
