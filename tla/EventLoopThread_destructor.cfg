\* The owner and the runner alone; nobody else calls the loop.
CONSTANTS
    Owner = owner
    Threads = {owner}
    Tasks = {a}
    LoopQueuesAt = {"handle", "run"}
SPECIFICATION ThreadFairSpec
PROPERTIES DestructorReturns
CHECK_DEADLOCK FALSE
