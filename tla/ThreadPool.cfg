\* Two workers whose tasks may submit tasks, one producer, a queue of two and six tasks:
\* enough for two threads to wait for room, to be overtaken, and for both workers to
\* wait in their own pool.
CONSTANTS
    Workers = {w1, w2}
    Producers = {p1}
    Tasks = {a, b, c, d, e, f}
    maxQueueSize = 2
    SelfSubmit = TRUE
    NoTask = NoTask
SPECIFICATION FairSpec
INVARIANTS NoIdleWorkerWhileTasks NoBlockedSubmitterWhileRoom
PROPERTIES ImplementsTaskQueue TasksAreTaken SubmittersProceed StopTerminates
CHECK_DEADLOCK FALSE
