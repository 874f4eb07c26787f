------------------------------ MODULE ThreadPool ------------------------------
(***************************************************************************)
(* ThreadPool.cc: worker threads that share a bounded queue of tasks, one  *)
(* mutex and two condition variables.  Any thread may call runTask, a task *)
(* that is running on a worker included; one thread calls stop.            *)
(*                                                                         *)
(* A stretch of code that holds mutex_ is one step, with one exception: a  *)
(* worker that finds the queue empty holds the mutex from the test of      *)
(* running_ to the wait, and stop() changes running_ without the mutex.    *)
(***************************************************************************)
EXTENDS Naturals, Sequences, FiniteSets, Functions

CONSTANTS
    Workers,          \* threads_
    Producers,        \* other threads that call runTask
    Tasks,            \* the task objects; one is submitted at most once
    maxQueueSize,     \* maxQueueSize_
    SelfSubmit,       \* do tasks call runTask on their own pool?
    NoTask

\* A pool without threads runs each task inside runTask and has no behaviour
\* of its own (ThreadPool.cc:33-36): it is left out here.
ASSUME PoolAssumption ==
    /\ Workers # {} /\ IsFiniteSet(Workers) /\ IsFiniteSet(Producers)
    /\ Workers \cap Producers = {}
    /\ maxQueueSize \in Nat \ {0}
    /\ SelfSubmit \in BOOLEAN
    /\ NoTask \notin Tasks

VARIABLES
    pc,               \* where each thread is
    item,             \* the task each thread is submitting
    taskQueue,        \* taskQueue_
    running,          \* running_
    stop,             \* where stop() is
    taken             \* tasks the workers have taken, in order

vars == <<pc, item, taskQueue, running, stop, taken>>

Threads == Workers \cup Producers

(***************************************************************************)
(* A producer is idle, or in runTask: submit, about to take mutex_, or     *)
(* full, in notFull_.wait.  A worker is at the loop test, in take() (take: *)
(* about to take mutex_; doze: it holds mutex_ and goes to wait; empty: in *)
(* notEmpty_.wait), in a task (task, or submit and full if the task calls  *)
(* runTask), or done.                                                      *)
(***************************************************************************)
ProducerPlaces == {"idle", "submit", "full"}
WorkerPlaces   == {"loop", "take", "doze", "empty", "task", "submit", "full", "done"}

\* stop() was not called; it has cleared running_; it has notified the workers
\* and joins them; it has returned; an assertion failed.
StopPlaces == {"no", "cleared", "joining", "returned", "aborted"}

TypeOK ==
    /\ pc \in [Threads -> ProducerPlaces \cup WorkerPlaces]
    /\ \A w \in Workers : pc[w] \in WorkerPlaces
    /\ \A p \in Producers : pc[p] \in ProducerPlaces
    /\ item \in [Threads -> Tasks \cup {NoTask}]
    /\ taskQueue \in Seq(Tasks)
    /\ running \in BOOLEAN
    /\ stop \in StopPlaces
    /\ taken \in Seq(Tasks)

Init ==
    /\ pc = [t \in Threads |-> IF t \in Workers THEN "loop" ELSE "idle"]
    /\ item = [t \in Threads |-> NoTask]
    /\ taskQueue = <<>>
    /\ running = TRUE
    /\ stop = "no"
    /\ taken = <<>>

At(place)  == {t \in Threads : pc[t] = place}
MutexFree  == At("doze") = {}
Alive      == stop # "aborted"

\* f[t] for the threads in S (none, or the one a notify_one wakes) and for t.
Move(t, place, S, wokenPlace) ==
    pc' = [u \in Threads |-> IF u = t THEN place
                             ELSE IF u \in S THEN wokenPlace ELSE pc[u]]

\* The threads notify_one may wake: one of those that wait, if any does.
OneOf(S) == IF S = {} THEN {{}} ELSE {{t} : t \in S}

\* A producer is idle again when runTask returns, a worker back in its task.
Caller(t) == IF t \in Workers THEN "task" ELSE "idle"

Fresh(task) ==
    task \notin Range(taskQueue) \cup Range(taken) \cup {item[t] : t \in Threads}

-----------------------------------------------------------------------------
\* Slips: forms of the operations below that a plausible edit of ThreadPool.cc
\* would produce.  Nothing uses them; each breaks a property stated at the end.

\* notEmpty_ is notified only when the queue was empty before the push.
PushNotifiesFirst(t) ==
    /\ Alive /\ MutexFree /\ pc[t] = "submit"
    /\ Len(taskQueue) < maxQueueSize
    /\ taskQueue' = Append(taskQueue, item[t])
    /\ item' = [item EXCEPT ![t] = NoTask]
    /\ \E S \in OneOf(IF taskQueue = <<>> THEN At("empty") ELSE {}) :
          Move(t, Caller(t), S, "take")
    /\ UNCHANGED <<running, stop, taken>>

\* runTask forgets notEmpty_.
PushIsSilent(t) ==
    /\ Alive /\ MutexFree /\ pc[t] = "submit"
    /\ Len(taskQueue) < maxQueueSize
    /\ taskQueue' = Append(taskQueue, item[t])
    /\ item' = [item EXCEPT ![t] = NoTask]
    /\ pc' = [pc EXCEPT ![t] = Caller(t)]
    /\ UNCHANGED <<running, stop, taken>>

\* notFull_ is notified only when no task is left.
TakeNotifiesWhenEmpty(w) ==
    /\ Alive /\ MutexFree /\ pc[w] = "take"
    /\ taskQueue # <<>>
    /\ taken' = Append(taken, Head(taskQueue))
    /\ taskQueue' = Tail(taskQueue)
    /\ \E S \in OneOf(IF Len(taskQueue) = 1 THEN At("full") ELSE {}) :
          Move(w, "task", S, "submit")
    /\ UNCHANGED <<item, running, stop>>

\* take() forgets notFull_.
TakeIsSilent(w) ==
    /\ Alive /\ MutexFree /\ pc[w] = "take"
    /\ taskQueue # <<>>
    /\ taken' = Append(taken, Head(taskQueue))
    /\ taskQueue' = Tail(taskQueue)
    /\ pc' = [pc EXCEPT ![w] = "task"]
    /\ UNCHANGED <<item, running, stop>>

\* take() takes the newest task.
TakeLast(w) ==
    /\ Alive /\ MutexFree /\ pc[w] = "take"
    /\ taskQueue # <<>>
    /\ taken' = Append(taken, taskQueue[Len(taskQueue)])
    /\ taskQueue' = SubSeq(taskQueue, 1, Len(taskQueue) - 1)
    /\ \E S \in OneOf(At("full")) : Move(w, "task", S, "submit")
    /\ UNCHANGED <<item, running, stop>>

\* stop() notifies without taking the mutex first.
StopNotifiesUnlocked ==
    /\ stop = "cleared"
    /\ pc' = [t \in Threads |-> IF pc[t] = "empty" THEN "take" ELSE pc[t]]
    /\ stop' = "joining"
    /\ UNCHANGED <<item, taskQueue, running, taken>>

-----------------------------------------------------------------------------
\* runTask(task)

\* assert(running_) is read outside the mutex.  Which of the unused task objects it
\* is makes no difference.
RunTask(t, task) ==
    /\ Alive
    /\ pc[t] = "idle" \/ (pc[t] = "task" /\ SelfSubmit)
    /\ Fresh(task) /\ task = CHOOSE other \in Tasks : Fresh(other)
    /\ IF running
       THEN /\ pc' = [pc EXCEPT ![t] = "submit"]
            /\ item' = [item EXCEPT ![t] = task]
            /\ UNCHANGED stop
       ELSE stop' = "aborted" /\ UNCHANGED <<pc, item>>
    /\ UNCHANGED <<taskQueue, running, taken>>

\* while (taskQueue_.size() >= maxQueueSize_) notFull_.wait(lock)
WaitNotFull(t) ==
    /\ Alive /\ MutexFree /\ pc[t] = "submit"
    /\ Len(taskQueue) >= maxQueueSize
    /\ pc' = [pc EXCEPT ![t] = "full"]
    /\ UNCHANGED <<item, taskQueue, running, stop, taken>>

\* The push, notEmpty_.notify_one() and the return from runTask.
Push(t) ==
    /\ Alive /\ MutexFree /\ pc[t] = "submit"
    /\ Len(taskQueue) < maxQueueSize
    /\ taskQueue' = Append(taskQueue, item[t])
    /\ item' = [item EXCEPT ![t] = NoTask]
    /\ \E S \in OneOf(At("empty")) : Move(t, Caller(t), S, "take")
    /\ UNCHANGED <<running, stop, taken>>

-----------------------------------------------------------------------------
\* runInThread() and take(), on a worker

\* while (running_)
TestRunning(w) ==
    /\ Alive /\ pc[w] = "loop"
    /\ pc' = [pc EXCEPT ![w] = IF running THEN "take" ELSE "done"]
    /\ UNCHANGED <<item, taskQueue, running, stop, taken>>

\* The queue is empty and running_ is set: the worker decides to wait ...
Doze(w) ==
    /\ Alive /\ MutexFree /\ pc[w] = "take"
    /\ taskQueue = <<>> /\ running
    /\ pc' = [pc EXCEPT ![w] = "doze"]
    /\ UNCHANGED <<item, taskQueue, running, stop, taken>>

\* ... and gives up the mutex as it starts to.
WaitNotEmpty(w) ==
    /\ Alive /\ pc[w] = "doze"
    /\ pc' = [pc EXCEPT ![w] = "empty"]
    /\ UNCHANGED <<item, taskQueue, running, stop, taken>>

\* The front task is taken, whether running_ is still set or not, and
\* notFull_.notify_one() called.
Take(w) ==
    /\ Alive /\ MutexFree /\ pc[w] = "take"
    /\ taskQueue # <<>>
    /\ taken' = Append(taken, Head(taskQueue))
    /\ taskQueue' = Tail(taskQueue)
    /\ \E S \in OneOf(At("full")) : Move(w, "task", S, "submit")
    /\ UNCHANGED <<item, running, stop>>

\* The pool stops: take() returns no task.
TakeNothing(w) ==
    /\ Alive /\ MutexFree /\ pc[w] = "take"
    /\ taskQueue = <<>> /\ ~running
    /\ pc' = [pc EXCEPT ![w] = "loop"]
    /\ UNCHANGED <<item, taskQueue, running, stop, taken>>

TaskReturns(w) ==
    /\ Alive /\ pc[w] = "task"
    /\ pc' = [pc EXCEPT ![w] = "loop"]
    /\ UNCHANGED <<item, taskQueue, running, stop, taken>>

\* A condition variable may wake without a notification.
SpuriousWakeup(t) ==
    /\ Alive /\ pc[t] \in {"empty", "full"}
    /\ pc' = [pc EXCEPT ![t] = IF pc[t] = "empty" THEN "take" ELSE "submit"]
    /\ UNCHANGED <<item, taskQueue, running, stop, taken>>

-----------------------------------------------------------------------------
\* stop(), called once, by a thread that is not a worker

StopClears ==
    /\ stop = "no"
    /\ running' = FALSE
    /\ stop' = "cleared"
    /\ UNCHANGED <<pc, item, taskQueue, taken>>

\* notEmpty_.notify_all() with the mutex held
StopNotifies ==
    /\ stop = "cleared" /\ MutexFree
    /\ pc' = [t \in Threads |-> IF pc[t] = "empty" THEN "take" ELSE pc[t]]
    /\ stop' = "joining"
    /\ UNCHANGED <<item, taskQueue, running, taken>>

\* join() of every worker
StopReturns ==
    /\ stop = "joining" /\ \A w \in Workers : pc[w] = "done"
    /\ stop' = "returned"
    /\ UNCHANGED <<pc, item, taskQueue, running, taken>>

-----------------------------------------------------------------------------

Submitter(t) ==
    WaitNotFull(t) \/ Push(t) \/ \E task \in Tasks : RunTask(t, task)

Worker(w) ==
    \/ TestRunning(w) \/ Doze(w) \/ WaitNotEmpty(w)
    \/ Take(w) \/ TakeNothing(w) \/ TaskReturns(w)

Stopper == StopClears \/ StopNotifies \/ StopReturns

Next ==
    \/ \E t \in Threads : Submitter(t) \/ SpuriousWakeup(t)
    \/ \E w \in Workers : Worker(w)
    \/ Stopper

Spec == Init /\ [][Next]_vars

\* A thread that can run does, and one that competes for the mutex gets it if
\* the mutex is free again and again.  Calls of runTask and stop, and spurious
\* wakeups, are not promised.
Fairness ==
    /\ \A t \in Threads : SF_vars(WaitNotFull(t) \/ Push(t))
    /\ \A w \in Workers :
        /\ WF_vars(TestRunning(w) \/ WaitNotEmpty(w) \/ TaskReturns(w))
        /\ SF_vars(Doze(w) \/ Take(w) \/ TakeNothing(w))
    /\ SF_vars(StopNotifies) /\ WF_vars(StopReturns)

FairSpec == Spec /\ Fairness

-----------------------------------------------------------------------------
\* Properties

\* A thread holds a task to submit exactly while it is in runTask ...
SubmittersHoldTasks ==
    \A t \in Threads : (item[t] # NoTask) = (pc[t] \in {"submit", "full"})

\* ... and no two threads the same one, nor one that was submitted before.
ItemsFresh ==
    \A t \in Threads : item[t] # NoTask =>
        /\ item[t] \notin Range(taskQueue) \cup Range(taken)
        /\ \A u \in Threads : item[u] = item[t] => u = t

\* The queue stays empty while a worker that saw it empty goes to wait.
EmptyWhileDozing == At("doze") # {} => taskQueue = <<>>

\* The queue never outgrows its bound, however many threads submit at once and
\* however they are woken.
QueueBounded == Len(taskQueue) <= maxQueueSize

\* No lost notification on notEmpty_: while a worker waits for a task, as many
\* workers as there are tasks are on their way to take one.
NoIdleWorkerWhileTasks ==
    At("empty") # {} => Len(taskQueue) <= Cardinality(At("take"))

\* No lost notification on notFull_: while a thread waits for room, as many
\* threads as there are free places are on their way to fill one.
NoBlockedSubmitterWhileRoom ==
    At("full") # {} => maxQueueSize <= Len(taskQueue) + Cardinality(At("submit"))

\* Accepted tasks are handed to workers in order, each of them once.
TQ == INSTANCE TaskQueue WITH queue <- taskQueue, ran <- taken
ImplementsTaskQueue == TQ!Spec

\* Every worker is in a runTask that its own task called, and there is no room: none
\* will ever take a task, though it may wake for a moment.
SelfBlocked ==
    Len(taskQueue) = maxQueueSize /\ \A w \in Workers : pc[w] \in {"submit", "full"}

Serving == running /\ Alive /\ ~SelfBlocked

\* A task that was accepted is taken, unless the pool is stopped or its tasks
\* have filled its queue themselves.
TasksAreTaken ==
    \A task \in Tasks :
        task \in Range(taskQueue) ~> (task \in Range(taken) \/ ~Serving)

\* A thread that waits for room gets it and pushes its task, however often another
\* thread fills the place it was woken for.
SubmittersProceed ==
    \A t \in Threads : pc[t] = "full" ~> (item[t] = NoTask \/ ~Serving)

\* stop() returns, unless a worker waits for room in its own pool: nothing
\* wakes it then.
StopTerminates ==
    stop = "cleared" ~> (stop = "returned" \/ ~Alive
                         \/ \E w \in Workers : pc[w] = "full")
=============================================================================
