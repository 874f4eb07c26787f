------------------------------ MODULE EventLoop ------------------------------
(***************************************************************************)
(* The event loop of bearTCP (Eventloop.cc): one thread that alternates    *)
(* between epoll, the handlers of the ready channels and the tasks other   *)
(* threads queued, and the operations other threads call on it:            *)
(* queueInLoop, quit and, inside both, wakeup.                             *)
(*                                                                         *)
(* The eventfd is level-triggered, so only "its counter is not zero"       *)
(* matters and `wakeup' is a Boolean.  One channel "io" stands for every   *)
(* channel but the one of the eventfd, the timer queue's included.         *)
(***************************************************************************)
EXTENDS Sequences, Functions

CONSTANTS
    Threads,          \* the threads other than the loop's own
    Tasks,            \* the task objects; one is queued at most once
    LoopQueuesAt      \* where code on the loop's own thread calls queueInLoop

ASSUME LoopQueuesAtAssumption ==
    LoopQueuesAt \subseteq {"outside", "handle", "run", "unwind"}

VARIABLES
    pc,               \* where the loop's own thread is
    activeChannels,   \* channels epoll reported and not handled yet
    pendingTasks,     \* pendingTasks_, guarded by mutex_
    tasks,            \* the swapped batch in doPendingTasks; its head is running
    doingPendingTasks,
    quit,             \* quit_
    wakeup,           \* the counter of wakeupFd_ is not zero
    caller,           \* what each other thread is about to do
    ran               \* tasks that have returned, in order

vars == <<pc, activeChannels, pendingTasks, tasks, doingPendingTasks, quit,
          wakeup, caller, ran>>

loopVars  == <<pc, activeChannels>>
batchVars == <<tasks, doingPendingTasks, ran>>

(***************************************************************************)
(* outside  not in loop(): before the call, or after it returned           *)
(* test     about to evaluate while (!quit_)                               *)
(* poll     in epoll_wait                                                  *)
(* handle   in the for loop over activeChannels_                           *)
(* swap     about to call doPendingTasks                                   *)
(* run      Head(tasks) is running                                         *)
(* unwind   doingPendingTasks_ is false again, `tasks' is being destroyed  *)
(* aborted  an assertion failed and the process is gone                    *)
(***************************************************************************)
Places == {"outside", "test", "poll", "handle", "swap", "run", "unwind", "aborted"}

TypeOK ==
    /\ pc \in Places
    /\ activeChannels \subseteq {"wakeup", "io"}
    /\ pendingTasks \in Seq(Tasks)
    /\ tasks \in Seq(Tasks)
    /\ ran \in Seq(Tasks)
    /\ doingPendingTasks \in BOOLEAN
    /\ quit \in BOOLEAN
    /\ wakeup \in BOOLEAN
    /\ caller \in [Threads -> {"idle", "quitting", "waking"}]

Init ==
    /\ pc = "outside"
    /\ activeChannels = {}
    /\ pendingTasks = <<>>
    /\ tasks = <<>>
    /\ doingPendingTasks = FALSE
    /\ quit = FALSE
    /\ wakeup = FALSE
    /\ caller = [t \in Threads |-> "idle"]
    /\ ran = <<>>

-----------------------------------------------------------------------------
\* Slips: forms of the operations below that a plausible edit of Eventloop.cc
\* would produce.  Nothing uses them; each breaks a property stated at the end.

\* doPendingTasks copies the queue instead of swapping it out.
SwapCopies ==
    /\ pc = "swap" /\ pendingTasks # <<>>
    /\ pc' = "run"
    /\ tasks' = pendingTasks
    /\ doingPendingTasks' = TRUE
    /\ UNCHANGED <<activeChannels, pendingTasks, quit, wakeup, caller, ran>>

\* The condition Eventloop.cc:109-110 warns of: another thread wakes the loop
\* only if it sees doingPendingTasks_.
QueueInLoopRacy(t, task) ==
    /\ pc # "aborted" /\ caller[t] = "idle"
    /\ task \notin Range(pendingTasks) \cup Range(tasks) \cup Range(ran)
    /\ pendingTasks' = Append(pendingTasks, task)
    /\ caller' = [caller EXCEPT ![t] = IF doingPendingTasks THEN "waking" ELSE "idle"]
    /\ UNCHANGED <<loopVars, batchVars, quit, wakeup>>

\* A task that queues another does not wake the loop.
QueueInLoopHereSilent(task) ==
    /\ pc \in {"handle", "run"} /\ pc \in LoopQueuesAt
    /\ task \notin Range(pendingTasks) \cup Range(tasks) \cup Range(ran)
    /\ pendingTasks' = Append(pendingTasks, task)
    /\ UNCHANGED <<loopVars, batchVars, quit, wakeup, caller>>

\* quit() stores the flag and does not wake the loop.
QuitStoreSilent(t) ==
    /\ pc # "aborted" /\ caller[t] = "quitting"
    /\ quit' = TRUE
    /\ caller' = [caller EXCEPT ![t] = "idle"]
    /\ UNCHANGED <<loopVars, pendingTasks, batchVars, wakeup>>

\* quit_ = false is repeated in every round of the loop.
TestClearsQuit ==
    /\ pc = "test"
    /\ pc' = "poll"
    /\ activeChannels' = {}
    /\ quit' = FALSE
    /\ UNCHANGED <<pendingTasks, batchVars, wakeup, caller>>

-----------------------------------------------------------------------------
\* loop(), on the loop's own thread

\* loop() is called: whatever quit_ was, it is cleared.
Enter ==
    /\ pc = "outside"
    /\ pc' = "test"
    /\ quit' = FALSE
    /\ UNCHANGED <<activeChannels, pendingTasks, batchVars, wakeup, caller>>

\* while (!quit_) { activeChannels_.clear(); ...
Test ==
    /\ pc = "test"
    /\ pc' = IF quit THEN "outside" ELSE "poll"
    /\ activeChannels' = IF quit THEN activeChannels ELSE {}
    /\ UNCHANGED <<pendingTasks, batchVars, quit, wakeup, caller>>

\* epoll_wait returns every ready channel: the eventfd if it was written, and
\* perhaps others.
Poll(ready) ==
    /\ pc = "poll"
    /\ pc' = "handle"
    /\ activeChannels' = ready \cup (IF wakeup THEN {"wakeup"} ELSE {})
    /\ UNCHANGED <<pendingTasks, batchVars, quit, wakeup, caller>>

PollWakeup == wakeup /\ \E ready \in SUBSET {"io"} : Poll(ready)
PollIo     == ~wakeup /\ Poll({"io"})

\* epoll_wait fails with EINTR: nothing is active, the round goes on.
PollInterrupted ==
    /\ pc = "poll"
    /\ pc' = "handle"
    /\ UNCHANGED <<activeChannels, pendingTasks, batchVars, quit, wakeup, caller>>

\* handleRead of the eventfd: the read resets its counter.
HandleWakeup ==
    /\ pc = "handle" /\ "wakeup" \in activeChannels
    /\ wakeup' = FALSE
    /\ activeChannels' = activeChannels \ {"wakeup"}
    /\ UNCHANGED <<pc, pendingTasks, batchVars, quit, caller>>

\* The handler of another channel returns; while "io" is active it may have
\* called QueueInLoopHere and QuitHere.
HandleIo ==
    /\ pc = "handle" /\ "io" \in activeChannels
    /\ activeChannels' = activeChannels \ {"io"}
    /\ UNCHANGED <<pc, pendingTasks, batchVars, quit, wakeup, caller>>

HandlersDone ==
    /\ pc = "handle" /\ activeChannels = {}
    /\ pc' = "swap"
    /\ UNCHANGED <<activeChannels, pendingTasks, batchVars, quit, wakeup, caller>>

\* doPendingTasks: take the whole queue in one swap and start its first task.
Swap ==
    /\ pc = "swap"
    /\ IF pendingTasks = <<>>
       THEN pc' = "test" /\ UNCHANGED <<pendingTasks, batchVars>>
       ELSE /\ pc' = "run"
            /\ tasks' = pendingTasks
            /\ pendingTasks' = <<>>
            /\ doingPendingTasks' = TRUE
            /\ UNCHANGED ran
    /\ UNCHANGED <<activeChannels, quit, wakeup, caller>>

\* The running task returns and the next one starts; after the last one
\* doingPendingTasks_ is cleared.
TaskReturns ==
    /\ pc = "run"
    /\ ran' = Append(ran, Head(tasks))
    /\ tasks' = Tail(tasks)
    /\ pc' = IF tasks' = <<>> THEN "unwind" ELSE "run"
    /\ doingPendingTasks' = (tasks' # <<>>)
    /\ UNCHANGED <<activeChannels, pendingTasks, quit, wakeup, caller>>

\* The batch is destroyed, and with it what its tasks captured.
Unwind ==
    /\ pc = "unwind"
    /\ pc' = "test"
    /\ UNCHANGED <<activeChannels, pendingTasks, batchVars, quit, wakeup, caller>>

-----------------------------------------------------------------------------
\* queueInLoop and quit, called on the loop's own thread by its handlers, its
\* tasks, the destructors of its tasks, or around loop()

UserCodeRuns ==
    \/ pc \in {"outside", "run", "unwind"}
    \/ pc = "handle" /\ "io" \in activeChannels

Fresh(task) == task \notin Range(pendingTasks) \cup Range(tasks) \cup Range(ran)

\* On the loop's thread wakeup() is called only while tasks are being done.
QueueInLoopHere(task) ==
    /\ UserCodeRuns /\ pc \in LoopQueuesAt
    /\ Fresh(task)
    /\ pendingTasks' = Append(pendingTasks, task)
    /\ wakeup' = (wakeup \/ doingPendingTasks)
    /\ UNCHANGED <<loopVars, batchVars, quit, caller>>

\* assert(!quit_) and the store follow each other on one thread; a store of
\* another thread between the two has the effect of one just before or after.
QuitHere ==
    /\ UserCodeRuns
    /\ IF quit THEN pc' = "aborted" /\ UNCHANGED quit
               ELSE quit' = TRUE /\ UNCHANGED pc
    /\ UNCHANGED <<activeChannels, pendingTasks, batchVars, wakeup, caller>>

-----------------------------------------------------------------------------
\* queueInLoop and quit, called by another thread

\* The push under mutex_; the call to wakeup() comes after the unlock.
QueueInLoop(t, task) ==
    /\ pc # "aborted" /\ caller[t] = "idle"
    /\ Fresh(task)
    /\ pendingTasks' = Append(pendingTasks, task)
    /\ caller' = [caller EXCEPT ![t] = "waking"]
    /\ UNCHANGED <<loopVars, batchVars, quit, wakeup>>

\* quit() first asserts that nobody has called it before ...
QuitAssert(t) ==
    /\ pc # "aborted" /\ caller[t] = "idle"
    /\ IF quit THEN pc' = "aborted" /\ UNCHANGED caller
               ELSE caller' = [caller EXCEPT ![t] = "quitting"] /\ UNCHANGED pc
    /\ UNCHANGED <<activeChannels, pendingTasks, batchVars, quit, wakeup>>

\* ... then stores the flag ...
QuitStore(t) ==
    /\ pc # "aborted" /\ caller[t] = "quitting"
    /\ quit' = TRUE
    /\ caller' = [caller EXCEPT ![t] = "waking"]
    /\ UNCHANGED <<loopVars, pendingTasks, batchVars, wakeup>>

\* ... and last, like queueInLoop, writes the eventfd.
Wakeup(t) ==
    /\ pc # "aborted" /\ caller[t] = "waking"
    /\ wakeup' = TRUE
    /\ caller' = [caller EXCEPT ![t] = "idle"]
    /\ UNCHANGED <<loopVars, pendingTasks, batchVars, quit>>

-----------------------------------------------------------------------------

LoopStep ==
    \/ Enter \/ Test \/ PollWakeup \/ PollIo \/ PollInterrupted
    \/ HandleWakeup \/ HandleIo \/ HandlersDone
    \/ Swap \/ TaskReturns \/ Unwind
    \/ QuitHere
    \/ \E task \in Tasks : QueueInLoopHere(task)

CallerStep(t) ==
    \/ QuitAssert(t) \/ QuitStore(t) \/ Wakeup(t)
    \/ \E task \in Tasks : QueueInLoop(t, task)

Next == LoopStep \/ \E t \in Threads : CallerStep(t)

Spec == Init /\ [][Next]_vars

\* What runs by itself: the loop's own code up to its next wait, handlers and
\* tasks that return, and a caller that has started an operation.  Neither
\* the call of loop(), nor i/o, nor a signal, nor a new call is promised.
Fairness ==
    /\ WF_vars(Test \/ PollWakeup \/ HandleWakeup \/ HandleIo \/ HandlersDone
               \/ Swap \/ TaskReturns \/ Unwind)
    /\ \A t \in Threads : WF_vars(QuitStore(t) \/ Wakeup(t))

FairSpec == Spec /\ Fairness

-----------------------------------------------------------------------------
\* Properties

\* A batch is held exactly while its tasks run, and doingPendingTasks_ says so.
BatchWhileRunning ==
    pc # "aborted" => /\ doingPendingTasks = (pc = "run")
                      /\ (tasks # <<>>) = (pc = "run")

\* The code on the loop's own thread queues only where queueInLoop covers it:
\* in a handler (doPendingTasks follows) or in a task (wakeup() is called).
LoopQueuesWhereCovered == LoopQueuesAt \subseteq {"handle", "run"}

\* The loop never sleeps on a task: if it is in epoll_wait and a task is
\* pending, the eventfd is readable or a caller is about to write it.  The
\* race described at Eventloop.cc:107-110 is the one this excludes.
WakeupComing == wakeup \/ \E t \in Threads : caller[t] = "waking"
WakeupNotLost == (pc = "poll" /\ pendingTasks # <<>>) => WakeupComing

\* Why: from the end of one swap to the return of the next epoll_wait, a
\* pending task always has a wakeup on its way; between the read of the eventfd
\* and the swap it needs none.
TasksAnnounced ==
    (pc \notin {"handle", "swap", "aborted"} /\ pendingTasks # <<>>) => WakeupComing

\* A quit that finds loop() running is not slept on either: a loop that is in
\* epoll_wait with quit_ set is about to be woken.
QuitNotLost == (pc = "poll" /\ quit) => WakeupComing

\* Tasks are run once each, in the order their pushes took mutex_.
TQ == INSTANCE TaskQueue WITH queue <- tasks \o pendingTasks
ImplementsTaskQueue == TQ!Spec

Stopped == pc \in {"outside", "aborted"}

\* A queued task is run, unless the loop is left.
TasksAreServed ==
    \A task \in Tasks :
        task \in Range(pendingTasks) ~> (task \in Range(ran) \/ Stopped)

\* A quit issued while loop() runs makes it return.
QuitIsHonoured == (quit /\ ~Stopped) ~> Stopped
=============================================================================
