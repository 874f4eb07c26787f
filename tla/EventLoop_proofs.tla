--------------------------- MODULE EventLoop_proofs ---------------------------
(***************************************************************************)
(* Theorems about EventLoop, for any set of threads and of tasks, and      *)
(* about EventLoopThread, which runs one.                                  *)
(***************************************************************************)
EXTENDS EventLoopThread, SequenceTheorems, TLAPS

\* Another thread queues some task.
QueueInLoopBy(t) == \E task \in Tasks : QueueInLoop(t, task)

\* Type correctness needs to know that a task is running only when there is
\* one: TaskReturns takes the head of the batch.
TypeInv == TypeOK /\ BatchWhileRunning

LEMMA TypeInvInit == Init => TypeInv
  BY EmptySeq DEF Init, TypeInv, TypeOK, Places, BatchWhileRunning

LEMMA TypeInvStep == TypeInv /\ [Next]_vars => TypeInv'
<1> SUFFICES ASSUME TypeInv, [Next]_vars PROVE TypeInv'
  OBVIOUS
<1> USE EmptySeq DEF TypeInv, TypeOK, BatchWhileRunning, Places, loopVars, batchVars
<1>1. CASE UNCHANGED vars
  BY <1>1 DEF vars
<1>2. CASE Enter \/ Test \/ PollInterrupted \/ HandleWakeup \/ HandleIo
           \/ HandlersDone \/ Unwind
  BY <1>2 DEF Enter, Test, PollInterrupted, HandleWakeup, HandleIo,
              HandlersDone, Unwind
<1>3. CASE PollWakeup \/ PollIo
  BY <1>3 DEF PollWakeup, PollIo, Poll
<1>4. CASE Swap
  BY <1>4 DEF Swap
<1>5. CASE TaskReturns
  <2>1. pc = "run" /\ tasks # <<>>
    BY <1>5 DEF TaskReturns
  <2>2. Head(tasks) \in Tasks /\ tasks' \in Seq(Tasks)
    BY <1>5, <2>1, HeadTailProperties DEF TaskReturns
  <2>3. ran' \in Seq(Tasks)
    BY <1>5, <2>2, AppendProperties DEF TaskReturns
  <2> QED
    BY <1>5, <2>2, <2>3 DEF TaskReturns
<1>6. CASE QuitHere
  BY <1>6 DEF QuitHere, UserCodeRuns
<1>7. ASSUME NEW task \in Tasks, QueueInLoopHere(task) PROVE TypeInv'
  BY <1>7, AppendProperties DEF QueueInLoopHere, UserCodeRuns
<1>8. ASSUME NEW t \in Threads, QuitAssert(t) \/ QuitStore(t) \/ Wakeup(t)
      PROVE  TypeInv'
  BY <1>8 DEF QuitAssert, QuitStore, Wakeup
<1>9. ASSUME NEW t \in Threads, NEW task \in Tasks, QueueInLoop(t, task)
      PROVE  TypeInv'
  BY <1>9, AppendProperties DEF QueueInLoop
<1> QED
  BY <1>1, <1>2, <1>3, <1>4, <1>5, <1>6, <1>7, <1>8, <1>9
  DEF Next, LoopStep, CallerStep

LEMMA TypeInvAlways == Spec => []TypeInv
  BY TypeInvInit, TypeInvStep, PTL DEF Spec

\* Values stay in their types, whatever the threads do (Eventloop.h:47-56).
THEOREM TypeCorrect == Spec => []TypeOK
  BY TypeInvAlways, PTL DEF TypeInv

\* A batch exists exactly while its tasks run (Eventloop.cc:183-196).
THEOREM BatchCorrect == Spec => []BatchWhileRunning
  BY TypeInvAlways, PTL DEF TypeInv

-----------------------------------------------------------------------------
(***************************************************************************)
(* No lost wakeup.  WakeupNotLost speaks of epoll_wait only and is not     *)
(* inductive; TasksAnnounced follows a pending task through the whole      *)
(* round.                                                                  *)
(***************************************************************************)

LEMMA TasksAnnouncedStep ==
  ASSUME LoopQueuesWhereCovered
  PROVE  TypeInv /\ TasksAnnounced /\ [Next]_vars => TasksAnnounced'
<1> SUFFICES ASSUME TypeInv, TasksAnnounced, [Next]_vars PROVE TasksAnnounced'
  OBVIOUS
<1> USE DEF TasksAnnounced, WakeupComing, loopVars, batchVars
<1>1. CASE UNCHANGED vars
  BY <1>1 DEF vars
<1>2. CASE Enter \/ Test \/ PollInterrupted \/ HandleWakeup \/ HandleIo
           \/ HandlersDone \/ TaskReturns \/ Unwind
  BY <1>2 DEF Enter, Test, PollInterrupted, HandleWakeup, HandleIo,
              HandlersDone, TaskReturns, Unwind
<1>3. CASE PollWakeup \/ PollIo
  BY <1>3 DEF PollWakeup, PollIo, Poll
<1>4. CASE Swap
  BY <1>4 DEF Swap
<1>5. CASE QuitHere
  BY <1>5 DEF QuitHere
<1>6. ASSUME NEW task \in Tasks, QueueInLoopHere(task) PROVE TasksAnnounced'
  <2>1. CASE pc = "handle"
    BY <1>6, <2>1 DEF QueueInLoopHere
  <2>2. CASE pc = "run"
    <3>1. doingPendingTasks = TRUE
      BY <2>2 DEF TypeInv, TypeOK, BatchWhileRunning
    <3> QED
      BY <1>6, <3>1 DEF QueueInLoopHere
  <2> QED
    BY <1>6, <2>1, <2>2, LoopQueuesWhereCovered
    DEF QueueInLoopHere, LoopQueuesWhereCovered
<1>7. ASSUME NEW t \in Threads, QueueInLoopBy(t) PROVE TasksAnnounced'
  <2>1. caller'[t] = "waking"
    BY <1>7 DEF QueueInLoopBy, QueueInLoop, TypeInv, TypeOK
  <2> QED
    BY <2>1
<1>8. ASSUME NEW t \in Threads, QuitAssert(t) PROVE TasksAnnounced'
  <2>1. \A s \in Threads : caller[s] = "waking" => pc' = "aborted" \/ caller'[s] = "waking"
    BY <1>8 DEF QuitAssert, TypeInv, TypeOK
  <2> QED
    BY <1>8, <2>1 DEF QuitAssert
<1>9. ASSUME NEW t \in Threads, QuitStore(t) PROVE TasksAnnounced'
  <2>1. caller'[t] = "waking"
    BY <1>9 DEF QuitStore, TypeInv, TypeOK
  <2> QED
    BY <2>1
<1>10. ASSUME NEW t \in Threads, Wakeup(t) PROVE TasksAnnounced'
  BY <1>10 DEF Wakeup
<1> QED
  BY <1>1, <1>2, <1>3, <1>4, <1>5, <1>6, <1>7, <1>8, <1>9, <1>10
  DEF Next, LoopStep, CallerStep, QueueInLoopBy

\* While the code on the loop's own thread queues only in handlers and tasks,
\* the loop never waits in epoll_wait with a pending task that no wakeup is on
\* its way for: the condition of Eventloop.cc:111 is enough.
THEOREM NoLostWakeup ==
  ASSUME LoopQueuesWhereCovered
  PROVE  Spec => []WakeupNotLost
<1>1. Init => TasksAnnounced
  BY DEF Init, TasksAnnounced
<1>2. TypeInv /\ TasksAnnounced /\ [Next]_vars => TasksAnnounced'
  BY TasksAnnouncedStep
<1>3. TasksAnnounced => WakeupNotLost
  BY DEF TasksAnnounced, WakeupNotLost
<1> QED
  BY <1>1, <1>2, <1>3, TypeInvAlways, PTL DEF Spec

-----------------------------------------------------------------------------

LEMMA QuitNotLostStep == TypeInv /\ QuitNotLost /\ [Next]_vars => QuitNotLost'
<1> SUFFICES ASSUME TypeInv, QuitNotLost, [Next]_vars PROVE QuitNotLost'
  OBVIOUS
<1> USE DEF QuitNotLost, WakeupComing, loopVars, batchVars
<1>1. CASE UNCHANGED vars
  BY <1>1 DEF vars
<1>2. CASE Enter \/ Test \/ PollInterrupted \/ HandleWakeup \/ HandleIo
           \/ HandlersDone \/ Swap \/ TaskReturns \/ Unwind
  BY <1>2 DEF Enter, Test, PollInterrupted, HandleWakeup, HandleIo,
              HandlersDone, Swap, TaskReturns, Unwind
<1>3. CASE PollWakeup \/ PollIo
  BY <1>3 DEF PollWakeup, PollIo, Poll
<1>4. CASE QuitHere
  BY <1>4 DEF QuitHere, UserCodeRuns
<1>5. ASSUME NEW task \in Tasks, QueueInLoopHere(task) PROVE QuitNotLost'
  BY <1>5 DEF QueueInLoopHere
<1>6. ASSUME NEW t \in Threads, QueueInLoopBy(t) \/ QuitStore(t) PROVE QuitNotLost'
  <2>1. caller'[t] = "waking"
    BY <1>6 DEF QueueInLoopBy, QueueInLoop, QuitStore, TypeInv, TypeOK
  <2> QED
    BY <2>1
<1>7. ASSUME NEW t \in Threads, QuitAssert(t) PROVE QuitNotLost'
  BY <1>7 DEF QuitAssert, TypeInv, TypeOK
<1>8. ASSUME NEW t \in Threads, Wakeup(t) PROVE QuitNotLost'
  BY <1>8 DEF Wakeup
<1> QED
  BY <1>1, <1>2, <1>3, <1>4, <1>5, <1>6, <1>7, <1>8
  DEF Next, LoopStep, CallerStep, QueueInLoopBy

\* The loop never waits in epoll_wait with quit_ set and no wakeup on its way:
\* quit() stores the flag before it wakes the loop (Eventloop.cc:80-82), and
\* every wait is preceded by a test of the flag.
THEOREM NoSleepThroughQuit == Spec => []QuitNotLost
<1>1. Init => QuitNotLost
  BY DEF Init, QuitNotLost
<1> QED
  BY <1>1, QuitNotLostStep, TypeInvAlways, PTL DEF Spec

-----------------------------------------------------------------------------
(***************************************************************************)
(* EventLoop implements TaskQueue.  The abstract queue is the running      *)
(* batch followed by the pending tasks, so a swap is a stuttering step.    *)
(***************************************************************************)

LEMMA FreshIsFresh ==
  ASSUME TypeInv, NEW task \in Tasks, Fresh(task)
  PROVE  TQ!Fresh(task)
<1>1. Range(tasks \o pendingTasks) = Range(tasks) \cup Range(pendingTasks)
  BY RangeConcatenation DEF TypeInv, TypeOK
<1>2. TQ!Range(tasks \o pendingTasks) = Range(tasks \o pendingTasks)
  BY DEF TQ!Range, Range
<1>3. TQ!Range(ran) = Range(ran)
  BY DEF TQ!Range, Range
<1> QED
  BY <1>1, <1>2, <1>3 DEF Fresh, TQ!Fresh

LEMMA PushIsEnqueue ==
  ASSUME TypeInv, NEW task \in Tasks, Fresh(task),
         pendingTasks' = Append(pendingTasks, task), UNCHANGED batchVars
  PROVE  TQ!Enqueue(task)
<1>1. tasks \in Seq(Tasks) /\ pendingTasks \in Seq(Tasks) /\ <<task>> \in Seq(Tasks)
  BY DEF TypeInv, TypeOK
<1>2. tasks \o Append(pendingTasks, task) = (tasks \o pendingTasks) \o <<task>>
  BY <1>1, AppendIsConcat, ConcatAssociative
<1>3. tasks \o pendingTasks \in Seq(Tasks)
  BY <1>1, ConcatProperties
<1>4. (tasks \o pendingTasks) \o <<task>> = Append(tasks \o pendingTasks, task)
  BY <1>3, AppendIsConcat
<1> QED
  BY <1>2, <1>4, FreshIsFresh DEF TQ!Enqueue, batchVars

LEMMA ReturnIsExecute ==
  ASSUME TypeInv, TaskReturns PROVE TQ!Execute
<1>1. tasks \in Seq(Tasks) /\ tasks # <<>> /\ pendingTasks \in Seq(Tasks)
  BY DEF TaskReturns, TypeInv, TypeOK, BatchWhileRunning
<1>2. /\ tasks \o pendingTasks # <<>>
      /\ Head(tasks \o pendingTasks) = Head(tasks)
      /\ Tail(tasks \o pendingTasks) = Tail(tasks) \o pendingTasks
  BY <1>1
<1> QED
  BY <1>2 DEF TaskReturns, TQ!Execute

\* Every task queued, from whichever thread, is run at most once and in the
\* order in which the pushes took mutex_; none is dropped by the swap
\* (Eventloop.cc:101-123 and 183-196).
THEOREM Implements == Spec => ImplementsTaskQueue
<1>1. Init => TQ!Init
  BY EmptySeq, ConcatEmptySeq DEF Init, TQ!Init
<1>2. TypeInv /\ [Next]_vars => [TQ!Next]_(TQ!vars)
  <2> SUFFICES ASSUME TypeInv, [Next]_vars PROVE [TQ!Next]_(TQ!vars)
    OBVIOUS
  <2> USE DEF TQ!vars, loopVars, batchVars
  <2>1. CASE UNCHANGED vars
    BY <2>1 DEF vars
  <2>2. CASE Enter \/ Test \/ PollInterrupted \/ HandleWakeup \/ HandleIo
             \/ HandlersDone \/ Unwind \/ QuitHere
    BY <2>2 DEF Enter, Test, PollInterrupted, HandleWakeup, HandleIo,
                HandlersDone, Unwind, QuitHere
  <2>3. CASE PollWakeup \/ PollIo
    BY <2>3 DEF PollWakeup, PollIo, Poll
  <2>4. CASE Swap
    <3>1. tasks = <<>> /\ pendingTasks \in Seq(Tasks)
      BY <2>4 DEF Swap, TypeInv, TypeOK, BatchWhileRunning
    <3>2. tasks' \o pendingTasks' = tasks \o pendingTasks /\ UNCHANGED ran
      BY <2>4, <3>1, ConcatEmptySeq DEF Swap
    <3> QED
      BY <3>2
  <2>5. CASE TaskReturns
    BY <2>5, ReturnIsExecute DEF TQ!Next
  <2>6. ASSUME NEW task \in Tasks, QueueInLoopHere(task) PROVE TQ!Next
    BY <2>6, PushIsEnqueue DEF QueueInLoopHere, TQ!Next
  <2>7. ASSUME NEW t \in Threads, NEW task \in Tasks, QueueInLoop(t, task)
        PROVE  TQ!Next
    BY <2>7, PushIsEnqueue DEF QueueInLoop, TQ!Next
  <2>8. ASSUME NEW t \in Threads, QuitAssert(t) \/ QuitStore(t) \/ Wakeup(t)
        PROVE  UNCHANGED TQ!vars
    BY <2>8 DEF QuitAssert, QuitStore, Wakeup
  <2> QED
    BY <2>1, <2>2, <2>3, <2>4, <2>5, <2>6, <2>7, <2>8
    DEF Next, LoopStep, CallerStep
<1> QED
  BY <1>1, <1>2, TypeInvAlways, PTL DEF Spec, ImplementsTaskQueue, TQ!Spec

-----------------------------------------------------------------------------
(***************************************************************************)
(* EventLoopThread.  The runner's place says whether the loop exists, is   *)
(* published and was announced.  Until startLoop() has returned nobody has *)
(* the loop to call it: no task, no handler, no quit, so that loop() goes  *)
(* on and the pointer that startLoop() will read stays.                    *)
(***************************************************************************)

RunnerInv ==
    /\ owner \in Owners /\ runner \in Runners
    /\ loop \in BOOLEAN /\ latched \in BOOLEAN
    /\ loop <=> runner \in {"published", "counted", "looping"}
    /\ object = IF runner \in {"none", "spawned"} THEN "none"
                ELSE IF runner = "finished" THEN "dead" ELSE "alive"
    /\ latched <=> runner \in {"none", "spawned", "published"}
    /\ owner = "new" => runner = "none"

Untouched ==
    /\ quit = FALSE /\ pendingTasks = <<>> /\ tasks = <<>> /\ "io" \notin activeChannels
    /\ pc \in {"outside", "test", "poll", "handle", "swap"}
    /\ runner \in {"none", "spawned", "published", "counted", "looping"}
    /\ pc = "outside" <=> runner # "looping"

ThreadInv == RunnerInv /\ (owner \in {"new", "waiting"} => Untouched)

LEMMA ThreadInvPointer == ThreadInv => PointerNeverDangles
  BY DEF ThreadInv, RunnerInv, Untouched, PointerNeverDangles, Runners

\* One step of a loop that nobody has touched leaves it so.
LEMMA UntouchedLoop ==
  ASSUME Untouched, runner = "looping", LoopStep, "io" \notin activeChannels',
         UNCHANGED runner
  PROVE  Untouched'
<1> USE DEF Untouched, loopVars, batchVars
<1>1. ~(\E task \in Tasks : QueueInLoopHere(task)) /\ ~QuitHere
  BY DEF QueueInLoopHere, QuitHere, UserCodeRuns
<1>2. CASE Enter \/ Test \/ PollInterrupted \/ HandleWakeup \/ HandleIo
           \/ HandlersDone \/ Unwind
  BY <1>2 DEF Enter, Test, PollInterrupted, HandleWakeup, HandleIo, HandlersDone, Unwind
<1>3. CASE PollWakeup \/ PollIo
  BY <1>3 DEF PollWakeup, PollIo, Poll
<1>4. CASE Swap \/ TaskReturns
  BY <1>4 DEF Swap, TaskReturns
<1> QED
  BY <1>1, <1>2, <1>3, <1>4 DEF LoopStep

LEMMA ThreadInvStep == ThreadInv /\ [ThreadNext]_allVars => ThreadInv'
<1> SUFFICES ASSUME ThreadInv, [ThreadNext]_allVars PROVE ThreadInv'
  OBVIOUS
<1> USE DEF ThreadInv, RunnerInv, Owners, Runners, Defined, vars, threadVars
<1>1. CASE UNCHANGED allVars
  BY <1>1 DEF allVars, Untouched
<1>2. CASE Publish \/ Count \/ DestroyLoop
  <2>1. CASE Publish
    BY <2>1 DEF Publish, Untouched
  <2>2. CASE Count
    BY <2>2 DEF Count, Untouched
  <2>3. CASE DestroyLoop
    BY <2>3 DEF DestroyLoop, Untouched
  <2> QED
    BY <1>2, <2>1, <2>2, <2>3
<1>3. CASE EnterLoop
  BY <1>3 DEF EnterLoop, Enter, batchVars, Untouched
<1>4. CASE Loop
  BY <1>4, UntouchedLoop DEF Loop
<1>5. CASE Leave
  BY <1>5 DEF Leave, Untouched
<1>6. CASE StartLoop \/ StartLoopReturns
  BY <1>6 DEF StartLoop, StartLoopReturns, Untouched
<1>7. CASE DestroyUnstarted \/ Destroy \/ DestroyQuits \/ Join
  BY <1>7 DEF DestroyUnstarted, Destroy, DestroyQuits, Join
<1>8. ASSUME NEW t \in Users, User(t) PROVE ThreadInv'
  BY <1>8 DEF User
<1>9. CASE UseOfDeadLoop
  BY <1>9 DEF UseOfDeadLoop
<1> QED
  BY <1>1, <1>2, <1>3, <1>4, <1>5, <1>6, <1>7, <1>8, <1>9
  DEF ThreadNext, Runner, OwnerStep

LEMMA ThreadInvAlways == ThreadSpec => []ThreadInv
<1>1. ThreadInit => ThreadInv
  BY DEF ThreadInit, Init, ThreadInv, RunnerInv, Untouched, Owners, Runners
<1> QED
  BY <1>1, ThreadInvStep, PTL DEF ThreadSpec

\* startLoop() finds the loop there when the latch lets it go on, so its assertion
\* holds, and loop_ is never set when the loop is gone, however the owner, the
\* runner and the users interleave (EventLoopThread.cc:18-38).
THEOREM PointerIsGood == ThreadSpec => []PointerNeverDangles
  BY ThreadInvAlways, ThreadInvPointer, PTL

\* What the thread, its owner and its users do to the loop are steps of EventLoop:
\* each theorem above about Spec holds of the loop that an EventLoopThread runs.
THEOREM ThreadRunsALoop == ThreadSpec => Spec
<1>1. ThreadInit => Init
  BY DEF ThreadInit
<1>2. ThreadInv /\ [ThreadNext]_allVars => [Next]_vars
  <2> SUFFICES ASSUME ThreadInv, [ThreadNext]_allVars PROVE [Next]_vars
    OBVIOUS
  <2>1. CASE UNCHANGED allVars
    BY <2>1 DEF allVars
  <2>2. CASE Publish \/ Count \/ Leave \/ DestroyLoop \/ StartLoop
             \/ DestroyUnstarted \/ Destroy \/ Join \/ UseOfDeadLoop
    BY <2>2 DEF Publish, Count, Leave, DestroyLoop, StartLoop, DestroyUnstarted,
                Destroy, Join, UseOfDeadLoop
  <2>3. CASE EnterLoop \/ Loop
    BY <2>3 DEF EnterLoop, Loop, Next, LoopStep
  <2>4. CASE StartLoopReturns
    <3>1. loop
      BY <2>4, ThreadInvPointer DEF StartLoopReturns, PointerNeverDangles
    <3> QED
      BY <2>4, <3>1 DEF StartLoopReturns, vars
  <2>5. CASE DestroyQuits
    BY <2>5, OwnerAssumption DEF DestroyQuits, Next, CallerStep
  <2>6. ASSUME NEW t \in Users, User(t) PROVE [Next]_vars
    BY <2>6 DEF User, Users, Next
  <2> QED
    BY <2>1, <2>2, <2>3, <2>4, <2>5, <2>6 DEF ThreadNext, Runner, OwnerStep
<1> QED
  BY <1>1, <1>2, ThreadInvAlways, PTL DEF ThreadSpec, Spec

\* Values stay in their types, those of the loop included (EventLoopThread.h:18-25).
THEOREM ThreadTypeCorrect == ThreadSpec => []ThreadTypeOK
<1>1. TypeInv /\ ThreadInv => ThreadTypeOK
  BY DEF TypeInv, ThreadInv, RunnerInv, ThreadTypeOK
<1> QED
  BY <1>1, ThreadInvAlways, ThreadRunsALoop, TypeInvAlways, PTL

\* In particular no task that is queued on the loop of an EventLoopThread, by its
\* users or by its own handlers and tasks, is slept on (Eventloop.cc:101-115).
COROLLARY ThreadLosesNoWakeup ==
  ASSUME LoopQueuesWhereCovered
  PROVE  ThreadSpec => []WakeupNotLost
  BY ThreadRunsALoop, NoLostWakeup, PTL
=============================================================================
