--------------------------- MODULE ThreadPool_proofs ---------------------------
(***************************************************************************)
(* Theorems about ThreadPool, for any finite sets of workers and of        *)
(* producers, any set of tasks and any bound of the queue.                 *)
(***************************************************************************)
EXTENDS ThreadPool, SequenceTheorems, FiniteSetTheorems, TLAPS

\* The actions of Next, one case each.
LEMMA NextCases ==
  ASSUME Next
  PROVE  \/ \E t \in Threads, task \in Tasks : RunTask(t, task)
         \/ \E t \in Threads : WaitNotFull(t) \/ Push(t) \/ SpuriousWakeup(t)
         \/ \E w \in Workers : \/ TestRunning(w) \/ Doze(w) \/ WaitNotEmpty(w)
                               \/ Take(w) \/ TakeNothing(w) \/ TaskReturns(w)
         \/ StopClears \/ StopNotifies \/ StopReturns
  BY DEF Next, Submitter, Worker, Stopper

TypeInv == TypeOK /\ SubmittersHoldTasks

LEMMA TypeInvInit == Init => TypeInv
  BY EmptySeq, PoolAssumption
  DEF Init, TypeInv, TypeOK, SubmittersHoldTasks, Threads, ProducerPlaces,
      WorkerPlaces, StopPlaces

LEMMA OneOfSubset ==
  ASSUME NEW X, NEW S \in OneOf(X)
  PROVE  S \subseteq X /\ (X # {} => \E u \in X : S = {u})
  BY DEF OneOf

LEMMA TypeInvStep == TypeInv /\ [Next]_vars => TypeInv'
<1> SUFFICES ASSUME TypeInv, [Next]_vars PROVE TypeInv'
  OBVIOUS
<1> USE PoolAssumption
    DEF TypeInv, TypeOK, SubmittersHoldTasks, Threads, ProducerPlaces,
        WorkerPlaces, StopPlaces
<1>1. CASE UNCHANGED vars
  BY <1>1 DEF vars
<1>2. ASSUME NEW t \in Threads, NEW task \in Tasks, RunTask(t, task) PROVE TypeInv'
  BY <1>2, SMTT(30) DEF RunTask
<1>3. ASSUME NEW t \in Threads, WaitNotFull(t) \/ SpuriousWakeup(t) PROVE TypeInv'
  BY <1>3, SMTT(30) DEF WaitNotFull, SpuriousWakeup
<1>4. ASSUME NEW t \in Threads, Push(t) PROVE TypeInv'
  <2>1. item[t] \in Tasks
    BY <1>4 DEF Push
  <2>2. taskQueue' \in Seq(Tasks)
    BY <1>4, <2>1, AppendProperties DEF Push
  <2>3. PICK S \in OneOf(At("empty")) : Move(t, Caller(t), S, "take")
    BY <1>4 DEF Push
  <2>4. S \subseteq {u \in Workers : pc[u] = "empty"}
    BY <2>3, OneOfSubset DEF At
  <2>5. /\ pc' \in [Threads -> ProducerPlaces \cup WorkerPlaces]
        /\ \A w \in Workers : pc'[w] \in WorkerPlaces
        /\ \A p \in Producers : pc'[p] \in ProducerPlaces
    BY <2>3, <2>4 DEF Move, Caller
  <2>6. SubmittersHoldTasks'
    BY <1>4, <2>3, <2>4 DEF Push, Move, Caller
  <2> QED
    BY <1>4, <2>2, <2>5, <2>6 DEF Push
<1>5. ASSUME NEW w \in Workers,
             \/ TestRunning(w) \/ Doze(w) \/ WaitNotEmpty(w) \/ TakeNothing(w)
             \/ TaskReturns(w)
      PROVE  TypeInv'
  BY <1>5 DEF TestRunning, Doze, WaitNotEmpty, TakeNothing, TaskReturns
<1>6. ASSUME NEW w \in Workers, Take(w) PROVE TypeInv'
  <2>1. taskQueue' \in Seq(Tasks) /\ taken' \in Seq(Tasks)
    BY <1>6, HeadTailProperties, AppendProperties DEF Take
  <2>2. PICK S \in OneOf(At("full")) : Move(w, "task", S, "submit")
    BY <1>6 DEF Take
  <2>3. S \subseteq {u \in Threads : pc[u] = "full"}
    BY <2>2, OneOfSubset DEF At
  <2>4. /\ pc' \in [Threads -> ProducerPlaces \cup WorkerPlaces]
        /\ \A u \in Workers : pc'[u] \in WorkerPlaces
        /\ \A p \in Producers : pc'[p] \in ProducerPlaces
    BY <2>2, <2>3 DEF Move
  <2>5. SubmittersHoldTasks'
    BY <1>6, <2>2, <2>3 DEF Take, Move
  <2> QED
    BY <1>6, <2>1, <2>4, <2>5 DEF Take
<1>7. CASE StopClears \/ StopReturns
  BY <1>7 DEF StopClears, StopReturns
<1>8. CASE StopNotifies
  <2>1. pc' = [t \in Threads |-> IF pc[t] = "empty" THEN "take" ELSE pc[t]]
    BY <1>8 DEF StopNotifies
  <2>2. /\ pc' \in [Threads -> ProducerPlaces \cup WorkerPlaces]
        /\ \A w \in Workers : pc'[w] \in WorkerPlaces
        /\ \A p \in Producers : pc'[p] \in ProducerPlaces
    BY <2>1
  <2>3. SubmittersHoldTasks'
    BY <1>8, <2>1 DEF StopNotifies
  <2> QED
    BY <1>8, <2>2, <2>3 DEF StopNotifies
<1> QED
  BY <1>1, <1>2, <1>3, <1>4, <1>5, <1>6, <1>7, <1>8, NextCases

LEMMA TypeInvAlways == Spec => []TypeInv
  BY TypeInvInit, TypeInvStep, PTL DEF Spec

\* Values stay in their types: a producer is never at a worker's place nor a
\* worker at a producer's (ThreadPool.cc:29-100).
THEOREM TypeCorrect == Spec => []TypeOK
  BY TypeInvAlways, PTL DEF TypeInv

-----------------------------------------------------------------------------

LEMMA QueueBoundedStep == TypeInv /\ QueueBounded /\ [Next]_vars => QueueBounded'
<1> SUFFICES ASSUME TypeInv, QueueBounded, [Next]_vars PROVE QueueBounded'
  OBVIOUS
<1> USE PoolAssumption DEF QueueBounded, TypeInv, TypeOK
<1>1. ASSUME UNCHANGED taskQueue PROVE QueueBounded'
  BY <1>1
<1>2. ASSUME NEW t \in Threads, Push(t) PROVE QueueBounded'
  <2>1. item[t] \in Tasks
    BY <1>2 DEF Push, SubmittersHoldTasks
  <2> QED
    BY <1>2, <2>1, AppendProperties, LenProperties DEF Push
<1>3. ASSUME NEW w \in Workers, Take(w) PROVE QueueBounded'
  BY <1>3, HeadTailProperties, LenProperties DEF Take
<1> QED
  BY <1>1, <1>2, <1>3, NextCases
  DEF vars, RunTask, WaitNotFull, SpuriousWakeup, TestRunning, Doze,
      WaitNotEmpty, TakeNothing, TaskReturns, StopClears, StopNotifies, StopReturns

\* The queue of the pool never holds more than maxQueueSize_ tasks: runTask
\* tests the bound again after every wait (ThreadPool.cc:40-42).
THEOREM Bounded == Spec => []QueueBounded
<1>1. Init => QueueBounded
  BY PoolAssumption, EmptySeq DEF Init, QueueBounded
<1> QED
  BY <1>1, QueueBoundedStep, TypeInvAlways, PTL DEF Spec

-----------------------------------------------------------------------------
(***************************************************************************)
(* No lost notification.  Each condition variable has a counting argument: *)
(* a notification moves a waiter to the threads that are on their way, and *)
(* a thread leaves those only with a task, with a place, or because it has *)
(* seen, holding mutex_, that there is none.                               *)
(***************************************************************************)

LEMMA AtIsFinite ==
  ASSUME NEW place
  PROVE  /\ IsFiniteSet(At(place)) /\ Cardinality(At(place)) \in Nat
         /\ IsFiniteSet(At(place)') /\ Cardinality(At(place)') \in Nat
<1>1. IsFiniteSet(Threads)
  BY PoolAssumption, FS_Union DEF Threads
<1>2. At(place) \subseteq Threads /\ At(place)' \subseteq Threads
  BY DEF At
<1> QED
  BY <1>1, <1>2, FS_Subset, FS_CardinalityType

LEMMA EmptyWhileDozingStep ==
  TypeInv /\ EmptyWhileDozing /\ [Next]_vars => EmptyWhileDozing'
<1> SUFFICES ASSUME TypeInv, EmptyWhileDozing, [Next]_vars PROVE EmptyWhileDozing'
  OBVIOUS
<1> USE DEF EmptyWhileDozing, At, TypeInv, TypeOK
<1>1. CASE UNCHANGED vars
  BY <1>1 DEF vars
<1>2. ASSUME NEW t \in Threads, NEW task \in Tasks, RunTask(t, task)
      PROVE  EmptyWhileDozing'
  BY <1>2 DEF RunTask
<1>3. ASSUME NEW t \in Threads, WaitNotFull(t) \/ SpuriousWakeup(t)
      PROVE  EmptyWhileDozing'
  BY <1>3 DEF WaitNotFull, SpuriousWakeup
<1>4. ASSUME NEW t \in Threads, Push(t) PROVE EmptyWhileDozing'
  BY <1>4 DEF Push, Move, MutexFree, Caller
<1>5. ASSUME NEW w \in Workers,
             \/ TestRunning(w) \/ Doze(w) \/ WaitNotEmpty(w) \/ TakeNothing(w)
             \/ TaskReturns(w)
      PROVE  EmptyWhileDozing'
  BY <1>5 DEF TestRunning, Doze, WaitNotEmpty, TakeNothing, TaskReturns
<1>6. ASSUME NEW w \in Workers, Take(w) PROVE EmptyWhileDozing'
  BY <1>6 DEF Take, Move, MutexFree
<1>7. CASE StopClears \/ StopNotifies \/ StopReturns
  BY <1>7 DEF StopClears, StopNotifies, StopReturns
<1> QED
  BY <1>1, <1>2, <1>3, <1>4, <1>5, <1>6, <1>7, NextCases

IdleInv == TypeInv /\ EmptyWhileDozing /\ NoIdleWorkerWhileTasks

LEMMA IdleInvStep == IdleInv /\ [Next]_vars => NoIdleWorkerWhileTasks'
<1> SUFFICES ASSUME IdleInv, [Next]_vars PROVE NoIdleWorkerWhileTasks'
  OBVIOUS
<1> USE DEF IdleInv
<1>1. Workers \subseteq Threads
  BY DEF Threads
\* Fewer wait, more are on their way, and the queue is the same.
<1>2. ASSUME At("empty")' \subseteq At("empty"), At("take") \subseteq At("take")',
             UNCHANGED taskQueue
      PROVE  NoIdleWorkerWhileTasks'
  <2>1. Cardinality(At("take")) <= Cardinality(At("take")')
    BY <1>2, AtIsFinite, FS_Subset
  <2>2. Len(taskQueue) \in Nat
    BY LenProperties DEF TypeInv, TypeOK
  <2> QED
    BY <1>2, <2>1, <2>2, AtIsFinite DEF NoIdleWorkerWhileTasks
\* Or nobody may be needed.
<1>3. ASSUME taskQueue' = <<>> PROVE NoIdleWorkerWhileTasks'
  BY <1>3, EmptySeq, AtIsFinite DEF NoIdleWorkerWhileTasks
<1>4. CASE UNCHANGED vars
  BY <1>4, <1>2 DEF vars, At
<1>5. ASSUME NEW t \in Threads, NEW task \in Tasks, RunTask(t, task)
      PROVE  NoIdleWorkerWhileTasks'
  BY <1>5, <1>2 DEF RunTask, At, TypeInv, TypeOK
<1>6. ASSUME NEW t \in Threads, WaitNotFull(t) \/ SpuriousWakeup(t)
      PROVE  NoIdleWorkerWhileTasks'
  BY <1>6, <1>2 DEF WaitNotFull, SpuriousWakeup, At, TypeInv, TypeOK
<1>7. ASSUME NEW t \in Threads, Push(t) PROVE NoIdleWorkerWhileTasks'
  <2>1. PICK S \in OneOf(At("empty")) : Move(t, Caller(t), S, "take")
    BY <1>7 DEF Push
  <2>2. /\ At("empty")' = At("empty") \ S /\ At("take")' = At("take") \cup S
        /\ \/ S = {} /\ At("empty") = {}
           \/ \E u \in At("empty") : S = {u}
    BY <1>7, <2>1 DEF Push, Move, OneOf, At, Caller, TypeInv, TypeOK
  <2>3. Len(taskQueue') = Len(taskQueue) + 1 /\ Len(taskQueue) \in Nat
    <3>1. item[t] \in Tasks
      BY <1>7 DEF Push, TypeInv, TypeOK, SubmittersHoldTasks
    <3> QED
      BY <1>7, <3>1, AppendProperties, LenProperties DEF Push, TypeInv, TypeOK
  <2>4. CASE At("empty") = {}
    BY <2>2, <2>4 DEF NoIdleWorkerWhileTasks
  <2>5. ASSUME NEW u \in At("empty"), S = {u} PROVE NoIdleWorkerWhileTasks'
    <3>1. u \notin At("take")
      BY <2>5 DEF At
    <3>2. Cardinality(At("take")') = Cardinality(At("take")) + 1
      BY <2>2, <2>5, <3>1, AtIsFinite, FS_AddElement
    <3> QED
      BY <2>3, <2>5, <3>2, AtIsFinite DEF NoIdleWorkerWhileTasks
  <2> QED
    BY <2>2, <2>4, <2>5
<1>8. ASSUME NEW w \in Workers, TestRunning(w) \/ TaskReturns(w)
      PROVE  NoIdleWorkerWhileTasks'
  BY <1>1, <1>8, <1>2 DEF TestRunning, TaskReturns, At, TypeInv, TypeOK
<1>9. ASSUME NEW w \in Workers, Doze(w) \/ TakeNothing(w) \/ WaitNotEmpty(w)
      PROVE  NoIdleWorkerWhileTasks'
  BY <1>1, <1>9, <1>3
  DEF Doze, TakeNothing, WaitNotEmpty, EmptyWhileDozing, At
<1>10. ASSUME NEW w \in Workers, Take(w) PROVE NoIdleWorkerWhileTasks'
  <2>1. PICK S \in OneOf(At("full")) : Move(w, "task", S, "submit")
    BY <1>10 DEF Take
  <2>2. /\ At("empty")' = At("empty") /\ At("take")' = At("take") \ {w}
        /\ w \in At("take")
    BY <1>1, <1>10, <2>1 DEF Take, Move, OneOf, At, TypeInv, TypeOK
  <2>3. Cardinality(At("take")') = Cardinality(At("take")) - 1
    BY <2>2, AtIsFinite, FS_RemoveElement
  <2>4. Len(taskQueue') = Len(taskQueue) - 1 /\ Len(taskQueue) \in Nat
    BY <1>10, HeadTailProperties, LenProperties DEF Take, TypeInv, TypeOK
  <2> QED
    BY <2>2, <2>3, <2>4, AtIsFinite DEF NoIdleWorkerWhileTasks
<1>11. CASE StopClears \/ StopReturns
  BY <1>11, <1>2 DEF StopClears, StopReturns, At
<1>12. CASE StopNotifies
  BY <1>12, <1>2 DEF StopNotifies, At, TypeInv, TypeOK
<1> QED
  BY <1>4, <1>5, <1>6, <1>7, <1>8, <1>9, <1>10, <1>11, <1>12, NextCases

\* A worker never waits on notEmpty_ for a task nobody else is on his way to
\* take, whoever pushes and stops in whatever order (ThreadPool.cc:42-43, 90-98).
THEOREM NoLostNotEmpty == Spec => []NoIdleWorkerWhileTasks
<1>1. Init => EmptyWhileDozing /\ NoIdleWorkerWhileTasks
  BY DEF Init, EmptyWhileDozing, NoIdleWorkerWhileTasks, At
<1>2. IdleInv /\ [Next]_vars => IdleInv'
  BY TypeInvStep, EmptyWhileDozingStep, IdleInvStep DEF IdleInv
<1> QED
  BY <1>1, <1>2, TypeInvInit, PTL DEF Spec, IdleInv

-----------------------------------------------------------------------------

LEMMA RoomStep ==
  TypeInv /\ NoBlockedSubmitterWhileRoom /\ [Next]_vars => NoBlockedSubmitterWhileRoom'
<1> SUFFICES ASSUME TypeInv, NoBlockedSubmitterWhileRoom, [Next]_vars
             PROVE  NoBlockedSubmitterWhileRoom'
  OBVIOUS
<1>1. Workers \subseteq Threads
  BY DEF Threads
<1>2. Len(taskQueue) \in Nat /\ maxQueueSize \in Nat
  BY LenProperties, PoolAssumption DEF TypeInv, TypeOK
\* Fewer wait, more are on their way, and the queue is the same.
<1>3. ASSUME At("full")' \subseteq At("full"), At("submit") \subseteq At("submit")',
             UNCHANGED taskQueue
      PROVE  NoBlockedSubmitterWhileRoom'
  <2>1. Cardinality(At("submit")) <= Cardinality(At("submit")')
    BY <1>3, AtIsFinite, FS_Subset
  <2> QED
    BY <1>2, <1>3, <2>1, AtIsFinite DEF NoBlockedSubmitterWhileRoom
<1>4. CASE UNCHANGED vars
  BY <1>4, <1>3 DEF vars, At
<1>5. ASSUME NEW t \in Threads, NEW task \in Tasks, RunTask(t, task)
      PROVE  NoBlockedSubmitterWhileRoom'
  BY <1>5, <1>3 DEF RunTask, At, TypeInv, TypeOK
<1>6. ASSUME NEW t \in Threads, SpuriousWakeup(t) PROVE NoBlockedSubmitterWhileRoom'
  BY <1>6, <1>3 DEF SpuriousWakeup, At, TypeInv, TypeOK
<1>7. ASSUME NEW t \in Threads, WaitNotFull(t) PROVE NoBlockedSubmitterWhileRoom'
  BY <1>2, <1>7, AtIsFinite DEF WaitNotFull, NoBlockedSubmitterWhileRoom
<1>8. ASSUME NEW t \in Threads, Push(t) PROVE NoBlockedSubmitterWhileRoom'
  <2>1. PICK S \in OneOf(At("empty")) : Move(t, Caller(t), S, "take")
    BY <1>8 DEF Push
  <2>2. /\ At("full")' = At("full") /\ At("submit")' = At("submit") \ {t}
        /\ t \in At("submit")
    BY <1>8, <2>1 DEF Push, Move, OneOf, At, Caller, TypeInv, TypeOK
  <2>3. Cardinality(At("submit")') = Cardinality(At("submit")) - 1
    BY <2>2, AtIsFinite, FS_RemoveElement
  <2>4. Len(taskQueue') = Len(taskQueue) + 1
    <3>1. item[t] \in Tasks
      BY <1>8 DEF Push, TypeInv, TypeOK, SubmittersHoldTasks
    <3> QED
      BY <1>8, <3>1, AppendProperties DEF Push, TypeInv, TypeOK
  <2> QED
    BY <1>2, <2>2, <2>3, <2>4, AtIsFinite DEF NoBlockedSubmitterWhileRoom
<1>9. ASSUME NEW w \in Workers,
             \/ TestRunning(w) \/ Doze(w) \/ WaitNotEmpty(w) \/ TakeNothing(w)
             \/ TaskReturns(w)
      PROVE  NoBlockedSubmitterWhileRoom'
  BY <1>1, <1>3, <1>9
  DEF TestRunning, Doze, WaitNotEmpty, TakeNothing, TaskReturns, At, TypeInv, TypeOK
<1>10. ASSUME NEW w \in Workers, Take(w) PROVE NoBlockedSubmitterWhileRoom'
  <2>1. PICK S \in OneOf(At("full")) : Move(w, "task", S, "submit")
    BY <1>10 DEF Take
  <2>2. /\ At("full")' = At("full") \ S /\ At("submit")' = At("submit") \cup S
        /\ \/ S = {} /\ At("full") = {}
           \/ \E u \in At("full") : S = {u}
    BY <1>1, <1>10, <2>1 DEF Take, Move, OneOf, At, TypeInv, TypeOK
  <2>3. Len(taskQueue') = Len(taskQueue) - 1
    BY <1>10, HeadTailProperties DEF Take, TypeInv, TypeOK
  <2>4. CASE At("full") = {}
    BY <2>2, <2>4 DEF NoBlockedSubmitterWhileRoom
  <2>5. ASSUME NEW u \in At("full"), S = {u} PROVE NoBlockedSubmitterWhileRoom'
    <3>1. u \notin At("submit")
      BY <2>5 DEF At
    <3>2. Cardinality(At("submit")') = Cardinality(At("submit")) + 1
      BY <2>2, <2>5, <3>1, AtIsFinite, FS_AddElement
    <3> QED
      BY <1>2, <2>3, <2>5, <3>2, AtIsFinite DEF NoBlockedSubmitterWhileRoom
  <2> QED
    BY <2>2, <2>4, <2>5
<1>11. CASE StopClears \/ StopReturns
  BY <1>11, <1>3 DEF StopClears, StopReturns, At
<1>12. CASE StopNotifies
  BY <1>12, <1>3 DEF StopNotifies, At, TypeInv, TypeOK
<1> QED
  BY <1>4, <1>5, <1>6, <1>7, <1>8, <1>9, <1>10, <1>11, <1>12, NextCases

\* A thread never waits on notFull_ for a place nobody else is on his way to
\* fill: one notification for every task taken is enough, although other
\* submitters may get to the mutex first (ThreadPool.cc:40-42, 94-98).
THEOREM NoLostNotFull == Spec => []NoBlockedSubmitterWhileRoom
<1>1. Init => NoBlockedSubmitterWhileRoom
  BY DEF Init, NoBlockedSubmitterWhileRoom, At
<1> QED
  BY <1>1, RoomStep, TypeInvAlways, PTL DEF Spec

-----------------------------------------------------------------------------
(***************************************************************************)
(* ThreadPool implements TaskQueue.  The one thing to prove first is that  *)
(* a task is still new when it is pushed, which may be long after runTask  *)
(* was called with it.                                                     *)
(***************************************************************************)

LEMMA AppendRange ==
  ASSUME NEW S, NEW s \in Seq(S), NEW e \in S
  PROVE  Range(Append(s, e)) = Range(s) \cup {e}
<1>1. <<e>> \in Seq(S) /\ Range(<<e>>) = {e}
  BY DEF Range
<1>2. Append(s, e) = s \o <<e>>
  BY AppendIsConcat
<1>3. Range(s \o <<e>>) = Range(s) \cup Range(<<e>>)
  BY <1>1, RangeConcatenation, ZenonT(30)
<1> QED
  BY <1>1, <1>2, <1>3

LEMMA HeadTailRange ==
  ASSUME NEW S, NEW s \in Seq(S), s # <<>>
  PROVE  Head(s) \in Range(s) /\ Range(Tail(s)) \subseteq Range(s)
<1>1. Len(s) \in Nat \ {0} /\ DOMAIN s = 1 .. Len(s) /\ Head(s) = s[1]
  BY EmptySeq, LenProperties
<1>2. /\ DOMAIN Tail(s) = 1 .. (Len(s) - 1)
      /\ \A i \in 1 .. (Len(s) - 1) : Tail(s)[i] = s[i+1]
  BY HeadTailProperties, LenProperties
<1> QED
  BY <1>1, <1>2 DEF Range

FreshInv == TypeInv /\ ItemsFresh

LEMMA FreshInvStep == FreshInv /\ [Next]_vars => ItemsFresh'
<1> SUFFICES ASSUME FreshInv, [Next]_vars PROVE ItemsFresh'
  OBVIOUS
<1> USE PoolAssumption DEF FreshInv
<1>1. ASSUME UNCHANGED <<item, taskQueue, taken>> PROVE ItemsFresh'
  BY <1>1 DEF ItemsFresh
<1>2. ASSUME NEW t \in Threads, NEW task \in Tasks, RunTask(t, task) PROVE ItemsFresh'
  BY <1>2, <1>1 DEF RunTask, Fresh, ItemsFresh, TypeInv, TypeOK
<1>3. ASSUME NEW t \in Threads, Push(t) PROVE ItemsFresh'
  <2>1. item[t] \in Tasks /\ item[t] # NoTask
    BY <1>3 DEF Push, TypeInv, TypeOK, SubmittersHoldTasks
  <2>2. Range(taskQueue') = Range(taskQueue) \cup {item[t]}
    BY <1>3, <2>1, AppendRange DEF Push, TypeInv, TypeOK
  <2>3. item' = [item EXCEPT ![t] = NoTask] /\ taken' = taken
    BY <1>3 DEF Push
  <2> QED
    BY <2>1, <2>2, <2>3 DEF ItemsFresh, TypeInv, TypeOK
<1>4. ASSUME NEW w \in Workers, Take(w) PROVE ItemsFresh'
  <2>1. Head(taskQueue) \in Tasks /\ Head(taskQueue) \in Range(taskQueue)
        /\ Range(taskQueue') \subseteq Range(taskQueue)
    BY <1>4, HeadTailRange, HeadTailProperties DEF Take, TypeInv, TypeOK
  <2>2. Range(taken') = Range(taken) \cup {Head(taskQueue)}
    BY <1>4, <2>1, AppendRange DEF Take, TypeInv, TypeOK
  <2> QED
    BY <1>4, <2>1, <2>2 DEF Take, ItemsFresh
<1> QED
  BY <1>1, <1>2, <1>3, <1>4, NextCases
  DEF vars, WaitNotFull, SpuriousWakeup, TestRunning, Doze, WaitNotEmpty,
      TakeNothing, TaskReturns, StopClears, StopNotifies, StopReturns

\* A task given to runTask has not been submitted before, and still has not when
\* it is pushed (ThreadPool.cc:47-63).
THEOREM FreshWhenPushed == Spec => []FreshInv
<1>1. Init => ItemsFresh
  BY DEF Init, ItemsFresh
<1>2. FreshInv /\ [Next]_vars => FreshInv'
  BY TypeInvStep, FreshInvStep DEF FreshInv
<1> QED
  BY <1>1, <1>2, TypeInvInit, PTL DEF Spec, FreshInv

\* Tasks are taken in the order in which their pushes took mutex_, each of them
\* once; what happens to running_ does not reorder them (ThreadPool.cc:29-100).
THEOREM Implements == Spec => ImplementsTaskQueue
<1>1. Init => TQ!Init
  BY DEF Init, TQ!Init
<1>2. FreshInv /\ [Next]_vars => [TQ!Next]_(TQ!vars)
  <2> SUFFICES ASSUME FreshInv, [Next]_vars PROVE [TQ!Next]_(TQ!vars)
    OBVIOUS
  <2>1. ASSUME NEW t \in Threads, Push(t) PROVE TQ!Next
    <3>1. item[t] \in Tasks /\ item[t] # NoTask
      BY <2>1, PoolAssumption DEF Push, FreshInv, TypeInv, TypeOK, SubmittersHoldTasks
    <3>2. TQ!Range(taskQueue) = Range(taskQueue) /\ TQ!Range(taken) = Range(taken)
      BY DEF TQ!Range, Range
    <3>3. TQ!Enqueue(item[t])
      BY <2>1, <3>1, <3>2 DEF Push, FreshInv, ItemsFresh, TQ!Enqueue, TQ!Fresh
    <3> QED
      BY <3>1, <3>3 DEF TQ!Next
  <2>2. ASSUME NEW w \in Workers, Take(w) PROVE TQ!Next
    BY <2>2 DEF Take, TQ!Next, TQ!Execute
  <2> QED
    BY <2>1, <2>2, NextCases
    DEF vars, TQ!vars, RunTask, WaitNotFull, SpuriousWakeup, TestRunning, Doze,
        WaitNotEmpty, TakeNothing, TaskReturns, StopClears, StopNotifies, StopReturns
<1> QED
  BY <1>1, <1>2, FreshWhenPushed, PTL DEF Spec, ImplementsTaskQueue, TQ!Spec
=============================================================================
