--------------------------- MODULE EventLoopThread ---------------------------
(***************************************************************************)
(* EventLoopThread.cc: an object that runs an EventLoop on a thread of its *)
(* own.  Its owner calls startLoop() and, later, the destructor; in        *)
(* between, user threads work with the loop startLoop() returned.  The     *)
(* loop is a local variable of the runner thread, published through the    *)
(* plain pointer loop_.                                                    *)
(*                                                                         *)
(* EventLoop is extended, and reused step by step: the runner takes its    *)
(* loop steps, the users and the owner its queueInLoop and quit steps.     *)
(***************************************************************************)
EXTENDS EventLoop

CONSTANT Owner        \* the thread that owns the EventLoopThread

ASSUME OwnerAssumption == Owner \in Threads

\* The other threads that use the loop.
Users == Threads \ {Owner}

VARIABLES owner,      \* where the owner is (see Owners)
          runner,     \* where the runner thread is (see Runners)
          loop,       \* loop_ # nullptr
          latched,    \* latch_ still counts one
          object      \* the EventLoop object: "none", "alive" or "dead"

threadVars == <<owner, runner, loop, latched, object>>
allVars == <<vars, threadVars>>

\* new: constructed; waiting: in latch_.wait(); started: startLoop returned;
\* quitting: the destructor saw loop_ and is in loop_->quit(); joining: in
\* thread_.join(); gone: destroyed; undefined: some thread used a dead loop.
Owners  == {"new", "waiting", "started", "quitting", "joining", "gone", "undefined"}

\* none: no thread; spawned: before loop_ = &loop; published: before
\* latch_.count(); counted: before loop.loop(); looping: in it; left: loop_ is
\* null again; finished: the loop is destroyed and the thread over.
Runners == {"none", "spawned", "published", "counted", "looping", "left", "finished"}

ThreadTypeOK ==
    /\ TypeOK
    /\ owner \in Owners
    /\ runner \in Runners
    /\ loop \in BOOLEAN
    /\ latched \in BOOLEAN
    /\ object \in {"none", "alive", "dead"}

ThreadInit ==
    /\ Init
    /\ owner = "new"
    /\ runner = "none"
    /\ loop = FALSE
    /\ latched = TRUE
    /\ object = "none"

Defined == pc # "aborted" /\ owner # "undefined"

-----------------------------------------------------------------------------
\* Slips: what a plausible edit of EventLoopThread.cc would produce.

\* The latch is counted before the pointer is published.
PublishCountsFirst ==
    /\ Defined /\ runner = "spawned"
    /\ runner' = "published" /\ object' = "alive" /\ latched' = FALSE
    /\ loop' = FALSE
    /\ UNCHANGED <<vars, owner>>

\* The runner goes on without counting the latch.
CountForgotten ==
    /\ Defined /\ runner = "published"
    /\ runner' = "counted"
    /\ UNCHANGED <<vars, owner, loop, latched, object>>

-----------------------------------------------------------------------------
\* runInThread()

\* EventLoop loop; loop_ = &loop;
Publish ==
    /\ Defined /\ runner = "spawned"
    /\ runner' = "published" /\ object' = "alive" /\ loop' = TRUE
    /\ UNCHANGED <<vars, owner, latched>>

Count ==
    /\ Defined /\ runner = "published"
    /\ runner' = "counted" /\ latched' = FALSE
    /\ UNCHANGED <<vars, owner, loop, object>>

EnterLoop ==
    /\ Defined /\ runner = "counted"
    /\ Enter
    /\ runner' = "looping"
    /\ UNCHANGED <<owner, loop, latched, object>>

\* One step of loop(), of a handler or of a task.  No channel but the eventfd's
\* is registered before startLoop() has handed the loop out.
Loop ==
    /\ Defined /\ runner = "looping" /\ pc # "outside"
    /\ LoopStep
    /\ owner = "waiting" => "io" \notin activeChannels'
    /\ UNCHANGED threadVars

\* loop() has returned: loop_ = nullptr;
Leave ==
    /\ Defined /\ runner = "looping" /\ pc = "outside"
    /\ runner' = "left" /\ loop' = FALSE
    /\ UNCHANGED <<vars, owner, latched, object>>

\* The end of runInThread's scope destroys the loop.
DestroyLoop ==
    /\ Defined /\ runner = "left"
    /\ runner' = "finished" /\ object' = "dead"
    /\ UNCHANGED <<vars, owner, loop, latched>>

-----------------------------------------------------------------------------
\* The owner: startLoop(), then the destructor

StartLoop ==
    /\ Defined /\ owner = "new"
    /\ owner' = "waiting" /\ runner' = "spawned"
    /\ UNCHANGED <<vars, loop, latched, object>>

\* latch_.wait() returns; assert(loop_ != nullptr)
StartLoopReturns ==
    /\ Defined /\ owner = "waiting" /\ ~latched
    /\ IF loop THEN owner' = "started" /\ UNCHANGED pc
               ELSE pc' = "aborted" /\ UNCHANGED owner
    /\ UNCHANGED <<activeChannels, pendingTasks, tasks, doingPendingTasks, quit,
                   wakeup, caller, ran, runner, loop, latched, object>>

\* ~EventLoopThread of an object that was never started
DestroyUnstarted ==
    /\ Defined /\ owner = "new"
    /\ owner' = "gone"
    /\ UNCHANGED <<vars, runner, loop, latched, object>>

\* ~EventLoopThread reads loop_.  The owner waits for its users' calls to
\* return before it destroys what they use.
Destroy ==
    /\ Defined /\ owner = "started"
    /\ \A t \in Users : caller[t] = "idle"
    /\ owner' = IF loop THEN "quitting" ELSE "joining"
    /\ UNCHANGED <<vars, runner, loop, latched, object>>

\* loop_->quit(), while the loop still exists
DestroyQuits ==
    /\ Defined /\ owner = "quitting" /\ object = "alive"
    /\ \/ (QuitAssert(Owner) \/ QuitStore(Owner)) /\ UNCHANGED owner
       \/ Wakeup(Owner) /\ owner' = "joining"
    /\ UNCHANGED <<runner, loop, latched, object>>

Join ==
    /\ Defined /\ owner = "joining" /\ runner = "finished"
    /\ owner' = "gone"
    /\ UNCHANGED <<vars, runner, loop, latched, object>>

-----------------------------------------------------------------------------
\* User threads call the loop; any thread may find it gone

User(t) ==
    /\ Defined /\ owner = "started" /\ object = "alive"
    /\ CallerStep(t)
    /\ UNCHANGED threadVars

\* A member function of a destroyed EventLoop runs: the behaviour is undefined.
UseOfDeadLoop ==
    /\ Defined /\ object = "dead"
    /\ owner \in {"started", "quitting"}
    /\ owner = "started" => Users # {}
    /\ owner' = "undefined"
    /\ UNCHANGED <<vars, runner, loop, latched, object>>

-----------------------------------------------------------------------------

Runner == Publish \/ Count \/ EnterLoop \/ Loop \/ Leave \/ DestroyLoop

OwnerStep ==
    \/ StartLoop \/ StartLoopReturns \/ DestroyUnstarted
    \/ Destroy \/ DestroyQuits \/ Join

ThreadNext == Runner \/ OwnerStep \/ UseOfDeadLoop \/ \E t \in Users : User(t)

ThreadSpec == ThreadInit /\ [][ThreadNext]_allVars

\* The runner thread and every operation that was begun make progress; that the
\* owner starts or destroys anything, or a user calls, is not promised.
ThreadFairness ==
    /\ WF_allVars(Publish \/ Count \/ EnterLoop \/ Leave \/ DestroyLoop)
    /\ WF_allVars(Loop /\ (Test \/ PollWakeup \/ HandleWakeup \/ HandleIo
                        \/ HandlersDone \/ Swap \/ TaskReturns \/ Unwind))
    /\ WF_allVars(StartLoopReturns \/ DestroyQuits \/ Join
               \/ (owner = "quitting" /\ UseOfDeadLoop))
    /\ \A t \in Users : WF_allVars(User(t) /\ (QuitStore(t) \/ Wakeup(t)))

ThreadFairSpec == ThreadSpec /\ ThreadFairness

-----------------------------------------------------------------------------
\* Properties

\* The pointer startLoop() waited for is there, and is never set when the loop is
\* gone: whoever reads it non-null has, at that moment, a loop to call.
PointerNeverDangles ==
    /\ (owner = "waiting" /\ ~latched) => loop
    /\ loop => object = "alive"

\* startLoop() does not block for ever.
StartReturns == owner = "waiting" ~> owner # "waiting" \/ pc = "aborted"

\* A destructor that waits for a loop it asked to quit after loop() began (or
\* that had left by itself) returns.
DestructorReturnsOnceLooping ==
    (owner = "joining" /\ runner \in {"looping", "left", "finished"}
        /\ (pc = "outside" \/ quit))
      ~> owner = "gone" \/ ~Defined

\* What "thread safe" (Eventloop.h:21) would give the destructor: the quit() it calls
\* is neither lost nor made on a loop that is gone, so it returns.
DestructorReturns == owner \in {"quitting", "joining"} ~> owner = "gone" \/ pc = "aborted"
=============================================================================
