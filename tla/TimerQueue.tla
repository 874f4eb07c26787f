------------------------------ MODULE TimerQueue ------------------------------
(***************************************************************************)
(* TimerQueue.cc: the timers of an event loop, kept in a set ordered by    *)
(* expiration time and driven by one timerfd that is set for the earliest. *)
(* Timers are added and cancelled by code on the loop's thread (directly)  *)
(* and by other threads (through the task queue of the loop); a callback   *)
(* may do either.                                                          *)
(*                                                                         *)
(* Time is counted in milliseconds, the least delay durationFromNow gives  *)
(* the timerfd, and relative to the present: left[t] is when_ - now.       *)
(***************************************************************************)
EXTENDS Integers, Sequences, FiniteSets

CONSTANTS
    Timers,           \* the Timer objects; an address is not used twice
    Delays,           \* delays a timer may be added with
    Intervals,        \* intervals; zero makes a one-shot timer
    MaxLate,          \* bound: times further in the past are not told apart
    MaxMailbox,       \* bound: calls of other threads that wait in the loop
    MaxJumps,         \* bound: how often the wall clock is set
    NoTimer

ASSUME TimerAssumption ==
    /\ Delays \subseteq Nat /\ Intervals \subseteq Nat
    /\ MaxLate \in Nat \ {0} /\ MaxMailbox \in Nat
    /\ MaxJumps \in Nat
    /\ NoTimer \notin Timers

VARIABLES
    alloc,            \* each Timer: not yet created, live, or deleted
    left,             \* time until it expires
    interval,         \* interval_
    timers,           \* timers_, the ordered set
    batch,            \* what handleRead got from getExpired and has not run yet
    cur,              \* the timer handleRead is at
    pc,               \* where the loop's thread is
    active,           \* epoll reported the timerfd, handleRead not yet called
    armed,            \* time until the timerfd expires; 0 if it is not set
    readable,         \* the timerfd has expired and was not read
    mailbox,          \* addTimer and cancelTimer tasks of other threads
    jumps,            \* how often the wall clock has been set so far
    stray             \* history: timers cancelled while they were not in the set

vars == <<alloc, left, interval, timers, batch, cur, pc, active, armed,
          readable, mailbox, jumps, stray>>
timerVars == <<alloc, left, interval>>
fdVars    == <<armed, readable>>
runVars   == <<batch, cur, pc, active>>

\* idle: not in handleRead; batch: in its for loop, before a timer; callback:
\* in the callback of cur; undefined: a deleted Timer was used.
Places == {"idle", "batch", "callback", "undefined"}

Calls == {"add", "cancel"} \X Timers

TypeOK ==
    /\ alloc \in [Timers -> {"none", "live", "deleted"}]
    /\ left \in [Timers -> Int]
    /\ interval \in [Timers -> Nat]
    /\ timers \subseteq Timers /\ batch \subseteq Timers
    /\ cur \in Timers \cup {NoTimer}
    /\ pc \in Places
    /\ active \in BOOLEAN /\ readable \in BOOLEAN
    /\ armed \in Nat
    /\ mailbox \in Seq(Calls)
    /\ jumps \in 0 .. MaxJumps
    /\ stray \subseteq Timers

Init ==
    /\ alloc = [t \in Timers |-> "none"]
    /\ left = [t \in Timers |-> 0]
    /\ interval = [t \in Timers |-> 0]
    /\ timers = {} /\ batch = {} /\ cur = NoTimer
    /\ pc = "idle" /\ active = FALSE
    /\ armed = 0 /\ readable = FALSE
    /\ mailbox = <<>> /\ jumps = 0 /\ stray = {}

Defined == pc # "undefined"

\* t may come first in S: timers that expire together are ordered by address.
Earliest(t, S) == t \in S /\ \A u \in S : left[t] <= left[u]

\* timerfd_settime: at least 1ms, and an expiration not yet read is forgotten.
Arm(delay) == armed' = (IF delay < 1 THEN 1 ELSE delay) /\ readable' = FALSE

-----------------------------------------------------------------------------
\* addTimer and cancelTimer

\* new Timer(callback, when, interval)
Create(t) ==
    /\ alloc[t] = "none"
    /\ alloc' = [alloc EXCEPT ![t] = "live"]
    /\ \E delay \in Delays : left' = [left EXCEPT ![t] = delay]
    /\ \E i \in Intervals : interval' = [interval EXCEPT ![t] = i]

\* Slip: the timerfd is set only when there was no timer.
InsertArmsWhenEmpty(t, due) ==
    /\ timers' = timers \cup {t}
    /\ IF timers = {} THEN Arm(due[t]) ELSE UNCHANGED fdVars

\* timers_.insert; the timerfd is set again if the timer comes first.
\* `due' are the times that hold when the insertion is made.
Insert(t, due) ==
    /\ timers' = timers \cup {t}
    /\ \/ /\ \A u \in timers : due[t] <= due[u]
          /\ Arm(due[t])
       \/ /\ \E u \in timers : due[u] <= due[t]
          /\ UNCHANGED fdVars

\* timer->cancel(), timers_.erase, delete: of a deleted timer, undefined.  Nothing
\* here asks where the timer is: it may have been taken by handleRead, deleted, or
\* not be inserted yet.
Remove(t) ==
    /\ stray' = IF t \in timers THEN stray ELSE stray \cup {t}
    /\ IF alloc[t] = "deleted"
       THEN pc' = "undefined" /\ UNCHANGED <<alloc, timers>>
       ELSE /\ alloc' = [alloc EXCEPT ![t] = "deleted"]
            /\ timers' = timers \ {t}
            /\ UNCHANGED pc

\* User code on the loop's thread runs in handlers and tasks, and in callbacks.
AddHere(t) ==
    /\ pc \in {"idle", "callback"}
    /\ Create(t)
    /\ Insert(t, left')
    /\ UNCHANGED <<runVars, mailbox, jumps, stray>>

\* Any Timer may be cancelled that a caller was ever given, also twice.
CancelHere(t) ==
    /\ pc \in {"idle", "callback"}
    /\ alloc[t] # "none"
    /\ Remove(t)
    /\ UNCHANGED <<left, interval, batch, cur, active, fdVars, mailbox, jumps>>

\* On another thread the Timer is made at once, the rest becomes a task.
AddElsewhere(t) ==
    /\ Defined /\ Len(mailbox) < MaxMailbox
    /\ Create(t)
    /\ mailbox' = Append(mailbox, <<"add", t>>)
    /\ UNCHANGED <<timers, runVars, fdVars, jumps, stray>>

CancelElsewhere(t) ==
    /\ Defined /\ Len(mailbox) < MaxMailbox
    /\ alloc[t] # "none"
    /\ mailbox' = Append(mailbox, <<"cancel", t>>)
    /\ UNCHANGED <<timerVars, timers, runVars, fdVars, jumps, stray>>

\* The loop runs the task; doPendingTasks comes after the handlers.
RunCall ==
    /\ pc = "idle" /\ ~active /\ mailbox # <<>>
    /\ mailbox' = Tail(mailbox)
    /\ LET t == Head(mailbox)[2] IN
         \/ /\ Head(mailbox)[1] = "add"
            /\ Insert(t, left)
            /\ UNCHANGED <<alloc, pc, stray>>
         \/ /\ Head(mailbox)[1] = "cancel"
            /\ Remove(t)
            /\ UNCHANGED fdVars
    /\ UNCHANGED <<left, interval, batch, cur, active, jumps>>

-----------------------------------------------------------------------------
\* handleRead

Poll ==
    /\ pc = "idle" /\ ~active /\ readable
    /\ active' = TRUE
    /\ UNCHANGED <<timerVars, timers, batch, cur, pc, fdVars, mailbox, jumps, stray>>

\* Slip: handleRead returns at once when no timer has expired.
HandleReadGivesUp ==
    /\ pc = "idle" /\ active
    /\ active' = FALSE /\ readable' = FALSE
    /\ batch' = {t \in timers : left[t] <= 0}
    /\ timers' = timers \ batch'
    /\ pc' = IF batch' = {} THEN "idle" ELSE "batch"
    /\ UNCHANGED <<timerVars, cur, armed, mailbox, jumps, stray>>

\* Read the timerfd (an error is ignored) and take the timers that expired.
HandleRead ==
    /\ pc = "idle" /\ active
    /\ active' = FALSE /\ readable' = FALSE
    /\ batch' = {t \in timers : left[t] <= 0}
    /\ timers' = timers \ batch'
    /\ pc' = "batch"
    /\ UNCHANGED <<timerVars, cur, armed, mailbox, jumps, stray>>

\* The next timer of the batch runs.
RunTimer(t) ==
    /\ pc = "batch" /\ Earliest(t, batch)
    /\ batch' = batch \ {t}
    /\ IF alloc[t] = "deleted"
       THEN pc' = "undefined" /\ UNCHANGED cur
       ELSE pc' = "callback" /\ cur' = t
    /\ UNCHANGED <<timerVars, timers, active, fdVars, mailbox, jumps, stray>>

\* Slips: a one-shot timer is not deleted; a repeating one not inserted again.
CallbackReturnsLeaks ==
    /\ pc = "callback" /\ alloc[cur] = "live"
    /\ cur' = NoTimer /\ pc' = "batch"
    /\ timers' = IF interval[cur] > 0 THEN timers \cup {cur} ELSE timers
    /\ left' = [left EXCEPT ![cur] = @ + interval[cur]]
    /\ UNCHANGED <<alloc, interval, batch, active, fdVars, mailbox, jumps, stray>>
CallbackReturnsOnce ==
    /\ pc = "callback" /\ alloc[cur] = "live"
    /\ cur' = NoTimer /\ pc' = "batch"
    /\ alloc' = [alloc EXCEPT ![cur] = IF interval[cur] > 0 THEN @ ELSE "deleted"]
    /\ UNCHANGED <<left, interval, timers, batch, active, fdVars, mailbox, jumps, stray>>

\* The callback has returned: a repeating timer is restarted one interval after
\* its last expiration and inserted again, any other deleted.
CallbackReturns ==
    /\ pc = "callback"
    /\ cur' = NoTimer
    /\ IF alloc[cur] = "deleted"
       THEN pc' = "undefined" /\ UNCHANGED <<timerVars, timers>>
       ELSE /\ pc' = "batch"
            /\ UNCHANGED interval
            /\ IF interval[cur] > 0
               THEN /\ left' = [left EXCEPT ![cur] = @ + interval[cur]]
                    /\ timers' = timers \cup {cur}
                    /\ UNCHANGED alloc
               ELSE /\ alloc' = [alloc EXCEPT ![cur] = "deleted"]
                    /\ UNCHANGED <<left, timers>>
    /\ UNCHANGED <<batch, active, fdVars, mailbox, jumps, stray>>

\* The end of handleRead: the timerfd is set for the earliest timer, if any.
Rearm ==
    /\ pc = "batch" /\ batch = {}
    /\ pc' = "idle"
    /\ IF timers = {} THEN UNCHANGED fdVars
       ELSE \E t \in timers : Earliest(t, timers) /\ Arm(left[t])
    /\ UNCHANGED <<timerVars, timers, batch, cur, active, mailbox, jumps, stray>>

-----------------------------------------------------------------------------
\* The clocks.  The timerfd counts CLOCK_MONOTONIC, timers the wall clock.

Live == {t \in Timers : alloc[t] = "live"}

\* Where the queue holds a Timer: its entry has the time also when the Timer is gone.
Queued == {mailbox[i][2] : i \in {j \in DOMAIN mailbox : mailbox[j][1] = "add"}}
Kept   == timers \cup batch \cup ({cur} \ {NoTimer}) \cup Queued
Timed  == Live \cup Kept

Tick ==
    /\ Defined
    /\ left' = [t \in Timers |-> IF t \in Timed /\ left[t] > -MaxLate
                                THEN left[t] - 1 ELSE left[t]]
    /\ armed' = IF armed > 0 THEN armed - 1 ELSE 0
    /\ readable' = (readable \/ armed = 1)
    /\ UNCHANGED <<alloc, interval, timers, runVars, mailbox, jumps, stray>>

SetClock ==
    /\ Defined /\ jumps < MaxJumps
    /\ jumps' = jumps + 1
    /\ \E jump \in {-1, 1} :
        /\ \A t \in Timed : left[t] - jump \in (-MaxLate) .. MaxLate
        /\ left' = [t \in Timers |-> IF t \in Timed THEN left[t] - jump ELSE left[t]]
    /\ UNCHANGED <<alloc, interval, timers, runVars, fdVars, mailbox, stray>>

-----------------------------------------------------------------------------

Next ==
    \/ \E t \in Timers :
        \/ AddHere(t) \/ CancelHere(t)
        \/ AddElsewhere(t) \/ CancelElsewhere(t)
        \/ RunTimer(t)
    \/ RunCall \/ Poll \/ HandleRead \/ CallbackReturns \/ Rearm
    \/ Tick \/ SetClock

Spec == Init /\ [][Next]_vars

\* The loop's thread and time go on; calls of users are not promised.  A round of
\* the loop ends with its tasks, however often the timerfd expires (see
\* EventLoop!TasksAreServed): hence the strong fairness of RunCall.
Fairness ==
    /\ WF_vars(Poll \/ HandleRead \/ CallbackReturns \/ Rearm
               \/ \E t \in Timers : RunTimer(t))
    /\ SF_vars(RunCall)
    /\ WF_vars(Tick)

FairSpec == Spec /\ Fairness

-----------------------------------------------------------------------------
\* Properties

\* Outside handleRead a timer that waits is covered: the timerfd is set, or has
\* expired, or handleRead is about to be called.
SomethingPending == readable \/ active \/ armed > 0
NoTimerForgotten == (pc = "idle" /\ timers # {}) => SomethingPending

\* The timerfd never expires later than the earliest timer (or in a
\* millisecond, if that is due) as long as nobody has set the wall clock.
NoTimerLate ==
    (pc = "idle" /\ timers # {} /\ jumps = 0 /\ ~readable /\ ~active) =>
        \A t \in timers : armed <= left[t] \/ armed = 1

\* A Timer that is only ever cancelled while it waits in the set is live exactly as
\* long as something will run or delete it: it does not leak, and it is not kept when
\* it is deleted.  No Timer at all is in two places, where it would run twice.
TimersKeptOnce ==
    /\ \A t \in Timers \ stray : t \in Live <=> t \in Kept
    /\ timers \cap batch = {} /\ cur \notin timers \cup batch
    /\ Queued \cap (timers \cup batch \cup {cur}) = {}

\* A timer that nobody cancels fires, and a repeating one fires again, although
\* the wall clock may be set now and then; unless a deleted Timer is used first.
TimersFire ==
    \A t \in Timers :
        alloc[t] = "live" ~> (cur = t \/ alloc[t] = "deleted" \/ ~Defined)

\* What assert(timer->expired(now)) and the two tests of canceled() in handleRead
\* (TimerQueue.cc:113-117) take for granted: a timer of the batch still exists
\* when its turn comes and when its callback returns.
BatchTimersExist == Defined => \A t \in batch \cup ({cur} \ {NoTimer}) : alloc[t] = "live"
=============================================================================
