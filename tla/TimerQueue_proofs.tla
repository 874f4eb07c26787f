--------------------------- MODULE TimerQueue_proofs ---------------------------
(***************************************************************************)
(* Theorems about TimerQueue, for any set of timers, any delays and        *)
(* intervals, whoever cancels what and however often the clock is set.     *)
(***************************************************************************)
EXTENDS TimerQueue, SequenceTheorems, TLAPS

\* Type correctness needs to know that a callback is the callback of a timer.
TypeInv == TypeOK /\ (pc = "callback" => cur \in Timers)

LEMMA TypeInit == Init => TypeInv
<1> SUFFICES ASSUME Init PROVE TypeInv
  OBVIOUS
<1>1. mailbox \in Seq(Calls)
  BY EmptySeq DEF Init
<1>2. /\ alloc \in [Timers -> {"none", "live", "deleted"}]
      /\ left \in [Timers -> Int] /\ interval \in [Timers -> Nat]
  BY DEF Init
<1>3. jumps \in 0 .. MaxJumps
  BY TimerAssumption DEF Init
<1> QED
  BY <1>1, <1>2, <1>3 DEF Init, TypeInv, TypeOK, Places

LEMMA ArmType ==
  ASSUME NEW delay \in Int, Arm(delay)
  PROVE  armed' \in Nat /\ armed' >= 1 /\ readable' = FALSE
  BY DEF Arm

LEMMA InsertType ==
  ASSUME TypeOK, NEW t \in Timers, NEW due \in [Timers -> Int], Insert(t, due)
  PROVE  timers' \subseteq Timers /\ armed' \in Nat /\ readable' \in BOOLEAN
  BY ArmType DEF TypeOK, Insert, fdVars

LEMMA CreateType ==
  ASSUME TypeOK, NEW t \in Timers, Create(t)
  PROVE  /\ alloc' \in [Timers -> {"none", "live", "deleted"}]
         /\ left' \in [Timers -> Int] /\ interval' \in [Timers -> Nat]
  BY TimerAssumption DEF TypeOK, Create

LEMMA TypeStep == TypeInv /\ [Next]_vars => TypeInv'
<1> SUFFICES ASSUME TypeInv, [Next]_vars PROVE TypeInv'
  OBVIOUS
<1> USE TimerAssumption DEF TypeInv, TypeOK, Places, timerVars, fdVars, runVars
<1>1. CASE UNCHANGED vars
  BY <1>1 DEF vars
<1>2. ASSUME NEW t \in Timers, AddHere(t) PROVE TypeInv'
  BY <1>2, CreateType, InsertType DEF AddHere
<1>3. ASSUME NEW t \in Timers, CancelHere(t) PROVE TypeInv'
  BY <1>3 DEF CancelHere, Remove
<1>4. ASSUME NEW t \in Timers, AddElsewhere(t) PROVE TypeInv'
  <2>1. <<"add", t>> \in Calls
    BY DEF Calls
  <2> QED
    BY <1>4, <2>1, CreateType, AppendProperties DEF AddElsewhere
<1>5. ASSUME NEW t \in Timers, CancelElsewhere(t) PROVE TypeInv'
  <2>1. <<"cancel", t>> \in Calls
    BY DEF Calls
  <2> QED
    BY <1>5, <2>1, AppendProperties DEF CancelElsewhere
<1>6. ASSUME NEW t \in Timers, RunTimer(t) PROVE TypeInv'
  BY <1>6 DEF RunTimer
<1>7. CASE RunCall
  <2>1. Head(mailbox) \in Calls /\ Tail(mailbox) \in Seq(Calls)
    BY <1>7, HeadTailProperties DEF RunCall
  <2>2. Head(mailbox)[2] \in Timers
    BY <2>1 DEF Calls
  <2> DEFINE t == Head(mailbox)[2]
  <2>3. CASE Insert(t, left) /\ UNCHANGED <<alloc, pc, stray>>
    BY <1>7, <2>1, <2>2, <2>3, InsertType DEF RunCall
  <2>4. CASE Remove(t) /\ UNCHANGED fdVars
    BY <1>7, <2>1, <2>2, <2>4 DEF RunCall, Remove
  <2> QED
    BY <1>7, <2>3, <2>4 DEF RunCall
<1>8. CASE Poll \/ HandleRead
  BY <1>8 DEF Poll, HandleRead
<1>9. CASE CallbackReturns
  <2>1. cur \in Timers
    BY <1>9 DEF CallbackReturns
  <2>2. left[cur] + interval[cur] \in Int
    BY <2>1
  <2>3. /\ alloc' \in [Timers -> {"none", "live", "deleted"}]
        /\ timers' \subseteq Timers
    BY <1>9, <2>1 DEF CallbackReturns
  <2>4. left' \in [Timers -> Int]
    BY <1>9, <2>2 DEF CallbackReturns
  <2>5. /\ pc' \in Places /\ pc' # "callback" /\ cur' = NoTimer
        /\ UNCHANGED <<interval, batch, active, armed, readable, mailbox, jumps, stray>>
    BY <1>9 DEF CallbackReturns
  <2> QED
    BY <2>3, <2>4, <2>5
<1>10. CASE Rearm
  BY <1>10, ArmType DEF Rearm, Earliest
<1>11. CASE Tick
  BY <1>11 DEF Tick
<1>12. CASE SetClock
  <2>1. PICK jump \in {-1, 1} :
          left' = [t \in Timers |-> IF t \in Timed THEN left[t] - jump ELSE left[t]]
    BY <1>12 DEF SetClock
  <2>2. left' \in [Timers -> Int]
    BY <2>1
  <2>3. jumps' \in 0 .. MaxJumps
    BY <1>12 DEF SetClock
  <2> QED
    BY <1>12, <2>2, <2>3 DEF SetClock
<1> QED
  BY <1>1, <1>2, <1>3, <1>4, <1>5, <1>6, <1>7, <1>8, <1>9, <1>10, <1>11, <1>12
  DEF Next

LEMMA TypeInvAlways == Spec => []TypeInv
  BY TypeInit, TypeStep, PTL DEF Spec

\* Values stay in their types; the time the timerfd is set for is never negative
\* (TimerQueue.cc:36-62, TimerQueue.h:27-30).
THEOREM TypeCorrect == Spec => []TypeOK
  BY TypeInvAlways, PTL DEF TypeInv

-----------------------------------------------------------------------------
(***************************************************************************)
(* The timerfd covers the timers.                                          *)
(***************************************************************************)

LEMMA ForgottenStep == TypeInv /\ NoTimerForgotten /\ [Next]_vars => NoTimerForgotten'
<1> SUFFICES ASSUME TypeInv, NoTimerForgotten, [Next]_vars PROVE NoTimerForgotten'
  OBVIOUS
<1> USE DEF NoTimerForgotten, SomethingPending, timerVars, fdVars, runVars
<1>1. CASE UNCHANGED vars
  BY <1>1 DEF vars
<1>2. ASSUME NEW t \in Timers, NEW due \in [Timers -> Int], Insert(t, due),
             UNCHANGED <<pc, active>>
      PROVE  NoTimerForgotten'
  <2>1. CASE Arm(due[t])
    <3>1. armed' \in Nat /\ armed' >= 1
      BY <2>1, ArmType
    <3>2. armed' > 0
      BY <3>1
    <3> QED
      BY <3>2
  <2>2. CASE timers # {} /\ UNCHANGED fdVars
    <3>1. pc = "idle" => SomethingPending
      BY <2>2
    <3>2. pc' = pc /\ active' = active /\ armed' = armed /\ readable' = readable
      BY <1>2, <2>2
    <3> QED
      BY <3>1, <3>2
  <2> QED
    BY <1>2, <2>1, <2>2 DEF Insert
<1>3. ASSUME NEW t \in Timers, AddHere(t) PROVE NoTimerForgotten'
  BY <1>2, <1>3, CreateType DEF AddHere, TypeInv
<1>4. ASSUME NEW t \in Timers, CancelHere(t) PROVE NoTimerForgotten'
  BY <1>4 DEF CancelHere, Remove
<1>5. ASSUME NEW t \in Timers,
             AddElsewhere(t) \/ CancelElsewhere(t) \/ RunTimer(t)
      PROVE  NoTimerForgotten'
  BY <1>5 DEF AddElsewhere, CancelElsewhere, RunTimer
<1>6. CASE RunCall
  <2>1. Head(mailbox)[2] \in Timers
    BY <1>6, HeadTailProperties DEF RunCall, TypeInv, TypeOK, Calls
  <2>2. left \in [Timers -> Int]
    BY DEF TypeInv, TypeOK
  <2> QED
    BY <1>2, <1>6, <2>1, <2>2 DEF RunCall, Remove
<1>7. CASE Poll \/ HandleRead \/ CallbackReturns
  BY <1>7 DEF Poll, HandleRead, CallbackReturns
<1>8. CASE Rearm
  <2>1. CASE timers = {}
    BY <1>8, <2>1 DEF Rearm
  <2>2. CASE timers # {}
    <3>1. PICK t \in timers : Arm(left[t])
      BY <1>8, <2>2 DEF Rearm
    <3>2. left[t] \in Int
      BY DEF TypeInv, TypeOK
    <3>3. armed' >= 1 /\ armed' \in Nat
      BY <3>1, <3>2, ArmType
    <3> QED
      BY <3>3
  <2> QED
    BY <2>1, <2>2
<1>9. CASE Tick
  <2>1. armed \in Nat /\ timers' = timers /\ pc' = pc /\ active' = active
    BY <1>9 DEF Tick, TypeInv, TypeOK
  <2>2. armed > 0 => readable' \/ armed' > 0
    <3>1. CASE armed = 1
      BY <1>9, <3>1 DEF Tick
    <3>2. armed > 0 /\ armed # 1 => armed' > 0
      <4>1. armed' = IF armed > 0 THEN armed - 1 ELSE 0
        BY <1>9 DEF Tick
      <4> QED
        BY <2>1, <4>1
    <3> QED
      BY <3>1, <3>2
  <2>3. readable => readable'
    BY <1>9 DEF Tick
  <2>4. active => active'
    BY <2>1
  <2>5. SomethingPending => SomethingPending'
    BY <2>2, <2>3, <2>4, Zenon
  <2> QED
    BY <2>1, <2>5
<1>10. CASE SetClock
  BY <1>10 DEF SetClock
<1> QED
  BY <1>1, <1>3, <1>4, <1>5, <1>6, <1>7, <1>8, <1>9, <1>10 DEF Next

\* A timer that waits is never forgotten: whatever is added, cancelled, run or
\* set, the timerfd will expire or has expired (TimerQueue.cc:83-127).
THEOREM NeverForgotten == Spec => []NoTimerForgotten
<1>1. Init => NoTimerForgotten
  BY DEF Init, NoTimerForgotten
<1> QED
  BY <1>1, ForgottenStep, TypeInvAlways, PTL DEF Spec

-----------------------------------------------------------------------------

(***************************************************************************)
(* The timerfd is never late.  A new Timer is in no place yet: what is in  *)
(* the set, in the batch, at hand or on its way to the loop was created.   *)
(***************************************************************************)

Waiting == {mailbox[i][2] : i \in 1 .. Len(mailbox)}
AtHand  == IF pc = "callback" THEN {cur} ELSE {}
Created == \A t \in timers \cup batch \cup AtHand \cup Waiting : alloc[t] # "none"

\* Once created, a Timer remains so.
LEMMA CreatedForever ==
  ASSUME TypeInv, [Next]_vars, NEW t \in Timers, alloc[t] # "none"
  PROVE  alloc'[t] # "none"
<1> USE DEF TypeInv, TypeOK, timerVars
<1>1. CASE UNCHANGED vars
  BY <1>1 DEF vars
<1>2. ASSUME NEW u \in Timers, AddHere(u) \/ AddElsewhere(u)
      PROVE  alloc'[t] # "none"
  BY <1>2 DEF AddHere, AddElsewhere, Create
<1>3. ASSUME NEW u \in Timers, CancelHere(u) PROVE alloc'[t] # "none"
  BY <1>3 DEF CancelHere, Remove
<1>4. ASSUME NEW u \in Timers, CancelElsewhere(u) \/ RunTimer(u)
      PROVE  alloc'[t] # "none"
  BY <1>4 DEF CancelElsewhere, RunTimer
<1>5. CASE RunCall
  BY <1>5 DEF RunCall, Remove
<1>6. CASE CallbackReturns
  BY <1>6 DEF CallbackReturns
<1>7. CASE Poll \/ HandleRead \/ Rearm \/ Tick \/ SetClock
  BY <1>7 DEF Poll, HandleRead, Rearm, Tick, SetClock
<1> QED
  BY <1>1, <1>2, <1>3, <1>4, <1>5, <1>6, <1>7 DEF Next

\* What is anywhere after a step was somewhere before, or has just been created.
LEMMA CreatedStep == TypeInv /\ Created /\ [Next]_vars => Created'
<1> SUFFICES ASSUME TypeInv, Created, [Next]_vars PROVE Created'
  OBVIOUS
<1> DEFINE Known == {t \in Timers : alloc'[t] # "none"}
<1> USE DEF timerVars, runVars
<1>1. Waiting \subseteq Timers
  BY ElementOfSeq DEF TypeInv, TypeOK, Calls, Waiting
<1>2. timers \cup batch \cup AtHand \cup Waiting \subseteq Known
  BY <1>1, CreatedForever DEF TypeInv, TypeOK, AtHand, Created
<1>3. Waiting' \subseteq Known
  <2>1. CASE mailbox' = mailbox
    BY <1>2, <2>1 DEF Waiting
  <2>2. ASSUME NEW t \in Known, NEW call \in Calls, call[2] = t,
               mailbox' = Append(mailbox, call)
        PROVE  Waiting' \subseteq Known
    BY <1>2, <2>2, AppendProperties DEF Waiting, TypeInv, TypeOK
  <2>3. ASSUME NEW t \in Timers, AddElsewhere(t) PROVE Waiting' \subseteq Known
    <3>1. <<"add", t>> \in Calls /\ t \in Known
      BY <2>3 DEF Calls, AddElsewhere, Create, TypeInv, TypeOK
    <3> QED
      BY <2>2, <2>3, <3>1 DEF AddElsewhere
  <2>4. ASSUME NEW t \in Timers, CancelElsewhere(t) PROVE Waiting' \subseteq Known
    <3>1. <<"cancel", t>> \in Calls /\ t \in Known
      BY <2>4 DEF Calls, CancelElsewhere
    <3> QED
      BY <2>2, <2>4, <3>1 DEF CancelElsewhere
  <2>5. CASE RunCall
    <3>1. mailbox \in Seq(Calls) /\ mailbox # <<>> /\ mailbox' = Tail(mailbox)
      BY <2>5 DEF RunCall, TypeInv, TypeOK
    <3>2. Waiting' \subseteq Waiting
      BY <3>1, HeadTailProperties DEF Waiting
    <3> QED
      BY <1>2, <3>2
  <2> QED
    BY <2>1, <2>3, <2>4, <2>5
    DEF Next, vars, AddHere, CancelHere, RunTimer, Poll, HandleRead,
        CallbackReturns, Rearm, Tick, SetClock
<1>4. timers' \cup batch' \cup AtHand' \subseteq Known
  <2> USE DEF AtHand
  <2>1. CASE UNCHANGED vars
    BY <1>2, <2>1 DEF vars
  <2>2. ASSUME NEW t \in Timers, AddHere(t)
        PROVE  timers' \cup batch' \cup AtHand' \subseteq Known
    BY <1>2, <2>2 DEF AddHere, Create, Insert, TypeInv, TypeOK
  <2>3. ASSUME NEW t \in Timers, CancelHere(t)
        PROVE  timers' \cup batch' \cup AtHand' \subseteq Known
    BY <1>2, <2>3 DEF CancelHere, Remove
  <2>4. ASSUME NEW t \in Timers, AddElsewhere(t) \/ CancelElsewhere(t)
        PROVE  timers' \cup batch' \cup AtHand' \subseteq Known
    BY <1>2, <2>4 DEF AddElsewhere, CancelElsewhere
  <2>5. ASSUME NEW t \in Timers, RunTimer(t)
        PROVE  timers' \cup batch' \cup AtHand' \subseteq Known
    BY <1>2, <2>5 DEF RunTimer, Earliest
  <2>6. CASE RunCall
    <3>1. Head(mailbox)[2] \in Waiting
      <4>1. mailbox \in Seq(Calls) /\ mailbox # <<>>
        BY <2>6 DEF RunCall, TypeInv, TypeOK
      <4>2. Len(mailbox) \in Nat /\ Len(mailbox) # 0
        BY <4>1, EmptySeq, LenProperties
      <4>3. 1 \in 1 .. Len(mailbox) /\ Head(mailbox) = mailbox[1]
        BY <4>1, <4>2
      <4> QED
        BY <4>3 DEF Waiting
    <3> QED
      BY <1>2, <2>6, <3>1 DEF RunCall, Insert, Remove
  <2>7. CASE HandleRead
    BY <1>2, <2>7 DEF HandleRead
  <2>8. CASE CallbackReturns
    BY <1>2, <2>8 DEF CallbackReturns
  <2>9. CASE Poll \/ Rearm \/ Tick \/ SetClock
    BY <1>2, <2>9 DEF Poll, Rearm, Tick, SetClock
  <2> QED
    BY <2>1, <2>2, <2>3, <2>4, <2>5, <2>6, <2>7, <2>8, <2>9 DEF Next
<1> QED
  BY <1>3, <1>4 DEF Created

\* Setting the timerfd for the earliest timer covers them all.
LEMMA ArmCovers ==
  ASSUME NEW delay \in Int, Arm(delay), NEW due \in Int, delay <= due
  PROVE  armed' <= due \/ armed' = 1
  BY DEF Arm

LEMMA LateStep ==
  TypeInv /\ Created /\ NoTimerForgotten /\ NoTimerLate /\ [Next]_vars => NoTimerLate'
<1> SUFFICES ASSUME TypeInv, Created, NoTimerForgotten, NoTimerLate, [Next]_vars,
                    pc' = "idle", timers' # {}, jumps' = 0, ~readable', ~active',
                    NEW t \in timers'
             PROVE  armed' <= left'[t] \/ armed' = 1
  BY DEF NoTimerLate
<1> USE DEF timerVars, fdVars, runVars
\* A step that leaves the count of jumps at zero does not set the clock.
<1>a. jumps = 0 /\ ~SetClock
  <2>1. jumps \in Nat
    BY TimerAssumption DEF TypeInv, TypeOK
  <2>2. ~SetClock
    BY <2>1 DEF SetClock
  <2> QED
    BY <2>2 DEF Next, vars, AddHere, CancelHere, AddElsewhere, CancelElsewhere,
       RunTimer, RunCall, Poll, HandleRead, CallbackReturns, Rearm, Tick
<1>0. /\ left \in [Timers -> Int] /\ armed \in Nat /\ timers \subseteq Timers
      /\ ~readable /\ ~active /\ pc = "idle" /\ t \in timers =>
            armed <= left[t] \/ armed = 1
  BY <1>a DEF TypeInv, TypeOK, NoTimerLate
<1>1. CASE /\ t \in timers /\ left'[t] = left[t] /\ armed' = armed
           /\ readable' = readable /\ active' = active /\ pc = "idle"
  BY <1>0, <1>1
\* The one insertion, with the times that hold then.
<1>2. ASSUME NEW u \in Timers, NEW due \in [Timers -> Int], Insert(u, due),
             left' = due, \A v \in timers : due[v] = left[v],
             pc = "idle", active' = active
      PROVE  armed' <= left'[t] \/ armed' = 1
  <2>1. CASE (\A v \in timers : due[u] <= due[v]) /\ Arm(due[u])
    <3>1. due[u] <= due[t] /\ due[u] \in Int /\ due[t] \in Int
      BY <1>2, <1>0, <2>1 DEF Insert
    <3> QED
      BY <1>2, <2>1, <3>1, ArmCovers
  <2>2. CASE (\E v \in timers : due[v] <= due[u]) /\ UNCHANGED fdVars
    <3>1. PICK v \in timers : due[v] <= due[u]
      BY <2>2
    <3>2. /\ \A w \in timers : armed <= left[w] \/ armed = 1
          /\ armed' = armed
      BY <1>a, <1>2, <2>2 DEF NoTimerLate
    <3>3. CASE t \in timers
      BY <1>2, <3>2, <3>3
    <3>4. CASE t = u
      <4>1. left[v] <= due[t] /\ left[v] \in Int /\ due[t] \in Int
        BY <1>0, <1>2, <3>1, <3>4
      <4> QED
        BY <1>0, <1>2, <3>1, <3>2, <4>1
    <3> QED
      BY <1>2, <3>3, <3>4 DEF Insert
  <2> QED
    BY <1>2, <2>1, <2>2 DEF Insert
<1>3. ASSUME NEW u \in Timers, AddHere(u)
      PROVE  armed' <= left'[t] \/ armed' = 1
  <2>1. u \notin timers
    BY <1>3 DEF AddHere, Create, Created
  <2>2. left' \in [Timers -> Int] /\ \A v \in timers : left'[v] = left[v]
    BY <1>0, <1>3, <2>1, CreateType DEF AddHere, Create, TypeInv
  <2> QED
    BY <1>2, <1>3, <2>2 DEF AddHere
<1>4. ASSUME NEW u \in Timers, AddElsewhere(u)
      PROVE  armed' <= left'[t] \/ armed' = 1
  <2>1. u \notin timers /\ timers' = timers
    BY <1>4 DEF AddElsewhere, Create, Created
  <2>2. left'[t] = left[t]
    BY <1>0, <1>4, <2>1 DEF AddElsewhere, Create
  <2> QED
    BY <1>1, <1>4, <2>1, <2>2 DEF AddElsewhere
<1>5. ASSUME NEW u \in Timers, CancelHere(u) \/ CancelElsewhere(u) \/ RunTimer(u)
      PROVE  armed' <= left'[t] \/ armed' = 1
  BY <1>1, <1>5 DEF CancelHere, CancelElsewhere, RunTimer, Remove
<1>6. CASE RunCall
  <2>1. Head(mailbox)[2] \in Timers
    BY <1>6, HeadTailProperties DEF RunCall, TypeInv, TypeOK, Calls
  <2> QED
    BY <1>0, <1>1, <1>2, <1>6, <2>1 DEF RunCall, Remove
<1>7. CASE Rearm
  <2>1. PICK u \in timers : Earliest(u, timers) /\ Arm(left[u])
    BY <1>7 DEF Rearm
  <2>2. left'[t] = left[t] /\ t \in timers /\ left[u] <= left[t]
    BY <1>7, <2>1 DEF Rearm, Earliest
  <2> QED
    BY <1>0, <2>1, <2>2, ArmCovers
<1>8. CASE Tick
  <2>1. /\ t \in timers /\ t \in Timers /\ pc = "idle" /\ ~active
        /\ timers' = timers
    BY <1>0, <1>8 DEF Tick
  <2>2. ~readable /\ armed # 1
    BY <1>8 DEF Tick
  <2>3. armed > 0
    BY <2>1, <2>2 DEF NoTimerForgotten, SomethingPending
  <2>4. armed <= left[t]
    BY <1>0, <2>1, <2>2
  <2>5. left'[t] = left[t] \/ left'[t] = left[t] - 1
    BY <1>0, <1>8, <2>1 DEF Tick
  <2>6. armed' = armed - 1
    BY <1>8, <2>3 DEF Tick
  <2>7. left[t] \in Int /\ armed \in Nat
    BY <1>0, <2>1
  <2> QED
    BY <2>4, <2>5, <2>6, <2>7
<1>9. CASE UNCHANGED vars \/ Poll \/ HandleRead \/ CallbackReturns
  BY <1>1, <1>9 DEF vars, Poll, HandleRead, CallbackReturns
<1> QED
  BY <1>a, <1>3, <1>4, <1>5, <1>6, <1>7, <1>8, <1>9 DEF Next

\* While nobody sets the wall clock, the timerfd expires no later than the
\* earliest timer of the set: the insertion of an earlier timer and the end of
\* handleRead set it again (TimerQueue.cc:83-94, 105-127, 62).
THEOREM NeverLate == Spec => []NoTimerLate
<1>1. Init => Created /\ NoTimerLate
  BY DEF Init, Created, Waiting, AtHand, NoTimerLate
<1> QED
  BY <1>1, CreatedStep, LateStep, TypeInvAlways, NeverForgotten, PTL DEF Spec

-----------------------------------------------------------------------------
(***************************************************************************)
(* Each Timer is kept in one place.  The insertions that wait in the loop  *)
(* count as a place.  No Timer is inserted twice, and none is in two       *)
(* places, cancelled or not; one that was never cancelled astray is live   *)
(* just while it is in one.                                                *)
(***************************************************************************)

\* The timers whose insertion waits in s.
Adds(s) == {t \in Timers : \E i \in 1 .. Len(s) : s[i] = <<"add", t>>}

AddedOnce(s) ==
    \A i, j \in 1 .. Len(s) : i < j /\ s[i][1] = "add" => s[i] # s[j]

PlacesApart ==
    /\ pc = "callback" => cur # NoTimer
    /\ pc \in {"idle", "batch"} => cur = NoTimer
    /\ pc = "idle" => batch = {}
    /\ timers \cap batch = {} /\ cur \notin timers \cup batch
    /\ Adds(mailbox) \cap (timers \cup batch \cup {cur}) = {}
    /\ AddedOnce(mailbox)

LiveInv ==
    \A t \in Timers \ stray :
        alloc[t] = "live" <=> t \in timers \/ t \in batch \/ t = cur \/ t \in Adds(mailbox)

KeptInv == PlacesApart /\ LiveInv /\ (~Defined => stray # {})

LEMMA AppendAdds ==
  ASSUME NEW s \in Seq(Calls), NEW e \in Calls, AddedOnce(s),
         e[1] = "add" => e[2] \notin Adds(s)
  PROVE  /\ AddedOnce(Append(s, e))
         /\ Adds(Append(s, e)) = Adds(s) \cup (IF e[1] = "add" THEN {e[2]} ELSE {})
<1>1. /\ Len(s) \in Nat /\ Len(Append(s, e)) = Len(s) + 1
      /\ \A i \in 1 .. Len(s) : Append(s, e)[i] = s[i] /\ s[i] \in Calls
      /\ Append(s, e)[Len(s) + 1] = e
  BY AppendProperties, ElementOfSeq, LenProperties
<1>2. e[2] \in Timers /\ e = <<e[1], e[2]>>
  BY DEF Calls
<1>3. ASSUME NEW i \in 1 .. Len(s), s[i][1] = "add" PROVE s[i] # e
  <2>1. s[i] = <<"add", s[i][2]>> /\ s[i][2] \in Timers
    BY <1>1, <1>3 DEF Calls
  <2> QED
    BY <1>2, <2>1 DEF Adds
<1>4. AddedOnce(Append(s, e))
  BY <1>1, <1>3 DEF AddedOnce
<1>5. Adds(Append(s, e)) = Adds(s) \cup (IF e[1] = "add" THEN {e[2]} ELSE {})
  BY <1>1, <1>2 DEF Adds
<1> QED
  BY <1>4, <1>5

LEMMA TailAdds ==
  ASSUME NEW s \in Seq(Calls), s # <<>>, AddedOnce(s)
  PROVE  /\ Head(s) \in Calls /\ AddedOnce(Tail(s))
         /\ Head(s)[1] = "add" =>
              /\ Head(s)[2] \in Adds(s)
              /\ Adds(Tail(s)) = Adds(s) \ {Head(s)[2]}
         /\ Head(s)[1] # "add" => Adds(Tail(s)) = Adds(s)
<1>1. /\ Len(s) \in Nat \ {0} /\ Len(Tail(s)) = Len(s) - 1
      /\ \A i \in 1 .. Len(s) - 1 : Tail(s)[i] = s[i + 1]
      /\ Head(s) = s[1] /\ s[1] \in Calls
  BY EmptySeq, HeadTailProperties, ElementOfSeq, LenProperties
<1>2. AddedOnce(Tail(s))
  BY <1>1 DEF AddedOnce
<1>3. Head(s)[2] \in Timers /\ Head(s) = <<Head(s)[1], Head(s)[2]>>
  BY <1>1 DEF Calls
<1>4. \A i \in 1 .. Len(s) - 1 : s[1][1] = "add" => s[i + 1] # s[1]
  BY <1>1 DEF AddedOnce
<1>5. Adds(Tail(s)) \subseteq Adds(s)
  BY <1>1 DEF Adds
<1>6. Adds(s) \subseteq Adds(Tail(s)) \cup (IF Head(s)[1] = "add" THEN {Head(s)[2]} ELSE {})
  <2> SUFFICES ASSUME NEW t \in Timers, NEW i \in 1 .. Len(s), s[i] = <<"add", t>>,
                      t \notin Adds(Tail(s))
               PROVE  Head(s)[1] = "add" /\ t = Head(s)[2]
    BY DEF Adds
  <2>1. ASSUME i # 1 PROVE FALSE
    <3>1. i - 1 \in 1 .. Len(s) - 1 /\ s[(i - 1) + 1] = s[i]
      BY <1>1, <2>1
    <3> QED
      BY <1>1, <3>1 DEF Adds
  <2> QED
    BY <1>1, <2>1
<1>7. Head(s)[1] = "add" => Head(s)[2] \in Adds(s) /\ Head(s)[2] \notin Adds(Tail(s))
  BY <1>1, <1>3, <1>4 DEF Adds
<1> QED
  BY <1>1, <1>2, <1>5, <1>6, <1>7

\* What is queued was created.
LEMMA AddsCreated ==
  ASSUME TypeInv, Created, NEW t \in Adds(mailbox)
  PROVE  alloc[t] # "none"
<1>1. PICK i \in 1 .. Len(mailbox) : mailbox[i] = <<"add", t>>
  BY DEF Adds
<1>2. t \in Waiting
  BY <1>1 DEF Waiting
<1> QED
  BY <1>2 DEF Created

\* Cancelling a timer that waits in the set takes it out of its one place; any
\* other is from now on one that was cancelled astray.
LEMMA RemoveKeeps ==
  ASSUME TypeInv, KeptInv, NEW t \in Timers, Remove(t), pc \in {"idle", "callback"},
         UNCHANGED <<batch, cur>>, mailbox' \in Seq(Calls), AddedOnce(mailbox'),
         Adds(mailbox') = Adds(mailbox)
  PROVE  KeptInv'
<1> USE DEF PlacesApart, LiveInv, KeptInv, Defined
<1>1. /\ alloc \in [Timers -> {"none", "live", "deleted"}]
      /\ timers \subseteq Timers /\ batch \subseteq Timers
  BY DEF TypeInv, TypeOK
<1>2. CASE alloc[t] = "deleted"
  <2>1. /\ pc' = "undefined" /\ alloc' = alloc /\ timers' = timers
        /\ stray' = IF t \in timers THEN stray ELSE stray \cup {t}
    BY <1>2 DEF Remove
  <2>2. t \in stray'
    BY <1>2, <2>1
  <2>3. PlacesApart'
    BY <2>1
  <2>4. LiveInv'
    BY <2>1
  <2> QED
    BY <2>1, <2>2, <2>3, <2>4
<1>3. CASE alloc[t] # "deleted"
  <2>1. /\ pc' = pc /\ alloc' = [alloc EXCEPT ![t] = "deleted"]
        /\ timers' = timers \ {t}
        /\ stray' = IF t \in timers THEN stray ELSE stray \cup {t}
    BY <1>3 DEF Remove
  <2>2. PlacesApart'
    BY <2>1
  <2>3. ASSUME NEW u \in Timers \ stray'
        PROVE  alloc'[u] = "live" <=>
                   u \in timers' \/ u \in batch' \/ u = cur' \/ u \in Adds(mailbox')
    <3>1. CASE u = t
      <4>1. u \in timers /\ u \notin batch /\ u # cur /\ u \notin Adds(mailbox)
        BY <2>1, <2>3, <3>1
      <4>2. alloc'[u] = "deleted"
        BY <1>1, <2>1, <3>1
      <4> QED
        BY <2>1, <3>1, <4>1, <4>2
    <3>2. CASE u # t
      <4>1. u \in Timers \ stray /\ alloc'[u] = alloc[u]
        BY <1>1, <2>1, <2>3, <3>2
      <4>2. u \in timers' <=> u \in timers
        BY <2>1, <3>2
      <4> QED
        BY <4>1, <4>2
    <3> QED
      BY <3>1, <3>2
  <2>4. LiveInv'
    BY <2>3
  <2> QED
    BY <2>1, <2>2, <2>4
<1> QED
  BY <1>2, <1>3

LEMMA KeptStep ==
  ASSUME TypeInv, Created, KeptInv, [Next]_vars
  PROVE  KeptInv'
<1> USE TimerAssumption
    DEF timerVars, fdVars, runVars, Defined, PlacesApart, LiveInv, KeptInv
<1>a. /\ alloc \in [Timers -> {"none", "live", "deleted"}]
      /\ mailbox \in Seq(Calls)
      /\ timers \subseteq Timers /\ batch \subseteq Timers
      /\ cur \in Timers \cup {NoTimer} /\ pc \in Places
  BY DEF TypeInv, TypeOK
\* A Timer that is not created yet is nowhere.
<1>b. ASSUME NEW t \in Timers, alloc[t] = "none"
      PROVE  t \notin timers \cup batch \cup Adds(mailbox)
  BY <1>b, AddsCreated DEF Created
<1>1. CASE UNCHANGED vars
  BY <1>1 DEF vars
<1>2. ASSUME NEW t \in Timers, AddHere(t) PROVE KeptInv'
  <2>1. /\ alloc[t] = "none" /\ alloc' = [alloc EXCEPT ![t] = "live"]
        /\ timers' = timers \cup {t} /\ mailbox' = mailbox /\ batch' = batch
        /\ cur' = cur /\ pc' = pc /\ stray' = stray
    BY <1>2 DEF AddHere, Create, Insert
  <2>2. t # cur
    BY <1>2, <2>1 DEF Created, AtHand, AddHere
  <2> QED
    BY <1>a, <1>b, <2>1, <2>2
<1>3. ASSUME NEW t \in Timers, CancelHere(t) PROVE KeptInv'
  BY <1>a, <1>3, RemoveKeeps DEF CancelHere
<1>4. ASSUME NEW t \in Timers, AddElsewhere(t) PROVE KeptInv'
  <2>1. /\ alloc[t] = "none" /\ alloc' = [alloc EXCEPT ![t] = "live"]
        /\ mailbox' = Append(mailbox, <<"add", t>>)
        /\ UNCHANGED <<timers, batch, cur, pc, stray>>
    BY <1>4 DEF AddElsewhere, Create
  <2>2. <<"add", t>> \in Calls /\ t \notin timers \cup batch \cup Adds(mailbox)
    BY <1>b, <2>1 DEF Calls
  <2>3. t # cur
    BY <1>4, <2>1 DEF AddElsewhere, Created, AtHand, Places, TypeInv, TypeOK
  <2>4. AddedOnce(mailbox') /\ Adds(mailbox') = Adds(mailbox) \cup {t}
    BY <1>a, <2>1, <2>2, AppendAdds
  <2>5. PlacesApart'
    <3>1. timers' = timers /\ batch' = batch /\ cur' = cur /\ pc' = pc
      BY <2>1
    <3>2. Adds(mailbox') \cap (timers \cup batch \cup {cur}) = {}
      BY <2>2, <2>3, <2>4
    <3> QED
      BY <2>4, <3>1, <3>2
  <2>6. \A u \in Timers \ {t} : alloc'[u] = alloc[u] /\ alloc'[t] = "live"
    BY <1>a, <2>1
  <2>7. LiveInv'
    BY <1>a, <2>1, <2>4, <2>6
  <2> QED
    BY <2>1, <2>5, <2>7
<1>5. ASSUME NEW t \in Timers, CancelElsewhere(t) PROVE KeptInv'
  <2>1. /\ mailbox' = Append(mailbox, <<"cancel", t>>)
        /\ UNCHANGED <<alloc, timers, batch, cur, pc, stray>>
    BY <1>5 DEF CancelElsewhere
  <2>2. <<"cancel", t>> \in Calls
    BY DEF Calls
  <2>3. AddedOnce(mailbox') /\ Adds(mailbox') = Adds(mailbox)
    BY <1>a, <2>1, <2>2, AppendAdds
  <2> QED
    BY <1>a, <2>1, <2>3
<1>6. ASSUME NEW t \in Timers, RunTimer(t) PROVE KeptInv'
  <2>1. /\ pc = "batch" /\ t \in batch /\ batch' = batch \ {t}
        /\ UNCHANGED <<alloc, timers, mailbox, stray>>
    BY <1>6 DEF RunTimer, Earliest
  <2>2. CASE alloc[t] = "deleted"
    <3>1. pc' = "undefined" /\ cur' = cur
      BY <1>6, <2>2 DEF RunTimer
    <3>2. t \in stray
      BY <2>1, <2>2
    <3> QED
      BY <1>a, <2>1, <3>1, <3>2
  <2>3. CASE alloc[t] # "deleted"
    <3>1. pc' = "callback" /\ cur' = t
      BY <1>6, <2>3 DEF RunTimer
    <3> QED
      BY <1>a, <2>1, <3>1
  <2> QED
    BY <2>2, <2>3
<1>7. CASE RunCall
  <2> DEFINE t == Head(mailbox)[2]
  <2>1. mailbox # <<>> /\ mailbox' = Tail(mailbox) /\ pc = "idle" /\ UNCHANGED <<batch, cur>>
    BY <1>7 DEF RunCall
  <2>2. /\ Head(mailbox) \in Calls /\ AddedOnce(mailbox') /\ mailbox' \in Seq(Calls)
        /\ Head(mailbox)[1] = "add" =>
             t \in Adds(mailbox) /\ Adds(mailbox') = Adds(mailbox) \ {t}
        /\ Head(mailbox)[1] # "add" => Adds(mailbox') = Adds(mailbox)
    BY <1>a, <2>1, TailAdds, HeadTailProperties
  <2>3. t \in Timers
    BY <2>2 DEF Calls
  <2>4. CASE Head(mailbox)[1] = "add"
    <3>1. timers' = timers \cup {t} /\ UNCHANGED <<alloc, pc, stray>>
      BY <1>7, <2>4 DEF RunCall, Insert
    <3>2. t \notin batch /\ t # cur
      BY <2>2, <2>4
    <3>3. PlacesApart'
      BY <1>a, <2>1, <2>2, <2>4, <3>1, <3>2
    <3>4. \A u \in Timers : (u \in timers' \/ u \in Adds(mailbox'))
                               <=> (u \in timers \/ u \in Adds(mailbox))
      BY <2>2, <2>4, <3>1
    <3>5. LiveInv'
      BY <2>1, <3>1, <3>4
    <3> QED
      BY <3>1, <3>3, <3>5
  <2>5. CASE Head(mailbox)[1] # "add"
    <3>1. Remove(t)
      BY <1>7, <2>5 DEF RunCall
    <3> QED
      BY <2>1, <2>2, <2>3, <2>5, <3>1, RemoveKeeps
  <2> QED
    BY <2>4, <2>5
<1>8. CASE HandleRead
  BY <1>a, <1>8 DEF HandleRead
<1>9. CASE CallbackReturns
  <2>1. /\ cur \in Timers /\ cur' = NoTimer /\ batch' = batch /\ stray' = stray
        /\ Adds(mailbox') = Adds(mailbox) /\ AddedOnce(mailbox')
        /\ cur \notin timers \cup batch \cup Adds(mailbox) /\ pc = "callback"
        /\ NoTimer \notin timers \cup batch \cup Adds(mailbox)
    BY <1>a, <1>9 DEF CallbackReturns, Adds
  <2>2. CASE alloc[cur] = "deleted"
    <3>1. pc' = "undefined" /\ alloc' = alloc /\ timers' = timers
      BY <1>9, <2>2 DEF CallbackReturns
    <3>2. cur \in stray
      BY <2>1, <2>2
    <3>3. PlacesApart'
      BY <2>1, <3>1
    <3>4. LiveInv'
      BY <2>1, <3>1, <3>2
    <3> QED
      BY <2>1, <3>2, <3>3, <3>4
  <2>3. CASE alloc[cur] # "deleted" /\ interval[cur] > 0
    <3>1. timers' = timers \cup {cur} /\ alloc' = alloc /\ pc' = "batch"
      BY <1>9, <2>3 DEF CallbackReturns
    <3>2. PlacesApart'
      BY <2>1, <3>1
    <3>3. LiveInv'
      BY <2>1, <3>1
    <3> QED
      BY <3>1, <3>2, <3>3
  <2>4. CASE alloc[cur] # "deleted" /\ ~(interval[cur] > 0)
    <3>1. /\ timers' = timers /\ alloc' = [alloc EXCEPT ![cur] = "deleted"]
          /\ pc' = "batch"
      BY <1>9, <2>4 DEF CallbackReturns
    <3>2. PlacesApart'
      BY <2>1, <3>1
    <3>3. \A u \in Timers \ {cur} : alloc'[u] = alloc[u] /\ alloc'[cur] = "deleted"
      BY <1>a, <2>1, <3>1
    <3>4. alloc'[cur] = "deleted"
      BY <1>a, <2>1, <3>1
    <3>5. LiveInv'
      BY <2>1, <3>1, <3>3, <3>4
    <3> QED
      BY <3>1, <3>2, <3>5
  <2> QED
    BY <2>2, <2>3, <2>4
<1>10. CASE Poll \/ Rearm \/ Tick \/ SetClock
  BY <1>10 DEF Poll, Rearm, Tick, SetClock
<1> QED
  BY <1>1, <1>2, <1>3, <1>4, <1>5, <1>6, <1>7, <1>8, <1>9, <1>10 DEF Next

LEMMA KeptInvAlways == Spec => []KeptInv
<1>1. Init => Created
  BY DEF Init, Created, Waiting, AtHand
<1>2. Init => KeptInv
  BY TimerAssumption DEF Init, KeptInv, PlacesApart, LiveInv, Adds, AddedOnce, Defined
<1> QED
  BY <1>1, <1>2, KeptStep, CreatedStep, TypeInvAlways, PTL DEF Spec

LEMMA KeptImplies ==
  ASSUME TypeInv, KeptInv PROVE TimersKeptOnce
<1> USE DEF TypeInv, TypeOK, KeptInv
<1>1. Queued = Adds(mailbox)
  <2>1. DOMAIN mailbox = 1 .. Len(mailbox)
    BY LenProperties
  <2>2. \A i \in 1 .. Len(mailbox) :
          mailbox[i][2] \in Timers /\ mailbox[i] = <<mailbox[i][1], mailbox[i][2]>>
    BY ElementOfSeq DEF Calls
  <2>3. Queued \subseteq Adds(mailbox)
    BY <2>1, <2>2 DEF Queued, Adds
  <2>4. ASSUME NEW t \in Adds(mailbox) PROVE t \in Queued
    <3>1. PICK i \in 1 .. Len(mailbox) : mailbox[i] = <<"add", t>>
      BY DEF Adds
    <3>2. mailbox[i][1] = "add" /\ mailbox[i][2] = t
      BY <3>1
    <3> QED
      BY <2>1, <3>2 DEF Queued
  <2> QED
    BY <2>3, <2>4
<1>2. cur \in Timers \cup {NoTimer} /\ NoTimer \notin Timers
  BY TimerAssumption
<1>3. \A t \in Timers \ stray : t \in Live <=> t \in Kept
  BY <1>1, <1>2 DEF Live, Kept, LiveInv
<1> QED
  BY <1>1, <1>3 DEF TimersKeptOnce, PlacesApart

\* Whatever is cancelled from wherever, a Timer that was itself never cancelled
\* outside the set is live exactly while it is in one of the places that will run or
\* delete it, also while calls of other threads wait; and no Timer is in two of them
\* (TimerQueue.cc:64-127).
THEOREM KeptOnce == Spec => []TimersKeptOnce
  BY KeptInvAlways, TypeInvAlways, KeptImplies, PTL

\* A deleted Timer is used, and what the asserts of handleRead take for granted fails,
\* only after some Timer was cancelled that was not in the set: it had been taken by
\* handleRead, deleted, or not been inserted yet (TimerQueue.cc:85, 96-103, 111-122).
THEOREM NeverUndefined == Spec => [](stray = {} => Defined /\ BatchTimersExist)
<1>1. ASSUME TypeInv, KeptInv, stray = {} PROVE Defined /\ BatchTimersExist
  BY <1>1 DEF TypeInv, TypeOK, KeptInv, LiveInv, BatchTimersExist
<1> QED
  BY <1>1, KeptInvAlways, TypeInvAlways, PTL
=============================================================================
