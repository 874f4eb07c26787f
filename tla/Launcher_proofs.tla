---------------------------- MODULE Launcher_proofs ----------------------------
(***************************************************************************)
(* Theorems about Launcher, for any hosts, any numbers of servers and      *)
(* clients, and any order in which tasks, threads and the cleanup process  *)
(* go on; and about MonitorFile, for any number of launchers.              *)
(***************************************************************************)
EXTENDS Launcher, SequenceTheorems, FiniteSetTheorems, TLAPS

(***************************************************************************)
(* Types.  A task is in a state but "none" once it has been launched; the  *)
(* tasks of the plan are launched before the cleanup process is forked.    *)
(***************************************************************************)

\* Nothing has been told to the cleanup process yet, and it has found nothing.
Quiet == pipe = <<>> /\ cleaner \in {"none", "recv"} /\ found = {} /\ target = 1

TypeInv ==
    /\ TypeOK
    /\ Len(plan) \in Nat /\ pipe \in Seq({"exit", "cleanup"})
    /\ \A i \in Own : status[i] = "none" <=> i > launched
    /\ pc = "main" => plan = <<>> /\ joined = 0 /\ put = {}
    /\ pc = "get" => joined + 1 \in put
    /\ pc \in {"main", "submit"} => cleaner = "none"
    /\ pc \in {"main", "submit", "forked", "join", "get", "stuck"} => Quiet
    /\ pc = "dead" => Quiet /\ cleaner = "none"
    /\ pc \notin {"main", "submit", "dead"} => launched = Len(plan) /\ cleaner # "none"
    /\ pc \notin {"main", "dead"} => NumHosts > 0
    /\ cleaner = "kill" => round < 3

(***************************************************************************)
(* The count of the states: a thread that has ended has put one, and every *)
(* join takes one.                                                         *)
(***************************************************************************)

\* Some thread has told of a failure, in the queue or in what was taken out of it.
Told == err = 1 \/ \E k \in 1..Len(state_q) : state_q[k] = 1

CountInv ==
    /\ IsFiniteSet(put) /\ Cardinality(put) = Len(state_q) + joined
    /\ 1..joined \subseteq put
    /\ \A i \in put : Ended(i)
    /\ Told <=> \E i \in put : status[i] = "failed"
    /\ pc \in {"reap", "success", "failure"} => joined = Len(plan)
    /\ pc = "failure" => err = 1
    /\ pc = "success" => err = 0

(***************************************************************************)
(* The cleanup process.                                                    *)
(***************************************************************************)

\* Without an interrupt the cleanup process is told to exit and nothing else.
ToldInv ==
    /\ pc = "reap" => /\ found = {}
                      /\ \/ cleaner = "recv" /\ pipe = <<"exit">>
                         \/ cleaner = "ended" /\ pipe = <<>>
    /\ pc \in {"success", "failure"} => cleaner = "ended" /\ pipe = <<>> /\ found = {}

Killing == cleaner \in {"term", "check", "kill"}

\* The hosts the cleanup process is done with.
Done == {hosts[k] : k \in 1 .. target - 1}

KillInv ==
    /\ target <= NumHosts \/ cleaner = "none"
    /\ \A i \in found : HostOf(i) \in HostSet
                        /\ status[i] \in {"running", "ok", "failed"}
    /\ cleaner \in {"none", "recv"} => found = {}
    /\ Killing => \A i \in Running(found) : HostOf(i) \in Done => GivenUp(i)
    /\ cleaner \in {"check", "kill"} =>
          /\ pending \subseteq Here(found)
          /\ \A i \in Running(Here(found)) :
                i \in pending /\ {i} \X (0..round) \subseteq survived
    /\ KilledOrTried

-----------------------------------------------------------------------------
(***************************************************************************)
(* The types are kept.                                                     *)
(***************************************************************************)

LEMMA TypeInit == Init => TypeInv
<1> SUFFICES ASSUME Init PROVE TypeInv
  OBVIOUS
<1>1. Len(plan) = 0 /\ pipe \in Seq({"exit", "cleanup"}) /\ state_q \in Seq({0, 1})
  BY EmptySeq DEF Init
<1>2. Own = {} /\ AllTasks = {Foreign}
  BY <1>1 DEF Own, AllTasks
<1>3. TypeOK
  BY <1>1, <1>2 DEF Init, TypeOK, MainPlaces
<1> QED
  BY <1>1, <1>2, <1>3 DEF Init, TypeInv, Quiet

\* What Main() plans is a sequence.
LEMMA PlanIsSequence ==
  ASSUME LauncherAssumption, hosts \in IpConfigs
  PROVE  /\ NumHosts \in Nat
         /\ Len(Clients(1)) \in Nat /\ Len(Servers \o Clients(0)) \in Nat
         /\ DOMAIN Clients(1) = 1..Len(Clients(1))
         /\ DOMAIN (Servers \o Clients(0)) = 1..Len(Servers \o Clients(0))
<1>1. NumHosts \in Nat /\ num_servers \in Nat
  BY LenProperties DEF LauncherAssumption, NumHosts
<1>2. NumHosts * num_servers \in Nat
  BY <1>1
<1> DEFINE S == {ServerTask(i) : i \in Nat} \cup {ClientTask(i, g) : i \in Nat, g \in {0, 1}}
<1>3. ASSUME NEW g \in {0, 1} PROVE Clients(g) \in Seq(S)
  <2>1. [i \in 1..NumHosts |-> ClientTask(i, g)] \in [1..NumHosts -> S]
    BY <1>1
  <2> QED
    BY <1>1, <2>1, SeqDef, SMTT(30) DEF Clients
<1>4. Servers \in Seq(S)
  <2> DEFINE n == NumHosts * num_servers
  <2>1. n \in Nat /\ Servers = [i \in 1..n |-> ServerTask(i)]
    BY <1>2 DEF Servers
  <2> HIDE DEF n
  <2>2. [i \in 1..n |-> ServerTask(i)] \in [1..n -> S]
    BY <2>1
  <2> QED
    BY <2>1, <2>2, SeqDef
<1>5. Clients(1) \in Seq(S) /\ Servers \o Clients(0) \in Seq(S)
  BY <1>3, <1>4, ConcatProperties
<1> QED
  BY <1>1, <1>5, LenProperties

\* A step of a task or of the cleanup process that changes what tasks do.
LEMMA StatusType ==
  ASSUME TypeInv,
         status' \in [AllTasks -> {"none", "starting", "running", "ok", "failed"}],
         \A i \in Own : status'[i] = "none" <=> status[i] = "none"
  PROVE  /\ UNCHANGED plan => status' \in [AllTasks' -> {"none", "starting", "running",
                                                         "ok", "failed"}]
         /\ UNCHANGED <<plan, launched>> =>
                \A i \in Own' : status'[i] = "none" <=> i > launched'
  BY DEF TypeInv, AllTasks, Own

LEMMA DiesType ==
  ASSUME TypeInv, NEW S, Dies(S)
  PROVE  /\ status' \in [AllTasks -> {"none", "starting", "running", "ok", "failed"}]
         /\ \A i \in AllTasks : /\ status'[i] = "none" <=> status[i] = "none"
                                /\ \/ status'[i] = status[i]
                                   \/ status[i] = "running" /\ status'[i] = "failed"
                                /\ i \in S => status'[i] # "running"
<1>1. /\ status \in [AllTasks -> {"none", "starting", "running", "ok", "failed"}]
      /\ status' = [i \in AllTasks |-> IF i \in Running(S) THEN "failed" ELSE status[i]]
  BY DEF Dies, TypeInv, TypeOK
<1>2. \A i \in AllTasks : i \in Running(S) <=> i \in S /\ status[i] = "running"
  BY DEF Running
<1>3. \A i \in AllTasks :
        /\ status[i] \in {"none", "starting", "running", "ok", "failed"}
        /\ status'[i] = IF i \in S /\ status[i] = "running" THEN "failed" ELSE status[i]
  BY <1>1, <1>2
<1>4. status' \in [AllTasks -> {"none", "starting", "running", "ok", "failed"}]
  BY <1>1
<1>5. ASSUME NEW i \in AllTasks
      PROVE  /\ status'[i] = "none" <=> status[i] = "none"
             /\ \/ status'[i] = status[i]
                \/ status[i] = "running" /\ status'[i] = "failed"
             /\ i \in S => status'[i] # "running"
  <2>1. CASE i \in S /\ status[i] = "running"
    BY <1>3, <2>1
  <2>2. CASE ~(i \in S /\ status[i] = "running")
    <3>1. status'[i] = status[i]
      BY <1>3, <2>2
    <3> QED
      BY <2>2, <3>1
  <2> QED
    BY <2>1, <2>2
<1> QED
  BY <1>4, <1>5

\* What is attempted is recorded, and every attempt of a task that still runs kept.
LEMMA AttemptType ==
  ASSUME TypeInv, NEW S \in SUBSET found, NEW n \in 0..3, Attempt(S, n)
  PROVE  /\ survived' \subseteq found \X (0..3)
         /\ status' \in [AllTasks -> {"none", "starting", "running", "ok", "failed"}]
         /\ \A i \in Own : status'[i] = "none" <=> status[i] = "none"
<1>1. PICK dying : Dies(dying)
  BY DEF Attempt
<1>2. survived' \subseteq survived \cup (S \X {n})
  BY DEF Attempt
<1>3. S \X {n} \subseteq found \X (0..3) /\ survived \subseteq found \X (0..3)
  BY DEF TypeInv, TypeOK
<1> QED
  BY <1>1, <1>2, <1>3, DiesType DEF AllTasks

LEMMA AttemptKeeps ==
  ASSUME NEW S, NEW n, Attempt(S, n), NEW i, status'[i] = "running"
  PROVE  /\ \A k : <<i, k>> \in survived => <<i, k>> \in survived'
         /\ i \in S => <<i, n>> \in survived'
  BY DEF Attempt

LEMMA HostsType == TypeInv => NumHosts \in Nat
  BY LauncherAssumption, LenProperties
  DEF TypeInv, TypeOK, NumHosts, LauncherAssumption

LEMMA HostSetType ==
  /\ UNCHANGED hosts => HostSet' = HostSet
  /\ \A k \in 1..NumHosts : hosts[k] \in HostSet
  BY DEF HostSet, NumHosts

LEMMA MainType ==
  ASSUME TypeInv, Main PROVE TypeInv'
<1> USE DEF TypeInv, TypeOK, args, Goes, MainPlaces
<1>1. PICK running \in BOOLEAN :
        /\ plan' = IF running THEN Clients(1) ELSE Servers \o Clients(0)
        /\ status' = [i \in DOMAIN plan' \cup {Foreign} |->
                        IF i = Foreign THEN status[i] ELSE "none"]
  BY DEF Main
<1>2. Len(plan') \in Nat /\ DOMAIN plan' = 1..Len(plan') /\ NumHosts \in Nat
  BY <1>1, PlanIsSequence, LauncherAssumption
<1>3. /\ UNCHANGED <<args, launched, joined, err, put, state_q, pipe, cleanVars>>
      /\ pc = "main" /\ pc' = "submit" /\ NumHosts > 0 /\ NumHosts' = NumHosts
  BY <1>2 DEF Main, ArgsAccepted, NumHosts
<1>4. AllTasks' = DOMAIN plan' \cup {Foreign} /\ Foreign \notin DOMAIN plan'
  BY <1>2, LauncherAssumption DEF AllTasks, Own, LauncherAssumption
<1>5. status[Foreign] \in {"none", "starting", "running", "ok", "failed"}
  BY DEF AllTasks
<1>6. status' \in [AllTasks' -> {"none", "starting", "running", "ok", "failed"}]
  BY <1>1, <1>4, <1>5
<1>7. launched = 0 /\ joined = 0 /\ put = {}
  BY <1>3
<1>8. \A i \in Own' : status'[i] = "none" /\ i > launched'
  BY <1>1, <1>2, <1>3, <1>4, <1>7 DEF Own
<1>9. Quiet /\ Quiet' /\ cleaner' = "none" /\ found' = {} /\ pending' = {}
  BY <1>3 DEF Quiet, cleanVars
<1> QED
  BY <1>2, <1>3, <1>6, <1>7, <1>8, <1>9, HostSetType DEF cleanVars, histVars

LEMMA TypeStep == TypeInv /\ [Next]_vars => TypeInv'
<1> SUFFICES ASSUME TypeInv, [Next]_vars PROVE TypeInv'
  OBVIOUS
<1> USE HostSetType
    DEF TypeInv, TypeOK, MainPlaces, Goes, CleanerGoes, args, mainVars, taskVars,
            cleanVars, histVars, NumHosts, AllTasks, Own, Quiet
<1>1. CASE UNCHANGED vars
  BY <1>1 DEF vars
<1>2. CASE Main
  BY <1>2, MainType
<1>3. CASE Refuse \/ SetHandler \/ JoinThread \/ InterruptEarly \/ InterruptForked
  BY <1>3 DEF Refuse, SetHandler, JoinThread, InterruptEarly, InterruptForked
<1>4. CASE Submit
  BY <1>4 DEF Submit
<1>5. CASE Fork
  BY <1>5 DEF Fork
<1>6. CASE GetState
  BY <1>6, HeadTailProperties DEF GetState
<1>7. CASE SendExit \/ Interrupt
  <2>1. pipe' \in Seq({"exit", "cleanup"})
    <3>1. PICK word \in {"exit", "cleanup"} : pipe' = Append(pipe, word)
      BY <1>7 DEF SendExit, Interrupt
    <3> QED
      BY <3>1, AppendProperties
  <2>2. /\ pc \in {"join", "get", "reap"} /\ pc' \in {"reap", "exiting"}
        /\ UNCHANGED <<args, plan, launched, joined, err, taskVars, cleanVars>>
    BY <1>7 DEF SendExit, Interrupt
  <2> QED
    BY <2>1, <2>2
<1>8. CASE Finish \/ Stop
  <2>1. CASE Finish
    BY <1>8, <2>1 DEF Finish
  <2>2. CASE Stop
    BY <1>8, <2>2 DEF Stop
  <2> QED
    BY <1>8, <2>1, <2>2
<1>9. ASSUME NEW i \in Own, TaskStarts(i) \/ TaskEnds(i) \/ TaskFails(i)
      PROVE  TypeInv'
  <2>1. PICK new \in {"running", "ok", "failed"} : SetStatus(i, new)
    BY <1>9 DEF TaskStarts, TaskEnds, TaskFails
  <2>2. status[i] # "none"
    BY <1>9 DEF TaskStarts, TaskEnds, TaskFails
  <2>3. /\ status' \in [AllTasks -> {"none", "starting", "running", "ok", "failed"}]
        /\ \A j \in Own : status'[j] = "none" <=> status[j] = "none"
    BY <2>1, <2>2 DEF SetStatus
  <2> QED
    BY <2>1, <2>3 DEF SetStatus
<1>10. ASSUME NEW i \in Own, ThreadEnds(i) PROVE TypeInv'
  BY <1>10, AppendProperties, SMTT(30) DEF ThreadEnds, Ended
<1>11. CASE Recv
  BY <1>11, HeadTailProperties DEF Recv
<1>12. CASE GetRemotePids
  <2>0. Here(Running(AllTasks)) \subseteq AllTasks
    BY DEF Here, Running
  <2>1. /\ found' \subseteq AllTasks /\ found \subseteq found' /\ cleaner = "list"
        /\ target' \in {target + 1, 1} /\ (target' = target + 1 => target < NumHosts)
        /\ cleaner' \in {"list", "term"}
        /\ UNCHANGED <<args, mainVars, taskVars, pipe, pending, round, histVars>>
    <3>1. CASE target < NumHosts
      BY <1>12, <2>0, <3>1 DEF GetRemotePids
    <3>2. CASE ~(target < NumHosts)
      <4>1. target \in Nat /\ target + 1 # 1
        BY HostsType
      <4>2. /\ cleaner = "list" /\ cleaner' = "term" /\ target' = 1
            /\ UNCHANGED <<args, mainVars, taskVars, pipe, pending, round, histVars>>
        BY <1>12, <3>2 DEF GetRemotePids
      <4> QED
        BY <1>12, <2>0, <4>1, <4>2 DEF GetRemotePids
    <3> QED
      BY <3>1, <3>2
  <2>2. target' \in {1} \cup 1..NumHosts
    BY <2>1, HostsType
  <2> QED
    BY <2>1, <2>2
<1>13. CASE Term
  <2>1. Here(found) \subseteq found
    BY DEF Here
  <2>2. /\ cleaner' = "check" /\ cleaner = "term" /\ pending' = Here(found) /\ round' = 0
        /\ UNCHANGED <<args, mainVars, put, state_q, pipe, target, found, deaf>>
        /\ Attempt(Here(found), 0)
    BY <1>13 DEF Term
  <2>3. Here(found) \in SUBSET found /\ 0 \in 0..3
    BY <2>1
  <2>4. /\ survived' \subseteq found \X (0..3)
        /\ status' \in [AllTasks -> {"none", "starting", "running", "ok", "failed"}]
        /\ \A i \in Own : status'[i] = "none" <=> status[i] = "none"
    <3> HIDE DEF TypeInv, TypeOK, AllTasks, Own
    <3> QED
      BY <2>2, <2>3, AttemptType, SMTT(30)
  <2> QED
    BY <2>1, <2>2, <2>4
<1>14. CASE Check
  <2>1. /\ pending' \subseteq pending /\ cleaner = "check"
        /\ target' \in {target + 1, target} /\ (target' = target + 1 => target < NumHosts)
        /\ cleaner' \in {"kill", "term", "ended"} /\ (cleaner' = "kill" => round < 3)
        /\ deaf' \in {deaf, deaf \cup {hosts[target]}}
        /\ UNCHANGED <<args, mainVars, taskVars, pipe, found, round, survived>>
    BY <1>14 DEF Check, NextHost, Running
  <2>2. target' \in {1} \cup 1..NumHosts
    BY <2>1, HostsType
  <2>3. hosts[target] \in HostSet
    BY <2>1, HostsType
  <2>4. deaf' \subseteq HostSet'
    BY <2>1, <2>3
  <2> QED
    BY <2>1, <2>2, <2>4
<1>15. CASE Kill
  <2>1. /\ cleaner = "kill" /\ cleaner' = "check" /\ round' = round + 1 /\ round < 3
        /\ UNCHANGED <<args, mainVars, put, state_q, pipe, target, found, pending, deaf>>
        /\ Attempt(pending, round + 1)
    BY <1>15 DEF Kill
  <2>2. round + 1 \in 0..3
    BY <2>1
  <2>3. pending \in SUBSET found /\ round + 1 \in 0..3
    BY <2>2
  <2>4. /\ survived' \subseteq found \X (0..3)
        /\ status' \in [AllTasks -> {"none", "starting", "running", "ok", "failed"}]
        /\ \A i \in Own : status'[i] = "none" <=> status[i] = "none"
    <3> HIDE DEF TypeInv, TypeOK, AllTasks, Own
    <3> QED
      BY <2>1, <2>3, AttemptType, SMTT(30)
  <2> QED
    BY <2>1, <2>2, <2>4
<1> QED
  BY <1>1, <1>2, <1>3, <1>4, <1>5, <1>6, <1>7, <1>8, <1>9, <1>10, <1>11, <1>12, <1>13,
     <1>14, <1>15 DEF Next, MainStep, CleanerStep

LEMMA TypeInvAlways == Spec => []TypeInv
  BY TypeInit, TypeStep, PTL DEF Spec

\* Values stay in their types: no more tasks are joined than have been launched, the
\* cleanup process stays among the hosts and makes three attempts at most, and what it
\* kills it has found (launch.py:18-74, 97-169, 513-640).
THEOREM TypeCorrect == Spec => []TypeOK
  BY TypeInvAlways, PTL DEF TypeInv

-----------------------------------------------------------------------------
(***************************************************************************)
(* The states of the threads are counted.                                  *)
(***************************************************************************)

\* A step that leaves the queue and the threads alone, and the tasks that have ended.
LEMMA CountKept ==
  ASSUME CountInv, UNCHANGED <<put, state_q, joined, err>>,
         \A i \in put : status'[i] = status[i],
         \/ pc' = pc /\ UNCHANGED plan
         \/ pc' \notin {"reap", "success", "failure"}
  PROVE  CountInv'
  BY DEF CountInv, Told, Ended

\* What the cleanup process kills had not ended.
LEMMA DiesSpares ==
  ASSUME TypeInv, CountInv, NEW S, Dies(S)
  PROVE  \A i \in put : status'[i] = status[i]
<1>1. put \subseteq AllTasks
  BY DEF TypeInv, TypeOK, AllTasks, Own
<1>2. \A i \in put : status[i] # "running"
  BY DEF CountInv, Ended
<1> QED
  BY <1>1, <1>2, DiesType

LEMMA CountStep == TypeInv /\ CountInv /\ [Next]_vars => CountInv'
<1> SUFFICES ASSUME TypeInv, CountInv, [Next]_vars PROVE CountInv'
  OBVIOUS
<1> USE DEF Goes, CleanerGoes, args, mainVars, taskVars, cleanVars
<1>a. /\ put \subseteq 1..launched /\ launched \in 0..Len(plan) /\ joined \in 0..launched
      /\ Len(plan) \in Nat /\ state_q \in Seq({0, 1}) /\ err \in {0, 1}
      /\ status \in [AllTasks -> {"none", "starting", "running", "ok", "failed"}]
      /\ put \subseteq Own /\ Own \subseteq AllTasks /\ Len(state_q) \in Nat
  BY LenProperties DEF TypeInv, TypeOK, Own, AllTasks
<1>1. CASE UNCHANGED vars
  BY <1>1, CountKept DEF vars
<1>2. CASE Main
  <2>1. put = {} /\ pc' = "submit" /\ UNCHANGED <<put, state_q, joined, err>>
    BY <1>2 DEF Main, TypeInv
  <2> QED
    BY <2>1, CountKept
<1>3. CASE Refuse \/ Fork \/ SetHandler \/ JoinThread \/ InterruptEarly \/ InterruptForked
           \/ Interrupt \/ Stop
  BY <1>3, CountKept DEF Refuse, Fork, SetHandler, JoinThread, InterruptEarly,
                         InterruptForked, Interrupt, Stop
<1>4. CASE Submit
  <2>1. \A i \in put : i # launched + 1 /\ i \in AllTasks
    BY <1>a
  <2>2. \A i \in put : status'[i] = status[i]
    BY <1>4, <1>a, <2>1 DEF Submit
  <2> QED
    BY <1>4, <2>2, CountKept DEF Submit
<1>5. CASE GetState
  <2>1. state_q # <<>> /\ state_q' = Tail(state_q) /\ joined' = joined + 1
        /\ joined + 1 \in put /\ pc' = "join" /\ UNCHANGED <<put, status, plan>>
        /\ err' = IF Head(state_q) # 0 THEN Head(state_q) ELSE err
    BY <1>5 DEF GetState, TypeInv
  <2>2. /\ Len(state_q) \in Nat \ {0} /\ Len(state_q') = Len(state_q) - 1
        /\ \A k \in 1..Len(state_q) - 1 : state_q'[k] = state_q[k + 1]
        /\ Head(state_q) = state_q[1] /\ Head(state_q) \in {0, 1}
    BY <1>a, <2>1, HeadTailProperties, EmptySeq
  <2>3. Told' <=> Told
    <3>1. ASSUME Told PROVE Told'
      <4>1. CASE err = 1
        BY <2>1, <2>2, <4>1 DEF Told
      <4>2. ASSUME NEW k \in 1..Len(state_q), state_q[k] = 1 PROVE Told'
        <5>1. CASE k = 1
          BY <2>1, <2>2, <4>2, <5>1 DEF Told
        <5>2. CASE k # 1
          <6>1. k - 1 \in 1..Len(state_q') /\ state_q'[k - 1] = 1
            BY <2>2, <4>2, <5>2
          <6> QED
            BY <6>1 DEF Told
        <5> QED
          BY <5>1, <5>2
      <4> QED
        BY <3>1, <4>1, <4>2 DEF Told
    <3>2. ASSUME Told' PROVE Told
      <4>1. CASE err' = 1
        BY <2>1, <2>2, <4>1 DEF Told
      <4>2. ASSUME NEW k \in 1..Len(state_q'), state_q'[k] = 1 PROVE Told
        <5>1. k + 1 \in 1..Len(state_q) /\ state_q[k + 1] = 1
          BY <2>2, <4>2
        <5> QED
          BY <5>1 DEF Told
      <4> QED
        BY <3>2, <4>1, <4>2 DEF Told
    <3> QED
      BY <3>1, <3>2
  <2>4. 1..joined' \subseteq put' /\ Cardinality(put') = Len(state_q') + joined'
    BY <1>a, <2>1, <2>2 DEF CountInv
  <2> QED
    BY <2>1, <2>3, <2>4 DEF CountInv, Ended
<1>6. CASE SendExit
  BY <1>6 DEF SendExit, CountInv, Told, Ended
<1>7. CASE Finish
  BY <1>7, <1>a DEF Finish, CountInv, Told, Ended
<1>8. ASSUME NEW i \in Own, TaskStarts(i) \/ TaskEnds(i) \/ TaskFails(i)
      PROVE  CountInv'
  <2>1. PICK new : SetStatus(i, new)
    BY <1>8 DEF TaskStarts, TaskEnds, TaskFails
  <2>2. i \notin put
    BY <1>8 DEF TaskStarts, TaskEnds, TaskFails, CountInv, Ended
  <2>3. \A j \in put : status'[j] = status[j]
    BY <1>a, <2>1, <2>2 DEF SetStatus
  <2> QED
    BY <2>1, <2>3, CountKept DEF SetStatus
<1>9. ASSUME NEW i \in Own, ThreadEnds(i) PROVE CountInv'
  <2> DEFINE state == IF status[i] = "ok" THEN 0 ELSE 1
  <2>1. /\ Ended(i) /\ i \notin put /\ put' = put \cup {i}
        /\ state_q' = Append(state_q, state)
        /\ UNCHANGED <<args, mainVars, status, pipe, cleanVars>>
        /\ pc \notin {"success", "failure"}
    BY <1>9 DEF ThreadEnds, Gone
  <2>2. IsFiniteSet(put') /\ Cardinality(put') = Cardinality(put) + 1
    BY <2>1, FS_AddElement DEF CountInv
  <2>3. /\ Len(state_q') = Len(state_q) + 1 /\ state_q'[Len(state_q) + 1] = state
        /\ \A k \in 1..Len(state_q) : state_q'[k] = state_q[k]
    BY <1>a, <2>1, AppendProperties
  <2>4. Told' <=> Told \/ status[i] = "failed"
    <3>1. state = 1 <=> status[i] = "failed"
      BY <2>1 DEF Ended
    <3> HIDE DEF state
    <3> QED
      BY <1>a, <2>1, <2>3, <3>1 DEF Told
  <2>5. Cardinality(put') = Len(state_q') + joined'
    BY <1>a, <2>1, <2>2, <2>3 DEF CountInv
  <2> QED
    BY <2>1, <2>2, <2>4, <2>5 DEF CountInv, Ended
<1>10. CASE Recv \/ GetRemotePids \/ Check
  BY <1>10, CountKept DEF Recv, GetRemotePids, Check, NextHost
<1>11. CASE Term \/ Kill
  <2>1. PICK S : Dies(S)
    BY <1>11 DEF Term, Kill, Attempt
  <2> QED
    BY <1>11, <2>1, DiesSpares, CountKept DEF Term, Kill
<1> QED
  BY <1>1, <1>2, <1>3, <1>4, <1>5, <1>6, <1>7, <1>8, <1>9, <1>10, <1>11
  DEF Next, MainStep, CleanerStep

LEMMA CountInvAlways == Spec => []CountInv
<1>1. Init => CountInv
  <2> SUFFICES ASSUME Init PROVE CountInv
    OBVIOUS
  <2>1. Len(state_q) = 0 /\ Cardinality(put) = 0 /\ IsFiniteSet(put)
    BY EmptySeq, FS_EmptySet DEF Init
  <2> QED
    BY <2>1 DEF Init, CountInv, Told
<1> QED
  BY <1>1, CountStep, TypeInvAlways, PTL DEF Spec

\* get() of the launcher never blocks: who joins a thread finds as many states in the
\* queue as threads have ended and were not joined, be they of other threads
\* (launch.py:627-633).
THEOREM StateThere == Spec => []StateIsThere
<1>1. TypeInv /\ CountInv => StateIsThere
  <2> SUFFICES ASSUME TypeInv, CountInv, pc = "get", state_q = <<>> PROVE FALSE
    BY DEF StateIsThere
  <2>1. joined \in Nat /\ joined + 1 \in put
    BY DEF TypeInv, TypeOK
  <2>2. 1..joined + 1 \subseteq put
    BY <2>1 DEF CountInv
  <2>3. joined + 1 <= Cardinality(put)
    <3>1. Cardinality(1..joined + 1) = joined + 1
      BY <2>1, FS_Interval
    <3>2. IsFiniteSet(put) /\ 1..joined + 1 \in SUBSET put
      BY <2>2 DEF CountInv
    <3>3. Cardinality(1..joined + 1) <= Cardinality(put)
      BY <3>2, FS_Subset
    <3> QED
      BY <3>1, <3>3
  <2>4. Cardinality(put) = joined
    BY <2>1, EmptySeq DEF CountInv
  <2> QED
    BY <2>1, <2>3, <2>4
<1> QED
  BY <1>1, TypeInvAlways, CountInvAlways, PTL

-----------------------------------------------------------------------------
(***************************************************************************)
(* What the cleanup process is told, and what it kills.                    *)
(***************************************************************************)

LEMMA ToldStep == TypeInv /\ ToldInv /\ [Next]_vars => ToldInv'
<1> SUFFICES ASSUME TypeInv, ToldInv, [Next]_vars PROVE ToldInv'
  OBVIOUS
<1> USE DEF ToldInv, Goes, CleanerGoes, args, mainVars, taskVars, cleanVars
<1>1. CASE UNCHANGED vars
  BY <1>1 DEF vars
<1>2. CASE Refuse \/ Main \/ Submit \/ Fork \/ SetHandler \/ JoinThread \/ GetState
           \/ InterruptEarly \/ InterruptForked \/ Interrupt \/ Stop
  BY <1>2 DEF Refuse, Main, Submit, Fork, SetHandler, JoinThread, GetState,
              InterruptEarly, InterruptForked, Interrupt, Stop
<1>3. CASE SendExit
  <2>1. pipe' = <<"exit">> /\ pc = "join" /\ Quiet
    BY <1>3, EmptySeq, AppendProperties DEF SendExit, TypeInv, Quiet
  <2>2. cleaner = "recv"
    BY <2>1 DEF TypeInv, Quiet
  <2> QED
    BY <1>3, <2>1, <2>2 DEF SendExit, Quiet
<1>4. CASE Finish
  BY <1>4 DEF Finish
<1>5. ASSUME NEW i \in Own, TaskStarts(i) \/ TaskEnds(i) \/ TaskFails(i) \/ ThreadEnds(i)
      PROVE  ToldInv'
  BY <1>5 DEF TaskStarts, TaskEnds, TaskFails, SetStatus, ThreadEnds
<1>6. CASE Recv
  <2>1. Head(<<"exit">>) = "exit" /\ Tail(<<"exit">>) = <<>>
    OBVIOUS
  <2> QED
    BY <1>6, <2>1 DEF Recv
<1>7. CASE GetRemotePids \/ Term \/ Check \/ Kill
  <2>1. pc \notin {"reap", "success", "failure"} /\ pc' = pc
    BY <1>7 DEF GetRemotePids, Term, Check, Kill
  <2> QED
    BY <2>1
<1> QED
  BY <1>1, <1>2, <1>3, <1>4, <1>5, <1>6, <1>7 DEF Next, MainStep, CleanerStep

\* What a step does to the tasks that were found: none of them runs again.
LEMMA FoundStep ==
  ASSUME TypeInv, KillInv, [Next]_vars, ~Main, NEW i \in found
  PROVE  /\ HostOf(i)' = HostOf(i) /\ status'[i] \in {"running", "ok", "failed"}
         /\ status'[i] = "running" => status[i] = "running"
<1> USE DEF args, mainVars, taskVars, cleanVars
<1>1. i \in AllTasks /\ status[i] \in {"running", "ok", "failed"}
      /\ status \in [AllTasks -> {"none", "starting", "running", "ok", "failed"}]
  BY DEF TypeInv, TypeOK, KillInv
<1>2. UNCHANGED plan
  BY DEF Next, MainStep, CleanerStep, vars, Refuse, Submit, Fork, SetHandler, JoinThread,
         GetState, SendExit, Finish, Stop, Recv, GetRemotePids, Term, Check, Kill,
         InterruptEarly, InterruptForked, Interrupt, TaskStarts, TaskEnds, TaskFails,
         SetStatus, ThreadEnds
<1>3. CASE UNCHANGED status
  BY <1>1, <1>2, <1>3 DEF HostOf
<1>4. CASE Submit
  BY <1>4 DEF Submit, TypeInv, Quiet
<1>5. ASSUME NEW j \in Own, TaskStarts(j) \/ TaskEnds(j) \/ TaskFails(j)
      PROVE  /\ status'[i] \in {"running", "ok", "failed"}
             /\ status'[i] = "running" => status[i] = "running"
  BY <1>1, <1>5 DEF TaskStarts, TaskEnds, TaskFails, SetStatus
<1>6. CASE Term \/ Kill
  <2>1. PICK S : Dies(S)
    BY <1>6 DEF Term, Kill, Attempt
  <2> QED
    BY <1>1, <1>2, <2>1, DiesType DEF HostOf
<1> QED
  BY <1>2, <1>3, <1>4, <1>5, <1>6
  DEF HostOf, Next, MainStep, CleanerStep, vars, Refuse, Fork, SetHandler, JoinThread,
      GetState, SendExit, Finish, Stop, Recv, GetRemotePids, Check,
      InterruptEarly, InterruptForked, Interrupt, ThreadEnds

LEMMA KillStep == TypeInv /\ KillInv /\ [Next]_vars => KillInv'
<1> SUFFICES ASSUME TypeInv, KillInv, [Next]_vars PROVE KillInv'
  OBVIOUS
<1> USE DEF KillInv, Killing, Done, Running, Here, GivenUp, KilledOrTried, NumHosts, Goes,
            HostSet, CleanerGoes, args, mainVars, taskVars, cleanVars, histVars
<1>1. CASE Main
  BY <1>1 DEF Main, TypeInv, TypeOK, Quiet
<1>a. target \in Nat /\ target >= 1 /\ round \in 0..3 /\ Len(hosts) \in Nat
      /\ (cleaner # "none" => target <= Len(hosts))
  BY HostsType DEF TypeInv, TypeOK
<1> DEFINE Kept ==
      \A i \in found : /\ HostOf(i)' = HostOf(i) /\ status'[i] \in {"running", "ok", "failed"}
                       /\ status'[i] = "running" => status[i] = "running"
<1>b. ~Main => Kept
  BY FoundStep
<1> HIDE DEF Kept
\* The cleanup process does nothing.
<1>2. CASE UNCHANGED <<hosts, cleanVars>> /\ ~Main
  <2>1. Kept
    BY <1>2, <1>b
  <2> QED
    BY <1>2, <2>1 DEF Kept
<1>3. CASE Fork
  BY <1>3 DEF Fork, TypeInv, Quiet
<1>4. CASE Recv
  BY <1>4 DEF Recv, HostOf
<1>5. CASE GetRemotePids
  <2>1. /\ UNCHANGED <<args, mainVars, taskVars, pipe, pending, round, histVars>>
        /\ found' \in {found, found \cup Here(Running(AllTasks))} /\ cleaner = "list"
        /\ \/ target < Len(hosts) /\ cleaner' = "list" /\ target' = target + 1
           \/ cleaner' = "term" /\ target' = 1
    BY <1>5 DEF GetRemotePids
  <2>2. \A i : HostOf(i)' = HostOf(i)
    BY <2>1 DEF HostOf
  <2>3. \A i \in found' : /\ HostOf(i) \in {hosts[k] : k \in 1..Len(hosts)}
                          /\ status[i] \in {"running", "ok", "failed"}
    BY <1>a, <2>1
  <2>4. cleaner' = "term" => Done' = {}
    BY <2>1
  <2> QED
    BY <1>a, <2>1, <2>2, <2>3, <2>4
<1>6. CASE Term
  <2>1. Kept
    BY <1>6, <1>b DEF Main, Term
  <2>2. /\ cleaner = "term" /\ cleaner' = "check" /\ pending' = Here(found) /\ round' = 0
        /\ UNCHANGED <<hosts, target, found, deaf>> /\ Attempt(Here(found), 0)
    BY <1>6 DEF Term
  <2>3. ASSUME NEW i \in Running(found)', GivenUp(i) PROVE GivenUp(i)'
    <3>1. HostOf(i)' = HostOf(i) /\ deaf' = deaf /\ status'[i] = "running"
      BY <2>1, <2>2, <2>3 DEF Kept
    <3>2. ASSUME {i} \X (0..3) \subseteq survived PROVE {i} \X (0..3) \subseteq survived'
      <4>1. \A k \in 0..3 : <<i, k>> \in survived'
        BY <2>2, <3>1, <3>2, AttemptKeeps
      <4> QED
        BY <4>1
    <3> QED
      BY <2>3, <3>1, <3>2
  <2>4. \A i \in Here(found) : status'[i] = "running" => {i} \X (0..0) \subseteq survived'
    <3>1. 0..0 = {0}
      OBVIOUS
    <3> QED
      BY <2>2, <3>1, AttemptKeeps
  <2>5. Here(found)' = Here(found) /\ Done' = Done
    BY <2>1, <2>2 DEF Kept
  <2> QED
    BY <2>1, <2>2, <2>3, <2>4, <2>5 DEF Kept
<1>7. CASE Check
  <2>1. \A i : HostOf(i)' = HostOf(i)
    BY <1>7 DEF Check, HostOf
  <2>2. /\ UNCHANGED <<args, mainVars, taskVars, pipe, found, round, survived>>
        /\ cleaner = "check"
    BY <1>7 DEF Check
  <2>3. CASE /\ cleaner' = "kill" /\ pending' = Running(pending)
             /\ UNCHANGED <<target, deaf>>
    BY <1>a, <2>1, <2>2, <2>3
  <2>4. CASE /\ NextHost
             /\ \/ (round = 3 \/ Running(pending) = {}) /\ deaf' = deaf
                \/ deaf' = deaf \cup {hosts[target]}
    <3>1. \A i \in Running(found) : HostOf(i) \in Done \cup {hosts[target]} => GivenUp(i)'
      <4> SUFFICES ASSUME NEW i \in Running(found), HostOf(i) \in Done \cup {hosts[target]}
                   PROVE  GivenUp(i)'
        OBVIOUS
      <4>1. CASE HostOf(i) \in Done
        BY <2>1, <2>2, <2>4, <4>1
      <4>2. CASE HostOf(i) = hosts[target]
        <5>1. i \in Running(pending) /\ {i} \X (0..round) \subseteq survived
          BY <2>2, <4>2
        <5> QED
          BY <2>1, <2>2, <2>4, <4>2, <5>1
      <4> QED
        BY <4>1, <4>2
    <3>2. CASE target < Len(hosts)
      <4>1. cleaner' = "term" /\ target' = target + 1
        BY <2>4, <3>2 DEF NextHost
      <4>2. 1 .. target' - 1 = (1 .. target - 1) \cup {target}
        BY <1>a, <4>1
      <4>3. Done' = Done \cup {hosts[target]}
        BY <2>2, <4>2
      <4> HIDE DEF Done, GivenUp
      <4> QED
        BY <1>a, <2>1, <2>2, <3>1, <3>2, <4>1, <4>3
    <3>3. CASE ~(target < Len(hosts))
      <4>1. cleaner' = "ended" /\ target' = target /\ target = Len(hosts)
        BY <1>a, <2>2, <2>4, <3>3 DEF NextHost
      <4>2. 1 .. Len(hosts) = (1 .. target - 1) \cup {target}
        BY <1>a, <4>1
      <4>3. \A i \in Running(found) : GivenUp(i)'
        BY <3>1, <4>2
      <4> HIDE DEF GivenUp
      <4> QED
        BY <2>1, <2>2, <4>1, <4>3
    <3> QED
      BY <3>2, <3>3
  <2> QED
    BY <1>7, <2>3, <2>4 DEF Check
<1>8. CASE Kill
  <2>1. Kept
    BY <1>8, <1>b DEF Main, Kill
  <2>2. /\ cleaner = "kill" /\ cleaner' = "check" /\ round' = round + 1
        /\ UNCHANGED <<hosts, target, found, pending, deaf>> /\ Attempt(pending, round + 1)
    BY <1>8 DEF Kill
  <2>3. ASSUME NEW i \in Running(found)', GivenUp(i) PROVE GivenUp(i)'
    <3>1. HostOf(i)' = HostOf(i) /\ deaf' = deaf /\ status'[i] = "running"
      BY <2>1, <2>2, <2>3 DEF Kept
    <3>2. ASSUME {i} \X (0..3) \subseteq survived PROVE {i} \X (0..3) \subseteq survived'
      <4>1. \A k \in 0..3 : <<i, k>> \in survived'
        BY <2>2, <3>1, <3>2, AttemptKeeps
      <4> QED
        BY <4>1
    <3> QED
      BY <2>3, <3>1, <3>2
  <2>4. ASSUME NEW i \in Running(Here(found))'
        PROVE  i \in pending /\ {i} \X (0..round') \subseteq survived'
    <3>1. i \in Running(Here(found)) /\ i \in pending /\ {i} \X (0..round) \subseteq survived
      BY <2>1, <2>2, <2>4 DEF Kept
    <3>2. 0..round' = (0..round) \cup {round + 1}
      BY <1>a, <2>2
    <3>3. \A k \in 0..round : <<i, k>> \in survived
      BY <3>1
    <3>4. \A k \in 0..round' : <<i, k>> \in survived'
      BY <2>2, <2>4, <3>1, <3>2, <3>3, AttemptKeeps
    <3> QED
      BY <3>1, <3>4
  <2>5. Here(found)' = Here(found) /\ Done' = Done
    BY <2>1, <2>2 DEF Kept
  <2> QED
    BY <2>1, <2>2, <2>3, <2>4, <2>5 DEF Kept
<1> QED
  BY <1>1, <1>2, <1>3, <1>4, <1>5, <1>6, <1>7, <1>8
  DEF Next, MainStep, CleanerStep, vars, Refuse, Submit, SetHandler, JoinThread,
      GetState, SendExit, Finish, Stop, InterruptEarly, InterruptForked, Interrupt,
      TaskStarts, TaskEnds, TaskFails, SetStatus, ThreadEnds

LEMMA ToldInvAlways == Spec => []ToldInv
<1>1. Init => ToldInv
  BY DEF Init, ToldInv
<1> QED
  BY <1>1, ToldStep, TypeInvAlways, PTL DEF Spec

\* A launcher that ends by itself has seen every one of its tasks end, and says
\* "failure" exactly if one of them has failed, although get() may return the state of
\* another thread than the one joined; its cleanup process has looked for nothing to
\* kill (launch.py:548, 612-640).
THEOREM Reports == Spec => []ReportsFailure
<1>1. TypeInv /\ CountInv /\ ToldInv => ReportsFailure
  <2> SUFFICES ASSUME TypeInv, CountInv, ToldInv, pc \in {"success", "failure"}
               PROVE  /\ found = {} /\ \A i \in Own : Ended(i)
                      /\ pc = "failure" => \E i \in Own : status[i] = "failed"
                      /\ pc = "success" => \A i \in Own : status[i] = "ok"
    BY DEF ReportsFailure
  <2>1. /\ joined = Len(plan) /\ launched = Len(plan) /\ Len(plan) \in Nat
        /\ put \subseteq 1..Len(plan) /\ Len(state_q) \in Nat
    BY LenProperties DEF TypeInv, TypeOK, CountInv
  <2>2. put = Own
    BY <2>1 DEF CountInv, Own
  <2>3. \A i \in Own : Ended(i)
    BY <2>2 DEF CountInv
  <2>4. Cardinality(put) = Len(plan)
    <3>1. ASSUME NEW n \in Nat PROVE Cardinality(1..n) = n
      <4>1. Cardinality(1..n) = IF 1 > n THEN 0 ELSE n - 1 + 1
        BY FS_Interval
      <4> QED
        BY <4>1
    <3> QED
      BY <2>1, <2>2, <3>1 DEF Own
  <2>5. Len(state_q) = 0
    BY <2>1, <2>4 DEF CountInv
  <2>6. err = 1 <=> \E i \in Own : status[i] = "failed"
    BY <2>2, <2>5 DEF CountInv, Told
  <2>7. (pc = "failure" => err = 1) /\ (pc = "success" => err = 0)
    BY DEF CountInv
  <2> QED
    BY <2>3, <2>6, <2>7 DEF ToldInv, Ended
<1> QED
  BY <1>1, TypeInvAlways, CountInvAlways, ToldInvAlways, PTL

\* When the cleanup process ends, no task it has found was given up early: each is
\* dead, or has survived a kill and three of kill -9, or was last seen on a host that
\* did not answer when the cleanup process asked what is left, whichever ssh commands
\* fail and however the tasks end meanwhile (launch.py:18-74, 128-169).
THEOREM Killed == Spec => []KilledOrTried
<1>1. Init => KillInv
  BY DEF Init, KillInv, Killing, KilledOrTried
<1>2. KillInv => KilledOrTried
  BY DEF KillInv
<1> QED
  BY <1>1, <1>2, KillStep, TypeInvAlways, PTL DEF Spec

-----------------------------------------------------------------------------
(***************************************************************************)
(* The monitor file of the launchers of one server name.  They share only  *)
(* this file and its lock, so MonitorFile is instantiated beside the one   *)
(* launcher above; `where' is where each of them is.                       *)
(***************************************************************************)

CONSTANTS Launchers, KeepAlive
VARIABLES where, monitor, lock, owns, group, uses, removed

MF == INSTANCE MonitorFile WITH pc <- where

LEMMA FileTypeInit == MF!Init => MF!TypeOK
<1> SUFFICES ASSUME MF!Init PROVE MF!TypeOK
  OBVIOUS
<1>1. monitor \in [owner : Launchers, next : Nat]
  <2>1. PICK l \in Launchers : monitor = [owner |-> l, next |-> 0]
    BY DEF MF!Init
  <2> QED
    BY <2>1
<1> QED
  BY <1>1 DEF MF!Init, MF!TypeOK, MF!Places

LEMMA FileTypeNext == MF!TypeOK /\ [MF!Next]_(MF!vars) => MF!TypeOK'
<1> SUFFICES ASSUME MF!TypeOK, [MF!Next]_(MF!vars) PROVE MF!TypeOK'
  OBVIOUS
<1> USE DEF MF!TypeOK, MF!Goes, MF!Places, MF!Critical, MF!Served
<1>1. ASSUME NEW l \in Launchers, MF!Acquire(l) PROVE MF!TypeOK'
  BY <1>1 DEF MF!Acquire
<1>2. ASSUME NEW l \in Launchers, MF!FindFile(l) PROVE MF!TypeOK'
  BY <1>2 DEF MF!FindFile
<1>3. ASSUME NEW l \in Launchers, MF!BecomeOwner(l) PROVE MF!TypeOK'
  BY <1>3 DEF MF!BecomeOwner
<1>4. ASSUME NEW l \in Launchers, MF!FindNothing(l) PROVE MF!TypeOK'
  BY <1>4 DEF MF!FindNothing
<1>5. ASSUME NEW l \in Launchers, MF!ReadFile(l) PROVE MF!TypeOK'
  BY <1>5 DEF MF!ReadFile
<1>6. ASSUME NEW l \in Launchers, MF!ReadGone(l) PROVE MF!TypeOK'
  BY <1>6 DEF MF!ReadGone
<1>7. ASSUME NEW l \in Launchers, MF!WriteFile(l) PROVE MF!TypeOK'
  BY <1>7 DEF MF!WriteFile
<1>8. ASSUME NEW l \in Launchers, MF!Abandon(l) PROVE MF!TypeOK'
  BY <1>8 DEF MF!Abandon
<1>9. ASSUME NEW l \in Launchers, MF!EndJob(l) PROVE MF!TypeOK'
  BY <1>9 DEF MF!EndJob
<1>10. ASSUME NEW l \in Launchers, MF!Interrupt(l) PROVE MF!TypeOK'
  BY <1>10 DEF MF!Interrupt
<1>11. ASSUME NEW l \in Launchers, MF!Unlink(l) PROVE MF!TypeOK'
  BY <1>11 DEF MF!Unlink
<1>12. ASSUME NEW l \in Launchers, MF!Unlock(l) PROVE MF!TypeOK'
  BY <1>12 DEF MF!Unlock
<1>13. CASE UNCHANGED MF!vars
  BY <1>13 DEF MF!vars
<1> QED
  BY <1>1, <1>2, <1>3, <1>4, <1>5, <1>6, <1>7, <1>8, <1>9, <1>10, <1>11, <1>12, <1>13 DEF MF!Next

\* Every variable stays in its type: the places and the numbers are those of the code.
THEOREM FileTypeCorrect == MF!Spec => []MF!TypeOK
BY FileTypeInit, FileTypeNext, PTL DEF MF!Spec

-----------------------------------------------------------------------------
\* Before a file is removed, the lock file keeps all but one out.
LockHeld ==
    /\ \A l \in Launchers : where[l] \in MF!Critical <=> l \in lock
    /\ \A l, m \in lock : l = m

\* Who has not read the file uses servers of its own.
Alone ==
    \A l \in Launchers :
        /\ where[l] \in {"main", "look", "read"} => uses[l] = l /\ group[l] = 0
        /\ where[l] \in MF!Served /\ ~MF!FileExists => uses[l] = l

\* What is about to be written counts on from what the file says now.
CountsOn ==
    \A l \in Launchers :
        where[l] = "write" =>
            IF MF!FileExists THEN uses[l] = monitor.owner /\ group[l] = monitor.next
                          ELSE uses[l] = l /\ group[l] = 0

\* The numbers given out are below the one in the file.
Below ==
    MF!FileExists => \A l \in Launchers :
        where[l] \in MF!Served /\ uses[l] = monitor.owner => group[l] < monitor.next

FileInv ==
    /\ MF!TypeOK
    /\ \A l \in Launchers : where[l] = "unlock" => removed
    /\ ~removed => LockHeld /\ Alone /\ CountsOn /\ Below /\ MF!GroupsDiffer

LEMMA FileInvInit == MF!Init => FileInv
<1> SUFFICES ASSUME MF!Init PROVE FileInv
  OBVIOUS
<1>1. MF!TypeOK
  BY FileTypeInit
<1> QED
  BY <1>1 DEF MF!Init, FileInv, MF!TypeOK, LockHeld, Alone, CountsOn, Below, MF!GroupsDiffer,
     MF!Critical, MF!Served, MF!FileExists

LEMMA FileInvNext == FileInv /\ [MF!Next]_(MF!vars) => FileInv'
<1> SUFFICES ASSUME FileInv, [MF!Next]_(MF!vars) PROVE FileInv'
  OBVIOUS
<1>0. MF!TypeOK'
  BY FileTypeNext DEF FileInv
<1> USE <1>0 DEF FileInv, MF!TypeOK, MF!Goes, MF!Critical, MF!Served, MF!FileExists,
        LockHeld, Alone, CountsOn, Below, MF!GroupsDiffer
<1>1. ASSUME NEW l \in Launchers, MF!Acquire(l) PROVE FileInv'
  BY <1>1 DEF MF!Acquire
<1>2. ASSUME NEW l \in Launchers, MF!FindFile(l) PROVE FileInv'
  BY <1>2 DEF MF!FindFile
<1>3. ASSUME NEW l \in Launchers, MF!BecomeOwner(l) PROVE FileInv'
  BY <1>3 DEF MF!BecomeOwner
<1>4. ASSUME NEW l \in Launchers, MF!FindNothing(l) PROVE FileInv'
  BY <1>4 DEF MF!FindNothing
<1>5. ASSUME NEW l \in Launchers, MF!ReadFile(l) PROVE FileInv'
  BY <1>5 DEF MF!ReadFile
<1>6. ASSUME NEW l \in Launchers, MF!ReadGone(l) PROVE FileInv'
  BY <1>6 DEF MF!ReadGone
<1>7. ASSUME NEW l \in Launchers, MF!WriteFile(l) PROVE FileInv'
  BY <1>7 DEF MF!WriteFile
<1>8. ASSUME NEW l \in Launchers, MF!Abandon(l) PROVE FileInv'
  BY <1>8 DEF MF!Abandon
<1>9. ASSUME NEW l \in Launchers, MF!EndJob(l) PROVE FileInv'
  BY <1>9 DEF MF!EndJob
<1>10. ASSUME NEW l \in Launchers, MF!Interrupt(l) PROVE FileInv'
  BY <1>10 DEF MF!Interrupt
<1>11. ASSUME NEW l \in Launchers, MF!Unlink(l) PROVE FileInv'
  BY <1>11 DEF MF!Unlink
<1>12. ASSUME NEW l \in Launchers, MF!Unlock(l) PROVE FileInv'
  BY <1>12 DEF MF!Unlock
<1>13. CASE UNCHANGED MF!vars
  BY <1>13 DEF MF!vars
<1> QED
  BY <1>1, <1>2, <1>3, <1>4, <1>5, <1>6, <1>7, <1>8, <1>9, <1>10, <1>11, <1>12, <1>13 DEF MF!Next

\* As long as no monitor file was removed, has_alive_servers() gives the jobs that use
\* the same servers different group ids, for any number of launchers that come, wait
\* for the lock, are interrupted and end in any order.
THEOREM GroupsAreDifferent == MF!Spec => []MF!GroupsDiffer
<1>1. FileInv => MF!GroupsDiffer
  BY DEF FileInv, MF!GroupsDiffer
<1> QED
  BY <1>1, FileInvInit, FileInvNext, PTL DEF MF!Spec

\* One launcher at a time is between taking the lock file and removing it, unless a
\* monitor file was removed.
OneAtATime ==
    removed \/ \A l, m \in Launchers : (where[l] \in MF!Critical /\ where[m] \in MF!Critical) => l = m

\* As long as no monitor file was removed, the lock file lets one launcher at a time
\* look at the monitor file and write it.
THEOREM Exclusive == MF!Spec => []OneAtATime
<1>1. FileInv => OneAtATime
  BY DEF FileInv, LockHeld, OneAtATime
<1> QED
  BY <1>1, FileInvInit, FileInvNext, PTL DEF MF!Spec
===============================================================================
