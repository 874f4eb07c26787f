------------------------------ MODULE Launcher ------------------------------
(***************************************************************************)
(* tools/launch.py: one launcher.  It starts servers and clients over ssh, *)
(* with a thread that waits for each, collects how they ended, and has a   *)
(* process of its own, the cleanup process, that kills what still runs on  *)
(* the hosts when the launcher is interrupted.  What it finds out from and *)
(* does to the monitor file is in MonitorFile.                             *)
(*                                                                         *)
(* The launcher is interrupted once at most.  A task stands for all the    *)
(* processes of one command on its host.  A command is kept as what its    *)
(* environment says; ssh, ps, kill and signals are used as the code does.  *)
(***************************************************************************)
EXTENDS Naturals, Sequences, FiniteSets

CONSTANTS
    IpConfigs,     \* what ip_config may hold: sequences of hosts
    PartConfigs,   \* what num_parts may be in the partition config
    num_servers,   \* per host
    num_trainers,  \* per host
    num_samplers,  \* per trainer
    Foreign,       \* a task of other launchers with the same command
    ForeignHost,   \* the host it runs on
    MaxTasks       \* (a bound) on the tasks of the launcher

ASSUME LauncherAssumption ==
    /\ IpConfigs \subseteq Seq(Nat) /\ PartConfigs \subseteq Nat
    /\ num_servers \in Nat /\ num_trainers \in Nat /\ num_samplers \in Nat
    /\ Foreign \notin Nat /\ ForeignHost \in Nat
    /\ MaxTasks \in Nat

VARIABLES
    hosts,      \* the hosts of ip_config
    num_parts,  \* of the partition config
    keep_alive, \* servers are to outlive their clients
    pc,         \* where the main thread is
    plan,       \* the tasks to start
    launched,   \* how many have been
    status,     \* the state of each task
    put,        \* tasks whose thread has ended
    state_q,    \* how tasks have ended, in the order of their threads
    joined,     \* threads joined
    err,        \* the error recorded
    pipe,       \* what the cleanup process is told
    cleaner,    \* where the cleanup process is
    target,     \* the host it is at
    found,      \* the tasks it has found running
    pending,    \* those of its host that it still has to kill
    round,      \* how often it has tried kill -9
    survived,   \* history: the attempts a task that still runs has survived; 0: plain kill
    deaf        \* history: hosts that did not say which of the found tasks still run

args == <<hosts, num_parts, keep_alive>>
mainVars == <<pc, plan, launched, joined, err>>
taskVars == <<status, put, state_q>>
histVars == <<survived, deaf>>
cleanVars == <<cleaner, target, found, pending, round, histVars>>
vars == <<args, mainVars, taskVars, pipe, cleanVars>>

-----------------------------------------------------------------------------
\* What is started

NumHosts == Len(hosts)
HostSet == {hosts[k] : k \in 1..NumHosts}

\* The number of clients every server waits for: trainers and their samplers.
TotNumClients == num_trainers * (1 + num_samplers) * NumHosts

\* What the environment of a command says that matters for what runs together.
ServerTask(i) ==
    [role |-> "server", host |-> hosts[((i - 1) \div num_servers) + 1], id |-> i - 1,
     clients |-> TotNumClients, group |-> 0, keep |-> keep_alive]

\* One torch launcher on each host.
ClientTask(i, g) ==
    [role |-> "client", host |-> hosts[i], id |-> i - 1,
     clients |-> TotNumClients, group |-> g, keep |-> FALSE]

Servers == [i \in 1..(NumHosts * num_servers) |-> ServerTask(i)]
Clients(g) == [i \in 1..NumHosts |-> ClientTask(i, g)]

Own == 1..Len(plan)
HostOf(i) == IF i = Foreign THEN ForeignHost ELSE plan[i].host
AllTasks == Own \cup {Foreign}
Ended(i) == status[i] \in {"ok", "failed"}

MainPlaces == {"main", "submit", "forked", "join", "get", "reap", "exiting",
               "success", "failure", "stopped", "dead", "stuck"}

TypeOK ==
    /\ hosts \in IpConfigs /\ num_parts \in PartConfigs /\ keep_alive \in BOOLEAN
    /\ pc \in MainPlaces
    /\ launched \in 0..Len(plan) /\ joined \in 0..launched
    /\ status \in [AllTasks -> {"none", "starting", "running", "ok", "failed"}]
    /\ put \subseteq 1..launched
    /\ state_q \in Seq({0, 1})
    /\ err \in {0, 1}
    /\ cleaner \in {"none", "recv", "list", "term", "check", "kill", "ended"}
    /\ target \in {1} \cup 1..NumHosts /\ round \in 0..3
    /\ found \subseteq AllTasks /\ pending \subseteq found
    /\ survived \subseteq found \X (0..3) /\ deaf \subseteq HostSet

Init ==
    /\ hosts \in IpConfigs /\ num_parts \in PartConfigs /\ keep_alive \in BOOLEAN
    /\ pc = "main" /\ plan = <<>> /\ launched = 0 /\ joined = 0 /\ err = 0
    /\ status = [i \in {Foreign} |-> "running"]
    /\ put = {} /\ state_q = <<>> /\ pipe = <<>>
    /\ cleaner = "none" /\ target = 1 /\ found = {} /\ pending = {} /\ round = 0
    /\ survived = {} /\ deaf = {}

Goes(from, to) == pc = from /\ pc' = to

-----------------------------------------------------------------------------
\* main() and submit_jobs()

ArgsAccepted ==
    /\ num_trainers > 0 /\ num_servers > 0
    /\ NumHosts > 0 /\ num_parts = NumHosts

\* An assertion that fails ends the launcher before anything is started.
Refuse ==
    /\ ~ArgsAccepted /\ Goes("main", "dead")
    /\ UNCHANGED <<args, plan, launched, joined, err, taskVars, pipe, cleanVars>>

\* What has_alive_servers() says decides if servers are started, and the group.
Main ==
    /\ ArgsAccepted /\ Goes("main", "submit")
    /\ \E running \in BOOLEAN :
        /\ plan' = IF running THEN Clients(1) ELSE Servers \o Clients(0)
        /\ Len(plan') <= MaxTasks
        /\ status' = [i \in DOMAIN plan' \cup {Foreign} |->
                        IF i = Foreign THEN status[i] ELSE "none"]
    /\ UNCHANGED <<args, launched, joined, err, put, state_q, pipe, cleanVars>>

\* execute_remote(): one task after the other.
Submit ==
    /\ pc = "submit" /\ launched < Len(plan)
    /\ launched' = launched + 1
    /\ status' = [status EXCEPT ![launched + 1] = "starting"]
    /\ UNCHANGED <<args, pc, plan, joined, err, put, state_q, pipe, cleanVars>>

\* process.start(); signal.signal() comes a moment later.
Fork ==
    /\ launched = Len(plan) /\ Goes("submit", "forked")
    /\ cleaner' = "recv"
    /\ UNCHANGED <<args, plan, launched, joined, err, taskVars, pipe, target, found, pending, round, histVars>>

SetHandler ==
    /\ Goes("forked", "join")
    /\ UNCHANGED <<args, plan, launched, joined, err, taskVars, pipe, cleanVars>>

\* Threads are joined in the order they were started in.
JoinThread ==
    /\ joined + 1 \in put /\ Goes("join", "get")
    /\ UNCHANGED <<args, plan, launched, joined, err, taskVars, pipe, cleanVars>>

\* Slip: a later success overwrites an error.
GetLastState ==
    /\ state_q # <<>> /\ Goes("get", "join")
    /\ err' = Head(state_q)
    /\ joined' = joined + 1 /\ state_q' = Tail(state_q)
    /\ UNCHANGED <<args, plan, launched, status, put, pipe, cleanVars>>

\* The state may be that of another thread than the one joined.
GetState ==
    /\ state_q # <<>> /\ Goes("get", "join")
    /\ err' = IF Head(state_q) # 0 THEN Head(state_q) ELSE err
    /\ joined' = joined + 1 /\ state_q' = Tail(state_q)
    /\ UNCHANGED <<args, plan, launched, status, put, pipe, cleanVars>>

SendExit ==
    /\ joined = Len(plan) /\ Goes("join", "reap")
    /\ pipe' = Append(pipe, "exit")
    /\ UNCHANGED <<args, plan, launched, joined, err, taskVars, cleanVars>>

\* process.join(), then the exit code.
Finish ==
    /\ cleaner = "ended" /\ Goes("reap", IF err # 0 THEN "failure" ELSE "success")
    /\ UNCHANGED <<args, plan, launched, joined, err, taskVars, pipe, cleanVars>>

-----------------------------------------------------------------------------
\* SIGINT

\* Without the handler it is a KeyboardInterrupt, and what was started runs on.
InterruptEarly ==
    /\ Goes("submit", "dead")
    /\ UNCHANGED <<args, plan, launched, joined, err, taskVars, pipe, cleanVars>>

\* The exception ends in the join of a cleanup process that nobody will tell anything.
InterruptForked ==
    /\ Goes("forked", "stuck")
    /\ UNCHANGED <<args, plan, launched, joined, err, taskVars, pipe, cleanVars>>

\* Slip: the cleanup process is not told.
InterruptSilently ==
    /\ pc \in {"join", "get", "reap"} /\ pc' = "exiting"
    /\ UNCHANGED <<args, plan, launched, joined, err, taskVars, pipe, cleanVars>>

\* signal_handler(); the removal of the files is in MonitorFile.
Interrupt ==
    /\ pc \in {"join", "get", "reap"} /\ pc' = "exiting"
    /\ pipe' = Append(pipe, "cleanup")
    /\ UNCHANGED <<args, plan, launched, joined, err, taskVars, cleanVars>>

\* sys.exit(0) waits for the cleanup process.
Stop ==
    /\ cleaner = "ended" /\ Goes("exiting", "stopped")
    /\ UNCHANGED <<args, plan, launched, joined, err, taskVars, pipe, cleanVars>>

-----------------------------------------------------------------------------
\* The tasks, and the thread that waits for each

SetStatus(i, s) ==
    /\ status' = [status EXCEPT ![i] = s]
    /\ UNCHANGED <<args, mainVars, put, state_q, pipe, cleanVars>>

TaskStarts(i) == status[i] = "starting" /\ SetStatus(i, "running")
TaskEnds(i) == status[i] = "running" /\ SetStatus(i, "ok")
TaskFails(i) == status[i] \in {"starting", "running"} /\ SetStatus(i, "failed")

Gone == {"success", "failure", "stopped", "dead"}

\* Slip: a command that fails ends its thread by an exception.
ThreadDies(i) ==
    /\ pc \notin Gone /\ Ended(i) /\ i \notin put
    /\ put' = put \cup {i}
    /\ state_q' = IF status[i] = "ok" THEN Append(state_q, 0) ELSE state_q
    /\ UNCHANGED <<args, mainVars, status, pipe, cleanVars>>

\* check_call() returns or raises.  The threads are daemons and end with the launcher.
ThreadEnds(i) ==
    /\ pc \notin Gone /\ Ended(i) /\ i \notin put
    /\ put' = put \cup {i}
    /\ state_q' = Append(state_q, IF status[i] = "ok" THEN 0 ELSE 1)
    /\ UNCHANGED <<args, mainVars, status, pipe, cleanVars>>

-----------------------------------------------------------------------------
\* cleanup_proc() and kill_process()

CleanerGoes(from, to) == cleaner = from /\ cleaner' = to

Recv ==
    /\ pipe # <<>>
    /\ CleanerGoes("recv", IF Head(pipe) = "exit" THEN "ended" ELSE "list")
    /\ pipe' = Tail(pipe)
    /\ UNCHANGED <<args, mainVars, taskVars, target, found, pending, round, histVars>>

Running(S) == {i \in S : status[i] = "running"}
Here(S) == {i \in S : HostOf(i) = hosts[target]}

\* ps and grep on one host after the other: whatever runs the command there; nothing
\* if ssh fails, as it may, without the username the tasks were started with, too.
GetRemotePids ==
    /\ \E answers \in BOOLEAN :
         found' = found \cup (IF answers THEN Here(Running(AllTasks)) ELSE {})
    /\ IF target < NumHosts
       THEN CleanerGoes("list", "list") /\ target' = target + 1
       ELSE CleanerGoes("list", "term") /\ target' = 1
    /\ UNCHANGED <<args, mainVars, taskVars, pipe, pending, round, histVars>>

Dies(S) ==
    status' = [i \in AllTasks |-> IF i \in Running(S) THEN "failed" ELSE status[i]]

\* kill, or kill -9, for each task of S over ssh: some die of it, or end before.
Attempt(S, n) ==
    /\ \E dying \in SUBSET S : Dies(dying)
    /\ survived' = {a \in survived \cup (S \X {n}) : status'[a[1]] = "running"}

Term ==
    /\ CleanerGoes("term", "check")
    /\ pending' = Here(found)
    /\ round' = 0
    /\ Attempt(pending', 0)
    /\ UNCHANGED <<args, mainVars, put, state_q, pipe, target, found, deaf>>

NextHost ==
    IF target < NumHosts
    THEN cleaner' = "term" /\ target' = target + 1
    ELSE cleaner' = "ended" /\ UNCHANGED target

\* Slip: the first kill -9 is the last.
CheckOnce ==
    /\ cleaner = "check"
    /\ IF round < 1 /\ Running(pending) # {}
       THEN cleaner' = "kill" /\ pending' = Running(pending) /\ UNCHANGED target
       ELSE NextHost /\ pending' = {}
    /\ UNCHANGED <<args, mainVars, taskVars, pipe, found, round, histVars>>

\* get_killed_pids(): which tasks are still there.  If ssh fails that is none.
\* Those are killed for good, in three rounds at most; then the host is left.
Check ==
    /\ cleaner = "check"
    /\ \/ /\ round < 3 /\ Running(pending) # {}
          /\ cleaner' = "kill" /\ pending' = Running(pending)
          /\ UNCHANGED <<target, deaf>>
       \/ /\ round = 3 \/ Running(pending) = {}
          /\ NextHost /\ pending' = {}
          /\ UNCHANGED deaf
       \/ /\ round < 3 /\ Running(pending) # {}
          /\ NextHost /\ pending' = {}
          /\ deaf' = deaf \cup {hosts[target]}
    /\ UNCHANGED <<args, mainVars, taskVars, pipe, found, round, survived>>

Kill ==
    /\ CleanerGoes("kill", "check")
    /\ round' = round + 1
    /\ Attempt(pending, round + 1)
    /\ UNCHANGED <<args, mainVars, put, state_q, pipe, target, found, pending, deaf>>

-----------------------------------------------------------------------------

MainStep ==
    Refuse \/ Main \/ Submit \/ Fork \/ SetHandler \/ JoinThread \/ GetState \/ SendExit \/ Finish \/ Stop

CleanerStep == Recv \/ GetRemotePids \/ Term \/ Check \/ Kill

Next ==
    \/ MainStep \/ CleanerStep
    \/ InterruptEarly \/ InterruptForked \/ Interrupt
    \/ \E i \in Own : TaskStarts(i) \/ TaskEnds(i) \/ TaskFails(i) \/ ThreadEnds(i)

Spec == Init /\ [][Next]_vars

\* The launcher, its threads and its cleanup process run on; every task of the
\* launcher ends but servers that are kept alive.
Fairness ==
    /\ WF_vars(MainStep) /\ WF_vars(CleanerStep)
    /\ \A i \in 1..MaxTasks :
        /\ WF_vars(i \in Own /\ ThreadEnds(i))
        /\ WF_vars(i \in Own /\ ~plan[i].keep /\ (TaskStarts(i) \/ TaskEnds(i)))

FairSpec == Spec /\ Fairness

-----------------------------------------------------------------------------
\* Properties

\* A launcher that was not interrupted reports an error if and only if one of its tasks
\* has failed, in whatever order they end; it leaves none of them running, and its
\* cleanup process has looked for nothing to kill.
ReportsFailure ==
    /\ pc \in {"success", "failure"} => found = {} /\ \A i \in Own : Ended(i)
    /\ pc = "failure" => \E i \in Own : status[i] = "failed"
    /\ pc = "success" => \A i \in Own : status[i] = "ok"

\* A thread that was joined has left a state in the queue, so get() does not block.
StateIsThere == pc = "get" => state_q # <<>>

\* When the cleanup process ends, whatever it has found on the hosts is dead, or was
\* killed once and killed for good three times; unless its host could not be asked
\* what is still there, which the cleanup process takes for "nothing".
GivenUp(i) == {i} \X (0..3) \subseteq survived \/ HostOf(i) \in deaf
KilledOrTried == cleaner = "ended" => \A i \in Running(found) : GivenUp(i)

\* The launcher and its cleanup process end after an interrupt that the handler gets,
\* and when no server is kept alive also without one.
LauncherEnds ==
    (pc = "exiting" \/ (pc = "join" /\ \A i \in Own : ~plan[i].keep))
        ~> (pc \in {"success", "failure", "stopped"} /\ cleaner = "ended")
=============================================================================
