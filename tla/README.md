# bearRPC: specifications and proofs

bearRPC is a C++ network library (`src/RPC/bearTCP`), a JSON-RPC server and
client on top of it (`src/RPC`), and around it what a distributed training of a
graph neural network needs: scripts that partition the graph (`srcChange/partition`,
`python/GraphPartition.py`, in C++ also `src/partition`), a launcher for the job
(`tools/launch.py`) and the trainers (`python/dist_graphSage.py`).
This directory holds TLA+ models of the parts that keep state, TLC configurations
that check them on small instances, and TLAPS proofs of the main results for
every value of the constants.

Paths below are relative to the repository; `bearTCP/X` is
`src/RPC/bearTCP/X`. In `PROJECT.json` the same files carry one more `src/` in
front.

## 1. The system

| Component | State | Operations | Interacts with |
|---|---|---|---|
| EventLoop (`bearTCP/Eventloop.*`) | `quit_`, `doingPendingTasks_`, `activeChannels_`, `pendingTasks_` under `mutex_`, `wakeupFd_` | `loop`, `quit`, `runInLoop`, `queueInLoop`, `wakeup`, `doPendingTasks`, timer calls | any thread calls `quit` and `queueInLoop`; channels are handled, tasks run on the loop's thread |
| EventLoopThread, CountDownLatch (`bearTCP/EventLoopThread.*`, `CountDownLatch.h`) | `started_`, `loop_`, `latch_`, `thread_` | `startLoop`, `runInThread`, destructor; `count`, `wait` | owns a thread that owns an EventLoop on its stack, shared through the plain pointer `loop_` |
| ThreadPool (`bearTCP/ThreadPool.*`) | `taskQueue_`, `maxQueueSize_`, `running_`, `mutex_`, `notEmpty_`, `notFull_` | `runTask`, `take`, `runInThread`, `stop` | tasks may call `runTask` on their own pool |
| TimerQueue, Timer (`bearTCP/TimerQueue.*`, `Timer.h`) | `timers_` ordered by expiration, `timerfd_`, each Timer's `when_`, `interval_` | `addTimer`, `cancelTimer`, `handleRead`, `getExpired` | called directly on the loop's thread and through `runInLoop` elsewhere; callbacks add and cancel timers |
| EPoller, Channel | registered descriptors, `events_`; per channel `polling`, `events_`, `tie_` | `poll`, `updateChannel`, `handleEvents`, `tie` | every descriptor of the loop |
| Acceptor, Connector | a listening socket; a connecting socket and its channel | `listen`, `handleRead`; `start`, `handleWrite` | hand sockets to their owners |
| Buffer | a byte vector, `readerIndex_`, `writerIndex_` | `append`, `retrieve`, `makeSpace`, `readFd`, `findCRLF` | one per connection |
| RPC server (`bearTcpServer.*`, `utils.h`, `RPCException.h`) | services; per batch a shared `ThreadSafeData` | `handleMessage`, `handleRequest`, `handleBatchRequests`, `addResponse`, `sendResponse`, high watermark callbacks | services answer on any thread through `UserCallback` |
| RPC client (`bearTcpClinet.*`) | `id_`, `callbacks_` | `sendCall`, `onMessage`, `handleMessage`, `handleResponse` | callbacks may make further calls |
| Launcher (`tools/launch.py`) | threads and a queue of exit states, a pipe to a cleanup process; a monitor file and its lock file, shared by launchers | `submit_jobs`, `execute_remote`, `signal_handler`, `cleanup_proc`, `kill_process`; `has_alive_servers`, `clean_alive_servers` | ssh to every host; SIGINT |
| Graph partitioning (`srcChange/partition/aly_partition.py`, `python/GraphPartition.py`) | the assignment of nodes, and a directory of files | `partition_graph`, `load_partition`, `load_partition_book` | metis and the graph library; readers of the directory |
| Distributed training (`python/dist_graphSage.py`) | each trainer's model and optimizer; two tensors all trainers share | `run`, `inference`, `evaluate` | gradients averaged among trainers, barriers, rows read and written on the servers |
| Graph partition in C++ (`src/partition`) | block lists and tables, local to a run | `NodeBlockConstruct`, `BlockSort`, assignment | sequential |

InetAddress, Logger, Serialization, the example programs and the shell scripts keep no
state worth modelling. TcpConnection, TcpServer and TcpClient are used by the RPC
classes and are not in the repository.

### What is hard here, and what correctness means

* **EventLoop.** A task or a quit may be issued at any moment between the
  loop's last look and `epoll_wait`, and only the right use of `wakeup()` keeps
  it from being slept on. Tasks may be queued by tasks. Correct: nothing is
  slept on, tasks run once and in order.
* **EventLoopThread.** The loop lives on one thread's stack and is used by
  others. Correct: whoever is given a loop has one, and start and destruction
  terminate.
* **ThreadPool.** One notification per push and per take; woken threads may be
  overtaken. Correct: no lost notification, no overflow, order, termination.
* **TimerQueue.** The set changes while it is being run, one timerfd stands for
  all timers, and the two clocks differ. Correct: the timerfd covers the
  earliest timer, and Timer objects are neither leaked nor deleted twice.
* **RPC server.** Answers to one batch come from several threads, late, while
  the batch is still being dispatched and may be cut off by an exception.
  Correct: one reply to each batch, complete and last; no call answered twice.
* **Connector, Acceptor.** A channel's flag and the kernel's table must agree
  while sockets change owners and owners are destroyed. Correct: no registration
  fails or outlives its channel, a socket is handed over once and ready for use.
* **Buffer.** Bytes are moved, and the vector grows, under two indices. Correct:
  it is a queue of bytes.
* **RPC client.** The peer decides what arrives; callbacks re-enter the client.
  Correct: a callback is called at most once and never silently dropped.
* **Launcher.** Tasks on several hosts end in any order, in the middle of an interrupt
  too, and a second process cleans up behind the first. Correct: a failure is
  reported, nothing found is left running, the launcher ends; launchers that share
  servers get different group ids.
* **Partitioning.** Three numberings of the nodes (by type, over all, by part) meet in
  what is saved file by file. Correct: rows, ids, edges and the partition book
  belong together, and what can be loaded is whole, wherever a run stopped.
* **Training.** Trainers meet only in collective operations, which carry no names,
  and have unequal numbers of batches. Correct: what is averaged and compared belongs
  to one step and one set of parameters, predictions are computed from finished rows,
  and training ends.

`PROJECT.json` lists every such hazard at its line, with the properties that
cover it, or why none does.

## 2. The modules

| Module | Models | Extends or uses |
|---|---|---|
| `TaskQueue` | what EventLoop and ThreadPool promise: a queue whose tasks are executed once each, in order | |
| `EventLoop` | the loop's thread and any number of calling threads | refines `TaskQueue` |
| `EventLoopThread` | owner, runner thread and users of one loop | extends `EventLoop` and takes its steps |
| `ThreadPool` | workers, producers and the thread that stops the pool | refines `TaskQueue` |
| `TimerQueue` | timers, timerfd and clocks | |
| `Connections` | Channel, `EPoller::updateChannel`, Acceptor and Connector on one loop's thread | |
| `Buffer` | the byte vector and its two indices | |
| `RemoteCall` | what both ends of a connection promise: an answer belongs to a call, and no call has two | |
| `RpcServer` | the server's end of one connection, with its services | refines `RemoteCall` |
| `RpcClient` | the client's end of one connection, with its callbacks | refines `RemoteCall` |
| `Launcher` | one launcher: main thread, threads, tasks, interrupt, cleanup process | |
| `MonitorFile` | any number of launchers of one server name and the file they share | |
| `Partition` | runs of `partition_graph` over one directory, and what `load_partition` makes of it | |
| `Training` | the trainers of one job | |
| `MC*` | the same modules on small instances | |
| `*_proofs` | theorems and proofs; `GraphSage_proofs` has those of `Training` and `Partition`, `RpcServer_proofs` those of `Buffer` too, `Launcher_proofs` those of `MonitorFile` too | `TLAPS` |

Definitions keep the names of the source. A definition whose comment begins
with *Slip* is a plausible error in the code; it is no part of the
specification and serves to show that a property would notice it.

**EventLoop.** `pc` walks through `loop()`: `test` the condition, `poll`,
`handle` the active channels, `swap` the pending tasks, `run` them, `unwind`
(the batch is destroyed after `doingPendingTasks_` was cleared). `poll` is left
by `Poll(ready)` for any set of ready channels, by an interrupt, and not
otherwise. Another thread's `queueInLoop` is two steps, the push under the
mutex together with the decision to wake (it depends on who calls and, on the
loop's thread, on `doingPendingTasks_`), and the write to the eventfd; `quit`
is the assertion, the store and the write. The eventfd is level-triggered and
its counter is never read for its value, hence a Boolean. `LoopQueuesAt` says
where code on the loop's own thread calls `queueInLoop`.

**EventLoopThread.** `owner` and `runner` say where `startLoop`, the destructor
and `runInThread` are; `loop` is `loop_ # nullptr`, `latched` the latch,
`object` whether the EventLoop on the runner's stack exists. Inside `loop()`
and in `quit()` the steps are those of `EventLoop`, which the module extends; `Owner` is
one of its `Threads`, the others are users. A use of a loop that is gone leads to the
place `undefined`.

**ThreadPool.** A stretch under the mutex is one step: `RunTask` (before the
mutex), `Push` or the wait on `notFull_`, `Take`, `TakeNothing` or the wait on
`notEmpty_`. `stop()` changes `running_` without the mutex, so a worker that has
found the queue empty and `running_` true holds the mutex in a state of its own
(`doze`) until it waits. `notify_one` wakes any one waiter; waiters may also
wake spuriously. A pool with no threads runs tasks inside `runTask`, and is left
out by assumption.

**TimerQueue.** Time is relative: `left[t]` is `when_ - now` and `armed` the time
until the timerfd expires, zero if it is not set. `Tick` lets both clocks go on,
`SetClock` moves the wall clock only. `handleRead` is `HandleRead` (the read and
`getExpired`), `RunTimer` and `CallbackReturns` for each timer of the batch, and
`Rearm`. `cancelTimer` asks nothing about the timer it deletes, so any timer a caller
was ever given may be cancelled, from the loop's thread and from others: one that waits
in the set, one that `handleRead` has taken, one that has fired, one whose insertion is
still queued because another thread made it. `stray` remembers those that were cancelled
anywhere but in the set. A use of a deleted Timer leads to the place `undefined`, where
a behaviour ends; a deleted Timer that a queued insertion puts into the set keeps its
clock until it is used.

**Connections.** A channel stands for its owner. `polling` is the channel's flag,
`epoll` the kernel's view of the socket, which a `close()` and the next owner of
the socket change too, so the two can differ. `Poll` reports what is `Ready`, and each
active channel is handled once. `connect()` either ends later (`Start`) or at once
(`StartAtOnce`), and then the assertion in `updateChannel` fails
(`aborted`). A connector is taken to have both callbacks set; its owner does not
destroy it between being reported and being handled. `tie()` and the callbacks for
hang-up and errors serve the absent TcpConnection and are left out, and so
are the acceptor's destructor and a second `start()` or `listen()`.

**Buffer.** `buf` has the vector and the indices. `makeSpace`, `append`, `readFd`
(with the second buffer on the stack), `retrieve` and `prepend` are operators on
such records, and one action applies each. Guards are the assertions callers must
respect; the assertions inside are the property `AssertionsHold`. What a resize
adds is `Zero`. The functions for integers and strings are these on their bytes.

**RpcServer.** The stream is a sequence of length lines and bodies, cut
anywhere by `Arrive`. The messages retrieved are numbered in `taken`; `next` is
the item `handleBatchRequests` is at. `held` and `called` are the callbacks
services have; `holders[m]` is who refers to the `ThreadSafeData` of batch `m`
(its handler is 0), and whoever drops the last reference sends the reply, as
the destructor does. An exception that nobody catches is the place
`terminated`. An item is only its kind: what validation, lookup and the
procedure make of it.

**Launcher.** `pc` walks through `main` and `submit_jobs`: `submit` starts a task and its
thread, `forked` is the moment between `process.start()` and `signal.signal()`, `join`
and `get` alternate for every thread, `reap` joins the cleanup process. `status` is
what a task does on its host, `put` the threads that have ended, `state_q` the queue.
An interrupt is `InterruptEarly` (a `KeyboardInterrupt` before the handler is there),
`InterruptForked` or `Interrupt` (the handler). The cleanup process lists one host
after the other (`GetRemotePids`), whatever else runs the same command (`Foreign`)
included, then sends `kill` (`Term`) and up to three times looks again and sends
`kill -9` (`Check`, `Kill`). It runs every command over ssh without looking at the
result, and without the username that `execute_remote` puts in front of the host
(99-107), so each may fail: a list is then empty (`GetRemotePids`, and `Check`, which
takes it for "nothing is left" and goes on to the next host), and any of the processes
survive an attempt (`Attempt`). For the properties `survived` records the attempts that a
task still running has survived, `deaf` the hosts whose answer to `Check` was missing. A
task stands for the processes that its command has on its host. `has_alive_servers`
says yes or no here.

**MonitorFile.** `monitor` is the number in the file (0: there is none) and, for the
properties, whose servers it is about; `lock` who holds the lock file that exists now.
`clean_alive_servers` takes no lock and removes the lock file with the other one, after
which a second launcher may enter. The number is written in one step.

**Partition.** A graph is given in its homogeneous form. `AssignOne`, `AssignTrainers` and
`Assign` choose any assignment, as metis or `random_choice` may, and apply the override
of `aly_partition.py:751-752`; `SplitGraph` stands for `partition_graph_with_halo`, which is
external and known by what `_get_inner_node_mask`, `orig_id` and the map files show of
it; then each file is written by an action of its own. `saved` is what this run has
written, `written` which run wrote a file last, `torn` what a run was writing when it
stopped (`Crash`); `Start` begins another run over the same directory with other
arguments. Features are rows that name their node or edge. The order of the edges in a
part is the external library's, so an edge stands for its own place there (`EdgeFeats`),
and the row found there is the one that `orig_id` and `sim_g.edata[EID]` lead to
(`LocalEdge`, `EdgeAt`). What `sim_g` looks like is the assumption
`IsGraph`: nodes numbered from 0 in the order of their types.

**Training.** A model is the history of its optimizer steps, each named by how many that
optimizer had done before, which is what Adam keeps: two trainers have the same
parameters if their histories are equal. `AllReduce` ends when every trainer is in
`backward` or stands by in `join()`; `LeaveJoin` hands round the parameters of one that
joined last. In `inference` a batch reads rows (`Pull`) and later writes its own
(`Push`). A row holds the epoch, layer and parameters it was computed with, and is
`Worthless` if it was computed from rows that do not belong together.

**RpcClient.** `todo` is what is left of the message at hand; its head's callback
runs in the place `callback`, where further calls may be made (`SendCall`). The
entry is erased after the callback returns, as in the code, through the iterator that
was found before it. An insertion by a call of the callback may rehash the table and
invalidate that iterator (`dangling`); the erasure (`EraseFound`) then may still hit its
entry, or do anything (the place `undefined`, where a behaviour ends). Exceptions drop
`todo` and return to `idle` with the rest of the buffer unread; a too great
length is not even retrieved. The peer is external and may send any message.

## 3. The runs

| Run | Question | Bounds |
|---|---|---|
| `EventLoop` | `WakeupNotLost`, `QuitNotLost`: is anything slept on? `ImplementsTaskQueue`: are tasks run once, in order? `TasksAreServed`, `QuitIsHonoured`: are tasks and quits served? | 2 threads, 3 tasks, tasks queued in handlers and tasks too |
| `EventLoopThread` | `PointerNeverDangles`: is a published loop there? `StartReturns`, `DestructorReturnsOnceLooping` | owner, runner, 2 users, 2 tasks |
| `EventLoopThread_destructor` | finding: `DestructorReturns` fails | no users |
| `ThreadPool` | `NoIdleWorkerWhileTasks`, `NoBlockedSubmitterWhileRoom`: is a notification lost? `ImplementsTaskQueue`; `TasksAreTaken`, `SubmittersProceed`, `StopTerminates` | 2 workers, 1 producer, 6 tasks that may submit too, a queue of 2 |
| `TimerQueue` | `NoTimerForgotten`, `NoTimerLate`: is the timerfd set right? `TimersKeptOnce`: is a Timer leaked, or in two places? `TimersFire` | 2 timers, delays 0 and 2, intervals 0 to 2, one clock jump, one waiting call |
| `TimerQueue_expired` | finding: `BatchTimersExist` fails | 2 one-shot timers |
| `RpcServer` | `BatchRepliesAreFinal`, `ImplementsRemoteCall`, `CallsAreAnswered` | 2 frames, batches of up to 2 items of 6 kinds |
| `RpcClient` | `NoCallLost`, `ImplementsRemoteCall`, `AnswersAreDelivered` | 3 calls, 2 frames, batches of up to 2 responses |
| `Connections` | `PollingAgrees`: do channels and kernel agree? `HandedOverOnce`: are sockets handed over well? `PeersAccepted` | 2 connectors, 2 peers |
| `Launcher` | `ReportsFailure`, `StateIsThere`: are failures, and only these, reported? `KilledOrTried`: does the clean-up make all its attempts? `LauncherEnds` | 1 or 2 hosts, 2 servers a host, up to 3 tasks (`MaxTasks`), one interrupt, one task of another launcher |
| `Partition` | `BookAgrees`, `FeaturesFollow`, `EdgesWithDestination`, `TrainersCoalesced`: does what is saved belong together? `LoadsAreWhole`: after any crash? | 5 nodes and edges of one type or two, up to 3 parts (`MaxParts`), 2 trainers, 2 runs (`MaxRuns`), override at 1 and 2 (`Boundary`) instead of 98308 and 196616 |
| `Training` | `InferenceExact`, `GradientsMatch`, `EvaluatedAlike`; `TrainingEnds` | 3 trainers with 1, 2 and 2 batches, 4 nodes on a ring, 4 epochs, an evaluation of 2 layers after every second |

`Buffer` and `MonitorFile` have no run: what they promise is proved for every value.

**Why the bounds are enough to be interesting.** Two other threads and one loop
give every overtaking between a push, a swap and a wakeup; three tasks allow
one batch to run while another grows. In the pool six tasks,
submitted by one producer and by tasks on two workers to a queue of two, are enough for
two threads to wait for room at once, for a woken one to be overtaken by another that
submits, for a worker to wait in its own pool, and for both to (`SelfBlocked`); which
unused task object is submitted makes no difference, so `RunTask` takes one. Two
timers suffice to be in one batch, to overtake each other in the set and to
cancel each other; a delay of two outlives an interval of one, and lateness is
told apart up to `MaxLate`. A batch of two items has a call before and a
call after an exception, and two frames give a batch whose answers arrive while
the next message is handled. In `RpcClient` the third id is beyond `Int32Max`,
which stands for the 32 bits a response's id may have. Two connectors and the
acceptor meet in one round of the loop. A launcher on one host has servers and a client, on two hosts
a client on each, so that tasks end in any order and the clean-up goes from host to
host. With five nodes each of up to three parts has nodes of both types under some
assignments, while others leave a part empty; the override takes the first two. The masks
change within these nodes. Two runs suffice for one to meet what another has left. In `Training` one
trainer runs out of batches first, its share of the nodes is two batches where the
others have one, all nodes but one need a row of another trainer, and two evaluations
use the same tensors. The largest state spaces are those of `Partition` (949467 states)
and `Launcher` (523724); the runs of `ThreadPool` (37170 states, and four temporal
properties) and `Launcher` take about two minutes each, the others less. All bounds are constants
named in the modules; where theorems exist they hold for all values.

**Deadlock.** No configuration checks it, because these systems may stop: a failed
assertion ends the process, undefined behaviour ends a behaviour of the model (`undefined` in
`EventLoopThread`, `TimerQueue` and `RpcClient`), an uncaught exception ends the server, the pool and the loop are left for good
after `stop()` and `quit()`, all tasks or calls the bounds allow have been
made, the peer may fall silent, a launcher, a run or a training has come to its end.

**Fairness.** In every module fairness is given to what the code does by itself,
a thread that has started a step of an operation, and never to users: nobody is
promised to call, to queue, to quit, to send, nor is i/o or a signal. The loop's
wait is fair only in that it ends when the eventfd is readable (`PollWakeup`).
Strong fairness is used where threads compete for a mutex (`ThreadPool`: a
thread gets a mutex that is free again and again) and for the tasks of one round
of the loop (`TimerQueue`: `EventLoop` shows that each round ends with them).
`RpcServer` assumes that a service eventually calls and releases each callback
it was given, and that it calls it before it releases it: a service that never calls it
leaves its call without a response, which the code does not prevent; `RpcClient` that what was sent arrives. In `Connections` the loop goes on and a
`connect()` ends; `accept4()` may fail any number of times, but not for ever
(strong fairness of `Accept`). In `Launcher` the launcher, its threads and its cleanup
process run on, and every task of the launcher ends by itself but servers kept alive
(a user of `--keep_alive` asks for that); nobody has to interrupt. In `Training` every
trainer runs on, and a collective operation that all have reached ends.

### Findings

* **A destructor does not return** (`EventLoopThread_destructor`). `quit()` uses the
  loop after it has stored `quit_` (`bearTCP/Eventloop.cc:81-82`), when the runner may
  have left and destroyed it; the destructor has tested `loop_` even earlier. This is
  the counterexample TLC shows. The same property fails in the other order too: `loop()` stores
  `quit_ = false` when it starts (`bearTCP/Eventloop.cc:66`), so a `quit()` between the
  latch and this store is forgotten and the destructor joins for ever.
  `DestructorReturnsOnceLooping` is what remains true.
* **A deleted Timer is used** (`TimerQueue_expired`). `cancelTimer` deletes a
  timer that is in the batch being run (`bearTCP/TimerQueue.cc:101`);
  `handleRead` then tests, asks and deletes it again. Other routes lead there too: a
  timer made on another thread is handed out before its insertion is run (85, 93); if
  the loop's thread cancels it first, the insertion puts a deleted Timer into the set.
  And a one-shot timer that has fired is deleted (122), which whoever still has it
  cannot know.

### Observations without a run

* `Connector::start` calls `handleWrite` when `connect()` is over at once
  (`bearTCP/Connector.cc:50,54`). The channel was never added, so
  `assert(!channel->isNoneEvents())` fails (`bearTCP/EPoller.cc:49`); the build
  sets no `NDEBUG`. `StartAtOnce` shows it. Without the assertion a socket whose
  `connect()` failed is handed over as connected, since `SO_ERROR` is then 0: the
  slip `UpdateUnasserted` violates `HandedOverOnce`.
* After `EMFILE` or `ECONNABORTED` the acceptor hands over -1
  (`bearTCP/Acceptor.cc:69-84`): `Invalid` in `handed`.
* `disableRead` leaves `EPOLLPRI` set (`bearTCP/Channel.h:55`): the channel stays
  registered.
* A batch of notifications is replied to with an empty array
  (`bearTcpServer.cc:254`), which the client refuses (`bearTcpClinet.h:124`).
* A length the client refuses stays in its buffer (`bearTcpClinet.h:100`) and is
  refused again at every arrival.
* `launch.py`: an interrupt between `process.start()` and `signal.signal()` (616, 624)
  leaves the launcher waiting for its cleanup process (`InterruptForked`); an earlier
  one leaves the tasks already started running. A task that starts after its host was
  listed survives the clean-up, and a task of another launcher with the same command
  does not. When the job ends without an interrupt the monitor file stays. An
  owner that is interrupted removes the lock file too, without holding the lock (497).
  The clean-up makes its attempts only as far as ssh works: a list that does not come
  (67-74) reads as "nothing left", and no command has the username that the tasks were
  started with (47, 59, 67, 134, 146 against 99-107). `KilledOrTried` excepts just this.
  Nothing compares the number of clients that kept-alive servers were started for
  with that of a later job.
* `aly_partition.py:751-752` gives the first 98308 nodes to part 0 and as many to part
  1. A graph with no more nodes leaves the other parts empty, and with `reshuffle` the
  first id of an empty part is an `IndexError` at 844 (`RefuseSplit`). For the nodes
  that are overridden, the part is not the machine of their trainer, as the docstring
  at 602-607 has it; `TrainersCoalesced` speaks of the others.
* A second run over the same directory mixes parts of both until its configuration is
  written; `LoadsAreWhole` excepts this time, also after a crash in it. The map files of
  a run without `reshuffle`, which its configuration names too, are not among the files
  it speaks of (`PartFiles`). Two nodes are in none of the masks
  (`GraphPartition.py:106-107`).
* `dist_graphSage.py:92-93` promises inference for any number of layers. With three or
  more, a middle layer reads and writes the tensor `h` (102, 130, 132). `Training`
  contains this: with `NumLayers = 3` instead of 2 in `Training.cfg`, TLC refutes
  `InferenceExact` in a second. The run has two layers, the default, where a row that is
  still needed cannot be overwritten; there `InferenceExact` is about the barriers. With `--num_layers 1` there are two layers.
  `join()` evens out parameters, not the moments of Adam, of trainers that had fewer
  batches. With `--standalone` the model is not wrapped, and `model.join()` does not
  exist (207).

## 4. The proofs

Every safety invariant of the runs, every refinement and the type correctness of every
module is a theorem. All theorems hold for any sets of threads, tasks, connectors and
messages, finite or not (the pool, the launcher's threads and the trainers are finite
sets), and any bounds, delays, intervals and sizes. None assumes fairness. What follows says
which inductive invariant each rests on and why it is needed.

**`EventLoop_proofs`, the loop.** `TypeCorrect` and `BatchCorrect` rest on
`TypeInv == TypeOK /\ BatchWhileRunning`: a batch is held exactly while its
tasks run. `NoLostWakeup` needs more than its statement: `WakeupNotLost` speaks
only of `epoll_wait`, but the wakeup is owed earlier. The invariant is
`TasksAnnounced`: except between the read of the eventfd and the next swap, a
pending task has a wakeup on its way. It needs `LoopQueuesWhereCovered`, that the
loop's own thread queues in handlers and tasks only: a task queued while a batch
is being destroyed, or before `loop()`, is announced by nobody. The theorem's
hypothesis says just that. `NoSleepThroughQuit` is inductive with `TypeInv`.
`Implements` maps the queue of `TaskQueue` to the batch followed by the pending
tasks, wherever tasks are queued from: a swap is a stutter, a return executes
the head.

**`EventLoop_proofs`, the thread.** `PointerIsGood` rests on `RunnerInv`, that the runner's
place alone says whether the loop exists, is published and was announced, and on
`Untouched`: until `startLoop()` has returned nobody has the loop, so nothing was queued
and nothing has quit, `loop()` goes on, and the pointer `startLoop()` will read stays.
`ThreadRunsALoop` says that every step of the composition is a step of `EventLoop` or
leaves its state alone, hence `ThreadLosesNoWakeup`: what is proved of the loop holds
of the loop an EventLoopThread runs.

**`ThreadPool_proofs`.** `Bounded` is inductive. `NoLostNotEmpty` counts: while a
worker waits there are no more tasks than workers about to take one. The step
in which a worker goes to wait needs `EmptyWhileDozing`. `NoLostNotFull` is the
mirror image with free places and submitters. Both use cardinality lemmas of the
library for "one thread moves". `Implements` needs that a task is submitted by one thread
and once (`SubmittersHoldTasks`, `ItemsFresh`; `FreshWhenPushed`).

**`TimerQueue_proofs`.** `NeverForgotten` holds under any clock jumps.
`NeverLate` needs the invariant `Created`, that what is in the set, in the batch
or in the mailbox has been created and keeps its expiration, and that every
change of the earliest timer passes through `Arm`, whose time is at most that of
the timer or the least delay. `KeptOnce` has no hypothesis: users cancel what they like,
and it promises of a Timer that it exists exactly while something keeps it unless that
Timer itself was cancelled outside the set (`stray`). Its invariant `KeptInv` places the
others: in the set, in the batch, in the callback or in a queued insertion (`LiveInv`),
and every one, stray or not, in one of these only (`PlacesApart`), which needs that no
two queued insertions add the same timer (`AddedOnce`). `NeverUndefined` says what is
left to the user: while only timers in the set are cancelled, nothing deleted is used,
and the assertions of `handleRead` hold. `TimerQueue_expired` shows what a timer
cancelled elsewhere leads to.

**`RpcClient_proofs`.** `TypeInv` adds to `TypeOK` what the client is handling
when (`Handling`). `NeverLost` needs `Sourced`: every response in the stream, in the
buffer or being handled is one the peer has sent, so a callback that is dropped can
be blamed on it (`Blamed`). `Implements` maps
the open calls of `RemoteCall` to the waiting callbacks without the one that is
running, because the code erases an entry after its callback returns. Both speak of
behaviours up to the first erasure through an invalidated iterator that does not hit its
entry, after which C++ promises nothing; that an iterator has become invalid and still
leads to its entry is part of what is proved.

**`RpcServer_proofs`, the server.** `StreamInv` counts what has been sent, so that no more
messages are taken than frames were. `Final` and `Implements` share four parts.
`CallInv`: a callback is called once and belongs to an item the handler has been at.
`HolderInv`: the holders of a batch's `ThreadSafeData` are the handler while it is at it
and the callbacks that exist, so the last reference is dropped once, and after everything
else. `ResponseInv`: an item has one response at most, and none while its
callback was not called. `ReplyInv`: a batch that was replied to has nothing
outstanding. For the refinement the open calls are those of the callbacks not called yet
and of the responses collected for a batch that was not replied to; a call is made when
it is handed to its service, a refused request of a batch when its response is added, and
a reply, whose calls are in the order of its responses, answers them all.

**`RpcServer_proofs`, `Buffer`.** Inductive are the order of the indices and that the vector
never has less than `kCheapPrepend` bytes. `BufferIsExact` then is arithmetic on the
sequences: what a move or a resize copies (`CopyIs`, `ResizedIs`), and that what is
written lies behind it. `BufferAsserted` is the second half of `makeSpace`: if the bytes
are moved they fit. `BufferGrowthNeeded` says that the vector grows only when they would not.

**`Connections_proofs`.** One invariant carries all three theorems: `AcceptorSound`
and, for each connector, `Sound`, which follows it from unknown to the kernel
(`Unstarted`) over registered (`Waiting`) and reported (`Active`) to handed over or
gone. That no pointer dangles (`Registered`) rests on it that a connector that is `Waiting` is not
`connected`, so its destructor closes the socket.

**`Launcher_proofs`, one launcher.** `TypeInv` says in which places the cleanup process
cannot have been told anything (`Quiet`). `CountInv` counts the states: a thread that has
ended has put one, and every join takes one; hence the queue is not empty when it is
read (`StateThere`), and a failure is told in the queue or in what was taken out of it
(`Told`; `Reports`). `Killed` follows the cleanup process from host to host (`KillInv`):
what it has found on the hosts it is done with is dead or was given up as it should be
(`GivenUp`: after all four attempts, or because the host did not answer), and on the one
it is at, what still runs is in `pending` and has survived every attempt so far. Nothing
is assumed of `kill`, of `kill -9` or of ssh. `Reports` needs
from it that without an interrupt the process is told to exit only (`ToldInv`).

**`Launcher_proofs`, `MonitorFile`.** `GroupsAreDifferent` and `Exclusive` rest on one
invariant, which holds until a monitor file is removed: the launcher in the critical
section is the one in `lock` (`LockHeld`), who has not read the file uses servers of its
own (`Alone`), and every group id given out for its servers is below the number in it
(`Below`), which whoever is about to write counts on from (`CountsOn`).

**`GraphSage_proofs`, `Training`.** `InStep` says who may be where at the same time: all
trainers train or all infer, in one epoch, and in inference in one layer and with one
model. `Match` adds
`Aligned`: those who take part in a step have done as many steps in this epoch, and
equally many moments mean equal parameters, where a step that is being done counts for
both. `Exact` follows the rows (`Rows`): what the layer before has written is complete
and of this round, what this layer has written so far is right, and, since two layers
write two tensors, nobody writes what is still read. Its assumption of at most two
layers is needed, as the observation above shows.

**`GraphSage_proofs`, `Partition`.** Two invariants. `FilesInv` says how far the run is:
the files of the parts before `part_id` are whole and of this run (`PartsInv`), and what
a configuration names is of the run that wrote it or was written over by a later one
(`NamedInv`); hence `Whole`, after any crash and any rerun. `ContentInv` says what was
written: each file holds what the assignment of this run determines, and the nodes the
override leaves alone are with their trainers (`WithTrainer`, where
`AssignTrainersAssigns` does the division). `Book`, `Follow` and `EdgesGo` compare
these contents. What they rest on is a fact about ranks in finite sets of numbers:
counting the smaller elements numbers a set without gaps (`Ranks`, `NumberRanks`), and
so the ids given out to one type in one part are an interval from the rank
of its least node to that of its greatest (`NewNodes`, `NewEdges`, `LeastAndGreatest`, `NodeRanges`,
`EdgeRanges`), in the order in which the rows are saved (`InnerNodesAre`, `RowsFollow`).
The same fact shows that the id of a node or edge among those of its type leads back to it
(`TypedIdsAre`, `TypedEdgeIdsAre`), so its row is its own (`EdgeRowsAre`).

**Only model-checked.** Liveness, because fairness and ENABLED are out of the prover's
reach: `TasksAreServed`, `QuitIsHonoured`, `StartReturns`, `DestructorReturnsOnceLooping`,
`TasksAreTaken`, `SubmittersProceed`, `StopTerminates`, `TimersFire`, `CallsAreAnswered`,
`AnswersAreDelivered`, `PeersAccepted`, `LauncherEnds` and `TrainingEnds`.

**Only proved.** `Buffer` and `MonitorFile`.

## 5. What is not modelled

* **TcpConnection, TcpServer, TcpClient** are not in the repository. With them go the high
  watermark of the server (`stopRead`, `startRead`), `tie()`, and a composition of
  `RpcServer` and `RpcClient` over one connection; both ends implement the same
  `RemoteCall`, against any peer.
* **The partitioner in C++** (`src/partition`): one-pass programs over binary files,
  with no state that outlives a pass.
* **In the Python scripts:** the text of commands and the choice of free ports, an ssh
  connection that dies while its command runs on, a second interrupt; `return_mapping`, the
  balance options of metis, `--undirected`; sampling, losses and timing. A task and its
  child processes, which `pgrep` finds, are one here, which runs while any of them does.
* **Left out for good:** wording of messages and logs, JSON text, addresses, descriptor
  numbers, the shell scripts and the example programs.

Proofs that would be worth having next: the safety that the liveness properties rest on,
stated as places a component cannot be left in (`ThreadPool` after `stop()`, the
destructor of an EventLoopThread that waits for a loop which was not told to quit, a
trainer at a collective operation that another has passed), and that `Partition` saves
every node and every edge in exactly one part.
