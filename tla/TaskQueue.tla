------------------------------ MODULE TaskQueue ------------------------------
(***************************************************************************)
(* What bearRPC promises to whoever hands it a task: tasks are run in the  *)
(* order in which they were accepted, each of them once.  EventLoop (the   *)
(* pending tasks of a loop) and ThreadPool (the bounded task queue) are    *)
(* both shown to implement this specification.                             *)
(***************************************************************************)
EXTENDS Sequences, Functions

CONSTANT Tasks        \* the task objects; one is submitted at most once

VARIABLES
    queue,            \* accepted and not yet run, oldest first
    ran               \* run so far, in order

vars == <<queue, ran>>

Fresh(t) == t \notin Range(queue) \cup Range(ran)

Init == queue = <<>> /\ ran = <<>>

Enqueue(t) ==
    /\ Fresh(t)
    /\ queue' = Append(queue, t)
    /\ UNCHANGED ran

Execute ==
    /\ queue # <<>>
    /\ ran' = Append(ran, Head(queue))
    /\ queue' = Tail(queue)

Next == Execute \/ \E t \in Tasks : Enqueue(t)

Spec == Init /\ [][Next]_vars
=============================================================================
