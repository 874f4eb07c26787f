----------------------------- MODULE MonitorFile -----------------------------
(***************************************************************************)
(* tools/launch.py, has_alive_servers() and clean_alive_servers(): the     *)
(* launchers of one --server_name share the servers that the first of them *)
(* keeps alive.  A monitor file says that there are such servers and which *)
(* group id the next job of theirs is to use; a lock file guards it.       *)
(* What a launcher does between the two functions is in Launcher.          *)
(***************************************************************************)
EXTENDS Naturals

CONSTANTS
    Launchers,
    KeepAlive     \* those with --keep_alive

VARIABLES
    pc,         \* where each launcher is
    monitor,    \* the number in the file, 0 if there is none, and whose servers it is about
    lock,       \* who holds the lock file that exists now
    owns,       \* g_monitor_file is set
    group,      \* g_group_id
    uses,       \* (for the properties) whose servers a launcher uses
    removed     \* (for the properties) a monitor file has been removed

vars == <<pc, monitor, lock, owns, group, uses, removed>>

Critical == {"look", "read", "write"}
Served == {"working", "unlink", "unlock", "ended"}
Places == {"main", "dead"} \cup Critical \cup Served

TypeOK ==
    /\ pc \in [Launchers -> Places]
    /\ monitor \in [owner : Launchers, next : Nat]
    /\ lock \in SUBSET Launchers
    /\ owns \in [Launchers -> BOOLEAN]
    /\ group \in [Launchers -> Nat]
    /\ uses \in [Launchers -> Launchers]
    /\ removed \in BOOLEAN

FileExists == monitor.next # 0

Init ==
    /\ pc = [l \in Launchers |-> "main"]
    /\ \E l \in Launchers : monitor = [owner |-> l, next |-> 0]
    /\ lock = {} /\ removed = FALSE
    /\ owns = [l \in Launchers |-> FALSE]
    /\ group = [l \in Launchers |-> 0]
    /\ uses = [l \in Launchers |-> l]

Goes(l, from, to) == pc[l] = from /\ pc' = [pc EXCEPT ![l] = to]

-----------------------------------------------------------------------------
\* has_alive_servers()

Acquire(l) ==
    /\ lock = {} /\ Goes(l, "main", "look") /\ lock' = {l}
    /\ UNCHANGED <<monitor, owns, group, uses, removed>>

\* os.path.exists()
FindFile(l) ==
    /\ FileExists /\ Goes(l, "look", "read")
    /\ UNCHANGED <<monitor, lock, owns, group, uses, removed>>

\* There is no file, and the servers to start will outlive their clients.
BecomeOwner(l) ==
    /\ ~FileExists /\ l \in KeepAlive /\ Goes(l, "look", "write")
    /\ owns' = [owns EXCEPT ![l] = TRUE]
    /\ UNCHANGED <<monitor, lock, group, uses, removed>>

\* There is no file, and there will be none: the servers are for this job only.
FindNothing(l) ==
    /\ ~FileExists /\ l \notin KeepAlive /\ Goes(l, "look", "working")
    /\ lock' = lock \ {l}
    /\ UNCHANGED <<monitor, owns, group, uses, removed>>

\* g_group_id = int(lines[0])
ReadFile(l) ==
    /\ FileExists /\ Goes(l, "read", "write")
    /\ group' = [group EXCEPT ![l] = monitor.next]
    /\ uses' = [uses EXCEPT ![l] = monitor.owner]
    /\ UNCHANGED <<monitor, lock, owns, removed>>

\* The file was removed meanwhile: open() raises.
ReadGone(l) ==
    /\ ~FileExists /\ Goes(l, "read", "dead")
    /\ lock' = lock \ {l}
    /\ UNCHANGED <<monitor, owns, group, uses, removed>>

\* The next number is written (1 by the owner), and the lock released.
WriteFile(l) ==
    /\ Goes(l, "write", "working")
    /\ monitor' = [owner |-> uses[l], next |-> group[l] + 1]
    /\ lock' = lock \ {l}
    /\ UNCHANGED <<owns, group, uses, removed>>

\* An interrupt here is an exception, which releases the lock and ends the launcher.
Abandon(l) ==
    /\ pc[l] \in Critical
    /\ pc' = [pc EXCEPT ![l] = "dead"]
    /\ lock' = lock \ {l}
    /\ UNCHANGED <<monitor, owns, group, uses, removed>>

-----------------------------------------------------------------------------
\* The end of a launcher

\* All tasks have ended, or an early interrupt; the file stays.
EndJob(l) ==
    /\ Goes(l, "working", "ended")
    /\ UNCHANGED <<monitor, lock, owns, group, uses, removed>>

\* signal_handler()
Interrupt(l) ==
    /\ Goes(l, "working", IF owns[l] THEN "unlink" ELSE "ended")
    /\ UNCHANGED <<monitor, lock, owns, group, uses, removed>>

\* clean_alive_servers() takes no lock; if the file is gone it stops there.
Unlink(l) ==
    /\ Goes(l, "unlink", IF ~FileExists THEN "ended" ELSE "unlock")
    /\ monitor' = [monitor EXCEPT !.next = 0] /\ removed' = TRUE
    /\ UNCHANGED <<lock, owns, group, uses>>

\* The lock file goes too: who comes next makes one that nobody holds.
Unlock(l) ==
    /\ Goes(l, "unlock", "ended") /\ lock' = {}
    /\ UNCHANGED <<monitor, owns, group, uses, removed>>

Next ==
    \E l \in Launchers :
        \/ Acquire(l) \/ FindFile(l) \/ BecomeOwner(l) \/ FindNothing(l)
        \/ ReadFile(l) \/ ReadGone(l) \/ WriteFile(l) \/ Abandon(l)
        \/ EndJob(l) \/ Interrupt(l) \/ Unlink(l) \/ Unlock(l)

Spec == Init /\ [][Next]_vars

-----------------------------------------------------------------------------
\* Properties

\* As long as no monitor file was removed, the jobs that use the same servers have
\* different group ids.
GroupsDiffer ==
    removed \/ \A l, m \in Launchers :
        (l # m /\ pc[l] \in Served /\ pc[m] \in Served /\ uses[l] = uses[m])
            => group[l] # group[m]
=============================================================================
