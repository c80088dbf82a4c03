----------------------------- MODULE Supervisor -----------------------------
(***************************************************************************)
(* src/src/supervisor.rs: the table of managed apps and reconcile(), which *)
(* drives every app toward its registry row.  reconcile() and              *)
(* request_restart() run in many tasks at once (the background tick and    *)
(* the HTTP handlers, on tokio's multi-threaded runtime); a task t is      *)
(* inside a pass when pc[t] is past "check".  What happens under the procs *)
(* mutex is cut into one step per app, because processes exit, time passes *)
(* and handlers write the registry meanwhile.                              *)
(*                                                                         *)
(* Data that no property distinguishes is abstracted: a deadline is        *)
(* "none", "pending" or "due", a backoff is waiting or over, everything    *)
(* spawn() reads of a row (artifact, args, port, endpoint) is its rev.     *)
(***************************************************************************)
EXTENDS OsProcess, Naturals, FiniteSets

CONSTANTS
    Tasks,        \* concurrent callers of the supervisor
    NoTask,       \* holder of the unlocked mutex
    NoRow,        \* an app that is not in the registry
    RestartCap,   \* bound: the restart counter saturates here
    SpawnMayFail  \* whether spawn() may return Err (missing binary, fork)

ASSUME NoTaskAssumption == NoTask \notin Tasks
ASSUME RestartCapAssumption == RestartCap \in Nat \ {0}
ASSUME SpawnMayFailAssumption == SpawnMayFail \in BOOLEAN

RestartPolicy == {"always", "on-failure", "never"}

Row == [desired : {"running", "stopped"}, rev : Revs, policy : RestartPolicy]

ASSUME NoRowAssumption == NoRow \notin Row

RunState == {"Running", "Stopping", "Stopped", "Crashed", "Backoff"}

Managed == [tracked  : BOOLEAN,           \* has an entry in procs
            child    : Pids \cup {NoPid}, \* the process behind the handle
            pid      : Pids \cup {NoPid},
            restarts : 0..RestartCap,
            waiting  : BOOLEAN,           \* now < backoff_until
            state    : RunState,
            term     : {"none", "pending", "due"},  \* term_deadline
            restart_requested : BOOLEAN]

\* Managed::default(): the entry of an app reconcile meets for the first time.
DefaultEntry == [tracked |-> TRUE, child |-> NoPid, pid |-> NoPid,
                 restarts |-> 0, waiting |-> FALSE, state |-> "Stopped",
                 term |-> "none", restart_requested |-> FALSE]

Untracked == [DefaultEntry EXCEPT !.tracked = FALSE]

VARIABLES
    procs,     \* the procs table
    pidfile,   \* pidfile[a]: the pid in a's pidfile, NoPid when there is none
    rows,      \* the registry's app table
    shutdown,  \* progress of stop_all
    taken,     \* children stop_all has taken out of procs
    lock,      \* the task that holds the procs mutex
    pc,        \* where each task is
    cur,       \* the app a task is working on
    snap,      \* the rows a pass has listed
    todo       \* the apps the current loop of a pass has left

supVars == <<os, procs, pidfile, lock, pc, cur, snap, todo>>

InPass == {"list", "lock", "reap", "drop", "drive", "pidfile"}
PCs == {"idle", "request_restart", "set_desired", "fleet", "check"} \cup InPass

shutting_down == shutdown # "serving"

NoSnap == [a \in Apps |-> NoRow]
Tracked == {a \in Apps : procs[a].tracked}
\* Faulty variant: the drive loop asks the registry again.
ListedNow(t) == {a \in Apps : rows[a] # NoRow}

Listed(t) == {a \in Apps : snap[t][a] # NoRow}

\* A pid some Child handle refers to: an entry's, or one stop_all awaits.
Held(p) == p \in taken \/ \E a \in Apps : procs[a].child = p

NextRestarts(n) == IF n < RestartCap THEN n + 1 ELSE n

Goto(t, label) == pc' = [pc EXCEPT ![t] = label]

\* Task t is done with app a in the loop it is in.
Finished(t, a) == todo' = [todo EXCEPT ![t] = @ \ {a}]

SetEntry(a, m) == procs' = [procs EXCEPT ![a] = m]

-----------------------------------------------------------------------------
\* request_restart(cur[t]): SIGTERM now and a new deadline if the entry has a
\* pid, and no backoff in any case; nothing for an untracked app.
RequestRestart(t) ==
    LET a == cur[t]
        m == procs[a]
        signalled == m.tracked /\ m.pid # NoPid
    IN  /\ pc[t] = "request_restart"
        /\ lock = NoTask
        /\ os' = IF signalled THEN Termed({m.pid}) ELSE os
        /\ SetEntry(a, [m EXCEPT
               !.restart_requested = signalled \/ @,
               !.term = IF signalled THEN "pending" ELSE @,
               !.waiting = FALSE])
        /\ Goto(t, "check")
        /\ cur' = [cur EXCEPT ![t] = NoApp]
        /\ UNCHANGED <<pidfile, rows, shutdown, taken, lock, snap, todo>>

\* The test of shutting_down at the head of reconcile.
ShutdownGate(t) ==
    /\ pc[t] = "check"
    /\ Goto(t, IF shutting_down THEN "idle" ELSE "list")
    /\ UNCHANGED <<os, procs, pidfile, rows, shutdown, taken, lock, cur, snap, todo>>

\* registry.list_apps(), before the procs mutex is taken.
ListApps(t) ==
    /\ pc[t] = "list"
    /\ snap' = [snap EXCEPT ![t] = rows]
    /\ Goto(t, "lock")
    /\ UNCHANGED <<os, procs, pidfile, rows, shutdown, taken, lock, cur, todo>>

LockProcs(t) ==
    /\ pc[t] = "lock"
    /\ lock = NoTask
    /\ lock' = t
    /\ todo' = [todo EXCEPT ![t] = Tracked]
    /\ Goto(t, "reap")
    /\ UNCHANGED <<os, procs, pidfile, rows, shutdown, taken, cur, snap>>

-----------------------------------------------------------------------------
\* The first loop: try_wait on every child.

Exited(a) == procs[a].child # NoPid /\ os[procs[a].child].st = "zombie"

\* Faulty variants: an intentional stop counts as a crash; the pid stays.
AfterExitAlwaysCrash(m) ==
    [m EXCEPT !.child = NoPid, !.pid = NoPid, !.restarts = NextRestarts(@),
              !.waiting = TRUE, !.term = "none", !.state = "Backoff"]
AfterExitKeepsPid(m) == [m EXCEPT !.child = NoPid, !.waiting = TRUE, !.state = "Backoff"]

\* What the entry becomes after its process exited: a requested restart and an
\* intentional stop carry no penalty, anything else is a crash.
AfterExit(m) ==
    LET gone == [m EXCEPT !.child = NoPid, !.pid = NoPid]
    IN  IF m.restart_requested
        THEN [gone EXCEPT !.restart_requested = FALSE, !.term = "none",
                          !.waiting = FALSE, !.state = "Backoff"]
        ELSE IF m.term # "none"
        THEN [gone EXCEPT !.term = "none", !.state = "Stopped"]
        ELSE [gone EXCEPT !.restarts = NextRestarts(@), !.waiting = TRUE,
                          !.state = "Backoff"]

\* Faulty variant: the pidfile is not removed.
ReapKeepsPidfile(t, a) ==
    /\ pc[t] = "reap" /\ a \in todo[t] /\ Exited(a)
    /\ os' = Waited(procs[a].child)
    /\ SetEntry(a, AfterExit(procs[a]))
    /\ Finished(t, a)
    /\ UNCHANGED <<pidfile, rows, shutdown, taken, lock, pc, cur, snap>>

ReapExited(t, a) ==
    /\ pc[t] = "reap" /\ a \in todo[t]
    /\ Exited(a)
    /\ os' = Waited(procs[a].child)
    /\ SetEntry(a, AfterExit(procs[a]))
    /\ pidfile' = [pidfile EXCEPT ![a] = NoPid]
    /\ Finished(t, a)
    /\ UNCHANGED <<rows, shutdown, taken, lock, pc, cur, snap>>

\* Faulty variant: an overdue termination is asked for again, never forced.
NeverEscalate(t, a) ==
    /\ pc[t] = "reap" /\ a \in todo[t] /\ ~Exited(a)
    /\ os' = IF procs[a].term = "due" THEN Termed({procs[a].pid}) ELSE os
    /\ Finished(t, a)
    /\ UNCHANGED <<procs, pidfile, rows, shutdown, taken, lock, pc, cur, snap>>

\* Nothing to reap: escalate to SIGKILL if a termination is overdue.
Escalate(t, a) ==
    /\ pc[t] = "reap" /\ a \in todo[t]
    /\ ~Exited(a)
    /\ os' = IF procs[a].term = "due" THEN Killed({procs[a].pid}) ELSE os
    /\ Finished(t, a)
    /\ UNCHANGED <<procs, pidfile, rows, shutdown, taken, lock, pc, cur, snap>>

EndReap(t) ==
    /\ pc[t] = "reap" /\ todo[t] = {}
    /\ todo' = [todo EXCEPT ![t] = Tracked \ Listed(t)]
    /\ Goto(t, "drop")
    /\ UNCHANGED <<os, procs, pidfile, rows, shutdown, taken, lock, cur, snap>>

\* Faulty variant: the app is forgotten and its process left running.
DropWithoutKill(t, a) ==
    /\ pc[t] = "drop" /\ a \in todo[t]
    /\ SetEntry(a, Untracked)
    /\ pidfile' = [pidfile EXCEPT ![a] = NoPid]
    /\ Finished(t, a)
    /\ UNCHANGED <<os, rows, shutdown, taken, lock, pc, cur, snap>>

\* The second loop: an app the pass has not listed is killed and forgotten.
\* Dropping the Child handle also waits for a process that has exited.
DropApp(t, a) ==
    LET m == procs[a]
    IN  /\ pc[t] = "drop" /\ a \in todo[t]
        /\ os' = IF Exited(a) THEN Waited(m.child) ELSE Killed({m.pid})
        /\ SetEntry(a, Untracked)
        /\ pidfile' = [pidfile EXCEPT ![a] = NoPid]
        /\ Finished(t, a)
        /\ UNCHANGED <<rows, shutdown, taken, lock, pc, cur, snap>>

EndDrop(t) ==
    /\ pc[t] = "drop" /\ todo[t] = {}
    /\ todo' = [todo EXCEPT ![t] = Listed(t)]
    /\ Goto(t, "drive")
    /\ UNCHANGED <<os, procs, pidfile, rows, shutdown, taken, lock, cur, snap>>

-----------------------------------------------------------------------------
\* The third loop: drive every listed app toward its row.

Driving(t, a) == pc[t] = "drive" /\ a \in todo[t]

\* procs.entry(..).or_default()
Entry(a) == [procs[a] EXCEPT !.tracked = TRUE]

\* Faulty variants: SIGTERM without a deadline; a deadline without SIGTERM.
StopUnarmed(t, a) ==
    /\ Driving(t, a) /\ snap[t][a].desired = "stopped" /\ procs[a].child # NoPid
    /\ os' = Termed({procs[a].pid})
    /\ SetEntry(a, [Entry(a) EXCEPT !.state = "Stopping"])
    /\ Finished(t, a)
    /\ UNCHANGED <<pidfile, rows, shutdown, taken, lock, pc, cur, snap>>
StopUnasked(t, a) ==
    /\ Driving(t, a) /\ snap[t][a].desired = "stopped" /\ procs[a].term = "none"
    /\ SetEntry(a, [Entry(a) EXCEPT !.term = "pending", !.state = "Stopping"])
    /\ Finished(t, a)
    /\ UNCHANGED <<os, pidfile, rows, shutdown, taken, lock, pc, cur, snap>>

\* desired = stopped: SIGTERM once, then leave it to the reap loop.
DriveStop(t, a) ==
    LET m == Entry(a)
    IN  /\ Driving(t, a)
        /\ snap[t][a].desired = "stopped"
        /\ m.child # NoPid
        /\ IF m.term = "none"
           THEN /\ os' = Termed({m.pid})
                /\ SetEntry(a, [m EXCEPT !.term = "pending", !.state = "Stopping"])
           ELSE /\ SetEntry(a, m)
                /\ UNCHANGED os
        /\ Finished(t, a)
        /\ UNCHANGED <<pidfile, rows, shutdown, taken, lock, pc, cur, snap>>

\* desired = stopped and no process.
DriveStopped(t, a) ==
    /\ Driving(t, a)
    /\ snap[t][a].desired = "stopped"
    /\ procs[a].child = NoPid
    /\ SetEntry(a, [Entry(a) EXCEPT !.state = "Stopped", !.term = "none"])
    /\ Finished(t, a)
    /\ UNCHANGED <<os, pidfile, rows, shutdown, taken, lock, pc, cur, snap>>

\* desired = running and there is a process, whatever revision it runs.
DriveRunning(t, a) ==
    LET m == Entry(a)
    IN  /\ Driving(t, a)
        /\ snap[t][a].desired = "running"
        /\ m.child # NoPid
        /\ SetEntry(a, [m EXCEPT
               !.state = IF m.term = "none" THEN "Running" ELSE "Stopping"])
        /\ Finished(t, a)
        /\ UNCHANGED <<os, pidfile, rows, shutdown, taken, lock, pc, cur, snap>>

\* Faulty variant: the policy is not looked at.
GivenUpAfterCrash(t, a) == procs[a].restarts > 0

GivenUp(t, a) == snap[t][a].policy = "never" /\ procs[a].restarts > 0

\* desired = running, no process, and policy or backoff forbid a spawn.
DriveHeldBack(t, a) ==
    /\ Driving(t, a)
    /\ snap[t][a].desired = "running"
    /\ procs[a].child = NoPid
    /\ GivenUp(t, a) \/ procs[a].waiting
    /\ SetEntry(a, [Entry(a) EXCEPT
           !.state = IF GivenUp(t, a) THEN "Crashed" ELSE "Backoff"])
    /\ Finished(t, a)
    /\ UNCHANGED <<os, pidfile, rows, shutdown, taken, lock, pc, cur, snap>>

\* Faulty variant: an entry that has a process is not skipped.
MaySpawnTwice(t, a) == Driving(t, a) /\ snap[t][a].desired = "running" /\ ~procs[a].waiting

MaySpawn(t, a) ==
    /\ Driving(t, a)
    /\ snap[t][a].desired = "running"
    /\ procs[a].child = NoPid
    /\ ~GivenUp(t, a) /\ ~procs[a].waiting

\* spawn() returns Ok: the entry is updated, the pidfile is not yet written.
Spawn(t, a, p) ==
    /\ MaySpawn(t, a)
    /\ p \in FreePids
    /\ os' = Started(p, a, snap[t][a].rev)
    /\ SetEntry(a, [Entry(a) EXCEPT !.child = p, !.pid = p, !.state = "Running",
                                    !.term = "none", !.restart_requested = FALSE])
    /\ cur' = [cur EXCEPT ![t] = a]
    /\ Goto(t, "pidfile")
    /\ UNCHANGED <<pidfile, rows, shutdown, taken, lock, snap, todo>>

\* Faulty variant: the pidfile is not written.
SkipPidfile(t) ==
    /\ pc[t] = "pidfile"
    /\ Finished(t, cur[t])
    /\ cur' = [cur EXCEPT ![t] = NoApp]
    /\ Goto(t, "drive")
    /\ UNCHANGED <<os, procs, pidfile, rows, shutdown, taken, lock, snap>>

WritePidfile(t) ==
    /\ pc[t] = "pidfile"
    /\ pidfile' = [pidfile EXCEPT ![cur[t]] = procs[cur[t]].pid]
    /\ Finished(t, cur[t])
    /\ cur' = [cur EXCEPT ![t] = NoApp]
    /\ Goto(t, "drive")
    /\ UNCHANGED <<os, procs, rows, shutdown, taken, lock, snap>>

\* spawn() returns Err.
SpawnFails(t, a) ==
    /\ SpawnMayFail
    /\ MaySpawn(t, a)
    /\ SetEntry(a, [Entry(a) EXCEPT !.restarts = NextRestarts(@),
                                    !.waiting = TRUE, !.state = "Backoff"])
    /\ Finished(t, a)
    /\ UNCHANGED <<os, pidfile, rows, shutdown, taken, lock, pc, cur, snap>>

\* Faulty variant: the mutex is not released.
EndPassLocked(t) ==
    /\ pc[t] = "drive" /\ todo[t] = {}
    /\ Goto(t, "idle")
    /\ UNCHANGED <<os, procs, pidfile, rows, shutdown, taken, lock, cur, snap, todo>>

EndPass(t) ==
    /\ pc[t] = "drive" /\ todo[t] = {}
    /\ lock' = NoTask
    /\ snap' = [snap EXCEPT ![t] = NoSnap]
    /\ Goto(t, "idle")
    /\ UNCHANGED <<os, procs, pidfile, rows, shutdown, taken, cur, todo>>

-----------------------------------------------------------------------------
PassStep(t) ==
    \/ ShutdownGate(t) \/ ListApps(t) \/ LockProcs(t)
    \/ EndReap(t) \/ EndDrop(t) \/ EndPass(t) \/ WritePidfile(t)
    \/ \E a \in Apps :
          \/ ReapExited(t, a) \/ Escalate(t, a) \/ DropApp(t, a)
          \/ DriveStop(t, a) \/ DriveStopped(t, a) \/ DriveRunning(t, a)
          \/ DriveHeldBack(t, a) \/ SpawnFails(t, a)
          \/ \E p \in Pids : Spawn(t, a, p)

\* The environment of the supervisor: processes exit and time passes.

Exit(p) ==
    /\ ProcExit(p, Held(p))
    /\ UNCHANGED <<procs, pidfile, rows, shutdown, taken, lock, pc, cur, snap, todo>>

DeadlinePasses(a) ==
    /\ procs[a].term = "pending"
    /\ SetEntry(a, [procs[a] EXCEPT !.term = "due"])
    /\ UNCHANGED <<os, pidfile, rows, shutdown, taken, lock, pc, cur, snap, todo>>

BackoffExpires(a) ==
    /\ procs[a].waiting
    /\ SetEntry(a, [procs[a] EXCEPT !.waiting = FALSE])
    /\ UNCHANGED <<os, pidfile, rows, shutdown, taken, lock, pc, cur, snap, todo>>
=============================================================================
