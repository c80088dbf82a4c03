------------------------------- MODULE Daemon -------------------------------
(***************************************************************************)
(* One life of the nockd daemon: src/src/daemon.rs (the reconcile tick and *)
(* the shutdown path of serve()) and the mutating handlers of              *)
(* src/src/api.rs, over the Supervisor.  A handler is synchronous between  *)
(* its awaits, so once it has begun it runs to its end; other tasks run    *)
(* between any two of its registry and supervisor calls.  A handler's      *)
(* first registry write is its start; the 404 of an unknown app changes    *)
(* nothing and is left out, as are the writes to the event log.            *)
(***************************************************************************)
EXTENDS Supervisor

CONSTANTS
    Tickers,        \* the background reconcile loop: one task, or none
    Handlers,       \* bound: HTTP requests served at the same time
    Ops,            \* bound: the requests clients send
    Policies,       \* bound: the restart policies deploys and reloads ask for
    BootRows,       \* rows the registry may hold when the daemon starts
    MayShutDown     \* whether SIGINT or SIGTERM may arrive

ASSUME PoliciesAssumption == Policies \subseteq RestartPolicy
ASSUME TasksAssumption == Tasks = Tickers \cup Handlers
ASSUME BootRowsAssumption == BootRows \subseteq Row \cup {NoRow}
ASSUME MayShutDownAssumption == MayShutDown \in BOOLEAN

vars == <<os, procs, pidfile, rows, shutdown, taken, lock, pc, cur, snap, todo>>

\* Stages of serve() and stop_all(): serving; the flag is set; the children
\* are taken from procs; SIGTERM is sent and they are awaited; serve returned.
Stages == {"serving", "flagged", "taken", "awaiting", "down"}

TypeOK ==
    /\ OsTypeOK
    /\ procs \in [Apps -> Managed]
    /\ pidfile \in [Apps -> Pids \cup {NoPid}]
    /\ rows \in [Apps -> Row \cup {NoRow}]
    /\ shutdown \in Stages
    /\ taken \in SUBSET Pids
    /\ lock \in Tasks \cup {NoTask}
    /\ pc \in [Tasks -> PCs]
    /\ cur \in [Tasks -> Apps \cup {NoApp}]
    /\ snap \in [Tasks -> [Apps -> Row \cup {NoRow}]]
    /\ todo \in [Tasks -> SUBSET Apps]

\* What a task remembers is still good when it uses it: the app it works on is
\* an app, registered when a row is about to be written, and the rows that a
\* loop goes through were registered when they were listed.
TaskMemory ==
    \A t \in Tasks :
        /\ pc[t] \in {"request_restart", "set_desired", "pidfile"} => cur[t] \in Apps
        /\ pc[t] = "set_desired" => rows[cur[t]] # NoRow
        /\ pc[t] = "fleet" => \A a \in todo[t] : rows[a] # NoRow /\ snap[t][a] # NoRow
        /\ pc[t] \in {"drive", "pidfile"} => \A a \in todo[t] : snap[t][a] # NoRow

\* Every variable keeps its type, and no task writes the row of an app that is
\* not registered or drives an app it has not listed.
TypeInv == TypeOK /\ TaskMemory

Init ==
    /\ OsInit
    /\ procs = [a \in Apps |-> Untracked]
    /\ pidfile = [a \in Apps |-> NoPid]
    /\ rows \in [Apps -> BootRows]
    /\ shutdown = "serving"
    /\ taken = {}
    /\ lock = NoTask
    /\ pc = [t \in Tasks |-> "idle"]
    /\ cur = [t \in Tasks |-> NoApp]
    /\ snap = [t \in Tasks |-> NoSnap]
    /\ todo = [t \in Tasks |-> {}]

-----------------------------------------------------------------------------
\* The reconcile loop of serve(): once a second.
Tick(t) ==
    /\ t \in Tickers
    /\ pc[t] = "idle" /\ shutdown # "down"
    /\ Goto(t, "check")
    /\ UNCHANGED <<os, procs, pidfile, rows, shutdown, taken, lock, cur, snap, todo>>

\* A request of kind op for app a reaches an idle handler: its first write
\* makes a's row r, and the handler goes on at label.
Begin(t, op, a, r, label) ==
    /\ t \in Handlers /\ op \in Ops
    /\ pc[t] = "idle" /\ shutdown # "down"
    /\ rows' = [rows EXCEPT ![a] = r]
    /\ Goto(t, label)
    /\ cur' = [cur EXCEPT ![t] = IF label = "check" THEN NoApp ELSE a]
    /\ UNCHANGED <<os, procs, pidfile, shutdown, taken, lock, snap, todo>>

Registered(a) == rows[a] # NoRow

\* upsert_app: a new row or a replaced one, desired = running either way.
Deploy(t, a, v, pol) ==
    Begin(t, "deploy", a, [desired |-> "running", rev |-> v, policy |-> pol],
          "request_restart")

Restart(t, a) ==
    /\ Registered(a)
    /\ Begin(t, "restart", a, [rows[a] EXCEPT !.desired = "running"],
             "request_restart")

\* update_app_config; set_desired is the next write.
Reload(t, a, v, pol) ==
    /\ Registered(a)
    /\ Begin(t, "reload", a, [rows[a] EXCEPT !.rev = v, !.policy = pol],
             "set_desired")

\* set_app_artifact; set_desired is the next write.
Rollback(t, a, v) ==
    /\ Registered(a)
    /\ rows[a].rev # v
    /\ Begin(t, "rollback", a, [rows[a] EXCEPT !.rev = v], "set_desired")

Stop(t, a) ==
    /\ Registered(a)
    /\ Begin(t, "stop", a, [rows[a] EXCEPT !.desired = "stopped"], "check")

Start(t, a) ==
    /\ Registered(a)
    /\ Begin(t, "start", a, [rows[a] EXCEPT !.desired = "running"], "check")

\* registry.set_desired(name, "running") in reload and rollback.
SetDesiredRunning(t) ==
    /\ pc[t] = "set_desired"
    /\ rows' = [rows EXCEPT ![cur[t]].desired = "running"]
    /\ Goto(t, "request_restart")
    /\ UNCHANGED <<os, procs, pidfile, shutdown, taken, lock, cur, snap, todo>>

\* fleet_set(status): list the rows, then write the ones that differ one by one.
\* The wanted status is kept in the list, as the rows the loop will write.
Fleet(t, status) ==
    /\ t \in Handlers /\ "fleet" \in Ops
    /\ pc[t] = "idle" /\ shutdown # "down"
    /\ snap' = [snap EXCEPT ![t] =
           [a \in Apps |-> IF Registered(a) THEN [rows[a] EXCEPT !.desired = status]
                                            ELSE NoRow]]
    /\ todo' = [todo EXCEPT ![t] = {a \in Apps : Registered(a) /\ rows[a].desired # status}]
    /\ Goto(t, "fleet")
    /\ UNCHANGED <<os, procs, pidfile, rows, shutdown, taken, lock, cur>>

FleetSet(t, a) ==
    /\ pc[t] = "fleet" /\ a \in todo[t]
    /\ rows' = [rows EXCEPT ![a].desired = snap[t][a].desired]
    /\ Finished(t, a)
    /\ UNCHANGED <<os, procs, pidfile, shutdown, taken, lock, pc, cur, snap>>

EndFleet(t) ==
    /\ pc[t] = "fleet" /\ todo[t] = {}
    /\ snap' = [snap EXCEPT ![t] = NoSnap]
    /\ Goto(t, "check")
    /\ UNCHANGED <<os, procs, pidfile, rows, shutdown, taken, lock, cur, todo>>

Request(t) ==
    \/ \E status \in {"running", "stopped"} : Fleet(t, status)
    \/ \E a \in Apps :
          \/ Restart(t, a) \/ Stop(t, a) \/ Start(t, a)
          \/ \E v \in Revs :
                \/ Rollback(t, a, v)
                \/ \E pol \in Policies : Deploy(t, a, v, pol) \/ Reload(t, a, v, pol)

\* A step of a handler or of a pass that has begun.
TaskStep(t) ==
    \/ SetDesiredRunning(t) \/ RequestRestart(t) \/ PassStep(t)
    \/ EndFleet(t) \/ \E a \in Apps : FleetSet(t, a)

-----------------------------------------------------------------------------
\* stop_all().  Passes and handlers that are past the gate keep running.

Stopper(from, to) == shutdown = from /\ shutdown' = to

\* SIGINT or SIGTERM: serve() leaves the select and sets the flag.
ShutdownSignal ==
    /\ MayShutDown
    /\ Stopper("serving", "flagged")
    /\ UNCHANGED <<os, procs, pidfile, rows, taken, lock, pc, cur, snap, todo>>

\* Faulty variant: a child that was already told to exit is not taken.
TakeRunning ==
    /\ Stopper("flagged", "taken")
    /\ lock = NoTask
    /\ taken' = {p \in Pids : \E a \in Apps : procs[a].child = p /\ procs[a].term = "none"}
    /\ procs' = [a \in Apps |-> [procs[a] EXCEPT !.child = NoPid]]
    /\ UNCHANGED <<os, pidfile, rows, lock, pc, cur, snap, todo>>

\* Under the mutex: take every child out of its entry; the pid stays there.
TakeChildren ==
    /\ Stopper("flagged", "taken")
    /\ lock = NoTask
    /\ taken' = {p \in Pids : \E a \in Apps : procs[a].child = p /\ procs[a].pid # NoPid}
    /\ procs' = [a \in Apps |-> IF procs[a].pid = NoPid THEN procs[a]
                                ELSE [procs[a] EXCEPT !.child = NoPid]]
    /\ UNCHANGED <<os, pidfile, rows, lock, pc, cur, snap, todo>>

TermTaken ==
    /\ Stopper("taken", "awaiting")
    /\ os' = Termed(taken)
    /\ UNCHANGED <<procs, pidfile, rows, taken, lock, pc, cur, snap, todo>>

\* child.wait() returns.
ReapTaken(p) ==
    /\ shutdown = "awaiting"
    /\ p \in taken /\ os[p].st = "zombie"
    /\ os' = Waited(p)
    /\ taken' = taken \ {p}
    /\ UNCHANGED <<procs, pidfile, rows, shutdown, lock, pc, cur, snap, todo>>

\* Faulty variant: SIGTERM again instead of SIGKILL.
TermTakenAgain(p) ==
    /\ shutdown = "awaiting"
    /\ p \in taken /\ Writing(p)
    /\ os' = Termed({p})
    /\ UNCHANGED <<procs, pidfile, rows, shutdown, taken, lock, pc, cur, snap, todo>>

\* Faulty variant: after the grace period a straggler is let go.
GiveUpTaken(p) ==
    /\ shutdown = "awaiting"
    /\ p \in taken /\ Writing(p)
    /\ taken' = taken \ {p}
    /\ UNCHANGED <<os, procs, pidfile, rows, shutdown, lock, pc, cur, snap, todo>>

\* The grace period is over: start_kill().
KillTaken(p) ==
    /\ shutdown = "awaiting"
    /\ p \in taken /\ Writing(p)
    /\ os' = Killed({p})
    /\ UNCHANGED <<procs, pidfile, rows, shutdown, taken, lock, pc, cur, snap, todo>>

\* Under the mutex: remove the pidfile of every entry; serve() returns.
ClearPidfiles ==
    /\ Stopper("awaiting", "down")
    /\ taken = {} /\ lock = NoTask
    /\ pidfile' = [a \in Apps |-> IF procs[a].tracked THEN NoPid ELSE pidfile[a]]
    /\ UNCHANGED <<os, procs, rows, taken, lock, pc, cur, snap, todo>>

StopAll ==
    \/ TakeChildren \/ TermTaken \/ ClearPidfiles
    \/ \E p \in Pids : ReapTaken(p) \/ KillTaken(p)

-----------------------------------------------------------------------------
Next ==
    \/ \E t \in Tasks : Tick(t) \/ Request(t) \/ TaskStep(t)
    \/ ShutdownSignal
    \/ StopAll
    \/ \E p \in Pids : Exit(p)
    \/ \E a \in Apps : DeadlinePasses(a) \/ BackoffExpires(a)

Spec == Init /\ [][Next]_vars

\* Tasks that have begun go on, and the tick comes back every second.  The
\* procs mutex is not fair, but no task holds it for longer than one pass and
\* the loop sleeps between two, so a waiter gets it in the end (strong
\* fairness).  A process need not exit on SIGTERM; after SIGKILL it does.
Fairness ==
    /\ \A t \in Tasks :
          /\ WF_vars(Tick(t))
          /\ WF_vars(TaskStep(t))
          /\ SF_vars(LockProcs(t))
          /\ SF_vars(RequestRestart(t))
    /\ WF_vars(StopAll) /\ SF_vars(TakeChildren) /\ SF_vars(ClearPidfiles)
    /\ \A p \in Pids : WF_vars(os[p].sig = "kill" /\ Exit(p))
    /\ \A a \in Apps : WF_vars(DeadlinePasses(a)) /\ WF_vars(BackoffExpires(a))

FairSpec == Spec /\ Fairness

-----------------------------------------------------------------------------
\* Until stop_all takes the children, procs holds every one of them.
OwnsChildren == shutdown \in {"serving", "flagged"}

\* Nothing in flight: no handler and no pass.
Quiet == \A t \in Tasks : pc[t] = "idle"

\* A process number in an entry or in a pidfile belongs to a process of that
\* very app: no signal nockd sends by number, now or after a crash, reaches
\* another app's process, although numbers are reused.
SignalsStayHome ==
    OwnsChildren =>
        \A a \in Apps : \A p \in {procs[a].pid, pidfile[a]} \ {NoPid} :
            os[p].app = a

\* The single-writer guarantee of DESIGN principle 8: whatever tick, deploys,
\* restarts and stops do at the same time, an app never has two processes that
\* may both go on writing its state directory.
OneWriter ==
    OwnsChildren =>
        \A p, q \in Pids :
            Writing(p) /\ Writing(q) /\ os[p].app = os[q].app => p = q

\* The same with processes that are being killed counted too: a new instance
\* starts only after the old one is gone (true while no app is dropped).
OneProcess ==
    OwnsChildren =>
        \A p, q \in Pids : Up(p) /\ Up(q) /\ os[p].app = os[q].app => p = q

\* If the daemon dies now, its successor finds every process that will not go
\* away by itself in a pidfile, except the one a pass has spawned and not yet
\* recorded.
Recoverable ==
    OwnsChildren =>
        \A p \in Pids : Writing(p) =>
            \/ pidfile[os[p].app] = p
            \/ \E t \in Tasks : pc[t] = "pidfile" /\ cur[t] = os[p].app

\* What status() reports once the mutex is free: Running and Stopping exactly
\* for the apps with a process, Stopping only for one that was told to stop.
StatusTruth ==
    OwnsChildren /\ lock = NoTask =>
        \A a \in Apps :
            LET m == procs[a]
            IN  /\ m.state \in {"Running", "Stopping"} <=> m.child # NoPid
                /\ m.state = "Stopping" => m.term # "none"

\* A process nockd itself has told to exit is never counted as a crash: the
\* restart counter moves only for a failed spawn or an exit nobody asked for.
NoPenaltyForAskedExit ==
    [][OwnsChildren =>
          \A a \in Apps :
              procs'[a].restarts > procs[a].restarts =>
                  \/ procs[a].child = NoPid
                  \/ os[procs[a].child].sig = "none"]_vars

-----------------------------------------------------------------------------
\* The life of an app's instance, read off its entry and its process.
InstancePhase(proc) ==
    CASE proc.st = "zombie"                     -> "ended"
      [] proc.st = "up" /\ proc.sig = "none"    -> "running"
      [] proc.st = "up" /\ proc.sig = "term"    -> "asked"
      [] proc.st = "up" /\ proc.sig = "kill"    -> "killed"

PhaseOf(a) ==
    LET c == procs[a].child
    IN  IF c = NoPid THEN "none" ELSE InstancePhase(os[c])

Lifecycle == INSTANCE AppLifecycle WITH phase <- [a \in Apps |-> PhaseOf(a)]

\* The daemon implements AppLifecycle while it serves apps that are all in the
\* registry: whatever tasks interleave, an instance starts after the one before
\* was collected, and is killed only after SIGTERM.
ImplementsLifecycle == Lifecycle!Spec

-----------------------------------------------------------------------------
\* Once nothing is in flight, an app that should run and that nobody has told
\* to exit runs the revision of its row: a deploy, reload or rollback has been
\* applied.  api.rs says so of deploy; it fails when a pass lists the old row,
\* the handler writes the new one and asks for the restart, and that pass then
\* restarts the old revision.
RevisionApplied ==
    Quiet /\ OwnsChildren =>
        \A p \in Pids :
            LET r == rows[os[p].app]
            IN  Writing(p) /\ os[p].sig = "none" /\ r.desired = "running"
                => os[p].rev = r.rev

\* Passes that are past the gate go on while stop_all takes the children, waits
\* for them and clears the pidfiles.  Whatever the two do in between, a process
\* that may go on running is in exactly one pair of hands: stop_all awaits it,
\* or it is the child of its app's entry, so that no process is lost between
\* the two, none is waited for twice, and a pass that comes after stop_all has
\* taken the children starts at most one process for an app.
HandedOver ==
    /\ \A p \in Pids : Writing(p) => p \in taken \/ procs[os[p].app].child = p
    /\ \A p \in taken : \A a \in Apps : procs[a].child # p

\* "Apps do not survive" the daemon: nothing that may go on running is left
\* when serve() has returned and the last task has finished.
NothingSurvives ==
    shutdown = "down" /\ Quiet => \A p \in Pids : ~Writing(p)

-----------------------------------------------------------------------------
Runs(a) == \E p \in Pids : Up(p) /\ os[p].app = a

Wants(a, status) == Registered(a) /\ rows[a].desired = status

\* An app whose row stays stopped ends up without a process for good, even one
\* that ignores SIGTERM and whatever passes with older rows are still running.
StoppedAppsStop ==
    \A a \in Apps : <>[]Wants(a, "stopped") => <>[]~Runs(a)

\* An app whose row stays running comes back after every exit, unless its
\* policy is never.
RunningAppsRun ==
    \A a \in Apps :
        <>[](Wants(a, "running") /\ rows[a].policy # "never") => []<>Runs(a)

\* A termination that has begun comes to its end, by SIGKILL if need be, unless
\* restart requests keep moving its deadline.
TerminationEnds ==
    <>[](\A t \in Tasks : pc[t] # "request_restart") =>
        \A a \in Apps : []<>(procs[a].term = "none")

\* Every request is answered: no handler waits for ever for the procs mutex.
RequestsFinish ==
    \A t \in Handlers : pc[t] # "idle" ~> pc[t] = "idle"

\* The restart an operator asks for starts the app "fresh (no crash penalty)"
\* (supervisor.rs), unless it is stopped again.
RestartStarts ==
    \A a \in Apps :
        (\E t \in Tasks : pc[t] = "request_restart" /\ cur[t] = a)
            ~> (Runs(a) \/ Wants(a, "stopped"))

\* stop_all comes to its end: it gets the mutex twice and outlasts processes
\* that ignore SIGTERM.  When no pass was in flight at the signal, no process
\* is left.
ShutdownEnds == shutting_down ~> (shutdown = "down" /\ Quiet)

QuietShutdownIsClean ==
    (shutdown = "flagged" /\ \A t \in Tasks : pc[t] \notin InPass)
        ~> (shutdown = "down" /\ \A a \in Apps : ~Runs(a))
=============================================================================
