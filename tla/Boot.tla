---------------------------------- MODULE Boot ----------------------------------
(***************************************************************************)
(* Several lives of the nockd daemon on one data root: a life that ends in *)
(* a crash, in a failed bind or in a clean shutdown leaves the registry,   *)
(* the pidfiles and whatever app processes still run to the next one,      *)
(* which calls cleanup_orphans before it serves (serve() in                *)
(* src/src/daemon.rs, cleanup_orphans() in src/src/supervisor.rs).         *)
(* Strangers are processes nockd did not start; they may get any free pid. *)
(***************************************************************************)
EXTENDS Daemon

CONSTANTS
    MaxLives,      \* bound: how often the daemon is started
    MaxStrangers   \* bound: unrelated processes alive at the same time

ASSUME MaxLivesAssumption == MaxLives \in Nat \ {0}
ASSUME MaxStrangersAssumption == MaxStrangers \in Nat

VARIABLES
    boot,     \* how far serve() has come
    lives,    \* how often the daemon has been started
    left,     \* apps cleanup_orphans has still to look at
    killed,   \* cleanup_orphans' list of the pids it sent SIGTERM
    lost      \* auxiliary: processes of earlier lives that no pidfile names

bootVars == <<boot, lives, left, killed, lost>>
allVars == <<vars, bootVars>>

\* No daemon; cleanup_orphans' loop over the apps; its wait for the pids to
\* exit; the loops are spawned, the listener is not bound; serving.
BootStages == {"off", "cleanup", "grace", "ticking", "serving"}

\* The loops of serve() have been spawned.
Looping == boot \in {"ticking", "serving"}

Stranger(p) == Up(p) /\ os[p].app = NoApp
Writer(p) == Writing(p) /\ os[p].app \in Apps

BootTypeOK ==
    /\ TypeInv
    /\ boot \in BootStages
    /\ lives \in 0..MaxLives
    /\ left \in SUBSET Apps
    /\ killed \in SUBSET Pids
    /\ lost \in SUBSET Pids

BootInit ==
    /\ Init
    /\ boot = "off" /\ lives = 0
    /\ left = {} /\ killed = {} /\ lost = {}

\* Writers that a daemon dying now leaves behind without a pidfile.
Unrecorded == {p \in Pids : Writer(p) /\ pidfile[os[p].app] # p}

-----------------------------------------------------------------------------
\* Daemon::open() takes the flock on the data root, which the kernel frees
\* when the holder dies: a second daemon fails here and changes nothing.
\* serve() then lists the apps for cleanup_orphans.
Launch ==
    /\ boot = "off"
    /\ lives < MaxLives
    /\ lives' = lives + 1
    /\ boot' = "cleanup"
    /\ left' = {a \in Apps : Registered(a)}
    /\ UNCHANGED <<vars, killed, lost>>

\* pid_alive(): signal 0 reaches whatever process has the number.
PidAlive(p) == p \in Pids /\ os[p].st # "free"

\* Faulty variant: the pid is not kept for the SIGKILL.
CleanupForgets(a) ==
    /\ boot = "cleanup" /\ a \in left
    /\ os' = Termed({pidfile[a]})
    /\ pidfile' = [pidfile EXCEPT ![a] = NoPid]
    /\ left' = left \ {a}
    /\ UNCHANGED <<procs, rows, shutdown, taken, lock, pc, cur, snap, todo,
                   boot, lives, killed, lost>>

\* One round of cleanup_orphans' loop: SIGTERM the number in the pidfile if it
\* is in use, whoever uses it, and remove the pidfile.
CleanupApp(a) ==
    LET orphan == {p \in {pidfile[a]} : PidAlive(p)}
    IN  /\ boot = "cleanup" /\ a \in left
        /\ os' = Termed(orphan)
        /\ killed' = killed \cup orphan
        /\ pidfile' = [pidfile EXCEPT ![a] = NoPid]
        /\ left' = left \ {a}
        /\ UNCHANGED <<procs, rows, shutdown, taken, lock, pc, cur, snap, todo,
                       boot, lives, lost>>

EndCleanup ==
    /\ boot = "cleanup" /\ left = {}
    /\ boot' = IF killed = {} THEN "ticking" ELSE "grace"
    /\ UNCHANGED <<vars, lives, left, killed, lost>>

\* Faulty variant: whoever has not exited in time is left alone.
StragglersStay ==
    /\ boot = "grace"
    /\ killed' = {}
    /\ boot' = "ticking"
    /\ UNCHANGED <<vars, lives, left, lost>>

\* wait_for_exit() has returned, because every pid is gone or because the grace
\* period is over: SIGKILL for the numbers in use.  Nothing waits for the
\* processes to exit; serve() spawns its loops.
KillStragglers ==
    /\ boot = "grace"
    /\ os' = Killed({p \in killed : PidAlive(p)})
    /\ killed' = {}
    /\ boot' = "ticking"
    /\ UNCHANGED <<procs, pidfile, rows, shutdown, taken, lock, pc, cur, snap, todo,
                   lives, left, lost>>

Bind ==
    /\ boot = "ticking"
    /\ boot' = "serving"
    /\ UNCHANGED <<vars, lives, left, killed, lost>>

\* The daemon process ends: its memory is gone, its zombies are collected by
\* init, its pidfiles and the app processes stay.
Die ==
    /\ boot' = "off"
    /\ os' = [p \in Pids |-> IF os[p].st = "zombie" THEN FreeSlot ELSE os[p]]
    /\ procs' = [a \in Apps |-> Untracked]
    /\ shutdown' = "serving"
    /\ taken' = {}
    /\ lock' = NoTask
    /\ pc' = [t \in Tasks |-> "idle"]
    /\ cur' = [t \in Tasks |-> NoApp]
    /\ snap' = [t \in Tasks |-> NoSnap]
    /\ todo' = [t \in Tasks |-> {}]
    /\ left' = {} /\ killed' = {}
    /\ lost' = lost \cup Unrecorded
    /\ UNCHANGED <<pidfile, rows, lives>>

\* SIGKILL, a panic or a power cut: at any moment.  A signal that comes before
\* serve() has installed its handlers ends the daemon in the same way.
Crash == boot # "off" /\ Die

\* The address is taken: serve() returns without stop_all.  The runtime lets a
\* pass that is running end before the process exits.
BindFails == boot = "ticking" /\ Quiet /\ Die

\* serve() returns after stop_all.
ServeReturns == shutdown = "down" /\ Quiet /\ Die

\* An unrelated process starts and gets a free number.
StrangerStarts(p) ==
    /\ Cardinality({q \in Pids : Stranger(q)}) < MaxStrangers
    /\ p \in FreePids
    /\ os' = Started(p, NoApp, NoRev)
    /\ UNCHANGED <<procs, pidfile, rows, shutdown, taken, lock, pc, cur, snap, todo,
                   bootVars>>

\* A process exits; once it has, nobody need find it any more.
ExitAnyLife(p) ==
    /\ Exit(p)
    /\ lost' = lost \ {p}
    /\ UNCHANGED <<boot, lives, left, killed>>

\* What Daemon describes, when the daemon has come so far.
DaemonStep ==
    \/ Looping /\ \E t \in Tasks : Tick(t) \/ TaskStep(t)
    \/ boot = "serving" /\ (ShutdownSignal \/ StopAll \/ \E t \in Tasks : Request(t))
    \/ \E a \in Apps : DeadlinePasses(a) \/ BackoffExpires(a)

BootNext ==
    \/ Launch \/ EndCleanup \/ KillStragglers \/ Bind
    \/ \E a \in Apps : CleanupApp(a)
    \/ Crash \/ BindFails \/ ServeReturns
    \/ \E p \in Pids : StrangerStarts(p) \/ ExitAnyLife(p)
    \/ DaemonStep /\ UNCHANGED bootVars

BootSpec == BootInit /\ [][BootNext]_allVars

-----------------------------------------------------------------------------
\* DESIGN principle 8 ("no reconcile bug, restart, or upgrade may ever start a
\* second writer against one state dir") as far as it holds over several lives:
\* two processes that may both go on writing an app's state directory are there
\* only if a daemon died before a pidfile named one of them or after
\* cleanup_orphans had removed it.
OneWriterUnlessLost ==
    OwnsChildren =>
        \A p, q \in Pids :
            Writer(p) /\ Writer(q) /\ os[p].app = os[q].app
                => p = q \/ p \in lost \/ q \in lost

\* What cleanup_orphans is for: once the loops run, a process that may go on
\* writing is in the table of this life, where stops and restarts find it.
BlankSlateUnlessLost ==
    Looping /\ OwnsChildren =>
        \A p \in Pids : Writer(p) => procs[os[p].app].child = p \/ p \in lost

\* Only three moments lose a process: a death during the start-up cleanup, one
\* between a spawn and its pidfile, and one while stop_all is at work.  A crash
\* at any other time leaves every process to the next life's cleanup.
LostOnlyInWindows ==
    [][\/ lost' \subseteq lost
       \/ boot \in {"cleanup", "grace"}
       \/ \E t \in Tasks : pc[t] = "pidfile"
       \/ ~OwnsChildren]_allVars

\* nockd keeps the numbers it signals from being reused, by not waiting for the
\* process they belong to: a stranger is signalled only at start-up, where the
\* pidfiles may be older than the machine's last boot, and in the shutdown,
\* where the entries keep the pids of the children stop_all has collected.
StrangersSpared ==
    [][\A p \in Pids :
          Stranger(p) /\ Up(p)' /\ os'[p].sig # os[p].sig =>
              boot \in {"cleanup", "grace"} \/ ~OwnsChildren]_allVars
=============================================================================
