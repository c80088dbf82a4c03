----------------------------- MODULE OsProcess -----------------------------
(***************************************************************************)
(* The operating system as nockd sees it (external to the repository): a   *)
(* table of process ids, the signals sent to them and the zombies their    *)
(* parent has not waited for.  nockd spawns app binaries with tokio's      *)
(* Command, signals them by number with kill(2) and collects them through  *)
(* the Child handle.                                                       *)
(***************************************************************************)
CONSTANTS
    Apps,    \* app names
    NoApp,   \* owner of a free pid
    Revs,    \* what one spawn of an app runs: artifact, args, port, endpoint
    NoRev,   \* revision of a free pid
    Pids,    \* process ids, reused after the process has been reaped
    NoPid    \* None where the code has Option<u32>

ASSUME NoAppAssumption == NoApp \notin Apps
ASSUME NoPidAssumption == NoPid \notin Pids

VARIABLE
    os       \* os[p]: the process that has pid p, if any

Proc == [st  : {"free", "up", "zombie"},
         app : Apps \cup {NoApp},
         rev : Revs \cup {NoRev},
         sig : {"none", "term", "kill"}]  \* the strongest signal delivered

FreeSlot == [st |-> "free", app |-> NoApp, rev |-> NoRev, sig |-> "none"]

OsTypeOK == os \in [Pids -> Proc]

OsInit == os = [p \in Pids |-> FreeSlot]

Up(p) == os[p].st = "up"

FreePids == {p \in Pids : os[p].st = "free"}

\* A process that still runs and that nobody has sent SIGKILL: it may go on
\* writing its app's state directory for as long as it likes.
Writing(p) == Up(p) /\ os[p].sig # "kill"

-----------------------------------------------------------------------------
\* The process table after Command::spawn starts revision r of app a as p.
Started(p, a, r) ==
    [os EXCEPT ![p] = [st |-> "up", app |-> a, rev |-> r, sig |-> "none"]]

\* After kill(p, SIGTERM) for every p in P: a request the process may ignore.
\* It changes nothing for a zombie, for a free pid or for NoPid.
Termed(P) ==
    [p \in Pids |-> IF p \in P /\ Up(p) /\ os[p].sig = "none"
                    THEN [os[p] EXCEPT !.sig = "term"] ELSE os[p]]

\* After kill(p, SIGKILL) for every p in P: the process exits, not at once.
Killed(P) ==
    [p \in Pids |-> IF p \in P /\ Up(p)
                    THEN [os[p] EXCEPT !.sig = "kill"] ELSE os[p]]

\* After wait(2) on the exited process p: its pid may be used again.
Waited(p) == [os EXCEPT ![p] = FreeSlot]

\* Process p exits, by itself or from a signal.  It stays a zombie while a
\* Child handle of the daemon refers to it; the pid of a process whose handle
\* was dropped is reaped by tokio's orphan queue.
ProcExit(p, held) ==
    /\ Up(p)
    /\ os' = IF held THEN [os EXCEPT ![p].st = "zombie"] ELSE Waited(p)
=============================================================================
