-------------------------- MODULE LifecycleProofs --------------------------
(***************************************************************************)
(* More theorems about Daemon, over those of DaemonProofs: what an entry   *)
(* says of its process (status() is right, an exit nockd asked for is no   *)
(* crash), the one-process guarantee for apps that were registered before  *)
(* the daemon started, the refinement of AppLifecycle, and who holds a     *)
(* process while the daemon shuts down.                                    *)
(***************************************************************************)
EXTENDS DaemonProofs

-----------------------------------------------------------------------------
(***************************************************************************)
(* What an entry knows of its process.  The termination deadline is the    *)
(* only trace the daemon keeps of the signals it sent, and the state the   *)
(* only thing status() shows: both must follow the child through requests, *)
(* passes and exits that interleave.                                       *)
(***************************************************************************)

\* A termination is under way exactly when the child was signalled, except
\* that an exit may come before the signal.
TermTruth(a) ==
    LET m == procs[a]
    IN  /\ m.child = NoPid => m.term = "none"
        /\ m.child # NoPid =>
              /\ os[m.child].sig # "none" => m.term # "none"
              /\ Up(m.child) /\ m.term # "none" => os[m.child].sig # "none"

\* The state shows a process exactly when there is one.
StateTruth(a) ==
    LET m == procs[a]
    IN  /\ m.state \in {"Running", "Stopping"} <=> m.child # NoPid
        /\ m.state = "Stopping" => m.term # "none"

EntryTruth == OwnsChildren => \A a \in Apps : TermTruth(a) /\ StateTruth(a)

\* What most steps have in common: they change nothing of an entry or of a
\* process, and do not end the service.
Still ==
    /\ UNCHANGED <<os, procs, taken>>
    /\ OwnsChildren' = OwnsChildren
    /\ shutdown' = "down" => shutdown = "down"

LEMMA StillSteps ==
    ASSUME NEW t \in Tasks,
           \/ Tick(t) \/ Request(t) \/ SetDesiredRunning(t) \/ EndFleet(t)
           \/ \E a \in Apps : FleetSet(t, a)
           \/ ShutdownGate(t) \/ ListApps(t) \/ LockProcs(t)
           \/ EndReap(t) \/ EndDrop(t) \/ EndPass(t) \/ WritePidfile(t)
           \/ ShutdownSignal \/ UNCHANGED vars
    PROVE  Still
<1>1. CASE Request(t)
  BY <1>1 DEF Still, Request, Fleet, Restart, Stop, Start, Rollback, Deploy, Reload, Begin,
              OwnsChildren
<1>2. CASE ~Request(t)
  BY <1>2 DEF Still, Tick, SetDesiredRunning, EndFleet, FleetSet, ShutdownGate, ListApps,
              LockProcs, EndReap, EndDrop, EndPass, WritePidfile, ShutdownSignal,
              Stopper, OwnsChildren, vars
<1>3. QED
  BY <1>1, <1>2

\* The steps that concern one app.
AppStep(t, a) ==
    \/ RequestRestart(t) /\ a = cur[t]
    \/ ReapExited(t, a) \/ Escalate(t, a) \/ DropApp(t, a)
    \/ DriveStop(t, a) \/ DriveStopped(t, a) \/ DriveRunning(t, a)
    \/ DriveHeldBack(t, a) \/ SpawnFails(t, a) \/ \E p \in Pids : Spawn(t, a, p)

\* They leave the other apps' entries alone, and their children: a pid in an
\* entry is no other app's, and a new process has a pid no entry knows.
Local(a) ==
    \A b \in Apps \ {a} :
        /\ procs'[b] = procs[b]
        /\ procs[b].child # NoPid => os'[procs[b].child] = os[procs[b].child]

LEMMA AppStepsAreLocal ==
    ASSUME TypeInv, EntriesOwn, OwnsChildren,
           NEW t \in Tasks, NEW a \in Apps, AppStep(t, a)
    PROVE  Local(a)
<1>1. /\ EntriesOwn
      /\ os \in [Pids -> Proc] /\ procs \in [Apps -> Managed]
  BY DEF Ownership, TypeInv, TypeOK, OsTypeOK
<1>2. PICK c : c = procs[a].child /\ c = procs[a].pid /\ c \in Pids \cup {NoPid}
  BY <1>1 DEF EntriesOwn, Managed
<1>3. \A b \in Apps \ {a} :
         procs[b].child \in Pids \cup {NoPid}
         /\ (procs[b].child # NoPid => procs[b].child # c)
  BY <1>1, <1>2 DEF EntriesOwn, Managed
<1>4. \E m : procs' = [procs EXCEPT ![a] = m]
  <2>1. CASE RequestRestart(t) /\ a = cur[t]
    BY <2>1 DEF RequestRestart, SetEntry
  <2>2. CASE Escalate(t, a)
    BY <1>1, <2>2 DEF Escalate
  <2>3. CASE DriveStop(t, a)
    BY <2>3 DEF DriveStop, SetEntry
  <2>4. CASE ~Escalate(t, a) /\ ~DriveStop(t, a) /\ ~(RequestRestart(t) /\ a = cur[t])
    BY <2>4 DEF AppStep, ReapExited, DropApp, DriveStopped, DriveRunning,
                DriveHeldBack, SpawnFails, Spawn, SetEntry
  <2>5. QED
    BY <2>1, <2>2, <2>3, <2>4 DEF AppStep
<1>5. \/ os' \in {os, Termed({c}), Killed({c}), Waited(c)}
      \/ \E p \in FreePids : \E r : os' = Started(p, a, r)
  <2>1. CASE RequestRestart(t) /\ a = cur[t]
    BY <1>2, <2>1 DEF RequestRestart
  <2>2. CASE Escalate(t, a) \/ DropApp(t, a) \/ DriveStop(t, a) \/ ReapExited(t, a)
    BY <1>1, <1>2, <2>2, EntryFields DEF Escalate, DropApp, DriveStop, ReapExited
  <2>3. ASSUME NEW p \in Pids, Spawn(t, a, p)
        PROVE  \E q \in FreePids : \E r : os' = Started(q, a, r)
    BY <2>3 DEF Spawn
  <2>4. CASE \/ DriveStopped(t, a) \/ DriveRunning(t, a)
             \/ DriveHeldBack(t, a) \/ SpawnFails(t, a)
    BY <2>4 DEF DriveStopped, DriveRunning, DriveHeldBack, SpawnFails
  <2>5. QED
    BY <2>1, <2>2, <2>3, <2>4 DEF AppStep
<1>6. \A p \in Pids : p # c /\ os[p].st # "free" => os'[p] = os[p]
  BY <1>1, <1>5 DEF Termed, Killed, Waited, Started, FreePids
<1>7. \A b \in Apps : procs[b].child # NoPid => os[procs[b].child].st # "free"
  BY <1>1 DEF EntriesOwn
<1>8. QED
  BY <1>3, <1>4, <1>6, <1>7 DEF Local

\* What a step writes to the entry of its app, and to the app's process.
LEMMA AppStepKeepsTruth ==
    ASSUME TypeInv, EntriesOwn, OwnsChildren,
           NEW t \in Tasks, NEW a \in Apps, AppStep(t, a),
           TermTruth(a), StateTruth(a)
    PROVE  TermTruth(a)' /\ StateTruth(a)'
<1> USE DEF TermTruth, StateTruth, Up
<1>1. PICK m : m = procs[a]
  OBVIOUS
<1>2. PICK n : n = procs'[a]
  OBVIOUS
<1>3. /\ m \in Managed /\ m.pid = m.child /\ m.child \in Pids \cup {NoPid}
      /\ os \in [Pids -> Proc] /\ procs \in [Apps -> Managed]
      /\ m.child # NoPid => os[m.child].st # "free"
  BY <1>1 DEF Ownership, EntriesOwn, TypeInv, TypeOK, OsTypeOK, Managed
<1>4. /\ Entry(a) \in Managed
      /\ Entry(a).child = m.child /\ Entry(a).pid = m.pid
      /\ Entry(a).term = m.term /\ Entry(a).state = m.state
  BY <1>1, <1>3, EntryFields DEF Entry, Managed
<1>5. CASE RequestRestart(t) /\ a = cur[t]
  <2>1. PICK x : n = [m EXCEPT !.restart_requested = x, !.waiting = FALSE,
                         !.term = IF m.tracked /\ m.pid # NoPid THEN "pending" ELSE @]
    BY <1>1, <1>2, <1>3, <1>5 DEF RequestRestart, SetEntry
  <2>2. n.child = m.child /\ n.state = m.state
    BY <1>3, <2>1 DEF Managed
  <2>3. CASE m.tracked /\ m.pid # NoPid
    <3>1. n.term = "pending" /\ os' = Termed({m.child})
      BY <1>1, <1>3, <1>5, <2>1, <2>3 DEF RequestRestart, Managed
    <3>2. QED
      BY <1>1, <1>2, <1>3, <2>2, <2>3, <3>1 DEF Termed
  <2>4. CASE ~(m.tracked /\ m.pid # NoPid)
    <3>1. n.term = m.term /\ os' = os
      BY <1>1, <1>3, <1>5, <2>1, <2>4 DEF RequestRestart, Managed
    <3>2. QED
      BY <1>1, <1>2, <1>3, <2>2, <3>1
  <2>5. QED
    BY <2>3, <2>4
<1>6. CASE ReapExited(t, a)
  <2>1. n = AfterExit(m)
    BY <1>1, <1>2, <1>3, <1>6 DEF ReapExited, SetEntry
  <2>2. n.child = NoPid /\ n.state \in {"Stopped", "Backoff"}
    BY <1>3, <2>1 DEF AfterExit, Managed
  <2>3. n.term = "none"
    <3>1. CASE m.restart_requested
      BY <1>3, <2>1, <3>1 DEF AfterExit, Managed
    <3>2. CASE ~m.restart_requested
      BY <1>3, <2>1, <3>2 DEF AfterExit, Managed
    <3>3. QED
      BY <3>1, <3>2
  <2>4. QED
    BY <1>2, <2>2, <2>3
<1>7. CASE Escalate(t, a)
  <2>1. n = m /\ os' = IF m.term = "due" THEN Killed({m.child}) ELSE os
    BY <1>1, <1>2, <1>3, <1>7 DEF Escalate
  <2>2. QED
    BY <1>1, <1>2, <1>3, <2>1 DEF Killed
<1>8. CASE DropApp(t, a)
  BY <1>2, <1>3, <1>8 DEF DropApp, SetEntry, Untracked, DefaultEntry
<1>9. CASE DriveStop(t, a)
  <2>1. m.child # NoPid
    BY <1>4, <1>9 DEF DriveStop
  <2>2. CASE m.term = "none"
    <3>1. n = [Entry(a) EXCEPT !.term = "pending", !.state = "Stopping"]
          /\ os' = Termed({m.child})
      BY <1>2, <1>3, <1>4, <1>9, <2>2 DEF DriveStop, SetEntry
    <3>2. n.child = m.child /\ n.term = "pending" /\ n.state = "Stopping"
      BY <1>4, <3>1 DEF Managed
    <3>3. QED
      BY <1>2, <1>3, <2>1, <3>1, <3>2 DEF Termed
  <2>3. CASE m.term # "none"
    <3>1. n = Entry(a) /\ os' = os
      BY <1>2, <1>3, <1>4, <1>9, <2>3 DEF DriveStop, SetEntry
    <3>2. QED
      BY <1>1, <1>2, <1>4, <3>1
  <2>4. QED
    BY <2>2, <2>3
<1>10. CASE DriveStopped(t, a)
  <2>1. n = [Entry(a) EXCEPT !.state = "Stopped", !.term = "none"] /\ m.child = NoPid
    BY <1>1, <1>2, <1>3, <1>10 DEF DriveStopped, SetEntry
  <2>2. QED
    BY <1>2, <1>4, <2>1 DEF Managed
<1>11. CASE DriveRunning(t, a)
  <2>1. n = [Entry(a) EXCEPT !.state = IF m.term = "none" THEN "Running" ELSE "Stopping"]
        /\ m.child # NoPid /\ os' = os
    BY <1>1, <1>2, <1>3, <1>4, <1>11 DEF DriveRunning, SetEntry
  <2>2. n.child = m.child /\ n.term = m.term
        /\ n.state = IF m.term = "none" THEN "Running" ELSE "Stopping"
    BY <1>4, <2>1 DEF Managed
  <2>3. QED
    BY <1>1, <1>2, <2>1, <2>2
<1>12. CASE DriveHeldBack(t, a) \/ SpawnFails(t, a)
  <2>1. m.child = NoPid
    BY <1>1, <1>12 DEF DriveHeldBack, SpawnFails, MaySpawn
  <2>2. n.child = NoPid /\ n.term = m.term /\ n.state \in {"Crashed", "Backoff"}
    <3>1. CASE DriveHeldBack(t, a)
      <4>1. n = [Entry(a) EXCEPT !.state = IF GivenUp(t, a) THEN "Crashed" ELSE "Backoff"]
        BY <1>2, <1>3, <3>1 DEF DriveHeldBack, SetEntry
      <4>2. QED
        BY <1>4, <2>1, <4>1 DEF Managed
    <3>2. CASE SpawnFails(t, a)
      <4>1. n = [Entry(a) EXCEPT !.restarts = NextRestarts(@), !.waiting = TRUE,
                                 !.state = "Backoff"]
        BY <1>2, <1>3, <3>2 DEF SpawnFails, SetEntry
      <4>2. QED
        BY <1>4, <2>1, <4>1 DEF Managed
    <3>3. QED
      BY <1>12, <3>1, <3>2
  <2>3. QED
    BY <1>1, <1>2, <2>1, <2>2
<1>13. ASSUME NEW p \in Pids, Spawn(t, a, p)
       PROVE  TermTruth(a)' /\ StateTruth(a)'
  <2>1. n = [Entry(a) EXCEPT !.child = p, !.pid = p, !.state = "Running",
                             !.term = "none", !.restart_requested = FALSE]
        /\ os'[p].sig = "none"
    BY <1>2, <1>3, <1>13 DEF Spawn, SetEntry, Started
  <2>2. n.child = p /\ n.state = "Running" /\ n.term = "none"
    BY <1>4, <2>1 DEF Managed
  <2>3. QED
    BY <1>2, <2>1, <2>2, NoPidAssumption
<1>14. QED
  BY <1>5, <1>6, <1>7, <1>8, <1>9, <1>10, <1>11, <1>12, <1>13 DEF AppStep

\* Time changes the clocks of an entry and nothing else.
LEMMA TimeTouchesClocks ==
    ASSUME TypeInv, NEW a \in Apps, DeadlinePasses(a) \/ BackoffExpires(a),
           NEW b \in Apps
    PROVE  /\ UNCHANGED <<os, pidfile, rows, shutdown, taken, lock, pc, cur, snap, todo>>
           /\ procs'[b].child = procs[b].child
           /\ procs'[b].state = procs[b].state
           /\ procs'[b].restarts = procs[b].restarts
           /\ \/ procs'[b].term = procs[b].term
              \/ procs[b].term = "pending" /\ procs'[b].term = "due"
<1>1. PICK m : m = procs[a] /\ m \in Managed
  BY DEF TypeInv, TypeOK
<1>2. procs \in [Apps -> Managed]
  BY DEF TypeInv, TypeOK
<1>3. \/ procs' = [procs EXCEPT ![a] = [m EXCEPT !.term = "due"]] /\ m.term = "pending"
      \/ procs' = [procs EXCEPT ![a] = [m EXCEPT !.waiting = FALSE]]
  BY <1>1 DEF DeadlinePasses, BackoffExpires, SetEntry
<1>4. PICK n : n = procs'[a]
  OBVIOUS
<1>5. /\ n.child = m.child /\ n.state = m.state /\ n.restarts = m.restarts
      /\ n.term = m.term \/ (m.term = "pending" /\ n.term = "due")
  BY <1>1, <1>2, <1>3, <1>4 DEF Managed
<1>6. CASE b = a
  BY <1>1, <1>4, <1>5, <1>6 DEF DeadlinePasses, BackoffExpires
<1>7. CASE b # a
  BY <1>2, <1>3, <1>7 DEF DeadlinePasses, BackoffExpires
<1>8. QED
  BY <1>6, <1>7

\* Neither time, nor an exit, nor another app's step undoes what an entry says.
LEMMA TimeKeepsTruth ==
    ASSUME TypeInv, NEW a \in Apps, DeadlinePasses(a) \/ BackoffExpires(a),
           NEW b \in Apps, TermTruth(b), StateTruth(b)
    PROVE  TermTruth(b)' /\ StateTruth(b)'
  BY TimeTouchesClocks DEF TermTruth, StateTruth, Up

LEMMA ExitKeepsTruth ==
    ASSUME TypeInv, NEW p \in Pids, Exit(p), NEW b \in Apps, TermTruth(b), StateTruth(b)
    PROVE  TermTruth(b)' /\ StateTruth(b)'
<1>1. PICK c : c = procs[b].child /\ c \in Pids \cup {NoPid}
  BY DEF TypeInv, TypeOK, Managed
<1>2. procs' = procs /\ os \in [Pids -> Proc]
  BY DEF Exit, TypeInv, TypeOK, OsTypeOK
<1>3. c \in Pids => os'[c].sig = os[c].sig /\ (os'[c].st = "up" => os[c].st = "up")
  BY <1>1, <1>2 DEF Exit, ProcExit, Held, Waited, Proc, Up
<1>4. QED
  BY <1>1, <1>2, <1>3 DEF TermTruth, StateTruth, Up

LEMMA LocalKeepsTruth ==
    ASSUME NEW a \in Apps, Local(a), NEW b \in Apps \ {a}, TermTruth(b), StateTruth(b)
    PROVE  TermTruth(b)' /\ StateTruth(b)'
<1>1. PICK c : c = procs[b].child
  OBVIOUS
<1>2. procs'[b] = procs[b] /\ (c # NoPid => os'[c] = os[c])
  BY <1>1 DEF Local
<1>3. QED
  BY <1>1, <1>2 DEF TermTruth, StateTruth, Up

\* Every step is still, concerns one app, or is time, an exit or stop_all's.
LEMMA StepKinds ==
    ASSUME TypeInv, [Next]_vars
    PROVE  \/ Still
           \/ \E t \in Tasks, a \in Apps : AppStep(t, a)
           \/ \E a \in Apps : DeadlinePasses(a) \/ BackoffExpires(a)
           \/ \E p \in Pids : Exit(p)
           \/ StopAll
<1>1. ASSUME NEW t \in Tasks, RequestRestart(t)
      PROVE  cur[t] \in Apps /\ AppStep(t, cur[t])
  BY <1>1 DEF AppStep, RequestRestart, TypeInv, TaskMemory
<1>2. ASSUME NEW t \in Tasks, PassStep(t)
      PROVE  \/ Still
             \/ \E a \in Apps : AppStep(t, a)
  BY <1>2, StillSteps DEF PassStep, AppStep
<1>3. ASSUME NEW t \in Tasks, Tick(t) \/ Request(t) \/ TaskStep(t)
      PROVE  \/ Still
             \/ \E a \in Apps : AppStep(t, a)
  <2>1. CASE PassStep(t)
    BY <1>2, <2>1
  <2>2. CASE RequestRestart(t)
    BY <1>1, <2>2
  <2>3. CASE ~PassStep(t) /\ ~RequestRestart(t)
    BY <1>3, <2>3, StillSteps DEF TaskStep
  <2>4. QED
    BY <2>1, <2>2, <2>3
<1>4. CASE ShutdownSignal \/ UNCHANGED vars
  BY <1>4 DEF Still, ShutdownSignal, Stopper, OwnsChildren, vars
<1>5. QED
  BY <1>3, <1>4 DEF Next

\* Nothing but stop_all touches the children it has taken, or ends the service.
LEMMA OnlyStopAllTakes ==
    ASSUME TypeInv, [Next]_vars, ~StopAll
    PROVE  /\ UNCHANGED taken /\ OwnsChildren' = OwnsChildren
           /\ shutdown' = "down" => shutdown = "down"
<1>1. ASSUME NEW t \in Tasks, NEW a \in Apps, AppStep(t, a)
      PROVE  UNCHANGED <<shutdown, taken>>
  BY <1>1 DEF AppStep, RequestRestart, ReapExited, Escalate, DropApp, DriveStop,
              DriveStopped, DriveRunning, DriveHeldBack, SpawnFails, Spawn
<1>2. QED
  BY <1>1, StepKinds DEF Still, DeadlinePasses, BackoffExpires, Exit, OwnsChildren

\* The children are in procs until stop_all takes them, and never again.
LEMMA ServedBefore ==
    ASSUME TypeInv, [Next]_vars, OwnsChildren'
    PROVE  OwnsChildren
<1>1. CASE StopAll
  BY <1>1 DEF StopAll, TakeChildren, TermTaken, ClearPidfiles, ReapTaken, KillTaken,
              Stopper, OwnsChildren
<1>2. QED
  BY <1>1, OnlyStopAllTakes

\* Every step of a life keeps what the entries say, as long as a pid in an entry
\* is no other app's.
LEMMA StepKeepsTruth ==
    ASSUME TypeInv, OwnsChildren => EntriesOwn, EntryTruth, [Next]_vars
    PROVE  EntryTruth'
<1> SUFFICES ASSUME OwnsChildren', NEW b \in Apps
             PROVE  TermTruth(b)' /\ StateTruth(b)'
  BY DEF EntryTruth
<1>1. ~StopAll
  BY DEF StopAll, TakeChildren, TermTaken, ClearPidfiles, ReapTaken, KillTaken,
         Stopper, OwnsChildren
<1>2. OwnsChildren
  BY ServedBefore
<1>3. TermTruth(b) /\ StateTruth(b)
  BY <1>2 DEF EntryTruth
<1>4. CASE Still
  BY <1>3, <1>4 DEF Still, TermTruth, StateTruth, Up
<1>5. ASSUME NEW t \in Tasks, NEW a \in Apps, AppStep(t, a)
      PROVE  TermTruth(b)' /\ StateTruth(b)'
  <2>1. CASE b = a
    BY <1>2, <1>3, <1>5, <2>1, AppStepKeepsTruth
  <2>2. CASE b # a
    BY <1>2, <1>3, <1>5, <2>2, AppStepsAreLocal, LocalKeepsTruth
  <2>3. QED
    BY <2>1, <2>2
<1>6. ASSUME NEW a \in Apps, DeadlinePasses(a) \/ BackoffExpires(a)
      PROVE  TermTruth(b)' /\ StateTruth(b)'
  BY <1>3, <1>6, TimeKeepsTruth
<1>7. ASSUME NEW p \in Pids, Exit(p)
      PROVE  TermTruth(b)' /\ StateTruth(b)'
  BY <1>3, <1>7, ExitKeepsTruth
<1>8. QED
  BY <1>1, <1>4, <1>5, <1>6, <1>7, StepKinds

\* An app without an entry has nothing to say.
LEMMA UntrackedTruth ==
    ASSUME NEW a \in Apps, procs[a] = Untracked
    PROVE  TermTruth(a) /\ StateTruth(a)
  BY DEF Untracked, DefaultEntry, TermTruth, StateTruth

\* What an entry says of its process stays true through every interleaving of
\* requests, passes, exits and time.
THEOREM EntriesTellTheTruth == Spec => []EntryTruth
<1>1. Init => EntryTruth
  BY UntrackedTruth DEF Init, EntryTruth
<1>2. TypeInv /\ Ownership /\ EntryTruth /\ [Next]_vars => EntryTruth'
  BY StepKeepsTruth DEF Ownership
<1>3. QED
  BY <1>1, <1>2, TypeCorrect, OwnershipInvariant, PTL DEF Spec

\* What status() reports is true whenever the mutex is free: Running and
\* Stopping exactly for the apps that have a process, Stopping only for one
\* that was told to stop.
THEOREM StatusIsTrue == Spec => []StatusTruth
<1>1. EntryTruth => StatusTruth
  BY DEF EntryTruth, StateTruth, StatusTruth
<1>2. QED
  BY <1>1, EntriesTellTheTruth, PTL

\* The restart counter moves when a spawn fails, for want of a process, or when
\* a child has exited that no termination was under way for.
LEMMA PenaltyIsForCrashes ==
    ASSUME TypeInv, NEW t \in Tasks, NEW a \in Apps, AppStep(t, a)
    PROVE  \/ procs'[a].restarts = procs[a].restarts
           \/ procs[a].child = NoPid
           \/ procs[a].term = "none"
           \/ procs'[a].restarts = 0
<1>1. PICK m : m = procs[a]
  OBVIOUS
<1>2. PICK n : n = procs'[a]
  OBVIOUS
<1>3. m \in Managed /\ procs \in [Apps -> Managed]
  BY <1>1 DEF TypeInv, TypeOK
<1>4. Entry(a) \in Managed /\ Entry(a).restarts = m.restarts
  BY <1>1, <1>3, EntryFields
<1>5. CASE RequestRestart(t) /\ a = cur[t]
  <2>1. PICK x, y : n = [m EXCEPT !.restart_requested = x, !.term = y, !.waiting = FALSE]
    BY <1>1, <1>2, <1>3, <1>5 DEF RequestRestart, SetEntry
  <2>2. QED
    BY <1>1, <1>2, <1>3, <2>1 DEF Managed
<1>6. CASE ReapExited(t, a) /\ m.term # "none"
  <2>1. n = AfterExit(m)
    BY <1>1, <1>2, <1>3, <1>6 DEF ReapExited, SetEntry
  <2>2. n.restarts = m.restarts
    <3>1. CASE m.restart_requested
      BY <1>3, <2>1, <3>1 DEF AfterExit, Managed
    <3>2. CASE ~m.restart_requested
      BY <1>3, <1>6, <2>1, <3>2 DEF AfterExit, Managed
    <3>3. QED
      BY <3>1, <3>2
  <2>3. QED
    BY <1>1, <1>2, <2>2
<1>7. CASE Escalate(t, a)
  BY <1>7 DEF Escalate
<1>8. CASE DropApp(t, a)
  BY <1>3, <1>8 DEF DropApp, SetEntry, Untracked, DefaultEntry
<1>9. CASE DriveStop(t, a)
  <2>1. n \in {Entry(a), [Entry(a) EXCEPT !.term = "pending", !.state = "Stopping"]}
    BY <1>2, <1>3, <1>9 DEF DriveStop, SetEntry
  <2>2. QED
    BY <1>1, <1>2, <1>4, <2>1 DEF Managed
<1>10. CASE DriveRunning(t, a)
  <2>1. PICK y : n = [Entry(a) EXCEPT !.state = y]
    BY <1>2, <1>3, <1>10 DEF DriveRunning, SetEntry
  <2>2. QED
    BY <1>1, <1>2, <1>4, <2>1 DEF Managed
<1>11. CASE \/ DriveStopped(t, a) \/ DriveHeldBack(t, a) \/ SpawnFails(t, a)
            \/ \E p \in Pids : Spawn(t, a, p)
  BY <1>11 DEF DriveStopped, DriveHeldBack, SpawnFails, Spawn, MaySpawn
<1>12. QED
  BY <1>1, <1>5, <1>6, <1>7, <1>8, <1>9, <1>10, <1>11 DEF AppStep

\* A step that counts a crash finds the app without a process, or with one that
\* was sent no signal.
LEMMA OnlyCrashesCount ==
    ASSUME TypeInv, EntriesOwn, EntryTruth, [Next]_vars, OwnsChildren,
           NEW a \in Apps, procs'[a].restarts > procs[a].restarts
    PROVE  procs[a].child = NoPid \/ os[procs[a].child].sig = "none"
<1> SUFFICES ASSUME procs[a].child # NoPid
             PROVE  os[procs[a].child].sig = "none"
  OBVIOUS
<1>1. procs[a] \in Managed /\ procs[a].restarts \in Nat
  BY RestartCapAssumption DEF TypeInv, TypeOK, Managed
<1>2. procs'[a].restarts # procs[a].restarts /\ procs'[a].restarts # 0
  BY <1>1
<1>3. TermTruth(a)
  BY DEF EntryTruth
<1>4. CASE Still
  BY <1>2, <1>4 DEF Still
<1>5. ASSUME NEW t \in Tasks, NEW b \in Apps, AppStep(t, b)
      PROVE  os[procs[a].child].sig = "none"
  <2>1. CASE b = a
    BY <1>2, <1>3, <1>5, <2>1, PenaltyIsForCrashes DEF TermTruth
  <2>2. CASE b # a
    BY <1>2, <1>5, <2>2, AppStepsAreLocal DEF Local
  <2>3. QED
    BY <2>1, <2>2
<1>6. ASSUME NEW b \in Apps, DeadlinePasses(b) \/ BackoffExpires(b)
      PROVE  FALSE
  BY <1>2, <1>6, TimeTouchesClocks
<1>7. ASSUME NEW p \in Pids, Exit(p)
      PROVE  FALSE
  BY <1>2, <1>7 DEF Exit
<1>8. CASE StopAll
  <2>1. PICK m : m = procs[a] /\ m \in Managed
    BY <1>1
  <2>2. CASE TakeChildren
    <3>1. procs'[a] = m \/ procs'[a] = [m EXCEPT !.child = NoPid]
      BY <2>1, <2>2 DEF TakeChildren
    <3>2. QED
      BY <1>2, <2>1, <3>1 DEF Managed
  <2>3. CASE ~TakeChildren
    BY <1>2, <1>8, <2>3 DEF StopAll, TermTaken, ClearPidfiles, ReapTaken, KillTaken
  <2>4. QED
    BY <2>2, <2>3
<1>9. QED
  BY <1>4, <1>5, <1>6, <1>7, <1>8, StepKinds

\* An exit that nockd asked for, by a restart, a stop or an escalation, is never
\* counted as a crash, whichever pass finds the process gone.
THEOREM AskedExitsAreFree == Spec => NoPenaltyForAskedExit
<1>1. TypeInv /\ Ownership /\ EntryTruth /\ [Next]_vars
         => [OwnsChildren =>
                \A a \in Apps :
                    procs'[a].restarts > procs[a].restarts =>
                        \/ procs[a].child = NoPid
                        \/ os[procs[a].child].sig = "none"]_vars
  BY OnlyCrashesCount DEF Ownership
<1>2. QED
  BY <1>1, TypeCorrect, OwnershipInvariant, EntriesTellTheTruth, PTL
     DEF Spec, NoPenaltyForAskedExit

-----------------------------------------------------------------------------
(***************************************************************************)
(* One process per app, those being killed included.  It holds as long as  *)
(* no pass drops an app of the table.  Rows are never deleted, so only a   *)
(* pass that listed the registry before an app's first deploy can do that, *)
(* and none can when every app was registered before the daemon started.   *)
(***************************************************************************)

\* No pass takes an app of the table for one that was removed.
NothingToDrop == \A t \in Tasks : pc[t] = "drop" => todo[t] = {}

EveryoneListed ==
    /\ \A a \in Apps : Registered(a)
    /\ \A t \in Tasks :
          pc[t] \in InPass \ {"list"} => \A a \in Apps : snap[t][a] # NoRow
    /\ NothingToDrop

\* Every process that still runs is the child of its app's entry.
InstanceTracked ==
    OwnsChildren =>
        \A p \in Pids : Up(p) => os[p].app \in Apps /\ procs[os[p].app].child = p

LEMMA RequestsListEveryone ==
    ASSUME TypeInv, EveryoneListed, NEW t \in Tasks, Tick(t) \/ Request(t)
    PROVE  EveryoneListed'
<1> USE DEF TypeInv, TypeOK, EveryoneListed, NothingToDrop, Registered, Goto, InPass
<1>1. CASE Tick(t)
  BY <1>1 DEF Tick
<1>2. ASSUME NEW op, NEW a \in Apps, NEW r \in Row, NEW label, Begin(t, op, a, r, label),
             label \in {"check", "request_restart", "set_desired"}
      PROVE  EveryoneListed'
  BY <1>2, NoRowAssumption DEF Begin
<1>3. ASSUME NEW a \in Apps
      PROVE  /\ \A d \in {"running", "stopped"} : [rows[a] EXCEPT !.desired = d] \in Row
             /\ \A v \in Revs : [rows[a] EXCEPT !.rev = v] \in Row
             /\ \A v \in Revs, p \in Policies :
                    [rows[a] EXCEPT !.rev = v, !.policy = p] \in Row
  <2>1. rows[a] \in Row
    OBVIOUS
  <2>2. QED
    BY <2>1, PoliciesAssumption DEF Row
<1>4. ASSUME NEW status, Fleet(t, status)
      PROVE  EveryoneListed'
  <2>1. PICK s, w : /\ snap' = [snap EXCEPT ![t] = s] /\ todo' = [todo EXCEPT ![t] = w]
                    /\ pc' = [pc EXCEPT ![t] = "fleet"] /\ rows' = rows
    BY <1>4 DEF Fleet
  <2>2. QED
    BY <2>1
<1>5. ASSUME NEW a \in Apps, Restart(t, a) \/ Stop(t, a) \/ Start(t, a)
      PROVE  EveryoneListed'
  BY <1>5, <1>2, <1>3 DEF Restart, Stop, Start
<1>6. ASSUME NEW a \in Apps, NEW v \in Revs, Rollback(t, a, v)
      PROVE  EveryoneListed'
  BY <1>6, <1>2, <1>3 DEF Rollback
<1>7. ASSUME NEW a \in Apps, NEW v \in Revs, NEW p \in Policies,
             Deploy(t, a, v, p) \/ Reload(t, a, v, p)
      PROVE  EveryoneListed'
  <2>1. [desired |-> "running", rev |-> v, policy |-> p] \in Row
    BY PoliciesAssumption DEF Row
  <2>2. QED
    BY <1>7, <2>1, <1>2, <1>3 DEF Deploy, Reload
<1>8. QED
  BY <1>1, <1>4, <1>5, <1>6, <1>7 DEF Request

LEMMA TasksListEveryone ==
    ASSUME TypeInv, EveryoneListed, NEW t \in Tasks, TaskStep(t)
    PROVE  EveryoneListed'
<1> USE DEF EveryoneListed, NothingToDrop, Registered, Goto, InPass, Finished
<1>0. /\ rows \in [Apps -> Row \cup {NoRow}] /\ pc \in [Tasks -> PCs]
      /\ snap \in [Tasks -> [Apps -> Row \cup {NoRow}]] /\ todo \in [Tasks -> SUBSET Apps]
  BY DEF TypeInv, TypeOK
<1>1. ASSUME NEW a \in Apps, NEW d \in {"running", "stopped"}
      PROVE  [rows[a] EXCEPT !.desired = d] # NoRow
  BY <1>0, <1>1, NoRowAssumption DEF Row
<1>2. CASE SetDesiredRunning(t)
  <2>1. cur[t] \in Apps
    BY <1>2 DEF SetDesiredRunning, TypeInv, TaskMemory
  <2>2. QED
    BY <1>0, <1>1, <1>2, <2>1 DEF SetDesiredRunning
<1>3. ASSUME NEW a \in Apps, FleetSet(t, a)
      PROVE  EveryoneListed'
  <2>1. snap[t][a].desired \in {"running", "stopped"}
    BY <1>0, <1>3 DEF FleetSet, Row, TypeInv, TaskMemory
  <2>2. QED
    BY <1>0, <1>1, <1>3, <2>1 DEF FleetSet
<1>4. CASE EndReap(t)
  BY <1>0, <1>4 DEF EndReap, Listed, Tracked
<1>5. CASE \/ RequestRestart(t) \/ EndFleet(t) \/ ShutdownGate(t) \/ ListApps(t)
           \/ LockProcs(t) \/ EndDrop(t) \/ EndPass(t) \/ WritePidfile(t)
  <2>1. CASE RequestRestart(t) \/ ShutdownGate(t) \/ EndFleet(t) \/ EndPass(t)
    <3>1. rows' = rows /\ pc' \in {[pc EXCEPT ![t] = l] : l \in {"check", "idle", "list"}}
      BY <2>1 DEF RequestRestart, ShutdownGate, EndFleet, EndPass
    <3>2. \A u \in Tasks \ {t} : snap'[u] = snap[u] /\ todo'[u] = todo[u]
      BY <1>0, <2>1 DEF RequestRestart, ShutdownGate, EndFleet, EndPass
    <3>3. QED
      BY <1>0, <3>1, <3>2
  <2>2. CASE LockProcs(t) \/ EndDrop(t)
    <3>1. /\ rows' = rows /\ snap' = snap /\ pc[t] \in {"lock", "drop"}
          /\ pc' \in {[pc EXCEPT ![t] = l] : l \in {"reap", "drive"}}
      BY <2>2 DEF LockProcs, EndDrop
    <3>2. \A u \in Tasks \ {t} : todo'[u] = todo[u]
      BY <1>0, <2>2 DEF LockProcs, EndDrop
    <3>3. NothingToDrop'
      BY <1>0, <3>1, <3>2
    <3>4. \A u \in Tasks : pc'[u] \in InPass \ {"list"} => pc[u] \in InPass \ {"list"}
      BY <1>0, <3>1
    <3>5. \A u \in Tasks : pc'[u] \in InPass \ {"list"} => \A x \in Apps : snap'[u][x] # NoRow
      BY <3>1, <3>4
    <3>6. \A x \in Apps : Registered(x)'
      BY <3>1
    <3>7. QED
      BY <3>3, <3>5, <3>6
  <2>3. CASE ListApps(t)
    <3>1. \A u \in Tasks : snap'[u] = IF u = t THEN rows ELSE snap[u]
      BY <1>0, <2>3 DEF ListApps
    <3>2. rows' = rows /\ todo' = todo /\ pc' = [pc EXCEPT ![t] = "lock"]
      BY <2>3 DEF ListApps
    <3>3. QED
      BY <1>0, <3>1, <3>2
  <2>4. CASE WritePidfile(t)
    <3>1. \A u \in Tasks \ {t} : todo'[u] = todo[u]
      BY <1>0, <2>4 DEF WritePidfile
    <3>2. /\ rows' = rows /\ snap' = snap /\ pc[t] = "pidfile"
          /\ pc' = [pc EXCEPT ![t] = "drive"]
      BY <2>4 DEF WritePidfile
    <3>3. QED
      BY <1>0, <3>1, <3>2
  <2>5. QED
    BY <1>5, <2>1, <2>2, <2>3, <2>4
<1>6. ASSUME NEW a \in Apps,
             \/ ReapExited(t, a) \/ Escalate(t, a) \/ DropApp(t, a)
             \/ DriveStop(t, a) \/ DriveStopped(t, a) \/ DriveRunning(t, a)
             \/ DriveHeldBack(t, a) \/ SpawnFails(t, a)
      PROVE  EveryoneListed'
  BY <1>0, <1>6 DEF ReapExited, Escalate, DropApp, DriveStop, DriveStopped, DriveRunning,
              DriveHeldBack, SpawnFails, MaySpawn, Driving
<1>7. ASSUME NEW a \in Apps, NEW p \in Pids, Spawn(t, a, p)
      PROVE  EveryoneListed'
  BY <1>0, <1>7 DEF Spawn, MaySpawn, Driving
<1>8. QED
  BY <1>2, <1>3, <1>4, <1>5, <1>6, <1>7 DEF TaskStep, PassStep

\* When every app was registered before this life of the daemon began, every
\* pass lists every app.
THEOREM PassesListEveryone ==
    ASSUME NoRow \notin BootRows
    PROVE  Spec => []EveryoneListed
<1>1. Init => EveryoneListed
  BY DEF Init, EveryoneListed, NothingToDrop, Registered, InPass
<1>2. TypeInv /\ EveryoneListed /\ [Next]_vars => EveryoneListed'
  <2> SUFFICES ASSUME TypeInv, EveryoneListed, [Next]_vars
               PROVE  EveryoneListed'
    OBVIOUS
  <2>1. CASE \E t \in Tasks : Tick(t) \/ Request(t) \/ TaskStep(t)
    BY <2>1, RequestsListEveryone, TasksListEveryone
  <2>2. CASE ~ \E t \in Tasks : Tick(t) \/ Request(t) \/ TaskStep(t)
    <3>1. CASE StopAll
      BY <3>1 DEF StopAll, TakeChildren, TermTaken, ReapTaken, KillTaken, ClearPidfiles,
                  EveryoneListed, NothingToDrop, Registered
    <3>2. CASE ~StopAll
      BY <2>2, <3>2 DEF Next, vars, ShutdownSignal, Exit, DeadlinePasses, BackoffExpires,
                        EveryoneListed, NothingToDrop, Registered
    <3>3. QED
      BY <3>1, <3>2
  <2>3. QED
    BY <2>1, <2>2
<1>3. QED
  BY <1>1, <1>2, TypeCorrect, PTL DEF Spec

LEMMA AppStepKeepsInstances ==
    ASSUME TypeInv, Ownership, NothingToDrop, OwnsChildren,
           NEW t \in Tasks, NEW a \in Apps, AppStep(t, a),
           \A p \in Pids : Up(p) => os[p].app \in Apps /\ procs[os[p].app].child = p
    PROVE  \A p \in Pids : Up(p)' => os'[p].app \in Apps /\ procs'[os'[p].app].child = p
<1> USE DEF Up
<1>1. /\ os \in [Pids -> Proc] /\ procs \in [Apps -> Managed]
      /\ procs[a].child \in Pids \cup {NoPid}
  BY DEF TypeInv, TypeOK, OsTypeOK, Managed
<1>2. \A b \in Apps \ {a} : procs'[b] = procs[b]
  BY AppStepsAreLocal DEF Local, Ownership
<1>3. CASE ReapExited(t, a)
  <2>1. procs[a].child \in Pids /\ os[procs[a].child].st = "zombie"
    BY <1>1, <1>3 DEF ReapExited, Exited
  <2>2. \A p \in Pids : Up(p)' => Up(p) /\ os'[p] = os[p]
    BY <1>1, <1>3, <2>1 DEF ReapExited, Waited, FreeSlot
  <2>3. QED
    BY <1>2, <2>1, <2>2
<1>4. ~DropApp(t, a)
  BY DEF DropApp, NothingToDrop
<1>5. ASSUME NEW p \in Pids, Spawn(t, a, p)
      PROVE  \A q \in Pids : Up(q)' => os'[q].app \in Apps /\ procs'[os'[q].app].child = q
  <2>1. procs[a].child = NoPid /\ os' = Started(p, a, snap[t][a].rev)
    BY <1>5 DEF Spawn, MaySpawn
  <2>2. procs'[a].child = p
    <3>1. Entry(a) \in Managed
      BY <1>1, EntryFields
    <3>2. QED
      BY <1>1, <1>5, <3>1 DEF Spawn, SetEntry, Managed
  <2>3. os'[p].app = a /\ \A q \in Pids \ {p} : os'[q] = os[q]
    BY <1>1, <2>1 DEF Started
  <2>4. QED
    BY <1>2, <2>1, <2>2, <2>3, NoPidAssumption
<1>6. CASE \/ RequestRestart(t) \/ Escalate(t, a) \/ DriveStop(t, a) \/ DriveStopped(t, a)
           \/ DriveRunning(t, a) \/ DriveHeldBack(t, a) \/ SpawnFails(t, a)
  BY <1>6, PassIsHarmless DEF Harmless
<1>7. QED
  BY <1>3, <1>4, <1>5, <1>6 DEF AppStep

\* While no pass drops an app, every process that has not exited is the child of
\* its app's entry, those that were sent SIGKILL included.
THEOREM InstancesAreTracked == Spec /\ []NothingToDrop => []InstanceTracked
<1>1. Init => InstanceTracked
  BY DEF Init, OsInit, FreeSlot, InstanceTracked, Up
<1>2. TypeInv /\ Ownership /\ NothingToDrop /\ InstanceTracked /\ [Next]_vars
         => InstanceTracked'
  <2> SUFFICES ASSUME TypeInv, Ownership, NothingToDrop, InstanceTracked, [Next]_vars,
                      OwnsChildren'
               PROVE  \A p \in Pids :
                         Up(p)' => os'[p].app \in Apps /\ procs'[os'[p].app].child = p
    BY DEF InstanceTracked
  <2>1. OwnsChildren /\ ~StopAll
    BY ServedBefore DEF StopAll, TakeChildren, TermTaken, ClearPidfiles, ReapTaken,
                        KillTaken, Stopper, OwnsChildren
  <2>2. \A p \in Pids : Up(p) => os[p].app \in Apps /\ procs[os[p].app].child = p
    BY <2>1 DEF InstanceTracked
  <2>3. CASE Still
    BY <2>2, <2>3 DEF Still, Up
  <2>4. ASSUME NEW t \in Tasks, NEW a \in Apps, AppStep(t, a)
        PROVE  \A p \in Pids :
                  Up(p)' => os'[p].app \in Apps /\ procs'[os'[p].app].child = p
    BY <2>1, <2>2, <2>4, AppStepKeepsInstances
  <2>5. ASSUME NEW a \in Apps, DeadlinePasses(a) \/ BackoffExpires(a)
        PROVE  \A p \in Pids :
                  Up(p)' => os'[p].app \in Apps /\ procs'[os'[p].app].child = p
    BY <2>2, <2>5, TimeTouchesClocks DEF Up
  <2>6. ASSUME NEW q \in Pids, Exit(q)
        PROVE  \A p \in Pids :
                  Up(p)' => os'[p].app \in Apps /\ procs'[os'[p].app].child = p
    <3>1. \A p \in Pids : Up(p)' => Up(p) /\ os'[p] = os[p]
      BY <2>6 DEF Exit, ProcExit, Waited, FreeSlot, Up, TypeInv, TypeOK, OsTypeOK, Proc
    <3>2. QED
      BY <2>2, <2>6, <3>1 DEF Exit
  <2>7. QED
    BY <2>1, <2>3, <2>4, <2>5, <2>6, StepKinds
<1>3. QED
  BY <1>1, <1>2, TypeCorrect, OwnershipInvariant, PTL DEF Spec

\* A new instance starts only after the old one is gone, killed ones included,
\* unless some pass drops an app: a second process beside the first one comes
\* from a list older than the app's row, and from nothing else.
THEOREM OneInstanceUnlessDropped == Spec /\ []NothingToDrop => []OneProcess
<1>1. InstanceTracked => OneProcess
  BY DEF InstanceTracked, OneProcess
<1>2. QED
  BY <1>1, InstancesAreTracked, PTL

\* So apps that were in the registry before this life of the daemon began have
\* one process at a time.  The hypothesis is needed: the run of a first deploy
\* shows two processes.
THEOREM OneInstance ==
    ASSUME NoRow \notin BootRows
    PROVE  Spec => []OneProcess
<1>1. EveryoneListed => NothingToDrop
  BY DEF EveryoneListed
<1>2. QED
  BY <1>1, PassesListEveryone, OneInstanceUnlessDropped, PTL

-----------------------------------------------------------------------------
(***************************************************************************)
(* The refinement of AppLifecycle: every step of the daemon leaves every   *)
(* app's phase alone or moves one app's phase as AppLifecycle allows.  It  *)
(* holds while the daemon serves apps that it had registered before: a     *)
(* dropped app loses its instance without an end, and so does one whose    *)
(* child stop_all has taken.                                               *)
(***************************************************************************)

\* Without a signal to the daemon, stop_all never begins.
THEOREM ServesForEver ==
    ASSUME MayShutDown = FALSE
    PROVE  Spec => [](shutdown = "serving" /\ taken = {})
<1>1. Init => shutdown = "serving" /\ taken = {}
  BY DEF Init
<1>2. TypeInv /\ shutdown = "serving" /\ taken = {} /\ [Next]_vars
         => (shutdown = "serving" /\ taken = {})'
  <2> SUFFICES ASSUME TypeInv, shutdown = "serving", taken = {}, [Next]_vars
               PROVE  shutdown' = "serving" /\ taken' = {}
    OBVIOUS
  <2>1. ~StopAll /\ ~ShutdownSignal
    BY DEF StopAll, TakeChildren, TermTaken, ClearPidfiles, ReapTaken, KillTaken,
           ShutdownSignal, Stopper
  <2>2. ASSUME NEW t \in Tasks, NEW a \in Apps, AppStep(t, a)
        PROVE  UNCHANGED <<shutdown, taken>>
    BY <2>2 DEF AppStep, RequestRestart, ReapExited, Escalate, DropApp, DriveStop,
                DriveStopped, DriveRunning, DriveHeldBack, SpawnFails, Spawn
  <2>3. ASSUME NEW t \in Tasks, Tick(t) \/ Request(t) \/ TaskStep(t)
        PROVE  UNCHANGED <<shutdown, taken>>
    <3>1. CASE Tick(t)
      BY <3>1 DEF Tick
    <3>2. CASE Request(t)
      BY <3>2 DEF Request, Fleet, Restart, Stop, Start, Rollback, Deploy, Reload, Begin
    <3>3. CASE RequestRestart(t)
      BY <3>3 DEF RequestRestart
    <3>4. CASE SetDesiredRunning(t) \/ EndFleet(t) \/ \E a \in Apps : FleetSet(t, a)
      BY <3>4 DEF SetDesiredRunning, EndFleet, FleetSet
    <3>5. CASE PassStep(t)
      <4>1. CASE \E a \in Apps : AppStep(t, a)
        BY <2>2, <4>1
      <4>2. CASE ~ \E a \in Apps : AppStep(t, a)
        BY <3>5, <4>2 DEF AppStep, PassStep, ShutdownGate, ListApps, LockProcs,
                          EndReap, EndDrop, EndPass, WritePidfile
      <4>3. QED
        BY <4>1, <4>2
    <3>6. QED
      BY <2>3, <3>1, <3>2, <3>3, <3>4, <3>5 DEF TaskStep
  <2>4. CASE \/ \E a \in Apps : DeadlinePasses(a) \/ BackoffExpires(a)
             \/ \E p \in Pids : Exit(p)
    BY <2>4 DEF DeadlinePasses, BackoffExpires, Exit
  <2>5. QED
    BY <2>1, <2>3, <2>4 DEF Next, vars
<1>3. QED
  BY <1>1, <1>2, TypeCorrect, PTL DEF Spec

LEMMA PhaseOfProcess ==
    ASSUME NEW proc \in Proc
    PROVE  /\ proc.st = "zombie" => InstancePhase(proc) = "ended"
           /\ proc.st = "up" =>
                 /\ proc.sig = "none" => InstancePhase(proc) = "running"
                 /\ proc.sig = "term" => InstancePhase(proc) = "asked"
                 /\ proc.sig = "kill" => InstancePhase(proc) = "killed"
  BY DEF InstancePhase, Proc

\* What AppLifecycle lets a step do to the phase of app a.
LegalMove(a) ==
    \/ PhaseOf(a)' = PhaseOf(a)
    \/ PhaseOf(a) = "none" /\ PhaseOf(a)' = "running"
    \/ PhaseOf(a) = "running" /\ PhaseOf(a)' = "asked"
    \/ PhaseOf(a) = "asked" /\ PhaseOf(a)' = "killed"
    \/ PhaseOf(a) \in {"running", "asked", "killed"} /\ PhaseOf(a)' = "ended"
    \/ PhaseOf(a) = "ended" /\ PhaseOf(a)' = "none"

LEMMA LegalMovesRefine ==
    ASSUME NEW a \in Apps, LegalMove(a), \A b \in Apps \ {a} : PhaseOf(b)' = PhaseOf(b)
    PROVE  [Lifecycle!Next]_[x \in Apps |-> PhaseOf(x)]
<1>1. [x \in Apps |-> PhaseOf(x)]' = [[x \in Apps |-> PhaseOf(x)] EXCEPT ![a] = PhaseOf(a)']
  OBVIOUS
<1>2. CASE PhaseOf(a)' = PhaseOf(a)
  BY <1>1, <1>2
<1>3. CASE PhaseOf(a)' # PhaseOf(a)
  BY <1>1, <1>3
     DEF LegalMove, Lifecycle!Next, Lifecycle!Moves, Lifecycle!StartInstance,
         Lifecycle!AskToExit, Lifecycle!Kill, Lifecycle!End, Lifecycle!Collect
<1>4. QED
  BY <1>2, <1>3

\* A step of one app, by what it does to the app's child: SIGTERM asks a running
\* process only, SIGKILL goes to a process that was asked, a child leaves its
\* entry after its end, and a new one comes to an entry that has none.
LEMMA AppStepsAreLegal ==
    ASSUME TypeInv, Ownership, NothingToDrop, OwnsChildren, EntryTruth,
           NEW t \in Tasks, NEW a \in Apps, AppStep(t, a)
    PROVE  LegalMove(a)
<1>1. PICK c : c = procs[a].child
  OBVIOUS
<1>2. /\ os \in [Pids -> Proc] /\ procs \in [Apps -> Managed]
      /\ c \in Pids \cup {NoPid} /\ procs[a].pid = c
      /\ c # NoPid => os[c].st \in {"up", "zombie"}
  BY <1>1 DEF Ownership, EntriesOwn, TypeInv, TypeOK, OsTypeOK, Managed, Proc
<1>3. TermTruth(a)
  BY DEF EntryTruth
<1>4. /\ Entry(a) \in Managed
      /\ Entry(a).child = c /\ Entry(a).pid = c /\ Entry(a).term = procs[a].term
  BY <1>1, <1>2, EntryFields
<1>5. PhaseOf(a) = IF c = NoPid THEN "none" ELSE InstancePhase(os[c])
  BY <1>1 DEF PhaseOf
<1>6. ASSUME procs'[a].child = c
      PROVE  PhaseOf(a)' = IF c = NoPid THEN "none" ELSE InstancePhase(os'[c])
  BY <1>6 DEF PhaseOf
<1>7. CASE procs'[a].child = c /\ os' = Termed({c})
  <2>1. CASE c \in Pids /\ Up(c) /\ os[c].sig = "none"
    <3>1. os'[c] = [os[c] EXCEPT !.sig = "term"]
      BY <1>7, <2>1 DEF Termed
    <3>2. os[c] \in Proc /\ os'[c] \in Proc /\ os'[c].st = "up" /\ os'[c].sig = "term"
      BY <1>2, <2>1, <3>1 DEF Proc, Up
    <3>3. InstancePhase(os[c]) = "running" /\ InstancePhase(os'[c]) = "asked"
      BY <2>1, <3>2, PhaseOfProcess DEF Up
    <3>4. QED
      BY <1>5, <1>6, <1>7, <2>1, <3>3, NoPidAssumption DEF LegalMove
  <2>2. CASE ~(c \in Pids /\ Up(c) /\ os[c].sig = "none")
    <3>1. c \in Pids => os'[c] = os[c]
      BY <1>7, <2>2 DEF Termed
    <3>2. QED
      BY <1>2, <1>5, <1>6, <1>7, <3>1 DEF LegalMove
  <2>3. QED
    BY <2>1, <2>2
<1>8. CASE procs'[a].child = c /\ os' = os
  BY <1>5, <1>6, <1>8 DEF LegalMove
<1>9. CASE Escalate(t, a) /\ procs[a].term = "due"
  <2>1. c \in Pids /\ os[c].st = "up" /\ os[c].sig \in {"term", "kill"}
    BY <1>1, <1>2, <1>3, <1>9 DEF Escalate, Exited, TermTruth, Up, Proc
  <2>2. procs' = procs /\ os' = Killed({c})
    BY <1>2, <1>9 DEF Escalate
  <2>3. os'[c] = [os[c] EXCEPT !.sig = "kill"]
    BY <2>1, <2>2 DEF Killed, Up
  <2>4. os[c] \in Proc /\ os'[c] \in Proc /\ os'[c].st = "up" /\ os'[c].sig = "kill"
    BY <1>2, <2>1, <2>3 DEF Proc
  <2>5. InstancePhase(os[c]) \in {"asked", "killed"} /\ InstancePhase(os'[c]) = "killed"
    BY <2>1, <2>4, PhaseOfProcess
  <2>6. QED
    BY <1>1, <1>5, <1>6, <2>1, <2>2, <2>5, NoPidAssumption DEF LegalMove
<1>10. CASE ReapExited(t, a)
  <2>1. c \in Pids /\ os[c].st = "zombie"
    BY <1>1, <1>2, <1>10 DEF ReapExited, Exited
  <2>2. InstancePhase(os[c]) = "ended"
    BY <1>2, <2>1, PhaseOfProcess
  <2>3. procs'[a] = AfterExit(procs[a]) /\ procs[a] \in Managed
    BY <1>2, <1>10 DEF ReapExited, SetEntry
  <2>4. procs'[a].child = NoPid
    BY <2>3 DEF AfterExit, Managed
  <2>5. PhaseOf(a)' = "none"
    BY <2>4 DEF PhaseOf
  <2>6. QED
    BY <1>5, <2>1, <2>2, <2>5, NoPidAssumption DEF LegalMove
<1>11. ~DropApp(t, a)
  BY DEF DropApp, NothingToDrop
<1>12. ASSUME NEW p \in Pids, Spawn(t, a, p)
       PROVE  LegalMove(a)
  <2>1. c = NoPid
    BY <1>1, <1>12 DEF Spawn, MaySpawn
  <2>2. procs'[a].child = p
    BY <1>2, <1>4, <1>12 DEF Spawn, SetEntry, Managed
  <2>3. snap[t][a].rev \in Revs
    BY <1>12 DEF Spawn, MaySpawn, Driving, TypeInv, TypeOK, TaskMemory, Row
  <2>4. os'[p] = [st |-> "up", app |-> a, rev |-> snap[t][a].rev, sig |-> "none"]
    BY <1>2, <1>12 DEF Spawn, Started
  <2>5. os'[p] \in Proc /\ os'[p].st = "up" /\ os'[p].sig = "none"
    BY <2>3, <2>4 DEF Proc
  <2>6. InstancePhase(os'[p]) = "running"
    BY <2>5, PhaseOfProcess
  <2>7. PhaseOf(a)' = "running"
    BY <2>2, <2>6, NoPidAssumption DEF PhaseOf
  <2>8. QED
    BY <1>5, <2>1, <2>7 DEF LegalMove
<1>13. CASE \/ RequestRestart(t) /\ a = cur[t]
            \/ Escalate(t, a) /\ procs[a].term # "due"
            \/ DriveStop(t, a) \/ DriveStopped(t, a) \/ DriveRunning(t, a)
            \/ DriveHeldBack(t, a) \/ SpawnFails(t, a)
  <2>1. procs'[a].child = c
    BY <1>1, <1>13, PassIsHarmless DEF Harmless
  <2>2. os' = os \/ os' = Termed({c})
    <3>1. CASE RequestRestart(t) /\ a = cur[t]
      BY <1>2, <3>1 DEF RequestRestart
    <3>2. CASE Escalate(t, a) /\ procs[a].term # "due"
      BY <3>2 DEF Escalate
    <3>3. CASE DriveStop(t, a)
      BY <1>4, <3>3 DEF DriveStop
    <3>4. CASE \/ DriveStopped(t, a) \/ DriveRunning(t, a)
               \/ DriveHeldBack(t, a) \/ SpawnFails(t, a)
      BY <3>4 DEF DriveStopped, DriveRunning, DriveHeldBack, SpawnFails
    <3>5. QED
      BY <1>13, <3>1, <3>2, <3>3, <3>4
  <2>3. QED
    BY <1>7, <1>8, <2>1, <2>2
<1>14. QED
  BY <1>9, <1>10, <1>11, <1>12, <1>13 DEF AppStep

\* An exit ends the instance the process belongs to.
LEMMA ExitsAreLegal ==
    ASSUME TypeInv, Ownership, OwnsChildren, NEW p \in Pids, Exit(p),
           NEW a \in Apps, procs[a].child = p
    PROVE  LegalMove(a)
<1>1. os \in [Pids -> Proc] /\ Up(p) /\ procs' = procs /\ p # NoPid
  BY NoPidAssumption DEF TypeInv, TypeOK, OsTypeOK, Exit, ProcExit
<1>2. os'[p] = [os[p] EXCEPT !.st = "zombie"]
  BY <1>1 DEF Exit, ProcExit, Held
<1>3. os[p] \in Proc /\ os'[p] \in Proc /\ os'[p].st = "zombie"
  BY <1>1, <1>2 DEF Proc
<1>4. /\ InstancePhase(os[p]) \in {"running", "asked", "killed"}
      /\ InstancePhase(os'[p]) = "ended"
  BY <1>1, <1>3, PhaseOfProcess DEF Up, Proc
<1>5. QED
  BY <1>1, <1>4 DEF LegalMove, PhaseOf

\* While it drops no app and stop_all has not taken the children, the daemon
\* implements AppLifecycle, for any number of apps, processes and tasks: an
\* instance starts after the one before has been collected, and is killed only
\* after SIGTERM.
THEOREM LifecycleUnlessDropped ==
    Spec /\ [](NothingToDrop /\ OwnsChildren) => ImplementsLifecycle
<1>1. Init => Lifecycle!Init
  BY DEF Init, Untracked, DefaultEntry, PhaseOf, Lifecycle!Init
<1>2. /\ TypeInv /\ Ownership /\ EntryTruth
      /\ NothingToDrop /\ OwnsChildren /\ OwnsChildren' /\ [Next]_vars
      => [Lifecycle!Next]_[a \in Apps |-> PhaseOf(a)]
  <2> SUFFICES ASSUME TypeInv, Ownership, EntryTruth, NothingToDrop,
                      OwnsChildren, OwnsChildren', [Next]_vars
               PROVE  [Lifecycle!Next]_[a \in Apps |-> PhaseOf(a)]
    OBVIOUS
  <2>1. ~StopAll
    BY DEF StopAll, TakeChildren, TermTaken, ClearPidfiles, ReapTaken, KillTaken,
           Stopper, OwnsChildren
  <2>2. ASSUME \A b \in Apps : PhaseOf(b)' = PhaseOf(b)
        PROVE  [Lifecycle!Next]_[a \in Apps |-> PhaseOf(a)]
    BY <2>2
  <2>3. CASE Still
    BY <2>2, <2>3 DEF Still, PhaseOf
  <2>4. ASSUME NEW t \in Tasks, NEW x \in Apps, AppStep(t, x)
        PROVE  [Lifecycle!Next]_[a \in Apps |-> PhaseOf(a)]
    <3>1. \A b \in Apps \ {x} : PhaseOf(b)' = PhaseOf(b)
      BY <2>1, <2>4, AppStepsAreLocal DEF Local, PhaseOf, Ownership
    <3>2. LegalMove(x)
      BY <2>1, <2>4, AppStepsAreLegal
    <3>3. QED
      BY <3>1, <3>2, LegalMovesRefine
  <2>5. ASSUME NEW x \in Apps, DeadlinePasses(x) \/ BackoffExpires(x)
        PROVE  [Lifecycle!Next]_[a \in Apps |-> PhaseOf(a)]
    BY <2>2, <2>5, TimeTouchesClocks DEF PhaseOf
  <2>6. ASSUME NEW p \in Pids, Exit(p)
        PROVE  [Lifecycle!Next]_[a \in Apps |-> PhaseOf(a)]
    <3>1. procs' = procs /\ \A q \in Pids \ {p} : os'[q] = os[q]
      BY <2>6 DEF Exit, ProcExit, Waited, TypeInv, TypeOK, OsTypeOK
    <3>2. \A b \in Apps : procs[b].child \in Pids \cup {NoPid}
      BY DEF TypeInv, TypeOK, Managed
    <3>3. \A b \in Apps : procs[b].child # p => PhaseOf(b)' = PhaseOf(b)
      BY <3>1, <3>2 DEF PhaseOf
    <3>4. CASE \A b \in Apps : procs[b].child # p
      BY <2>2, <3>3, <3>4
    <3>5. ASSUME NEW x \in Apps, procs[x].child = p
          PROVE  [Lifecycle!Next]_[a \in Apps |-> PhaseOf(a)]
      <4>1. \A b \in Apps \ {x} : procs[b].child # p
        BY <2>1, <3>5, NoPidAssumption DEF Ownership, EntriesOwn
      <4>2. QED
        BY <2>1, <2>6, <3>3, <3>5, <4>1, ExitsAreLegal, LegalMovesRefine
    <3>6. QED
      BY <3>4, <3>5
  <2>7. QED
    BY <2>1, <2>3, <2>4, <2>5, <2>6, StepKinds
<1>3. Spec /\ [](NothingToDrop /\ OwnsChildren)
         => Lifecycle!Init /\ [][Lifecycle!Next]_[a \in Apps |-> PhaseOf(a)]
  BY <1>1, <1>2, TypeCorrect, OwnershipInvariant, EntriesTellTheTruth, PTL DEF Spec
<1>4. QED
  BY <1>3, PTL DEF ImplementsLifecycle, Lifecycle!Spec

\* In particular the daemon implements AppLifecycle for the apps it knew when it
\* started, until it is told to shut down.
THEOREM DaemonImplementsLifecycle ==
    ASSUME NoRow \notin BootRows, MayShutDown = FALSE
    PROVE  Spec => ImplementsLifecycle
<1>1. EveryoneListed => NothingToDrop
  BY DEF EveryoneListed
<1>2. shutdown = "serving" => OwnsChildren
  BY DEF OwnsChildren
<1>3. QED
  BY <1>1, <1>2, PassesListEveryone, ServesForEver, LifecycleUnlessDropped, PTL

-----------------------------------------------------------------------------
(***************************************************************************)
(* Shutdown.  A handler or a tick that reaches the gate of reconcile after *)
(* the flag is turned back, so once the passes that were past it are over  *)
(* no process is started again.                                            *)
(***************************************************************************)
NobodyInPass == \A t \in Tasks : pc[t] \notin InPass

\* No process starts, and none that was killed goes back to work.
NoneBegins ==
    \A p \in Pids : (Up(p)' => Up(p)) /\ (Writing(p)' => Writing(p))

LEMMA GateStep ==
    ASSUME TypeInv, [Next]_vars, shutting_down, NobodyInPass
    PROVE  NobodyInPass' /\ shutting_down' /\ NoneBegins
<1> USE DEF NobodyInPass, InPass, NoneBegins, Writing, Up
<1>1. /\ os \in [Pids -> Proc] /\ pc \in [Tasks -> PCs]
  BY DEF TypeInv, TypeOK, OsTypeOK
<1>2. ASSUME NEW t \in Tasks, NEW l \in {"check", "idle", "request_restart", "set_desired", "fleet"},
             pc' = [pc EXCEPT ![t] = l], os' = os, shutdown' = shutdown
      PROVE  NobodyInPass' /\ shutting_down' /\ NoneBegins
  BY <1>1, <1>2 DEF shutting_down
<1>3. ASSUME NEW t \in Tasks, Tick(t) \/ SetDesiredRunning(t) \/ EndFleet(t) \/ ShutdownGate(t)
      PROVE  NobodyInPass' /\ shutting_down' /\ NoneBegins
  BY <1>2, <1>3 DEF Tick, SetDesiredRunning, EndFleet, ShutdownGate, Goto
<1>4. ASSUME NEW t \in Tasks, Request(t)
      PROVE  NobodyInPass' /\ shutting_down' /\ NoneBegins
  <2>1. ASSUME NEW op, NEW a, NEW r, NEW l \in {"check", "request_restart", "set_desired"},
               Begin(t, op, a, r, l)
        PROVE  NobodyInPass' /\ shutting_down' /\ NoneBegins
    BY <1>2, <2>1 DEF Begin, Goto
  <2>2. ASSUME NEW status, Fleet(t, status)
        PROVE  NobodyInPass' /\ shutting_down' /\ NoneBegins
    BY <1>2, <2>2 DEF Fleet, Goto
  <2>3. QED
    BY <1>4, <2>1, <2>2 DEF Request, Restart, Stop, Start, Rollback, Deploy, Reload
<1>5. ASSUME NEW t \in Tasks, RequestRestart(t)
      PROVE  NobodyInPass' /\ shutting_down' /\ NoneBegins
  <2>1. /\ pc' = [pc EXCEPT ![t] = "check"] /\ shutdown' = shutdown
        /\ os' = os \/ \E P : os' = Termed(P)
    BY <1>5 DEF RequestRestart, Goto
  <2>2. \A p \in Pids :
           os'[p].st = os[p].st /\ (os[p].sig = "kill" => os'[p].sig = "kill")
    BY <2>1, SignalsAreHarmless DEF TypeInv, TypeOK
  <2>3. QED
    BY <1>1, <2>1, <2>2 DEF shutting_down
<1>6. ASSUME NEW t \in Tasks, NEW a \in Apps, FleetSet(t, a)
      PROVE  NobodyInPass' /\ shutting_down' /\ NoneBegins
  BY <1>6 DEF FleetSet, shutting_down
<1>7. ASSUME NEW t \in Tasks, PassStep(t)
      PROVE  ShutdownGate(t)
  BY <1>7 DEF PassStep, ListApps, LockProcs, EndReap, EndDrop, EndPass, WritePidfile,
              ReapExited, Escalate, DropApp, DriveStop, DriveStopped, DriveRunning,
              DriveHeldBack, SpawnFails, Spawn, MaySpawn, Driving
<1>8. CASE StopAll
  <2>1. pc' = pc /\ shutting_down'
    BY <1>8 DEF StopAll, TakeChildren, TermTaken, ReapTaken, KillTaken, ClearPidfiles,
                Stopper, shutting_down
  <2>2. \/ os' = os \/ \E P : os' = Termed(P) \/ os' = Killed(P)
        \/ \E p \in Pids : os' = Waited(p)
    BY <1>8 DEF StopAll, TakeChildren, TermTaken, ReapTaken, KillTaken, ClearPidfiles
  <2>3. NoneBegins
    BY <1>1, <2>2, SignalsAreHarmless DEF Waited, FreeSlot, TypeInv, TypeOK
  <2>4. QED
    BY <2>1, <2>3
<1>9. CASE ShutdownSignal \/ UNCHANGED vars
  BY <1>9 DEF ShutdownSignal, Stopper, shutting_down, vars
<1>10. CASE \E a \in Apps : DeadlinePasses(a) \/ BackoffExpires(a)
  BY <1>10 DEF DeadlinePasses, BackoffExpires, shutting_down
<1>11. ASSUME NEW p \in Pids, Exit(p)
       PROVE  NobodyInPass' /\ shutting_down' /\ NoneBegins
  BY <1>1, <1>11 DEF Exit, ProcExit, Waited, FreeSlot, shutting_down
<1>12. QED
  BY <1>3, <1>4, <1>5, <1>6, <1>7, <1>8, <1>9, <1>10, <1>11 DEF Next, TaskStep

\* Everything that may go on running is accounted for: it is a child in procs
\* or one that stop_all awaits.
Accounted ==
    /\ shutting_down /\ NobodyInPass
    /\ OwnsChildren \/ \A p \in Pids : Writing(p) => p \in taken

LEMMA AccountedStaysSo ==
    ASSUME TypeInv, Ownership, Accounted, [Next]_vars
    PROVE  Accounted'
<1>1. NobodyInPass' /\ shutting_down' /\ NoneBegins
  BY GateStep DEF Accounted
<1>2. CASE TakeChildren
  <2>1. WritersTracked /\ EntriesOwn
    BY <1>2 DEF TakeChildren, Stopper, OwnsChildren, Ownership
  <2>2. \A p \in Pids : Writing(p) => p \in taken'
    BY <1>2, <2>1, NoPidAssumption DEF TakeChildren, WritersTracked, EntriesOwn
  <2>3. QED
    BY <1>1, <2>2 DEF Accounted, NoneBegins
<1>3. CASE StopAll /\ ~TakeChildren
  <2>1. ~OwnsChildren
    BY <1>3 DEF StopAll, TermTaken, ClearPidfiles, ReapTaken, KillTaken, Stopper, OwnsChildren
  <2>2. \A p \in taken : p \in taken' \/ os[p].st = "zombie"
    BY <1>3 DEF StopAll, TermTaken, ClearPidfiles, ReapTaken, KillTaken
  <2>3. QED
    BY <1>1, <2>1, <2>2 DEF Accounted, NoneBegins, Writing, Up
<1>4. CASE ~StopAll
  BY <1>1, <1>4, OnlyStopAllTakes DEF Accounted, NoneBegins
<1>5. QED
  BY <1>2, <1>3, <1>4

\* The safety half of a clean shutdown: when no pass was in flight at the signal,
\* or ever after, nothing that may go on running is left when serve() returns.
THEOREM QuietShutdownLeavesNothing ==
    Spec => [](shutdown = "flagged" /\ NobodyInPass
                 => [](shutdown = "down" => \A p \in Pids : ~Writing(p)))
<1>1. Init => (shutdown = "down" => taken = {})
  BY DEF Init
<1>2. TypeInv /\ (shutdown = "down" => taken = {}) /\ [Next]_vars
         => (shutdown = "down" => taken = {})'
  <2> SUFFICES ASSUME TypeInv, shutdown = "down" => taken = {}, [Next]_vars,
                      shutdown' = "down"
               PROVE  taken' = {}
    OBVIOUS
  <2>1. CASE StopAll
    BY <2>1 DEF StopAll, TakeChildren, TermTaken, ClearPidfiles, ReapTaken, KillTaken, Stopper
  <2>2. CASE ~StopAll
    BY <2>2, OnlyStopAllTakes
  <2>3. QED
    BY <2>1, <2>2
<1>3. TypeInv /\ Ownership /\ Accounted /\ [Next]_vars => Accounted'
  BY AccountedStaysSo
<1>4. shutdown = "flagged" /\ NobodyInPass => Accounted
  BY DEF Accounted, shutting_down, OwnsChildren
<1>5. Accounted /\ (shutdown = "down" => taken = {})
         => (shutdown = "down" => \A p \in Pids : ~Writing(p))
  BY DEF Accounted, OwnsChildren
<1>6. QED
  BY <1>1, <1>2, <1>3, <1>4, <1>5, TypeCorrect, OwnershipInvariant, PTL DEF Spec

-----------------------------------------------------------------------------
(***************************************************************************)
(* Shutdown with passes in flight.  Passes past the gate reap, drop and    *)
(* spawn while stop_all takes, awaits and kills, and an entry keeps the    *)
(* pid of a child that was taken; what they hand over stays in one hand.   *)
(***************************************************************************)

\* The child of an entry is a process of that app, known by its own pid, and
\* not one that stop_all awaits.
ChildrenHeld ==
    \A a \in Apps : procs[a].child # NoPid =>
        /\ procs[a].pid = procs[a].child
        /\ os[procs[a].child].app = a /\ os[procs[a].child].st # "free"
        /\ procs[a].child \notin taken

\* What stop_all awaits has not been reaped by anybody else.
TakenHeld == \A p \in taken : os[p].st # "free"

\* Whatever may go on writing is in the hands of stop_all or of its app's entry.
WritersHeld ==
    \A p \in Pids : Writing(p) =>
        os[p].app \in Apps /\ (p \in taken \/ procs[os[p].app].child = p)

Hands == ChildrenHeld /\ TakenHeld /\ WritersHeld

\* Until stop_all takes the children it awaits nobody.
NothingTaken == OwnsChildren => taken = {}

LEMMA HarmlessKeepsHands ==
    ASSUME TypeInv, Hands, Harmless, taken' = taken
    PROVE  Hands'
<1>1. /\ \A a \in Apps : procs[a].child \in Pids \cup {NoPid}
      /\ taken \in SUBSET Pids
  BY DEF TypeInv, TypeOK, Managed
<1>2. \A p \in Pids : Writing(p)' => Writing(p)
  BY DEF Writing, Up, Harmless
<1>3. ChildrenHeld'
  BY <1>1 DEF Hands, ChildrenHeld, Harmless
<1>4. TakenHeld'
  BY <1>1 DEF Hands, TakenHeld, Harmless
<1>5. WritersHeld'
  BY <1>2 DEF Hands, WritersHeld, Harmless
<1>6. QED
  BY <1>3, <1>4, <1>5 DEF Hands

\* An entry lets go of its child c: no other process is affected, and c is not a
\* writer any more.
LetsGo(a, c) ==
    /\ c = procs[a].child
    /\ \A b \in Apps \ {a} : procs'[b] = procs[b]
    /\ procs'[a].child = NoPid
    /\ \A p \in Pids \ {c} :
          /\ os'[p].st = os[p].st /\ os'[p].app = os[p].app
          /\ os[p].sig = "kill" => os'[p].sig = "kill"
    /\ c \in Pids => ~Writing(c)'

LEMMA LetsGoKeepsHands ==
    ASSUME TypeInv, Hands, taken' = taken, NEW a \in Apps, NEW c, LetsGo(a, c)
    PROVE  Hands'
<1>1. /\ \A b \in Apps : procs[b].child \in Pids \cup {NoPid}
      /\ taken \in SUBSET Pids
  BY DEF TypeInv, TypeOK, Managed
<1>2. \A p \in Pids : Writing(p)' => Writing(p) /\ p # c
  BY DEF Writing, Up, LetsGo
<1>3. \A b \in Apps \ {a} : procs[b].child # NoPid => procs[b].child # c
  BY DEF Hands, ChildrenHeld, LetsGo
<1>4. ChildrenHeld'
  BY <1>1, <1>3 DEF Hands, ChildrenHeld, LetsGo
<1>5. TakenHeld'
  <2>1. c \notin taken
    BY <1>1, NoPidAssumption DEF Hands, ChildrenHeld, LetsGo
  <2>2. QED
    BY <1>1, <2>1 DEF Hands, TakenHeld, LetsGo
<1>6. WritersHeld'
  <2> SUFFICES ASSUME NEW p \in Pids, Writing(p)'
               PROVE  /\ os'[p].app \in Apps
                      /\ p \in taken \/ procs'[os'[p].app].child = p
    BY DEF WritersHeld
  <2>1. Writing(p) /\ p # c /\ os'[p].app = os[p].app
    BY <1>2 DEF LetsGo
  <2>2. os[p].app \in Apps /\ (p \in taken \/ procs[os[p].app].child = p)
    BY <2>1 DEF Hands, WritersHeld
  <2>3. QED
    BY <2>1, <2>2 DEF LetsGo
<1>7. QED
  BY <1>4, <1>5, <1>6 DEF Hands

LEMMA ReapLetsGo ==
    ASSUME TypeInv, NEW t \in Tasks, NEW a \in Apps, ReapExited(t, a),
           NEW c, c = procs[a].child
    PROVE  LetsGo(a, c)
<1>1. c \in Pids
  BY DEF ReapExited, Exited, TypeInv, TypeOK, Managed
<1>2. \A p \in Pids : os'[p] = IF p = c THEN FreeSlot ELSE os[p]
  BY <1>1 DEF ReapExited, Waited, TypeInv, TypeOK, OsTypeOK
<1>3. /\ \A b \in Apps \ {a} : procs'[b] = procs[b]
      /\ procs'[a] = AfterExit(procs[a])
  BY DEF ReapExited, SetEntry, TypeInv, TypeOK
<1>4. procs'[a].child = NoPid
  BY <1>3 DEF AfterExit, TypeInv, TypeOK, Managed
<1>5. QED
  BY <1>2, <1>3, <1>4 DEF LetsGo, FreeSlot, Writing, Up

\* A pass that drops an app signals the pid of its entry, which is the child's
\* while there is one, and may be any number once stop_all has taken it.
LEMMA DropLetsGo ==
    ASSUME TypeInv, ChildrenHeld, NEW t \in Tasks, NEW a \in Apps, DropApp(t, a),
           NEW c, c = procs[a].child
    PROVE  LetsGo(a, c)
<1>1. os \in [Pids -> Proc] /\ c \in Pids \cup {NoPid}
  BY DEF TypeInv, TypeOK, OsTypeOK, Managed
<1>2. /\ \A b \in Apps \ {a} : procs'[b] = procs[b]
      /\ procs'[a].child = NoPid
  BY DEF DropApp, SetEntry, Untracked, DefaultEntry, TypeInv, TypeOK
<1>3. CASE Exited(a)
  <2>1. os' = Waited(c) /\ c \in Pids
    BY <1>1, <1>3 DEF DropApp, Exited
  <2>2. \A p \in Pids : os'[p] = IF p = c THEN FreeSlot ELSE os[p]
    BY <1>1, <2>1 DEF Waited
  <2>3. QED
    BY <1>2, <2>2 DEF LetsGo, FreeSlot, Writing, Up
<1>4. CASE ~Exited(a)
  <2>1. os' = Killed({procs[a].pid})
    BY <1>4 DEF DropApp
  <2>2. \A p \in Pids :
           /\ os'[p].st = os[p].st /\ os'[p].app = os[p].app
           /\ os[p].sig = "kill" => os'[p].sig = "kill"
    BY <2>1, SignalsAreHarmless DEF TypeInv, TypeOK
  <2>3. c \in Pids => ~Writing(c)'
    <3>1. c \in Pids => procs[a].pid = c
      BY NoPidAssumption DEF ChildrenHeld
    <3>2. QED
      BY <1>1, <2>1, <3>1 DEF Killed, Writing, Up, Proc
  <2>4. QED
    BY <1>2, <2>2, <2>3 DEF LetsGo
<1>5. QED
  BY <1>3, <1>4

\* A pass spawns for an entry without a child, also while stop_all awaits the
\* process that it has taken from there.
LEMMA SpawnKeepsHands ==
    ASSUME TypeInv, Hands, taken' = taken,
           NEW t \in Tasks, NEW a \in Apps, NEW p \in Pids, Spawn(t, a, p)
    PROVE  Hands'
<1>1. /\ \A b \in Apps : procs[b].child \in Pids \cup {NoPid}
      /\ taken \in SUBSET Pids
  BY DEF TypeInv, TypeOK, Managed
<1>2. os[p].st = "free" /\ procs[a].child = NoPid
  BY DEF Spawn, MaySpawn, FreePids
<1>3. /\ \A q \in Pids \ {p} : os'[q] = os[q]
      /\ os'[p].app = a /\ os'[p].st = "up"
  BY DEF Spawn, Started, TypeInv, TypeOK, OsTypeOK
<1>4. /\ \A b \in Apps \ {a} : procs'[b] = procs[b]
      /\ procs'[a].child = p /\ procs'[a].pid = p
  <2>1. Entry(a) \in Managed
    BY EntryFields DEF TypeInv, TypeOK
  <2>2. QED
    BY <2>1 DEF Spawn, SetEntry, Managed, TypeInv, TypeOK
<1>5. p \notin taken /\ \A b \in Apps : procs[b].child # p
  BY <1>2, NoPidAssumption DEF Hands, TakenHeld, ChildrenHeld
<1>6. ChildrenHeld'
  BY <1>1, <1>3, <1>4, <1>5 DEF Hands, ChildrenHeld
<1>7. TakenHeld'
  BY <1>1, <1>3 DEF Hands, TakenHeld
<1>8. WritersHeld'
  <2> SUFFICES ASSUME NEW q \in Pids, Writing(q)'
               PROVE  /\ os'[q].app \in Apps
                      /\ q \in taken \/ procs'[os'[q].app].child = q
    BY DEF WritersHeld
  <2>1. CASE q = p
    BY <1>3, <1>4, <2>1
  <2>2. CASE q # p
    <3>1. Writing(q) /\ os'[q] = os[q]
      BY <1>3, <2>2 DEF Writing, Up
    <3>2. os[q].app \in Apps /\ (q \in taken \/ procs[os[q].app].child = q)
      BY <3>1 DEF Hands, WritersHeld
    <3>3. QED
      BY <1>2, <1>4, <3>1, <3>2, NoPidAssumption
  <2>3. QED
    BY <2>1, <2>2
<1>9. QED
  BY <1>6, <1>7, <1>8 DEF Hands

\* A process that exits stays a zombie while either hand holds it.
LEMMA ExitKeepsHands ==
    ASSUME TypeInv, Hands, taken' = taken, NEW p \in Pids, Exit(p)
    PROVE  Hands'
<1>1. /\ \A q \in Pids \ {p} : os'[q] = os[q]
      /\ os'[p].st # "up"
      /\ Held(p) => os'[p].app = os[p].app /\ os'[p].st = "zombie"
  BY DEF Exit, ProcExit, Waited, FreeSlot, TypeInv, TypeOK, OsTypeOK, Proc
<1>2. /\ procs' = procs
      /\ \A b \in Apps : procs[b].child \in Pids \cup {NoPid}
      /\ taken \in SUBSET Pids
  BY DEF Exit, TypeInv, TypeOK, Managed
<1>3. \A q \in Pids : Writing(q)' => Writing(q) /\ os'[q] = os[q]
  BY <1>1 DEF Writing, Up
<1>4. ChildrenHeld'
  BY <1>1, <1>2 DEF Hands, ChildrenHeld, Held
<1>5. TakenHeld'
  BY <1>1, <1>2 DEF Hands, TakenHeld, Held
<1>6. WritersHeld'
  BY <1>2, <1>3 DEF Hands, WritersHeld
<1>7. QED
  BY <1>4, <1>5, <1>6 DEF Hands

\* stop_all takes the children whole and lets go of one by waiting for it only.
LEMMA StopAllKeepsHands ==
    ASSUME TypeInv, Hands, NothingTaken, StopAll
    PROVE  Hands'
<1>1. /\ \A b \in Apps : procs[b].child \in Pids \cup {NoPid}
      /\ taken \in SUBSET Pids
      /\ os \in [Pids -> Proc] /\ procs \in [Apps -> Managed]
  BY DEF TypeInv, TypeOK, OsTypeOK, Managed
<1>2. ChildrenHeld /\ TakenHeld /\ WritersHeld
  BY DEF Hands
<1>3. CASE TakeChildren
  <2>1. \A b \in Apps : procs'[b].child = NoPid
    <3>1. ASSUME NEW b \in Apps, procs[b].pid = NoPid
          PROVE  procs[b].child = NoPid
      BY <1>2, <3>1 DEF ChildrenHeld
    <3>2. QED
      BY <1>1, <1>3, <3>1 DEF TakeChildren, Managed
  <2>2. os' = os
    BY <1>3 DEF TakeChildren
  <2>3. \A q \in taken' : \E b \in Apps : procs[b].child = q /\ q # NoPid
    BY <1>3, NoPidAssumption DEF TakeChildren
  <2>4. ASSUME NEW q \in Pids, Writing(q)
        PROVE  os[q].app \in Apps /\ q \in taken'
    <3>1. taken = {}
      BY <1>3 DEF NothingTaken, OwnsChildren, TakeChildren, Stopper
    <3>2. os[q].app \in Apps /\ procs[os[q].app].child = q
      BY <1>2, <2>4, <3>1 DEF WritersHeld
    <3>3. procs[os[q].app].pid # NoPid
      BY <1>2, <3>2, NoPidAssumption DEF ChildrenHeld
    <3>4. QED
      BY <1>3, <3>2, <3>3 DEF TakeChildren
  <2>5. QED
    BY <1>2, <2>1, <2>2, <2>3, <2>4
       DEF Hands, ChildrenHeld, TakenHeld, WritersHeld, Writing, Up
<1>4. ASSUME NEW q \in Pids, ReapTaken(q)
      PROVE  Hands'
  <2>1. /\ \A r \in Pids : os'[r] = IF r = q THEN FreeSlot ELSE os[r]
        /\ taken' = taken \ {q} /\ procs' = procs
        /\ q \in taken /\ os[q].st = "zombie"
    BY <1>1, <1>4 DEF ReapTaken, Waited
  <2>2. \A r \in Pids : Writing(r)' => Writing(r) /\ r # q /\ os'[r] = os[r]
    BY <2>1 DEF Writing, Up, FreeSlot
  <2>3. ChildrenHeld'
    BY <1>1, <1>2, <2>1 DEF ChildrenHeld
  <2>4. TakenHeld'
    BY <1>1, <1>2, <2>1 DEF TakenHeld
  <2>5. WritersHeld'
    BY <1>2, <2>1, <2>2 DEF WritersHeld
  <2>6. QED
    BY <2>3, <2>4, <2>5 DEF Hands
<1>5. ASSUME TermTaken \/ ClearPidfiles \/ \E q \in Pids : KillTaken(q)
      PROVE  Hands'
  <2>1. /\ procs' = procs /\ taken' = taken
        /\ os' = os \/ \E P : os' = Termed(P) \/ os' = Killed(P)
    BY <1>5 DEF TermTaken, ClearPidfiles, KillTaken
  <2>2. \A r \in Pids :
           /\ os'[r].st = os[r].st /\ os'[r].app = os[r].app
           /\ os[r].sig = "kill" => os'[r].sig = "kill"
    BY <2>1, SignalsAreHarmless DEF TypeInv, TypeOK
  <2>3. \A r \in Pids : Writing(r)' => Writing(r)
    BY <2>2 DEF Writing, Up
  <2>4. ChildrenHeld' /\ TakenHeld'
    BY <1>1, <1>2, <2>1, <2>2 DEF ChildrenHeld, TakenHeld
  <2>5. WritersHeld'
    BY <1>2, <2>1, <2>2, <2>3 DEF WritersHeld
  <2>6. QED
    BY <2>4, <2>5 DEF Hands
<1>6. QED
  BY <1>3, <1>4, <1>5 DEF StopAll

LEMMA StepKeepsHands ==
    ASSUME TypeInv, Hands, NothingTaken, [Next]_vars
    PROVE  Hands' /\ NothingTaken'
<1>1. CASE StopAll
  <2>1. ~OwnsChildren'
    BY <1>1 DEF StopAll, TakeChildren, TermTaken, ClearPidfiles, ReapTaken, KillTaken,
                Stopper, OwnsChildren
  <2>2. QED
    BY <1>1, <2>1, StopAllKeepsHands DEF NothingTaken
<1>2. CASE ~StopAll
  <2>1. taken' = taken /\ NothingTaken'
    BY <1>2, OnlyStopAllTakes DEF NothingTaken
  <2>2. ASSUME NEW t \in Tasks, Tick(t) \/ Request(t)
        PROVE  Hands'
    BY <2>1, <2>2, HandlersAreHarmless, HarmlessKeepsHands
  <2>3. ASSUME NEW t \in Tasks, PassStep(t)
        PROVE  Hands'
    <3>1. ASSUME NEW a \in Apps, ReapExited(t, a) \/ DropApp(t, a)
          PROVE  Hands'
      BY <2>1, <3>1, ReapLetsGo, DropLetsGo, LetsGoKeepsHands DEF Hands
    <3>2. ASSUME NEW a \in Apps, NEW p \in Pids, Spawn(t, a, p)
          PROVE  Hands'
      BY <2>1, <3>2, SpawnKeepsHands
    <3>3. ASSUME WritePidfile(t)
          PROVE  Hands'
      BY <3>3 DEF WritePidfile, Hands, ChildrenHeld, TakenHeld, WritersHeld, Writing, Up
    <3>4. QED
      BY <2>1, <2>3, <3>1, <3>2, <3>3, PassIsHarmless, HarmlessKeepsHands DEF PassStep
  <2>4. ASSUME NEW t \in Tasks, TaskStep(t)
        PROVE  Hands'
    BY <2>1, <2>3, <2>4, PassIsHarmless, HandlersAreHarmless, HarmlessKeepsHands
       DEF TaskStep
  <2>5. CASE \/ ShutdownSignal \/ UNCHANGED vars
             \/ \E a \in Apps : DeadlinePasses(a) \/ BackoffExpires(a)
    BY <2>1, <2>5, TimeIsHarmless, HarmlessKeepsHands
  <2>6. CASE \E p \in Pids : Exit(p)
    BY <2>1, <2>6, ExitKeepsHands
  <2>7. QED
    BY <1>2, <2>1, <2>2, <2>4, <2>5, <2>6 DEF Next
<1>3. QED
  BY <1>1, <1>2

\* However many passes are in flight when stop_all takes, awaits and kills the
\* children, no process that may go on running is lost between the two, and
\* none is in both hands: what a late pass starts stays its app's child.
THEOREM EveryChildInOneHand == Spec => []HandedOver
<1>1. Init => Hands /\ NothingTaken
  BY DEF Init, OsInit, Hands, ChildrenHeld, TakenHeld, WritersHeld, NothingTaken,
         Untracked, DefaultEntry, FreeSlot, Writing, Up
<1>2. TypeInv /\ (Hands /\ NothingTaken) /\ [Next]_vars => (Hands /\ NothingTaken)'
  BY StepKeepsHands
<1>3. TypeInv /\ Hands => HandedOver
  BY NoPidAssumption DEF TypeInv, TypeOK, Hands, ChildrenHeld, WritersHeld, HandedOver
<1>4. QED
  BY <1>1, <1>2, <1>3, TypeCorrect, PTL DEF Spec
=============================================================================
