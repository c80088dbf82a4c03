---------------------------- MODULE BootProofs ----------------------------
(***************************************************************************)
(* Theorems about Boot for every set of apps, pids and tasks and for any   *)
(* number of lives and strangers: what one life of the daemon hands over   *)
(* to the next.  The operations of a life keep the lemmas they have in     *)
(* DaemonProofs; the invariants differ, because several lives can lose     *)
(* sight of a process where one life cannot.                               *)
(***************************************************************************)
EXTENDS Boot, DaemonProofs

-----------------------------------------------------------------------------
\* Every step of Boot, by what it does to the variables of Daemon.
LEMMA BootTypes ==
    ASSUME BootTypeOK, [BootNext]_allVars
    PROVE  BootTypeOK'
<1> USE DEF BootTypeOK, BootStages, bootVars
<1>1. CASE Launch
  <2>1. TypeInv'
    BY <1>1, OtherTypeInv DEF Launch
  <2>2. lives' \in 0..MaxLives
    BY <1>1, MaxLivesAssumption DEF Launch
  <2>3. QED
    BY <1>1, <2>1, <2>2 DEF Launch
<1>2. CASE EndCleanup \/ Bind
  <2>1. TypeInv'
    BY <1>2, OtherTypeInv DEF EndCleanup, Bind
  <2>2. QED
    BY <1>2, <2>1 DEF EndCleanup, Bind
<1>3. ASSUME NEW a \in Apps, CleanupApp(a)
      PROVE  BootTypeOK'
  <2>1. os' \in [Pids -> Proc]
    BY <1>3, OsTypes DEF CleanupApp, TypeInv, TypeOK
  <2>2. TypeInv'
    BY <1>3, <2>1 DEF CleanupApp, TypeInv, TypeOK, TaskMemory, OsTypeOK
  <2>3. killed' \in SUBSET Pids /\ left' \in SUBSET Apps
    BY <1>3 DEF CleanupApp, PidAlive
  <2>4. QED
    BY <1>3, <2>2, <2>3 DEF CleanupApp
<1>4. CASE KillStragglers
  <2>1. os' \in [Pids -> Proc]
    BY <1>4, OsTypes DEF KillStragglers, TypeInv, TypeOK
  <2>2. TypeInv'
    BY <1>4, <2>1 DEF KillStragglers, TypeInv, TypeOK, TaskMemory, OsTypeOK
  <2>3. QED
    BY <1>4, <2>2 DEF KillStragglers
<1>5. CASE Die
  <2>1. FreeSlot \in Proc
    BY DEF FreeSlot, Proc
  <2>2. Untracked \in Managed
    <3>1. 0 \in 0..RestartCap
      BY RestartCapAssumption
    <3>2. QED
      BY <3>1 DEF Managed, Untracked, DefaultEntry, RunState
  <2>3. TypeInv'
    BY <1>5, <2>1, <2>2
       DEF Die, TypeInv, TypeOK, TaskMemory, OsTypeOK, Stages, PCs, NoSnap
  <2>4. lost' \in SUBSET Pids
    BY <1>5 DEF Die, Unrecorded
  <2>5. QED
    BY <1>5, <2>3, <2>4 DEF Die
<1>6. ASSUME NEW p \in Pids, StrangerStarts(p)
      PROVE  BootTypeOK'
  <2>1. os' \in [Pids -> Proc]
    BY <1>6 DEF StrangerStarts, Started, TypeInv, TypeOK, OsTypeOK, Proc
  <2>2. TypeInv'
    BY <1>6, <2>1 DEF StrangerStarts, TypeInv, TypeOK, TaskMemory, OsTypeOK
  <2>3. QED
    BY <1>6, <2>2 DEF StrangerStarts
<1>7. ASSUME NEW p \in Pids, ExitAnyLife(p)
      PROVE  BootTypeOK'
  BY <1>7, OtherTypeInv DEF ExitAnyLife
<1>8. CASE DaemonStep /\ UNCHANGED bootVars
  <2>1. TypeInv'
    BY <1>8, HandlerTypeInv, OtherTypeInv DEF DaemonStep
  <2>2. QED
    BY <1>8, <2>1
<1>9. CASE UNCHANGED allVars
  <2>1. TypeInv'
    BY <1>9, OtherTypeInv DEF allVars
  <2>2. QED
    BY <1>9, <2>1 DEF allVars
<1>10. QED
  BY <1>1, <1>2, <1>3, <1>4, <1>5, <1>6, <1>7, <1>8, <1>9
     DEF BootNext, Crash, BindFails, ServeReturns

\* Across deaths, restarts and strangers every variable keeps its type, and what
\* a task of one life remembers is good for that life.
THEOREM BootTypeCorrect == BootSpec => []BootTypeOK
<1>1. BootInit => BootTypeOK
  BY InitTypeInv, MaxLivesAssumption DEF BootInit, BootTypeOK, BootStages
<1>2. BootTypeOK /\ [BootNext]_allVars => BootTypeOK'
  BY BootTypes
<1>3. QED
  BY <1>1, <1>2, PTL DEF BootSpec

-----------------------------------------------------------------------------
(***************************************************************************)
(* The invariant behind the other theorems.  Between two lives the only    *)
(* link from an app to its process is the pidfile; during the start-up     *)
(* cleanup it is the pidfile or the list of pids to be killed; once the    *)
(* loops run it is the entry of procs.  A process counts as lost when a    *)
(* death breaks that link.                                                 *)
(***************************************************************************)

\* A writer that no death of the daemon has lost.
Live(p) == Writer(p) /\ p \notin lost

\* A daemon whose loops do not run yet has no memory of its own.
Fresh ==
    ~Looping =>
        /\ shutdown = "serving"
        /\ \A a \in Apps : procs[a] = Untracked
        /\ \A t \in Tasks : pc[t] = "idle"

\* An app that has been listed, is being recorded or has a pidfile is in the
\* registry, so that the next cleanup looks at it: rows are never deleted.
Remembered ==
    /\ \A t \in Tasks, a \in Apps : snap[t][a] # NoRow => Registered(a)
    /\ \A t \in Tasks : pc[t] = "pidfile" => Registered(cur[t])
    /\ \A a \in Apps : pidfile[a] # NoPid => Registered(a)

Unique ==
    \A p, q \in Pids : Live(p) /\ Live(q) /\ os[p].app = os[q].app => p = q

AtRest == \A p \in Pids : Live(p) => pidfile[os[p].app] = p

BeingCleaned ==
    /\ \A p \in Pids : Live(p) =>
          p \in killed \/ (pidfile[os[p].app] = p /\ os[p].app \in left)
    /\ \A a \in Apps : pidfile[a] # NoPid => a \in left

BeingAwaited ==
    /\ \A p \in Pids : Live(p) => p \in killed
    /\ \A a \in Apps : pidfile[a] = NoPid

\* What the stages before the loops know of the processes of earlier lives.
Handover ==
    /\ boot = "off" => AtRest
    /\ boot = "cleanup" => BeingCleaned /\ Unique
    /\ boot = "grace" => BeingAwaited /\ Unique

LiveTracked == \A p \in Pids : Live(p) => procs[os[p].app].child = p

LiveRecorded ==
    \A p \in Pids : Live(p) =>
        \/ pidfile[os[p].app] = p
        \/ \E t \in Tasks : pc[t] = "pidfile" /\ cur[t] = os[p].app

Owned == Looping /\ OwnsChildren => EntriesOwn /\ LiveTracked /\ LiveRecorded

BootInv == Fresh /\ Remembered /\ Handover /\ Owned

-----------------------------------------------------------------------------
\* Rows are never deleted, lists are taken from the rows, and a pass is about to
\* write a pidfile only for an app it has listed.
LEMMA RequestsRemember ==
    ASSUME TypeInv, Remembered, NEW t \in Tasks, Tick(t) \/ Request(t)
    PROVE  Remembered'
<1> USE DEF TypeInv, TypeOK, Remembered, Registered, Goto
<1>1. CASE Tick(t)
  BY <1>1 DEF Tick
<1>2. ASSUME NEW op, NEW a \in Apps, NEW r \in Row, NEW label, Begin(t, op, a, r, label),
             label # "pidfile"
      PROVE  Remembered'
  BY <1>2, NoRowAssumption DEF Begin
<1>3. ASSUME NEW a \in Apps, rows[a] # NoRow
      PROVE  /\ \A d \in {"running", "stopped"} : [rows[a] EXCEPT !.desired = d] \in Row
             /\ \A v \in Revs : [rows[a] EXCEPT !.rev = v] \in Row
             /\ \A v \in Revs, p \in Policies :
                    [rows[a] EXCEPT !.rev = v, !.policy = p] \in Row
  BY <1>3, PoliciesAssumption DEF Row
<1>4. ASSUME NEW status, Fleet(t, status)
      PROVE  Remembered'
  BY <1>4 DEF Fleet
<1>5. ASSUME NEW a \in Apps, Restart(t, a) \/ Stop(t, a) \/ Start(t, a)
      PROVE  Remembered'
  BY <1>5, <1>2, <1>3 DEF Restart, Stop, Start
<1>6. ASSUME NEW a \in Apps, NEW v \in Revs, Rollback(t, a, v)
      PROVE  Remembered'
  BY <1>6, <1>2, <1>3 DEF Rollback
<1>7. ASSUME NEW a \in Apps, NEW v \in Revs, NEW p \in Policies,
             Deploy(t, a, v, p) \/ Reload(t, a, v, p)
      PROVE  Remembered'
  <2>1. [desired |-> "running", rev |-> v, policy |-> p] \in Row
    BY PoliciesAssumption DEF Row
  <2>2. QED
    BY <1>7, <2>1, <1>2, <1>3 DEF Deploy, Reload
<1>8. QED
  BY <1>1, <1>4, <1>5, <1>6, <1>7 DEF Request

LEMMA TasksRemember ==
    ASSUME TypeInv, Remembered, NEW t \in Tasks, TaskStep(t)
    PROVE  Remembered'
<1> USE DEF TypeInv, TypeOK, TaskMemory, Remembered, Registered, Goto
<1>1. ASSUME NEW a \in Apps, NEW d \in {"running", "stopped"}, rows[a] # NoRow
      PROVE  [rows[a] EXCEPT !.desired = d] # NoRow
  BY <1>1, NoRowAssumption DEF Row
<1>2. CASE SetDesiredRunning(t)
  <2>1. cur[t] \in Apps /\ rows[cur[t]] # NoRow
    BY <1>2 DEF SetDesiredRunning
  <2>2. QED
    BY <1>2, <2>1, <1>1 DEF SetDesiredRunning
<1>3. ASSUME NEW a \in Apps, FleetSet(t, a)
      PROVE  Remembered'
  <2>1. rows[a] # NoRow /\ snap[t][a].desired \in {"running", "stopped"}
    BY <1>3 DEF FleetSet, Row
  <2>2. QED
    BY <1>3, <2>1, <1>1 DEF FleetSet
<1>4. CASE \/ RequestRestart(t) \/ EndFleet(t) \/ ShutdownGate(t) \/ ListApps(t)
           \/ LockProcs(t) \/ EndReap(t) \/ EndDrop(t) \/ EndPass(t) \/ WritePidfile(t)
  BY <1>4 DEF RequestRestart, EndFleet, ShutdownGate, ListApps, LockProcs, EndReap,
              EndDrop, EndPass, WritePidfile, NoSnap
<1>5. ASSUME NEW a \in Apps,
             \/ ReapExited(t, a) \/ Escalate(t, a) \/ DropApp(t, a)
             \/ DriveStop(t, a) \/ DriveStopped(t, a) \/ DriveRunning(t, a)
             \/ DriveHeldBack(t, a) \/ SpawnFails(t, a)
      PROVE  Remembered'
  BY <1>5 DEF ReapExited, Escalate, DropApp, DriveStop, DriveStopped, DriveRunning,
              DriveHeldBack, SpawnFails
<1>6. ASSUME NEW a \in Apps, NEW p \in Pids, Spawn(t, a, p)
      PROVE  Remembered'
  <2>1. snap[t][a] # NoRow
    BY <1>6 DEF Spawn, MaySpawn, Driving
  <2>2. QED
    BY <1>6, <2>1 DEF Spawn
<1>7. QED
  BY <1>2, <1>3, <1>4, <1>5, <1>6 DEF TaskStep, PassStep

LEMMA OthersRemember ==
    ASSUME TypeInv, Remembered,
           \/ UNCHANGED vars \/ ShutdownSignal \/ StopAll
           \/ \E a \in Apps : DeadlinePasses(a) \/ BackoffExpires(a) \/ CleanupApp(a)
           \/ \E p \in Pids : ExitAnyLife(p) \/ StrangerStarts(p)
           \/ KillStragglers \/ Die
    PROVE  Remembered'
<1> USE DEF TypeInv, TypeOK, Remembered, Registered
<1>1. CASE UNCHANGED vars
  BY <1>1 DEF vars
<1>2. CASE Die
  BY <1>2 DEF Die, NoSnap
<1>3. CASE ShutdownSignal \/ StopAll
  BY <1>3 DEF ShutdownSignal, StopAll, TakeChildren, TermTaken, ReapTaken, KillTaken,
              ClearPidfiles
<1>4. CASE \/ KillStragglers
           \/ \E a \in Apps : DeadlinePasses(a) \/ BackoffExpires(a) \/ CleanupApp(a)
           \/ \E p \in Pids : ExitAnyLife(p) \/ StrangerStarts(p)
  BY <1>4 DEF KillStragglers, DeadlinePasses, BackoffExpires, CleanupApp, ExitAnyLife,
              Exit, StrangerStarts
<1>5. QED
  BY <1>1, <1>2, <1>3, <1>4

-----------------------------------------------------------------------------
\* The steps around a life start no process of an app.
Shrinks == \A p \in Pids : Live(p)' => Live(p) /\ os'[p].app = os[p].app

LEMMA NothingStarts ==
    ASSUME TypeInv,
           \/ UNCHANGED <<os, lost>> \/ KillStragglers \/ Die
           \/ \E a \in Apps : CleanupApp(a)
           \/ \E p \in Pids : ExitAnyLife(p) \/ StrangerStarts(p)
    PROVE  Shrinks
<1> USE DEF TypeInv, TypeOK, OsTypeOK, Shrinks, Live, Writer, Writing, Up
<1>1. CASE UNCHANGED <<os, lost>>
  BY <1>1
<1>2. CASE KillStragglers
  BY <1>2 DEF KillStragglers, Killed
<1>3. CASE Die
  BY <1>3 DEF Die, FreeSlot
<1>4. ASSUME NEW a \in Apps, CleanupApp(a)
      PROVE  Shrinks
  BY <1>4 DEF CleanupApp, Termed
<1>5. ASSUME NEW p \in Pids, ExitAnyLife(p)
      PROVE  Shrinks
  BY <1>5 DEF ExitAnyLife, Exit, ProcExit, Waited, FreeSlot
<1>6. ASSUME NEW p \in Pids, StrangerStarts(p)
      PROVE  Shrinks
  BY <1>6, NoAppAssumption DEF StrangerStarts, Started, bootVars
<1>7. QED
  BY <1>1, <1>2, <1>3, <1>4, <1>5, <1>6

\* Before the loops run there is no task, no timer and no entry.
LEMMA NoStepBeforeTheLoops ==
    ASSUME Fresh, DaemonStep
    PROVE  Looping
<1>1. Untracked.term = "none" /\ Untracked.waiting = FALSE
  BY DEF Untracked, DefaultEntry
<1>2. QED
  BY <1>1 DEF Fresh, DaemonStep, Looping, DeadlinePasses, BackoffExpires

LEMMA StaysFresh ==
    ASSUME BootTypeOK, Fresh, [BootNext]_allVars
    PROVE  Fresh'
<1> USE DEF Fresh, Looping
<1>1. CASE Launch \/ EndCleanup \/ Bind
  BY <1>1 DEF Launch, EndCleanup, Bind, vars
<1>2. CASE KillStragglers
  BY <1>2 DEF KillStragglers
<1>3. CASE Die
  BY <1>3 DEF Die
<1>4. CASE \E a \in Apps : CleanupApp(a)
  BY <1>4 DEF CleanupApp
<1>5. CASE \E p \in Pids : StrangerStarts(p) \/ ExitAnyLife(p)
  BY <1>5 DEF StrangerStarts, ExitAnyLife, Exit, bootVars
<1>6. CASE DaemonStep /\ UNCHANGED bootVars
  BY <1>6, NoStepBeforeTheLoops DEF bootVars
<1>7. CASE UNCHANGED allVars
  BY <1>7 DEF allVars, vars, bootVars
<1>8. QED
  BY <1>1, <1>2, <1>3, <1>4, <1>5, <1>6, <1>7
     DEF BootNext, Crash, BindFails, ServeReturns

\* From a death to the loops of the next life, cleanup_orphans keeps hold of
\* every process that a pidfile names.
LEMMA HandoverKept ==
    ASSUME BootTypeOK, Fresh, Remembered, Handover, [BootNext]_allVars
    PROVE  Handover'
<1> USE DEF BootTypeOK
<1>1. CASE Launch
  <2>1. boot = "off" /\ boot' = "cleanup" /\ Shrinks /\ pidfile' = pidfile
    BY <1>1, NothingStarts DEF Launch, vars
  <2>2. left' = {a \in Apps : Registered(a)}
    BY <1>1 DEF Launch
  <2>3. AtRest
    BY <2>1 DEF Handover
  <2>4. Unique'
    BY <2>1, <2>3 DEF Unique, AtRest, Shrinks
  <2>5. \A a \in Apps : pidfile[a] # NoPid => a \in left'
    BY <2>2 DEF Remembered
  <2>6. \A p \in Pids : Live(p)' =>
            pidfile'[os'[p].app] = p /\ os'[p].app \in left'
    <3> SUFFICES ASSUME NEW p \in Pids, Live(p)'
                 PROVE  pidfile'[os'[p].app] = p /\ os'[p].app \in left'
      OBVIOUS
    <3>1. Live(p) /\ os'[p].app = os[p].app
      BY <2>1 DEF Shrinks
    <3>2. pidfile[os[p].app] = p /\ os[p].app \in Apps /\ p # NoPid
      BY <2>3, <3>1, NoPidAssumption DEF AtRest, Live, Writer
    <3>3. QED
      BY <2>1, <2>5, <3>1, <3>2
  <2>7. BeingCleaned'
    BY <2>1, <2>5, <2>6 DEF BeingCleaned
  <2>8. QED
    BY <2>1, <2>4, <2>7 DEF Handover
<1>2. ASSUME NEW a \in Apps, CleanupApp(a)
      PROVE  Handover'
  <2>1. boot = "cleanup" /\ boot' = "cleanup" /\ Shrinks
    BY <1>2, NothingStarts DEF CleanupApp
  <2>2. BeingCleaned /\ Unique
    BY <2>1 DEF Handover
  <2>3. /\ left' = left \ {a} /\ killed \subseteq killed'
        /\ pidfile'[a] = NoPid /\ \A b \in Apps \ {a} : pidfile'[b] = pidfile[b]
    BY <1>2 DEF CleanupApp, TypeInv, TypeOK
  <2>4. \A p \in Pids : Live(p) /\ pidfile[a] = p => p \in killed'
    BY <1>2 DEF CleanupApp, PidAlive, Live, Writer, Writing, Up
  <2>5. Unique'
    BY <2>1, <2>2 DEF Unique, Shrinks
  <2>6. ASSUME NEW p \in Pids, Live(p)'
        PROVE  p \in killed' \/ (pidfile'[os'[p].app] = p /\ os'[p].app \in left')
    <3>1. Live(p) /\ os'[p].app = os[p].app /\ os[p].app \in Apps
      BY <2>1, <2>6 DEF Shrinks, Live, Writer
    <3>2. QED
      BY <2>2, <2>3, <2>4, <3>1 DEF BeingCleaned
  <2>7. BeingCleaned'
    BY <2>2, <2>3, <2>6 DEF BeingCleaned
  <2>8. QED
    BY <2>1, <2>5, <2>7 DEF Handover
<1>3. CASE EndCleanup
  <2>1. boot = "cleanup" /\ boot' \in {"ticking", "grace"} /\ Shrinks
    BY <1>3, NothingStarts DEF EndCleanup, vars
  <2>2. BeingCleaned /\ Unique
    BY <2>1 DEF Handover
  <2>3. left = {} /\ UNCHANGED <<pidfile, killed>>
    BY <1>3 DEF EndCleanup, vars
  <2>4. Unique' /\ BeingAwaited'
    BY <2>1, <2>2, <2>3 DEF BeingCleaned, BeingAwaited, Unique, Shrinks
  <2>5. QED
    BY <2>1, <2>4 DEF Handover
<1>4. CASE KillStragglers \/ Bind
  BY <1>4 DEF KillStragglers, Bind, Handover
<1>5. CASE Die
  <2>1. Shrinks
    BY <1>5, NothingStarts
  <2>2. \A p \in Pids : Live(p)' => p \notin Unrecorded
    BY <1>5 DEF Die, Live
  <2>3. AtRest'
    BY <1>5, <2>1, <2>2 DEF Die, AtRest, Shrinks, Unrecorded, Live
  <2>4. QED
    BY <1>5, <2>3 DEF Die, Handover
<1>6. CASE \/ \E p \in Pids : StrangerStarts(p) \/ ExitAnyLife(p)
           \/ UNCHANGED allVars
  <2>1. Shrinks
    BY <1>6, NothingStarts DEF allVars, vars, bootVars
  <2>2. UNCHANGED <<boot, pidfile, left, killed>>
    BY <1>6 DEF StrangerStarts, ExitAnyLife, Exit, allVars, vars, bootVars
  <2>3. Unique => Unique'
    BY <2>1 DEF Unique, Shrinks
  <2>4. AtRest => AtRest'
    BY <2>1, <2>2 DEF AtRest, Shrinks
  <2>5. BeingCleaned => BeingCleaned'
    BY <2>1, <2>2 DEF BeingCleaned, Shrinks
  <2>6. BeingAwaited => BeingAwaited'
    BY <2>1, <2>2 DEF BeingAwaited, Shrinks
  <2>7. QED
    BY <2>2, <2>3, <2>4, <2>5, <2>6 DEF Handover
<1>7. CASE DaemonStep /\ UNCHANGED bootVars
  BY <1>7, NoStepBeforeTheLoops DEF bootVars, Looping, Handover
<1>8. QED
  BY <1>1, <1>2, <1>3, <1>4, <1>5, <1>6, <1>7
     DEF BootNext, Crash, BindFails, ServeReturns

-----------------------------------------------------------------------------
\* While the loops run: the counterparts of DaemonProofs' Ownership lemmas, for
\* the writers that are not lost.  A stranger is never the child of an entry.
OwnedParts == EntriesOwn /\ LiveTracked /\ LiveRecorded

LEMMA HarmlessKeepsOwned ==
    ASSUME TypeInv, OwnedParts, Harmless, UNCHANGED lost
    PROVE  OwnedParts'
<1>1. EntriesOwn /\ LiveTracked /\ LiveRecorded
  BY DEF OwnedParts
<1>2. \A p \in Pids : Live(p)' => Live(p) /\ os'[p].app = os[p].app
  BY DEF Live, Writer, Writing, Up, Harmless
<1>3. \A p \in Pids : Live(p) => os[p].app \in Apps
  BY DEF Live, Writer
<1>4. \A a \in Apps : procs[a].child \in Pids \cup {NoPid}
  BY DEF TypeInv, TypeOK, Managed
<1>5. EntriesOwn'
  BY <1>1, <1>4, NoPidAssumption DEF EntriesOwn, Harmless
<1>6. LiveTracked'
  BY <1>1, <1>2, <1>3 DEF LiveTracked, Harmless
<1>7. LiveRecorded'
  BY <1>1, <1>2 DEF LiveRecorded, Harmless
<1>8. QED
  BY <1>5, <1>6, <1>7 DEF OwnedParts

LEMMA ReapKeepsOwned ==
    ASSUME TypeInv, OwnedParts, NEW t \in Tasks, NEW a \in Apps, ReapExited(t, a),
           UNCHANGED lost
    PROVE  OwnedParts'
<1> DEFINE z == procs[a].child
<1>1. EntriesOwn /\ LiveTracked /\ LiveRecorded
  BY DEF OwnedParts
<1>2. z \in Pids /\ os[z].st = "zombie" /\ os[z].app = a
  BY <1>1 DEF ReapExited, Exited, EntriesOwn, TypeInv, TypeOK, Managed
<1>3. \A p \in Pids : os'[p] = IF p = z THEN FreeSlot ELSE os[p]
  BY <1>2 DEF ReapExited, Waited, TypeInv, TypeOK, OsTypeOK
<1>4. /\ \A b \in Apps \ {a} : procs'[b] = procs[b] /\ pidfile'[b] = pidfile[b]
      /\ procs'[a] = AfterExit(procs[a]) /\ pidfile'[a] = NoPid
      /\ pc' = pc /\ cur' = cur
  BY DEF ReapExited, SetEntry, TypeInv, TypeOK
<1>5. procs'[a].child = NoPid /\ procs'[a].pid = NoPid
  BY <1>4 DEF AfterExit, TypeInv, TypeOK, Managed
<1>6. \A b \in Apps \ {a} : procs[b].child # z
  BY <1>1, <1>2, NoPidAssumption DEF EntriesOwn
<1>7. \A p \in Pids : Live(p)' => Live(p) /\ os'[p].app = os[p].app
  BY <1>3 DEF Live, Writer, Writing, Up, FreeSlot
<1>8. \A p \in Pids : Live(p) => os[p].app \in Apps \ {a}
  BY <1>1, <1>2 DEF LiveTracked, Live, Writer, Writing, Up
<1>9. EntriesOwn'
  BY <1>1, <1>3, <1>4, <1>5, <1>6 DEF EntriesOwn, TypeInv, TypeOK, Managed
<1>10. LiveTracked'
  BY <1>1, <1>4, <1>7, <1>8 DEF LiveTracked
<1>11. LiveRecorded'
  BY <1>1, <1>4, <1>7, <1>8 DEF LiveRecorded
<1>12. QED
  BY <1>9, <1>10, <1>11 DEF OwnedParts

LEMMA DropKeepsOwned ==
    ASSUME TypeInv, OwnedParts, NEW t \in Tasks, NEW a \in Apps, DropApp(t, a),
           UNCHANGED lost
    PROVE  OwnedParts'
<1>0. PICK c : c = procs[a].child
  OBVIOUS
<1>1. EntriesOwn /\ LiveTracked /\ LiveRecorded
  BY DEF OwnedParts
<1>2. c \in Pids \cup {NoPid} /\ procs[a].pid = c
  BY <1>0, <1>1 DEF EntriesOwn, TypeInv, TypeOK, Managed
<1>3. \A p \in Pids : p # c => os'[p] = os[p]
  BY <1>0, <1>2 DEF DropApp, Waited, Killed, TypeInv, TypeOK, OsTypeOK
<1>4. c \in Pids => ~Writing(c)'
  <2>1. CASE Exited(a)
    BY <1>0, <2>1 DEF DropApp, Waited, FreeSlot, Writing, Up, TypeInv, TypeOK, OsTypeOK
  <2>2. CASE ~Exited(a)
    BY <1>2, <2>2 DEF DropApp, Killed, Writing, Up, TypeInv, TypeOK, OsTypeOK, Proc
  <2>3. QED
    BY <2>1, <2>2
<1>5. /\ \A b \in Apps \ {a} : procs'[b] = procs[b] /\ pidfile'[b] = pidfile[b]
      /\ procs'[a] = Untracked /\ pidfile'[a] = NoPid
      /\ pc' = pc /\ cur' = cur
  BY DEF DropApp, SetEntry, TypeInv, TypeOK
<1>6. procs'[a].child = NoPid /\ procs'[a].pid = NoPid
  BY <1>5 DEF Untracked, DefaultEntry
<1>7. \A b \in Apps \ {a} : procs[b].child # NoPid => procs[b].child # c
  BY <1>0, <1>1 DEF EntriesOwn
<1>8. \A p \in Pids : Live(p)' => Live(p) /\ p # c /\ os'[p] = os[p]
  BY <1>3, <1>4 DEF Live, Writer, Writing, Up
<1>9. \A p \in Pids : Live(p) /\ p # c => os[p].app \in Apps \ {a}
  BY <1>0, <1>1 DEF LiveTracked, Live, Writer
<1>10. \A b \in Apps : procs[b].child \in Pids \cup {NoPid}
  BY DEF TypeInv, TypeOK, Managed
<1>11. EntriesOwn'
  BY <1>1, <1>3, <1>5, <1>6, <1>7, <1>10 DEF EntriesOwn
<1>12. LiveTracked'
  BY <1>1, <1>5, <1>8, <1>9 DEF LiveTracked
<1>13. LiveRecorded'
  BY <1>1, <1>5, <1>8, <1>9 DEF LiveRecorded
<1>14. QED
  BY <1>11, <1>12, <1>13 DEF OwnedParts

LEMMA SpawnKeepsOwned ==
    ASSUME TypeInv, OwnedParts, NEW t \in Tasks, NEW a \in Apps, NEW p \in Pids,
           Spawn(t, a, p), UNCHANGED lost
    PROVE  OwnedParts'
<1>1. EntriesOwn /\ LiveTracked /\ LiveRecorded
  BY DEF OwnedParts
<1>2. os[p].st = "free" /\ procs[a].child = NoPid /\ pc[t] = "drive"
  BY DEF Spawn, MaySpawn, Driving, FreePids
<1>3. /\ \A q \in Pids \ {p} : os'[q] = os[q]
      /\ os'[p].app = a /\ os'[p].st = "up"
  BY DEF Spawn, Started, TypeInv, TypeOK, OsTypeOK
<1>4. /\ \A b \in Apps \ {a} : procs'[b] = procs[b]
      /\ pidfile' = pidfile
      /\ pc'[t] = "pidfile" /\ cur'[t] = a
      /\ \A u \in Tasks \ {t} : pc'[u] = pc[u] /\ cur'[u] = cur[u]
  BY DEF Spawn, SetEntry, Goto, TypeInv, TypeOK
<1>5. procs'[a].child = p /\ procs'[a].pid = p
  <2>1. Entry(a) \in Managed
    BY EntryFields DEF TypeInv, TypeOK
  <2>2. QED
    BY <2>1 DEF Spawn, SetEntry, Managed, TypeInv, TypeOK
<1>6. pidfile[a] = NoPid
  BY <1>1, <1>2 DEF EntriesOwn
<1>7. \A b \in Apps : procs[b].child \in Pids \cup {NoPid} /\ procs[b].child # p
  BY <1>1, <1>2, NoPidAssumption DEF EntriesOwn, TypeInv, TypeOK, Managed
<1>8. \A q \in Pids \ {p} : Live(q)' =>
          Live(q) /\ os'[q] = os[q] /\ os[q].app \in Apps \ {a}
  BY <1>1, <1>2, <1>3, NoPidAssumption DEF Live, Writer, Writing, Up, LiveTracked
<1>9. EntriesOwn'
  BY <1>1, <1>3, <1>4, <1>5, <1>6, <1>7 DEF EntriesOwn
<1>10. LiveTracked'
  BY <1>1, <1>3, <1>4, <1>5, <1>8 DEF LiveTracked
<1>11. LiveRecorded'
  <2> SUFFICES ASSUME NEW q \in Pids, Live(q)'
               PROVE  \/ pidfile'[os'[q].app] = q
                      \/ \E u \in Tasks : pc'[u] = "pidfile" /\ cur'[u] = os'[q].app
    BY DEF LiveRecorded
  <2>1. CASE q = p
    BY <2>1, <1>3, <1>4
  <2>2. CASE q # p
    BY <2>2, <1>1, <1>2, <1>4, <1>8 DEF LiveRecorded
  <2>3. QED
    BY <2>1, <2>2
<1>12. QED
  BY <1>9, <1>10, <1>11 DEF OwnedParts

LEMMA PidfileKeepsOwned ==
    ASSUME TypeInv, OwnedParts, NEW t \in Tasks, WritePidfile(t), UNCHANGED lost
    PROVE  OwnedParts'
<1> DEFINE a == cur[t]
<1>1. EntriesOwn /\ LiveTracked /\ LiveRecorded
  BY DEF OwnedParts
<1>2. a \in Apps
  BY DEF WritePidfile, TypeInv, TaskMemory
<1>3. /\ os' = os /\ procs' = procs
      /\ pidfile'[a] = procs[a].pid
      /\ \A b \in Apps \ {a} : pidfile'[b] = pidfile[b]
      /\ \A u \in Tasks \ {t} : pc'[u] = pc[u] /\ cur'[u] = cur[u]
  BY <1>2 DEF WritePidfile, Goto, TypeInv, TypeOK
<1>4. \A p \in Pids : Live(p)' => Live(p) /\ os[p].app \in Apps
  BY <1>3 DEF Live, Writer, Writing, Up
<1>5. EntriesOwn'
  BY <1>1, <1>3 DEF EntriesOwn
<1>6. LiveTracked'
  BY <1>1, <1>3, <1>4 DEF LiveTracked
<1>7. LiveRecorded'
  BY <1>1, <1>2, <1>3, <1>4 DEF LiveRecorded, LiveTracked, EntriesOwn
<1>8. QED
  BY <1>5, <1>6, <1>7 DEF OwnedParts

LEMMA ExitKeepsOwned ==
    ASSUME TypeInv, OwnedParts, NEW p \in Pids, ExitAnyLife(p)
    PROVE  OwnedParts'
<1>1. EntriesOwn /\ LiveTracked /\ LiveRecorded
  BY DEF OwnedParts
<1>2. /\ \A q \in Pids \ {p} : os'[q] = os[q]
      /\ os'[p].st # "up"
      /\ Held(p) => os'[p].app = os[p].app /\ os'[p].st = "zombie"
  BY DEF ExitAnyLife, Exit, ProcExit, Waited, FreeSlot, TypeInv, TypeOK, OsTypeOK, Proc
<1>3. UNCHANGED <<procs, pidfile, pc, cur>> /\ lost' = lost \ {p}
  BY DEF ExitAnyLife, Exit
<1>4. \A a \in Apps : procs[a].child \in Pids \cup {NoPid}
  BY DEF TypeInv, TypeOK, Managed
<1>5. \A q \in Pids : Live(q)' => Live(q) /\ os'[q] = os[q]
  BY <1>2, <1>3 DEF Live, Writer, Writing, Up
<1>6. EntriesOwn'
  BY <1>1, <1>2, <1>3, <1>4 DEF EntriesOwn, Held
<1>7. LiveTracked'
  BY <1>1, <1>3, <1>5 DEF LiveTracked
<1>8. LiveRecorded'
  BY <1>1, <1>3, <1>5 DEF LiveRecorded
<1>9. QED
  BY <1>6, <1>7, <1>8 DEF OwnedParts

LEMMA StrangerKeepsOwned ==
    ASSUME TypeInv, OwnedParts, NEW p \in Pids, StrangerStarts(p)
    PROVE  OwnedParts'
<1>1. EntriesOwn /\ LiveTracked /\ LiveRecorded
  BY DEF OwnedParts
<1>2. os[p].st = "free" /\ \A q \in Pids \ {p} : os'[q] = os[q]
  BY DEF StrangerStarts, FreePids, Started, TypeInv, TypeOK, OsTypeOK
<1>3. UNCHANGED <<procs, pidfile, pc, cur, lost>>
  BY DEF StrangerStarts, bootVars
<1>4. \A a \in Apps : procs[a].child \in Pids \cup {NoPid} /\ procs[a].child # p
  BY <1>1, <1>2, NoPidAssumption DEF EntriesOwn, TypeInv, TypeOK, Managed
<1>5. Shrinks
  BY NothingStarts
<1>6. EntriesOwn'
  BY <1>1, <1>2, <1>3, <1>4 DEF EntriesOwn
<1>7. LiveTracked'
  BY <1>1, <1>3, <1>5 DEF LiveTracked, Shrinks
<1>8. LiveRecorded'
  BY <1>1, <1>3, <1>5 DEF LiveRecorded, Shrinks
<1>9. QED
  BY <1>6, <1>7, <1>8 DEF OwnedParts

\* The loops begin with nobody left to write unless a death has lost him.
LEMMA LoopsBeginOwned ==
    ASSUME BootTypeOK, Fresh, Handover, EndCleanup \/ KillStragglers, Looping'
    PROVE  OwnedParts'
<1>1. ~Looping /\ UNCHANGED <<procs, pidfile>> /\ lost' = lost
  BY DEF Looping, EndCleanup, KillStragglers, vars
<1>2. \A a \in Apps : procs[a].child = NoPid /\ procs[a].pid = NoPid
  BY <1>1 DEF Fresh, Untracked, DefaultEntry
<1>3. (\A a \in Apps : pidfile[a] = NoPid) /\ \A p \in Pids : ~Live(p)'
  <2>1. CASE EndCleanup
    <3>1. BeingCleaned /\ left = {} /\ killed = {} /\ os' = os
      BY <2>1 DEF EndCleanup, Handover, Looping, vars
    <3>2. QED
      BY <1>1, <3>1 DEF BeingCleaned, Live, Writer, Writing, Up
  <2>2. CASE KillStragglers
    <3>1. BeingAwaited /\ os' = Killed({p \in killed : PidAlive(p)})
      BY <2>2 DEF KillStragglers, Handover
    <3>2. ASSUME NEW p \in Pids, Live(p)'
          PROVE  FALSE
      <4>1. Live(p)
        BY <2>2, <3>2, NothingStarts DEF Shrinks, BootTypeOK
      <4>2. p \in killed /\ Up(p) /\ PidAlive(p)
        BY <3>1, <4>1 DEF BeingAwaited, Live, Writer, Writing, Up, PidAlive
      <4>3. os'[p].sig = "kill"
        BY <3>1, <4>2 DEF Killed, BootTypeOK, TypeInv, TypeOK, OsTypeOK, Proc
      <4>4. QED
        BY <3>2, <4>3 DEF Live, Writer, Writing
    <3>3. QED
      BY <3>1, <3>2 DEF BeingAwaited
  <2>3. QED
    BY <2>1, <2>2
<1>4. QED
  BY <1>1, <1>2, <1>3 DEF OwnedParts, EntriesOwn, LiveTracked, LiveRecorded

LEMMA OwnedKept ==
    ASSUME BootTypeOK, Fresh, Handover, Owned, [BootNext]_allVars
    PROVE  Owned'
<1> SUFFICES ASSUME Looping', OwnsChildren'
             PROVE  OwnedParts'
  BY DEF Owned, OwnedParts
<1> USE DEF BootTypeOK
<1>1. CASE Launch \/ Die \/ \E a \in Apps : CleanupApp(a)
  BY <1>1 DEF Launch, Die, CleanupApp, Looping
<1>2. CASE EndCleanup \/ KillStragglers
  BY <1>2, LoopsBeginOwned
<1>3. Looping /\ OwnsChildren => OwnedParts
  BY DEF Owned, OwnedParts
<1>4. CASE Bind \/ UNCHANGED allVars
  <2>1. Harmless /\ UNCHANGED lost
    BY <1>4, TimeIsHarmless DEF Bind, allVars, bootVars
  <2>2. Looping /\ OwnsChildren
    BY <1>4 DEF Bind, allVars, bootVars, vars, Looping, OwnsChildren
  <2>3. QED
    BY <1>3, <2>1, <2>2, HarmlessKeepsOwned
<1>5. CASE \E p \in Pids : StrangerStarts(p) \/ ExitAnyLife(p)
  <2>1. Looping /\ OwnsChildren
    BY <1>5 DEF StrangerStarts, ExitAnyLife, Exit, bootVars, Looping, OwnsChildren
  <2>2. QED
    BY <1>3, <1>5, <2>1, StrangerKeepsOwned, ExitKeepsOwned
<1>6. CASE DaemonStep /\ UNCHANGED bootVars
  <2>1. Looping /\ UNCHANGED lost
    BY <1>6, NoStepBeforeTheLoops DEF bootVars
  <2>2. ~StopAll
    BY DEF StopAll, TakeChildren, TermTaken, ClearPidfiles, ReapTaken, KillTaken,
           Stopper, OwnsChildren
  <2>3. ASSUME Harmless
        PROVE  OwnedParts'
    BY <1>3, <2>1, <2>3, HarmlessKeepsOwned DEF Harmless
  <2>4. ASSUME NEW t \in Tasks, Tick(t) \/ Request(t)
        PROVE  OwnedParts'
    BY <2>3, <2>4, HandlersAreHarmless
  <2>5. ASSUME NEW t \in Tasks, TaskStep(t)
        PROVE  OwnedParts'
    <3>1. CASE SetDesiredRunning(t) \/ EndFleet(t) \/ \E a \in Apps : FleetSet(t, a)
      BY <2>3, <3>1, HandlersAreHarmless
    <3>2. CASE RequestRestart(t)
      BY <2>3, <3>2, PassIsHarmless
    <3>3. ASSUME NEW a \in Apps,
                 \/ Escalate(t, a) \/ DriveStop(t, a) \/ DriveStopped(t, a)
                 \/ DriveRunning(t, a) \/ DriveHeldBack(t, a) \/ SpawnFails(t, a)
          PROVE  OwnedParts'
      BY <2>3, <3>3, PassIsHarmless
    <3>4. ASSUME NEW a \in Apps, ReapExited(t, a) \/ DropApp(t, a)
          PROVE  OwnedParts'
      <4>1. OwnsChildren
        BY <3>4 DEF ReapExited, DropApp, OwnsChildren
      <4>2. QED
        BY <1>3, <2>1, <3>4, <4>1, ReapKeepsOwned, DropKeepsOwned
    <3>5. ASSUME NEW a \in Apps, NEW p \in Pids, Spawn(t, a, p)
          PROVE  OwnedParts'
      <4>1. OwnsChildren
        BY <3>5 DEF Spawn, OwnsChildren
      <4>2. QED
        BY <1>3, <2>1, <3>5, <4>1, SpawnKeepsOwned
    <3>6. CASE WritePidfile(t)
      <4>1. OwnsChildren
        BY <3>6 DEF WritePidfile, OwnsChildren
      <4>2. QED
        BY <1>3, <2>1, <3>6, <4>1, PidfileKeepsOwned
    <3>7. CASE PassStep(t)
      BY <2>3, <3>3, <3>4, <3>5, <3>6, <3>7, PassIsHarmless DEF PassStep
    <3>8. QED
      BY <2>5, <3>1, <3>2, <3>7 DEF TaskStep
  <2>6. CASE ShutdownSignal \/ \E a \in Apps : DeadlinePasses(a) \/ BackoffExpires(a)
    BY <2>3, <2>6, TimeIsHarmless
  <2>7. QED
    BY <1>6, <2>2, <2>4, <2>5, <2>6 DEF DaemonStep
<1>7. QED
  BY <1>1, <1>2, <1>4, <1>5, <1>6 DEF BootNext, Crash, BindFails, ServeReturns

\* What one life hands over to the next, as one inductive invariant.
THEOREM HandoverInvariant == BootSpec => []BootInv
<1>1. BootInit => BootInv
  <2> SUFFICES ASSUME BootInit
               PROVE  BootInv
    OBVIOUS
  <2>1. boot = "off" /\ Init
    BY DEF BootInit
  <2>2. \A p \in Pids : ~Live(p)
    BY <2>1 DEF Init, OsInit, FreeSlot, Live, Writer, Writing, Up
  <2>3. Fresh /\ Remembered
    BY <2>1 DEF Init, Fresh, Remembered, NoSnap
  <2>4. Handover /\ Owned
    BY <2>1, <2>2 DEF Handover, AtRest, Owned, Looping
  <2>5. QED
    BY <2>3, <2>4 DEF BootInv
<1>2. BootTypeOK /\ BootInv /\ [BootNext]_allVars => BootInv'
  <2> SUFFICES ASSUME BootTypeOK, BootInv, [BootNext]_allVars
               PROVE  BootInv'
    OBVIOUS
  <2>1. Fresh /\ Remembered /\ Handover /\ Owned
    BY DEF BootInv
  <2>2. Remembered'
    BY <2>1, RequestsRemember, TasksRemember, OthersRemember
       DEF BootTypeOK, BootNext, DaemonStep, Launch, EndCleanup, Bind, Crash, BindFails,
           ServeReturns, allVars
  <2>3. Fresh' /\ Handover' /\ Owned'
    BY <2>1, StaysFresh, HandoverKept, OwnedKept
  <2>4. QED
    BY <2>2, <2>3 DEF BootInv
<1>3. QED
  BY <1>1, <1>2, BootTypeCorrect, PTL DEF BootSpec

-----------------------------------------------------------------------------
\* DESIGN principle 8 over any number of lives: two writers of one state
\* directory exist only if a death of the daemon has lost one of them.
THEOREM OneWriterOverLives == BootSpec => []OneWriterUnlessLost
<1>1. BootTypeOK /\ BootInv => OneWriterUnlessLost
  <2> SUFFICES ASSUME BootTypeOK, BootInv, OwnsChildren, NEW p \in Pids, NEW q \in Pids,
                      Live(p), Live(q), os[p].app = os[q].app
               PROVE  p = q
    BY DEF OneWriterUnlessLost, Live
  <2>1. CASE Looping
    BY <2>1 DEF BootInv, Owned, LiveTracked
  <2>2. CASE boot = "off"
    BY <2>2 DEF BootInv, Handover, AtRest
  <2>3. CASE boot \in {"cleanup", "grace"}
    BY <2>3 DEF BootInv, Handover, Unique
  <2>4. QED
    BY <2>1, <2>2, <2>3 DEF BootTypeOK, BootStages, Looping
<1>2. QED
  BY <1>1, BootTypeCorrect, HandoverInvariant, PTL

\* cleanup_orphans keeps its promise for every process that is not lost: what
\* writes while the loops run is in the table of this life.
THEOREM BlankSlate == BootSpec => []BlankSlateUnlessLost
<1>1. BootInv => BlankSlateUnlessLost
  BY DEF BootInv, Owned, LiveTracked, BlankSlateUnlessLost, Live
<1>2. QED
  BY <1>1, HandoverInvariant, PTL

\* A death of the daemon outside the three windows leaves every writer in its
\* pidfile.
THEOREM ProcessesLostOnlyInWindows == BootSpec => LostOnlyInWindows
<1>1. BootTypeOK /\ BootInv /\ [BootNext]_allVars =>
          \/ lost' \subseteq lost
          \/ boot \in {"cleanup", "grace"}
          \/ \E t \in Tasks : pc[t] = "pidfile"
          \/ ~OwnsChildren
  <2> SUFFICES ASSUME BootTypeOK, BootInv, [BootNext]_allVars, OwnsChildren,
                      boot \notin {"cleanup", "grace"},
                      \A t \in Tasks : pc[t] # "pidfile"
               PROVE  lost' \subseteq lost
    OBVIOUS
  <2>1. CASE Die
    <3>1. ASSUME NEW p \in Unrecorded
          PROVE  p \in lost
      <4>1. Live(p) => pidfile[os[p].app] # p /\ p \in Pids
        BY <3>1 DEF Unrecorded
      <4>2. boot = "off" => AtRest
        BY DEF BootInv, Handover
      <4>3. boot # "off" => LiveRecorded
        BY DEF BootInv, Owned, BootTypeOK, BootStages, Looping
      <4>4. ~Live(p)
        BY <4>1, <4>2, <4>3 DEF AtRest, LiveRecorded
      <4>5. QED
        BY <3>1, <4>4 DEF Unrecorded, Live
    <3>2. QED
      BY <2>1, <3>1 DEF Die
  <2>2. CASE \E p \in Pids : ExitAnyLife(p)
    BY <2>2 DEF ExitAnyLife
  <2>3. CASE ~Die /\ ~\E p \in Pids : ExitAnyLife(p)
    BY <2>3 DEF BootNext, Launch, EndCleanup, KillStragglers, Bind, CleanupApp, Crash,
                BindFails, ServeReturns, StrangerStarts, bootVars, allVars
  <2>4. QED
    BY <2>1, <2>2, <2>3
<1>2. QED
  BY <1>1, BootTypeCorrect, HandoverInvariant, PTL DEF BootSpec, LostOnlyInWindows

\* While the loops run every signal goes to the child of an entry, which is a
\* process of that entry's app and no stranger.
LEMMA LoopsSpareStrangers ==
    ASSUME TypeInv, OwnedParts, OwnsChildren, DaemonStep,
           NEW p \in Pids, Stranger(p), Up(p)'
    PROVE  os'[p].sig = os[p].sig
<1> USE DEF TypeInv, TypeOK, OsTypeOK
<1>1. os[p].st = "up" /\ os[p].app \notin Apps
  BY NoAppAssumption DEF Stranger, Up
<1>2. \A a \in Apps : procs[a].pid = procs[a].child /\ procs[a].pid # p
  BY <1>1, NoPidAssumption DEF OwnedParts, EntriesOwn
<1>3. \A P : p \notin P => Termed(P)[p] = os[p] /\ Killed(P)[p] = os[p]
  BY DEF Termed, Killed
<1>4. \A a \in Apps :
          Termed({procs[a].pid})[p] = os[p] /\ Killed({procs[a].pid})[p] = os[p]
  BY <1>2, <1>3
<1>5. CASE os' = os
  BY <1>5
<1>6. ASSUME NEW t \in Tasks, RequestRestart(t)
      PROVE  os'[p].sig = os[p].sig
  <2>1. cur[t] \in Apps
    BY <1>6 DEF TaskMemory, RequestRestart
  <2>2. QED
    BY <1>4, <1>6, <2>1 DEF RequestRestart
<1>7. ASSUME NEW t \in Tasks, NEW a \in Apps, ReapExited(t, a) \/ DropApp(t, a)
      PROVE  os'[p].sig = os[p].sig
  <2>1. procs[a].child # p
    BY <1>2
  <2>2. QED
    BY <1>4, <1>7, <2>1 DEF ReapExited, DropApp, Waited
<1>8. ASSUME NEW t \in Tasks, NEW a \in Apps, Escalate(t, a) \/ DriveStop(t, a)
      PROVE  os'[p].sig = os[p].sig
  <2>1. Entry(a).pid = procs[a].pid
    BY EntryFields
  <2>2. QED
    BY <1>4, <1>8, <2>1 DEF Escalate, DriveStop
<1>9. ASSUME NEW t \in Tasks, NEW a \in Apps, NEW q \in Pids, Spawn(t, a, q)
      PROVE  os'[p].sig = os[p].sig
  BY <1>1, <1>9 DEF Spawn, FreePids, Started
<1>10. ASSUME NEW t \in Tasks, Tick(t) \/ Request(t)
       PROVE  os' = os
  BY <1>10 DEF Tick, Request, Fleet, Restart, Stop, Start, Rollback, Deploy, Reload, Begin
<1>11. ASSUME NEW t \in Tasks, TaskStep(t)
       PROVE  os'[p].sig = os[p].sig
  BY <1>6, <1>7, <1>8, <1>9, <1>11
     DEF TaskStep, PassStep, SetDesiredRunning, EndFleet, FleetSet, ShutdownGate,
         ListApps, LockProcs, EndReap, EndDrop, EndPass, WritePidfile, DriveStopped,
         DriveRunning, DriveHeldBack, SpawnFails
<1>12. StopAll => os' = os
  BY DEF StopAll, TakeChildren, TermTaken, ClearPidfiles, ReapTaken, KillTaken,
         Stopper, OwnsChildren
<1>13. CASE ShutdownSignal \/ \E a \in Apps : DeadlinePasses(a) \/ BackoffExpires(a)
  BY <1>13 DEF ShutdownSignal, DeadlinePasses, BackoffExpires
<1>14. QED
  BY <1>5, <1>10, <1>11, <1>12, <1>13 DEF DaemonStep

\* No interleaving of a life, and no reuse of a number, lets nockd signal a
\* process it did not start, except at start-up and in the shutdown.
THEOREM StrangersAreSpared == BootSpec => StrangersSpared
<1>1. BootTypeOK /\ BootInv /\ [BootNext]_allVars =>
          \A p \in Pids :
              Stranger(p) /\ Up(p)' /\ os'[p].sig # os[p].sig =>
                  boot \in {"cleanup", "grace"} \/ ~OwnsChildren
  <2> SUFFICES ASSUME BootTypeOK, BootInv, [BootNext]_allVars, OwnsChildren,
                      boot \notin {"cleanup", "grace"},
                      NEW p \in Pids, Stranger(p), Up(p)'
               PROVE  os'[p].sig = os[p].sig
    OBVIOUS
  <2> USE DEF BootTypeOK, TypeInv, TypeOK, OsTypeOK, Stranger, Up
  <2>1. CASE Launch \/ EndCleanup \/ Bind \/ UNCHANGED allVars
    BY <2>1 DEF Launch, EndCleanup, Bind, vars, allVars
  <2>2. CASE KillStragglers \/ \E a \in Apps : CleanupApp(a)
    BY <2>2 DEF KillStragglers, CleanupApp
  <2>3. CASE Die
    BY <2>3 DEF Die
  <2>4. ASSUME NEW q \in Pids, StrangerStarts(q) \/ ExitAnyLife(q)
        PROVE  os'[p].sig = os[p].sig
    <3>1. CASE StrangerStarts(q)
      BY <3>1 DEF StrangerStarts, FreePids, Started
    <3>2. CASE ExitAnyLife(q)
      <4>1. os'[q].st # "up" /\ \A r \in Pids \ {q} : os'[r] = os[r]
        BY <3>2 DEF ExitAnyLife, Exit, ProcExit, Waited, FreeSlot, Proc
      <4>2. QED
        BY <4>1
    <3>3. QED
      BY <2>4, <3>1, <3>2
  <2>5. CASE DaemonStep /\ UNCHANGED bootVars
    <3>1. OwnedParts /\ OwnsChildren
      BY <2>5, NoStepBeforeTheLoops DEF BootInv, Owned, OwnedParts
    <3>2. QED
      BY <2>5, <3>1, LoopsSpareStrangers
  <2>6. QED
    BY <2>1, <2>2, <2>3, <2>4, <2>5 DEF BootNext, Crash, BindFails, ServeReturns
<1>2. QED
  BY <1>1, BootTypeCorrect, HandoverInvariant, PTL DEF BootSpec, StrangersSpared
=============================================================================
