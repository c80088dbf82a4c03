---------------------------- MODULE DaemonProofs ----------------------------
(***************************************************************************)
(* Theorems about Daemon for every set of apps, revisions, pids and tasks. *)
(* First type correctness, with what a task remembers between its steps;   *)
(* then the single-writer guarantee and its companions, from the invariant *)
(* that relates the procs table, the process table and the pidfiles.       *)
(***************************************************************************)
EXTENDS Daemon, TLAPS

-----------------------------------------------------------------------------
\* The operations on the process table keep its type.
LEMMA OsTypes ==
    ASSUME OsTypeOK
    PROVE  /\ \A p \in Pids, a \in Apps, r \in Revs : Started(p, a, r) \in [Pids -> Proc]
           /\ \A P : Termed(P) \in [Pids -> Proc] /\ Killed(P) \in [Pids -> Proc]
           /\ \A p \in Pids : Waited(p) \in [Pids -> Proc]
           /\ \A p \in Pids : [os EXCEPT ![p].st = "zombie"] \in [Pids -> Proc]
<1> USE DEF OsTypeOK, Proc
<1>1. ASSUME NEW p \in Pids, NEW a \in Apps, NEW r \in Revs
      PROVE  Started(p, a, r) \in [Pids -> Proc]
  BY <1>1 DEF Started
<1>2. ASSUME NEW P
      PROVE  Termed(P) \in [Pids -> Proc] /\ Killed(P) \in [Pids -> Proc]
  BY DEF Termed, Killed
<1>3. ASSUME NEW p \in Pids
      PROVE  Waited(p) \in [Pids -> Proc]
  BY DEF Waited, FreeSlot
<1>4. ASSUME NEW p \in Pids
      PROVE  [os EXCEPT ![p].st = "zombie"] \in [Pids -> Proc]
  OBVIOUS
<1>5. QED
  BY <1>1, <1>2, <1>3, <1>4

\* So do the entries that are written to procs.
LEMMA EntryTypes ==
    ASSUME NEW m \in Managed
    PROVE  /\ AfterExit(m) \in Managed
           /\ NextRestarts(m.restarts) \in 0..RestartCap
           /\ Untracked \in Managed
           /\ [m EXCEPT !.child = NoPid] \in Managed
           /\ [m EXCEPT !.term = "due"] \in Managed
           /\ [m EXCEPT !.waiting = FALSE] \in Managed
<1>1. NextRestarts(m.restarts) \in 0..RestartCap
  BY RestartCapAssumption DEF Managed, NextRestarts
<1>2. Untracked \in Managed
  <2>1. 0 \in 0..RestartCap
    BY RestartCapAssumption
  <2>2. DefaultEntry \in Managed
    BY <2>1 DEF Managed, DefaultEntry, RunState
  <2>3. QED
    BY <2>2 DEF Managed, Untracked
<1>3. AfterExit(m) \in Managed
  <2> DEFINE gone == [m EXCEPT !.child = NoPid, !.pid = NoPid]
  <2>1. gone \in Managed /\ gone.restarts = m.restarts
    BY DEF Managed
  <2>2. AfterExit(m) \in
          {[gone EXCEPT !.restart_requested = FALSE, !.term = "none",
                        !.waiting = FALSE, !.state = "Backoff"],
           [gone EXCEPT !.term = "none", !.state = "Stopped"],
           [gone EXCEPT !.restarts = NextRestarts(m.restarts), !.waiting = TRUE,
                        !.state = "Backoff"]}
    BY <2>1 DEF AfterExit
  <2> HIDE DEF gone
  <2>3. QED
    BY <1>1, <2>1, <2>2 DEF Managed, RunState
<1>4. /\ [m EXCEPT !.child = NoPid] \in Managed
      /\ [m EXCEPT !.term = "due"] \in Managed
      /\ [m EXCEPT !.waiting = FALSE] \in Managed
  BY DEF Managed
<1>5. QED
  BY <1>1, <1>2, <1>3, <1>4

\* or_default() gives an entry that differs from the old one in tracked only.
LEMMA EntryFields ==
    ASSUME procs \in [Apps -> Managed], NEW a \in Apps
    PROVE  /\ Entry(a) \in Managed
           /\ Entry(a).child = procs[a].child
           /\ Entry(a).pid = procs[a].pid
           /\ Entry(a).term = procs[a].term
           /\ Entry(a).restarts = procs[a].restarts
  BY DEF Entry, Managed

LEMMA InitTypeInv == Init => TypeInv
<1>1. FreeSlot \in Proc
  BY DEF FreeSlot, Proc
<1>2. Untracked \in Managed
  <2>1. 0 \in 0..RestartCap
    BY RestartCapAssumption
  <2>2. QED
    BY <2>1 DEF Managed, Untracked, DefaultEntry, RunState
<1>3. QED
  BY <1>1, <1>2, BootRowsAssumption
     DEF Init, TypeInv, TypeOK, TaskMemory, OsTypeOK, OsInit, Stages, PCs, NoSnap

\* A step of a pass, of the supervisor's request_restart or of the environment
\* keeps the type: one action after the other.
LEMMA PassTypeInv ==
    ASSUME TypeInv, NEW t \in Tasks, PassStep(t)
    PROVE  TypeInv'
<1> USE DEF TypeInv, TypeOK, TaskMemory, OsTypeOK, PCs, InPass, Goto, Finished, SetEntry
<1>1. CASE ShutdownGate(t)
  BY <1>1 DEF ShutdownGate
<1>2. CASE ListApps(t)
  BY <1>2 DEF ListApps
<1>3. CASE LockProcs(t)
  BY <1>3 DEF LockProcs, Tracked
<1>4. CASE EndReap(t)
  BY <1>4 DEF EndReap, Tracked
<1>5. CASE EndDrop(t)
  BY <1>5 DEF EndDrop, Listed
<1>6. CASE EndPass(t)
  BY <1>6 DEF EndPass, NoSnap
<1>7. CASE WritePidfile(t)
  BY <1>7 DEF WritePidfile, Managed
<1>8. ASSUME NEW a \in Apps, ReapExited(t, a)
      PROVE  TypeInv'
  <2>1. AfterExit(procs[a]) \in Managed
    BY EntryTypes
  <2>2. os' \in [Pids -> Proc]
    BY <1>8, OsTypes DEF ReapExited, Exited, Managed
  <2>3. QED
    BY <1>8, <2>1, <2>2 DEF ReapExited
<1>9. ASSUME NEW a \in Apps, Escalate(t, a)
      PROVE  TypeInv'
  BY <1>9, OsTypes DEF Escalate
<1>10. ASSUME NEW a \in Apps, DropApp(t, a)
       PROVE  TypeInv'
  <2>1. Untracked \in Managed
    BY EntryTypes
  <2>2. os' \in [Pids -> Proc]
    BY <1>10, OsTypes DEF DropApp, Exited, Managed
  <2>3. QED
    BY <1>10, <2>1, <2>2 DEF DropApp
<1>11. ASSUME NEW a \in Apps, DriveStop(t, a)
       PROVE  TypeInv'
  <2>1. Entry(a) \in Managed
    BY EntryFields
  <2>2. [Entry(a) EXCEPT !.term = "pending", !.state = "Stopping"] \in Managed
    BY <2>1 DEF Managed, RunState
  <2>3. procs' \in [Apps -> Managed] /\ os' \in [Pids -> Proc]
    BY <1>11, <2>1, <2>2, OsTypes DEF DriveStop
  <2>4. QED
    BY <1>11, <2>3 DEF DriveStop, Driving
<1>12. ASSUME NEW a \in Apps, DriveStopped(t, a)
       PROVE  TypeInv'
  <2>1. Entry(a) \in Managed
    BY EntryFields
  <2>2. [Entry(a) EXCEPT !.state = "Stopped", !.term = "none"] \in Managed
    BY <2>1 DEF Managed, RunState
  <2>3. QED
    BY <1>12, <2>2 DEF DriveStopped, Driving
<1>13. ASSUME NEW a \in Apps, DriveRunning(t, a)
       PROVE  TypeInv'
  <2>1. Entry(a) \in Managed
    BY EntryFields
  <2>2. \A s \in RunState : [Entry(a) EXCEPT !.state = s] \in Managed
    BY <2>1 DEF Managed
  <2>3. procs' \in [Apps -> Managed]
    BY <1>13, <2>2 DEF DriveRunning, RunState
  <2>4. QED
    BY <1>13, <2>3 DEF DriveRunning, Driving
<1>14. ASSUME NEW a \in Apps, DriveHeldBack(t, a)
       PROVE  TypeInv'
  <2>1. Entry(a) \in Managed
    BY EntryFields
  <2>2. \A s \in RunState : [Entry(a) EXCEPT !.state = s] \in Managed
    BY <2>1 DEF Managed
  <2>3. procs' \in [Apps -> Managed]
    BY <1>14, <2>2 DEF DriveHeldBack, RunState
  <2>4. QED
    BY <1>14, <2>3 DEF DriveHeldBack, Driving
<1>15. ASSUME NEW a \in Apps, SpawnFails(t, a)
       PROVE  TypeInv'
  <2>1. procs' \in [Apps -> Managed]
    <3> DEFINE m == Entry(a)
    <3>1. m \in Managed
      BY EntryFields
    <3>2. procs' = [procs EXCEPT ![a] =
             [m EXCEPT !.restarts = NextRestarts(m.restarts), !.waiting = TRUE,
                       !.state = "Backoff"]]
      BY <1>15 DEF SpawnFails
    <3> HIDE DEF m
    <3>3. [m EXCEPT !.restarts = NextRestarts(m.restarts), !.waiting = TRUE,
                    !.state = "Backoff"] \in Managed
      BY <3>1, EntryTypes DEF Managed, RunState
    <3>4. QED
      BY <3>2, <3>3
  <2>2. QED
    BY <1>15, <2>1 DEF SpawnFails, MaySpawn, Driving
<1>16. ASSUME NEW a \in Apps, NEW p \in Pids, Spawn(t, a, p)
       PROVE  TypeInv'
  <2>1. snap[t][a].rev \in Revs
    BY <1>16 DEF Spawn, MaySpawn, Driving, Row
  <2>2. os' \in [Pids -> Proc]
    BY <1>16, <2>1, OsTypes DEF Spawn
  <2>3. Entry(a) \in Managed
    BY EntryFields
  <2>4. [Entry(a) EXCEPT !.child = p, !.pid = p, !.state = "Running",
                         !.term = "none", !.restart_requested = FALSE] \in Managed
    BY <2>3 DEF Managed, RunState
  <2>5. QED
    BY <1>16, <2>2, <2>4 DEF Spawn, MaySpawn, Driving
<1>17. QED
  BY <1>1, <1>2, <1>3, <1>4, <1>5, <1>6, <1>7, <1>8, <1>9, <1>10, <1>11, <1>12,
     <1>13, <1>14, <1>15, <1>16 DEF PassStep

\* A request, or a later step of its handler, keeps the type.
LEMMA HandlerTypeInv ==
    ASSUME TypeInv, NEW t \in Tasks, Tick(t) \/ Request(t) \/ TaskStep(t)
    PROVE  TypeInv'
<1> USE DEF TypeInv, TypeOK, TaskMemory, OsTypeOK, PCs, InPass, Goto, Finished, SetEntry
<1>1. CASE Tick(t)
  BY <1>1 DEF Tick
<1>2. ASSUME NEW op, NEW a \in Apps, NEW r \in Row, NEW label, Begin(t, op, a, r, label),
             label \in {"check", "request_restart", "set_desired"}
      PROVE  TypeInv'
  <2>1. r # NoRow
    BY NoRowAssumption
  <2>2. QED
    BY <1>2, <2>1 DEF Begin
<1>3. ASSUME NEW a \in Apps, rows[a] # NoRow
      PROVE  /\ \A d \in {"running", "stopped"} : [rows[a] EXCEPT !.desired = d] \in Row
             /\ \A v \in Revs : [rows[a] EXCEPT !.rev = v] \in Row
             /\ \A v \in Revs, p \in Policies :
                    [rows[a] EXCEPT !.rev = v, !.policy = p] \in Row
  BY <1>3, PoliciesAssumption DEF Row
<1>4. ASSUME NEW status \in {"running", "stopped"}, Fleet(t, status)
      PROVE  TypeInv'
  <2> DEFINE listed == [a \in Apps |-> IF Registered(a)
                                       THEN [rows[a] EXCEPT !.desired = status]
                                       ELSE NoRow]
             differing == {a \in Apps : Registered(a) /\ rows[a].desired # status}
  <2>1. \A a \in Apps : Registered(a) => listed[a] \in Row /\ listed[a] # NoRow
    <3> SUFFICES ASSUME NEW a \in Apps, Registered(a)
                 PROVE  listed[a] \in Row
      BY NoRowAssumption
    <3>1. listed[a] = [rows[a] EXCEPT !.desired = status]
      OBVIOUS
    <3>2. QED
      BY <3>1, <1>3 DEF Registered
  <2>2. listed \in [Apps -> Row \cup {NoRow}]
    BY <2>1
  <2>3. /\ snap' = [snap EXCEPT ![t] = listed]
        /\ todo' = [todo EXCEPT ![t] = differing]
    BY <1>4 DEF Fleet
  <2>4. \A a \in differing : a \in Apps /\ rows[a] # NoRow /\ listed[a] # NoRow
    BY <2>1 DEF Registered
  <2>5. differing \in SUBSET Apps
    OBVIOUS
  <2>6. /\ pc' = [pc EXCEPT ![t] = "fleet"]
        /\ UNCHANGED <<os, procs, pidfile, rows, shutdown, taken, lock, cur>>
    BY <1>4 DEF Fleet
  <2> HIDE DEF listed, differing
  <2>7. QED
    BY <2>2, <2>3, <2>4, <2>5, <2>6
<1>5. CASE Request(t)
  <2>1. ASSUME NEW a \in Apps, Restart(t, a) \/ Stop(t, a) \/ Start(t, a)
        PROVE  TypeInv'
    BY <2>1, <1>2, <1>3 DEF Restart, Stop, Start, Registered
  <2>2. ASSUME NEW a \in Apps, NEW v \in Revs, Rollback(t, a, v)
        PROVE  TypeInv'
    BY <2>2, <1>2, <1>3 DEF Rollback, Registered
  <2>3. ASSUME NEW a \in Apps, NEW v \in Revs, NEW p \in Policies, Deploy(t, a, v, p)
        PROVE  TypeInv'
    <3>1. [desired |-> "running", rev |-> v, policy |-> p] \in Row
      BY PoliciesAssumption DEF Row
    <3>2. QED
      BY <2>3, <3>1, <1>2 DEF Deploy
  <2>4. ASSUME NEW a \in Apps, NEW v \in Revs, NEW p \in Policies, Reload(t, a, v, p)
        PROVE  TypeInv'
    BY <2>4, <1>2, <1>3 DEF Reload, Registered
  <2>5. QED
    BY <1>4, <1>5, <2>1, <2>2, <2>3, <2>4 DEF Request
<1>6. CASE SetDesiredRunning(t)
  <2>1. cur[t] \in Apps /\ rows[cur[t]] # NoRow
    BY <1>6 DEF SetDesiredRunning
  <2>2. [rows[cur[t]] EXCEPT !.desired = "running"] \in Row
    BY <2>1, <1>3
  <2>3. rows' \in [Apps -> Row \cup {NoRow}]
    BY <1>6, <2>1, <2>2 DEF SetDesiredRunning
  <2>4. \A a \in Apps : rows[a] # NoRow => rows'[a] # NoRow
    BY <1>6, <2>2, NoRowAssumption DEF SetDesiredRunning
  <2>5. QED
    BY <1>6, <2>1, <2>3, <2>4 DEF SetDesiredRunning
<1>7. CASE RequestRestart(t)
  <2>1. cur[t] \in Apps
    BY <1>7 DEF RequestRestart
  <2>2. procs' \in [Apps -> Managed]
    <3> DEFINE m == procs[cur[t]]
               signalled == m.tracked /\ m.pid # NoPid
               new == [m EXCEPT !.restart_requested = signalled \/ @,
                                !.term = IF signalled THEN "pending" ELSE @,
                                !.waiting = FALSE]
    <3>1. m \in Managed
      BY <2>1
    <3>2. new \in Managed
      BY <3>1 DEF Managed
    <3>3. procs' = [procs EXCEPT ![cur[t]] = new]
      BY <1>7 DEF RequestRestart
    <3> HIDE DEF new
    <3>4. QED
      BY <3>2, <3>3
  <2>3. os' \in [Pids -> Proc]
    BY <1>7, OsTypes DEF RequestRestart, OsTypeOK
  <2>4. QED
    BY <1>7, <2>2, <2>3 DEF RequestRestart, OsTypeOK
<1>8. CASE EndFleet(t)
  BY <1>8 DEF EndFleet, NoSnap
<1>9. ASSUME NEW a \in Apps, FleetSet(t, a)
      PROVE  TypeInv'
  <2>1. rows[a] # NoRow /\ snap[t][a] # NoRow
    BY <1>9 DEF FleetSet
  <2>2. snap[t][a].desired \in {"running", "stopped"}
    BY <2>1 DEF Row
  <2>3. [rows[a] EXCEPT !.desired = snap[t][a].desired] \in Row
    BY <2>1, <2>2, <1>3
  <2>4. /\ rows' \in [Apps -> Row \cup {NoRow}]
        /\ \A b \in Apps : rows[b] # NoRow => rows'[b] # NoRow
    BY <1>9, <2>3, NoRowAssumption DEF FleetSet
  <2>5. QED
    BY <1>9, <2>4 DEF FleetSet
<1>10. QED
  BY <1>1, <1>5, <1>6, <1>7, <1>8, <1>9, PassTypeInv DEF TaskStep

\* So do stop_all, the exit of a process and the passing of time.
LEMMA OtherTypeInv ==
    ASSUME TypeInv,
           \/ ShutdownSignal \/ StopAll
           \/ \E p \in Pids : Exit(p)
           \/ \E a \in Apps : DeadlinePasses(a) \/ BackoffExpires(a)
           \/ UNCHANGED vars
    PROVE  TypeInv'
<1> USE DEF TypeInv, TypeOK, TaskMemory, OsTypeOK, Stages, Stopper, SetEntry
<1>1. CASE ShutdownSignal
  BY <1>1 DEF ShutdownSignal
<1>2. CASE TakeChildren
  <2>1. \A a \in Apps : [procs[a] EXCEPT !.child = NoPid] \in Managed
    BY EntryTypes
  <2>2. procs' \in [Apps -> Managed]
    BY <1>2, <2>1 DEF TakeChildren
  <2>3. QED
    BY <1>2, <2>2 DEF TakeChildren
<1>3. CASE TermTaken
  BY <1>3, OsTypes DEF TermTaken
<1>4. ASSUME NEW p \in Pids, ReapTaken(p) \/ KillTaken(p)
      PROVE  TypeInv'
  BY <1>4, OsTypes DEF ReapTaken, KillTaken
<1>5. CASE ClearPidfiles
  BY <1>5 DEF ClearPidfiles
<1>6. ASSUME NEW p \in Pids, Exit(p)
      PROVE  TypeInv'
  BY <1>6, OsTypes DEF Exit, ProcExit
<1>7. ASSUME NEW a \in Apps, DeadlinePasses(a)
      PROVE  TypeInv'
  <2>1. [procs[a] EXCEPT !.term = "due"] \in Managed
    BY EntryTypes
  <2>2. QED
    BY <1>7, <2>1 DEF DeadlinePasses
<1>8. ASSUME NEW a \in Apps, BackoffExpires(a)
      PROVE  TypeInv'
  <2>1. [procs[a] EXCEPT !.waiting = FALSE] \in Managed
    BY EntryTypes
  <2>2. QED
    BY <1>8, <2>1 DEF BackoffExpires
<1>9. CASE UNCHANGED vars
  BY <1>9 DEF vars
<1>10. QED
  BY <1>1, <1>2, <1>3, <1>4, <1>5, <1>6, <1>7, <1>8, <1>9 DEF StopAll

\* Every variable keeps its type, and a task never acts on an app or a row that
\* is not there: no registry write of a handler can hit a missing row, and no
\* pass drives an app it has not listed.
THEOREM TypeCorrect == Spec => []TypeInv
<1>1. Init => TypeInv
  BY InitTypeInv
<1>2. TypeInv /\ [Next]_vars => TypeInv'
  BY HandlerTypeInv, OtherTypeInv DEF Next
<1>3. QED
  BY <1>1, <1>2, PTL DEF Spec

\* The type invariant the runs check is a part of it.
THEOREM TypeOKCorrect == Spec => []TypeOK
<1>1. TypeInv => TypeOK
  BY DEF TypeInv
<1>2. QED
  BY <1>1, TypeCorrect, PTL

-----------------------------------------------------------------------------
(***************************************************************************)
(* The invariant behind OneWriter, SignalsStayHome and Recoverable.  None  *)
(* of the three is inductive: that a second process is never started       *)
(* depends on the entry of a running app having its child, which depends   *)
(* on every way of losing a child going through its exit or a SIGKILL.     *)
(***************************************************************************)

\* The pid of an entry is its child's, and the child belongs to the app.
EntriesOwn ==
    \A a \in Apps :
        /\ procs[a].pid = procs[a].child
        /\ procs[a].child # NoPid =>
              os[procs[a].child].app = a /\ os[procs[a].child].st # "free"
        /\ pidfile[a] \in {NoPid, procs[a].child}

\* A process that may go on writing is the child of its app's entry.
WritersTracked ==
    \A p \in Pids : Writing(p) =>
        os[p].app \in Apps /\ procs[os[p].app].child = p

\* A writer's pid is in its pidfile or about to be written there.
WritersRecorded ==
    \A p \in Pids : Writing(p) =>
        \/ pidfile[os[p].app] = p
        \/ \E t \in Tasks : pc[t] = "pidfile" /\ cur[t] = os[p].app

Ownership == OwnsChildren => EntriesOwn /\ WritersTracked /\ WritersRecorded

\* What most steps have in common: no child, pid or pidfile changes, no process
\* starts or is reaped, and no pass leaves the window before its pidfile.
Harmless ==
    /\ OwnsChildren' => OwnsChildren
    /\ pidfile' = pidfile
    /\ \A a \in Apps : procs'[a].child = procs[a].child /\ procs'[a].pid = procs[a].pid
    /\ \A p \in Pids :
          /\ os'[p].app = os[p].app /\ os'[p].st = os[p].st
          /\ os[p].sig = "kill" => os'[p].sig = "kill"
    /\ \A t \in Tasks : pc[t] = "pidfile" => pc'[t] = "pidfile" /\ cur'[t] = cur[t]

LEMMA HarmlessKeepsOwnership ==
    ASSUME TypeInv, Ownership, Harmless
    PROVE  Ownership'
<1> SUFFICES ASSUME OwnsChildren'
             PROVE  EntriesOwn' /\ WritersTracked' /\ WritersRecorded'
  BY DEF Ownership
<1>1. EntriesOwn /\ WritersTracked /\ WritersRecorded
  BY DEF Ownership, Harmless
<1>2. \A p \in Pids : Writing(p)' => Writing(p)
  BY DEF Writing, Up, Harmless
<1>3. \A a \in Apps : procs[a].child \in Pids \cup {NoPid}
  BY DEF TypeInv, TypeOK, Managed
<1>4. EntriesOwn'
  BY <1>1, <1>3, NoPidAssumption DEF EntriesOwn, Harmless
<1>5. WritersTracked'
  BY <1>1, <1>2 DEF WritersTracked, Harmless
<1>6. WritersRecorded'
  BY <1>1, <1>2 DEF WritersRecorded, Harmless
<1>7. QED
  BY <1>4, <1>5, <1>6

\* Signals change nothing of a process but the strongest signal it got.
LEMMA SignalsAreHarmless ==
    ASSUME OsTypeOK, NEW P, NEW p \in Pids
    PROVE  /\ Termed(P)[p].app = os[p].app /\ Killed(P)[p].app = os[p].app
           /\ Termed(P)[p].st = os[p].st /\ Killed(P)[p].st = os[p].st
           /\ os[p].sig = "kill" => Termed(P)[p].sig = "kill" /\ Killed(P)[p].sig = "kill"
  BY DEF OsTypeOK, Proc, Termed, Killed, Up

LEMMA HandlersAreHarmless ==
    ASSUME TypeInv, NEW t \in Tasks,
           \/ Tick(t) \/ Request(t) \/ SetDesiredRunning(t) \/ EndFleet(t)
           \/ \E a \in Apps : FleetSet(t, a)
    PROVE  Harmless
<1> USE DEF TypeInv, TypeOK, Harmless, OwnsChildren, Goto
<1>1. CASE Tick(t)
  BY <1>1 DEF Tick
<1>2. ASSUME NEW op, NEW a, NEW r, NEW label, Begin(t, op, a, r, label)
      PROVE  Harmless
  BY <1>2 DEF Begin
<1>3. ASSUME NEW status, Fleet(t, status)
      PROVE  Harmless
  BY <1>3 DEF Fleet
<1>4. CASE Request(t)
  BY <1>2, <1>3, <1>4
     DEF Request, Restart, Stop, Start, Rollback, Deploy, Reload
<1>5. CASE SetDesiredRunning(t)
  BY <1>5 DEF SetDesiredRunning
<1>6. CASE EndFleet(t)
  BY <1>6 DEF EndFleet
<1>7. ASSUME NEW a \in Apps, FleetSet(t, a)
      PROVE  Harmless
  BY <1>7 DEF FleetSet
<1>8. QED
  BY <1>1, <1>4, <1>5, <1>6, <1>7

\* A restart request signals the child of its own entry, and every step of a
\* pass but four is harmless.
LEMMA PassIsHarmless ==
    ASSUME TypeInv, NEW t \in Tasks,
           \/ RequestRestart(t) \/ ShutdownGate(t) \/ ListApps(t) \/ LockProcs(t)
           \/ EndReap(t) \/ EndDrop(t) \/ EndPass(t)
           \/ \E a \in Apps :
                 \/ Escalate(t, a) \/ DriveStop(t, a) \/ DriveStopped(t, a)
                 \/ DriveRunning(t, a) \/ DriveHeldBack(t, a) \/ SpawnFails(t, a)
    PROVE  Harmless
<1> USE DEF TypeInv, TypeOK, OsTypeOK, Harmless, OwnsChildren, Goto, SetEntry
<1>1. CASE RequestRestart(t)
  <2>1. cur[t] \in Apps /\ procs[cur[t]] \in Managed
    BY <1>1 DEF TaskMemory, RequestRestart
  <2>2. \A a \in Apps : procs'[a].child = procs[a].child /\ procs'[a].pid = procs[a].pid
    BY <1>1, <2>1 DEF RequestRestart, Managed
  <2>3. QED
    BY <1>1, <2>2, SignalsAreHarmless DEF RequestRestart
<1>2. CASE ShutdownGate(t)
  BY <1>2 DEF ShutdownGate
<1>3. CASE ListApps(t)
  BY <1>3 DEF ListApps
<1>4. CASE LockProcs(t)
  BY <1>4 DEF LockProcs
<1>5. CASE EndReap(t)
  BY <1>5 DEF EndReap
<1>6. CASE EndDrop(t)
  BY <1>6 DEF EndDrop
<1>7. CASE EndPass(t)
  BY <1>7 DEF EndPass
<1>8. ASSUME NEW a \in Apps, Escalate(t, a)
      PROVE  Harmless
  BY <1>8, SignalsAreHarmless DEF Escalate
<1>9. ASSUME NEW a \in Apps
      PROVE  /\ Entry(a) \in Managed
             /\ Entry(a).child = procs[a].child /\ Entry(a).pid = procs[a].pid
  BY EntryFields
<1>10. ASSUME NEW a \in Apps, DriveStop(t, a)
       PROVE  Harmless
  <2>1. procs'[a].child = procs[a].child /\ procs'[a].pid = procs[a].pid
    <3> DEFINE m == Entry(a)
    <3>1. procs'[a] \in {m, [m EXCEPT !.term = "pending", !.state = "Stopping"]}
      BY <1>10 DEF DriveStop
    <3> HIDE DEF m
    <3>2. m \in Managed /\ m.child = procs[a].child /\ m.pid = procs[a].pid
      BY <1>9 DEF m
    <3>3. QED
      BY <3>1, <3>2 DEF Managed
  <2>2. /\ \A b \in Apps \ {a} : procs'[b] = procs[b]
        /\ UNCHANGED <<pidfile, shutdown, pc, cur>>
        /\ os' = os \/ \E P : os' = Termed(P)
    BY <1>10 DEF DriveStop
  <2>3. \A p \in Pids :
           /\ os'[p].app = os[p].app /\ os'[p].st = os[p].st
           /\ os[p].sig = "kill" => os'[p].sig = "kill"
    BY <2>2, SignalsAreHarmless
  <2>4. QED
    BY <2>1, <2>2, <2>3
<1>11. ASSUME NEW a \in Apps,
              \/ DriveStopped(t, a) \/ DriveRunning(t, a)
              \/ DriveHeldBack(t, a) \/ SpawnFails(t, a)
       PROVE  Harmless
  <2>1. procs'[a].child = procs[a].child /\ procs'[a].pid = procs[a].pid
    <3> DEFINE m == Entry(a)
    <3>1. \/ procs'[a] = [m EXCEPT !.state = "Stopped", !.term = "none"]
          \/ \E s : procs'[a] = [m EXCEPT !.state = s]
          \/ \E n : procs'[a] = [m EXCEPT !.restarts = n, !.waiting = TRUE,
                                         !.state = "Backoff"]
      <4>1. CASE DriveStopped(t, a)
        BY <4>1 DEF DriveStopped
      <4>2. CASE DriveRunning(t, a)
        BY <4>2 DEF DriveRunning
      <4>3. CASE DriveHeldBack(t, a)
        BY <4>3 DEF DriveHeldBack
      <4>4. CASE SpawnFails(t, a)
        BY <4>4 DEF SpawnFails
      <4>5. QED
        BY <1>11, <4>1, <4>2, <4>3, <4>4
    <3> HIDE DEF m
    <3>2. m \in Managed /\ m.child = procs[a].child /\ m.pid = procs[a].pid
      BY <1>9 DEF m
    <3>3. QED
      BY <3>1, <3>2 DEF Managed
  <2>2. \A b \in Apps \ {a} : procs'[b] = procs[b]
    BY <1>11 DEF DriveStopped, DriveRunning, DriveHeldBack, SpawnFails
  <2>3. QED
    BY <1>11, <2>1, <2>2 DEF DriveStopped, DriveRunning, DriveHeldBack, SpawnFails
<1>12. QED
  BY <1>1, <1>2, <1>3, <1>4, <1>5, <1>6, <1>7, <1>8, <1>10, <1>11

LEMMA TimeIsHarmless ==
    ASSUME TypeInv,
           \/ ShutdownSignal \/ UNCHANGED vars
           \/ \E a \in Apps : DeadlinePasses(a) \/ BackoffExpires(a)
    PROVE  Harmless
<1> USE DEF TypeInv, TypeOK, Harmless, OwnsChildren, SetEntry, Stopper
<1>1. CASE ShutdownSignal
  BY <1>1 DEF ShutdownSignal
<1>2. CASE UNCHANGED vars
  BY <1>2 DEF vars
<1>3. ASSUME NEW a \in Apps, DeadlinePasses(a) \/ BackoffExpires(a)
      PROVE  Harmless
  <2> DEFINE m == procs[a]
  <2>1. procs'[a] \in {[m EXCEPT !.term = "due"], [m EXCEPT !.waiting = FALSE]}
    BY <1>3 DEF DeadlinePasses, BackoffExpires
  <2>2. m \in Managed
    OBVIOUS
  <2>3. procs'[a].child = m.child /\ procs'[a].pid = m.pid
    BY <2>1, <2>2 DEF Managed
  <2>4. QED
    BY <1>3, <2>3 DEF DeadlinePasses, BackoffExpires
<1>4. QED
  BY <1>1, <1>2, <1>3

\* The steps that are not harmless.  A child that has exited leaves its entry
\* and its pidfile together.
LEMMA ReapKeepsOwnership ==
    ASSUME TypeInv, Ownership, NEW t \in Tasks, NEW a \in Apps, ReapExited(t, a)
    PROVE  Ownership'
<1> SUFFICES ASSUME OwnsChildren
             PROVE  EntriesOwn' /\ WritersTracked' /\ WritersRecorded'
  BY DEF Ownership, OwnsChildren, ReapExited
<1> DEFINE z == procs[a].child
<1>1. EntriesOwn /\ WritersTracked /\ WritersRecorded
  BY DEF Ownership
<1>2. z \in Pids /\ os[z].st = "zombie" /\ os[z].app = a
  BY <1>1 DEF ReapExited, Exited, EntriesOwn, TypeInv, TypeOK, Managed
<1>3. \A p \in Pids : os'[p] = IF p = z THEN FreeSlot ELSE os[p]
  BY <1>2 DEF ReapExited, Waited, TypeInv, TypeOK, OsTypeOK
<1>4. /\ \A b \in Apps \ {a} : procs'[b] = procs[b] /\ pidfile'[b] = pidfile[b]
      /\ procs'[a] = AfterExit(procs[a]) /\ pidfile'[a] = NoPid
      /\ pc' = pc /\ cur' = cur
  BY DEF ReapExited, SetEntry, TypeInv, TypeOK
<1>5. procs'[a].child = NoPid /\ procs'[a].pid = NoPid
  BY <1>4 DEF AfterExit, TypeInv, TypeOK, Managed
<1>6. \A b \in Apps \ {a} : procs[b].child # z
  BY <1>1, <1>2, NoPidAssumption DEF EntriesOwn
<1>7. \A p \in Pids : Writing(p)' => Writing(p) /\ p # z /\ os'[p] = os[p]
  BY <1>3 DEF Writing, Up, FreeSlot
<1>8. \A p \in Pids : Writing(p) => os[p].app # a
  BY <1>1, <1>2 DEF WritersTracked, Writing, Up
<1>9. EntriesOwn'
  BY <1>1, <1>3, <1>4, <1>5, <1>6 DEF EntriesOwn, TypeInv, TypeOK, Managed
<1>10. WritersTracked'
  BY <1>1, <1>4, <1>7, <1>8 DEF WritersTracked
<1>11. WritersRecorded'
  BY <1>1, <1>4, <1>7, <1>8 DEF WritersRecorded, WritersTracked
<1>12. QED
  BY <1>9, <1>10, <1>11

\* An app that is dropped leaves no process that nobody has killed.
LEMMA DropKeepsOwnership ==
    ASSUME TypeInv, Ownership, NEW t \in Tasks, NEW a \in Apps, DropApp(t, a)
    PROVE  Ownership'
<1> SUFFICES ASSUME OwnsChildren
             PROVE  EntriesOwn' /\ WritersTracked' /\ WritersRecorded'
  BY DEF Ownership, OwnsChildren, DropApp
<1>0. PICK c : c = procs[a].child
  OBVIOUS
<1>1. EntriesOwn /\ WritersTracked /\ WritersRecorded
  BY DEF Ownership
<1>2. c \in Pids \cup {NoPid} /\ procs[a].pid = c
  BY <1>0, <1>1 DEF EntriesOwn, TypeInv, TypeOK, Managed
<1>3. \A p \in Pids : p # c => os'[p] = os[p]
  BY <1>0, <1>2 DEF DropApp, Waited, Killed, TypeInv, TypeOK, OsTypeOK
<1>4. c \in Pids => ~Writing(c)'
  <2>1. CASE Exited(a)
    BY <1>0, <2>1 DEF DropApp, Waited, FreeSlot, Writing, Up, TypeInv, TypeOK, OsTypeOK
  <2>2. CASE ~Exited(a)
    BY <1>2, <2>2 DEF DropApp, Killed, Writing, Up, TypeInv, TypeOK, OsTypeOK, Proc
  <2>3. QED
    BY <2>1, <2>2
<1>5. /\ \A b \in Apps \ {a} : procs'[b] = procs[b] /\ pidfile'[b] = pidfile[b]
      /\ procs'[a] = Untracked /\ pidfile'[a] = NoPid
      /\ pc' = pc /\ cur' = cur
  BY DEF DropApp, SetEntry, TypeInv, TypeOK
<1>6. procs'[a].child = NoPid /\ procs'[a].pid = NoPid
  BY <1>5 DEF Untracked, DefaultEntry
<1>7. \A b \in Apps \ {a} : procs[b].child # NoPid => procs[b].child # c
  BY <1>0, <1>1 DEF EntriesOwn
<1>8. \A p \in Pids : Writing(p)' => Writing(p) /\ p # c /\ os'[p] = os[p]
  BY <1>3, <1>4 DEF Writing, Up
<1>9. \A p \in Pids : Writing(p) /\ p # c => os[p].app # a
  BY <1>0, <1>1 DEF WritersTracked
<1>10. \A b \in Apps : procs[b].child \in Pids \cup {NoPid}
  BY DEF TypeInv, TypeOK, Managed
<1>11. EntriesOwn'
  BY <1>1, <1>3, <1>5, <1>6, <1>7, <1>10 DEF EntriesOwn
<1>12. WritersTracked'
  BY <1>1, <1>5, <1>8, <1>9 DEF WritersTracked
<1>13. WritersRecorded'
  BY <1>1, <1>5, <1>8, <1>9 DEF WritersRecorded, WritersTracked
<1>14. QED
  BY <1>11, <1>12, <1>13

\* A pass spawns only for an entry without a child, so without a writer.
LEMMA SpawnKeepsOwnership ==
    ASSUME TypeInv, Ownership, NEW t \in Tasks, NEW a \in Apps, NEW p \in Pids,
           Spawn(t, a, p)
    PROVE  Ownership'
<1> SUFFICES ASSUME OwnsChildren
             PROVE  EntriesOwn' /\ WritersTracked' /\ WritersRecorded'
  BY DEF Ownership, OwnsChildren, Spawn
<1>1. EntriesOwn /\ WritersTracked /\ WritersRecorded
  BY DEF Ownership
<1>2. os[p].st = "free" /\ procs[a].child = NoPid /\ pc[t] = "drive"
  BY DEF Spawn, MaySpawn, Driving, FreePids
<1>3. /\ \A q \in Pids \ {p} : os'[q] = os[q]
      /\ os'[p].app = a /\ os'[p].st = "up"
  BY DEF Spawn, Started, TypeInv, TypeOK, OsTypeOK
<1>4. /\ \A b \in Apps \ {a} : procs'[b] = procs[b]
      /\ pidfile' = pidfile
      /\ pc'[t] = "pidfile" /\ cur'[t] = a
      /\ \A u \in Tasks \ {t} : pc'[u] = pc[u] /\ cur'[u] = cur[u]
  BY DEF Spawn, SetEntry, Goto, TypeInv, TypeOK
<1>5. procs'[a].child = p /\ procs'[a].pid = p
  <2>1. Entry(a) \in Managed
    BY EntryFields DEF TypeInv, TypeOK
  <2>2. QED
    BY <2>1 DEF Spawn, SetEntry, Managed, TypeInv, TypeOK
<1>6. pidfile[a] = NoPid
  BY <1>1, <1>2 DEF EntriesOwn
<1>7. \A b \in Apps : procs[b].child \in Pids \cup {NoPid} /\ procs[b].child # p
  BY <1>1, <1>2, NoPidAssumption DEF EntriesOwn, TypeInv, TypeOK, Managed
<1>8. \A q \in Pids \ {p} : Writing(q)' => Writing(q) /\ os[q].app # a
  BY <1>1, <1>2, <1>3, NoPidAssumption DEF Writing, Up, WritersTracked
<1>9. EntriesOwn'
  BY <1>1, <1>3, <1>4, <1>5, <1>6, <1>7 DEF EntriesOwn
<1>10. WritersTracked'
  BY <1>1, <1>3, <1>4, <1>5, <1>8 DEF WritersTracked
<1>11. WritersRecorded'
  <2> SUFFICES ASSUME NEW q \in Pids, Writing(q)'
               PROVE  \/ pidfile'[os'[q].app] = q
                      \/ \E u \in Tasks : pc'[u] = "pidfile" /\ cur'[u] = os'[q].app
    BY DEF WritersRecorded
  <2>1. CASE q = p
    BY <2>1, <1>3, <1>4
  <2>2. CASE q # p
    BY <2>2, <1>1, <1>2, <1>3, <1>4, <1>8 DEF WritersRecorded
  <2>3. QED
    BY <2>1, <2>2
<1>12. QED
  BY <1>9, <1>10, <1>11

\* The pidfile that is written holds the pid of the entry.
LEMMA PidfileKeepsOwnership ==
    ASSUME TypeInv, Ownership, NEW t \in Tasks, WritePidfile(t)
    PROVE  Ownership'
<1> SUFFICES ASSUME OwnsChildren
             PROVE  EntriesOwn' /\ WritersTracked' /\ WritersRecorded'
  BY DEF Ownership, OwnsChildren, WritePidfile
<1> DEFINE a == cur[t]
<1>1. EntriesOwn /\ WritersTracked /\ WritersRecorded
  BY DEF Ownership
<1>2. a \in Apps
  BY DEF WritePidfile, TypeInv, TaskMemory
<1>3. /\ os' = os /\ procs' = procs
      /\ pidfile'[a] = procs[a].pid
      /\ \A b \in Apps \ {a} : pidfile'[b] = pidfile[b]
      /\ \A u \in Tasks \ {t} : pc'[u] = pc[u] /\ cur'[u] = cur[u]
  BY <1>2 DEF WritePidfile, Goto, TypeInv, TypeOK
<1>4. EntriesOwn'
  BY <1>1, <1>3 DEF EntriesOwn
<1>5. WritersTracked'
  BY <1>1, <1>3 DEF WritersTracked, Writing, Up
<1>6. WritersRecorded'
  BY <1>1, <1>2, <1>3 DEF WritersRecorded, WritersTracked, EntriesOwn, Writing, Up
<1>7. QED
  BY <1>4, <1>5, <1>6

\* A child that exits stays a zombie, with its pid, until it is reaped.
LEMMA ExitKeepsOwnership ==
    ASSUME TypeInv, Ownership, NEW p \in Pids, Exit(p)
    PROVE  Ownership'
<1> SUFFICES ASSUME OwnsChildren
             PROVE  EntriesOwn' /\ WritersTracked' /\ WritersRecorded'
  BY DEF Ownership, OwnsChildren, Exit
<1>1. EntriesOwn /\ WritersTracked /\ WritersRecorded
  BY DEF Ownership
<1>2. /\ \A q \in Pids \ {p} : os'[q] = os[q]
      /\ os'[p].st # "up"
      /\ Held(p) => os'[p].app = os[p].app /\ os'[p].st = "zombie"
  BY DEF Exit, ProcExit, Waited, FreeSlot, TypeInv, TypeOK, OsTypeOK, Proc
<1>3. UNCHANGED <<procs, pidfile, pc, cur>>
  BY DEF Exit
<1>4. \A a \in Apps : procs[a].child \in Pids \cup {NoPid}
  BY DEF TypeInv, TypeOK, Managed
<1>5. \A q \in Pids : Writing(q)' => Writing(q) /\ os'[q] = os[q]
  BY <1>2 DEF Writing, Up
<1>6. EntriesOwn'
  BY <1>1, <1>2, <1>3, <1>4 DEF EntriesOwn, Held
<1>7. WritersTracked'
  BY <1>1, <1>3, <1>5 DEF WritersTracked
<1>8. WritersRecorded'
  BY <1>1, <1>3, <1>5 DEF WritersRecorded
<1>9. QED
  BY <1>6, <1>7, <1>8

\* Once stop_all takes the children, Ownership claims nothing any more.
LEMMA StopAllKeepsOwnership ==
    ASSUME StopAll
    PROVE  Ownership'
  BY DEF StopAll, TakeChildren, TermTaken, ClearPidfiles, ReapTaken, KillTaken,
         Stopper, Ownership, OwnsChildren

\* Whatever passes, requests, exits and reused numbers interleave, entries,
\* pidfiles and tasks own the processes as Ownership says.
THEOREM OwnershipInvariant == Spec => []Ownership
<1>1. Init => Ownership
  BY DEF Init, OsInit, Ownership, EntriesOwn, WritersTracked, WritersRecorded,
         Untracked, DefaultEntry, FreeSlot, Writing, Up
<1>2. TypeInv /\ Ownership /\ [Next]_vars => Ownership'
  <2> SUFFICES ASSUME TypeInv, Ownership, [Next]_vars
               PROVE  Ownership'
    OBVIOUS
  <2>1. ASSUME NEW t \in Tasks, Tick(t) \/ Request(t)
        PROVE  Ownership'
    BY <2>1, HandlersAreHarmless, HarmlessKeepsOwnership
  <2>2. ASSUME NEW t \in Tasks, TaskStep(t)
        PROVE  Ownership'
    <3>1. CASE \/ SetDesiredRunning(t) \/ EndFleet(t)
               \/ \E a \in Apps : FleetSet(t, a)
      BY <3>1, HandlersAreHarmless, HarmlessKeepsOwnership
    <3>2. CASE RequestRestart(t)
      BY <3>2, PassIsHarmless, HarmlessKeepsOwnership
    <3>3. CASE PassStep(t)
      BY <3>3, PassIsHarmless, HarmlessKeepsOwnership, ReapKeepsOwnership,
         DropKeepsOwnership, SpawnKeepsOwnership, PidfileKeepsOwnership
         DEF PassStep
    <3>4. QED
      BY <2>2, <3>1, <3>2, <3>3 DEF TaskStep
  <2>3. CASE \/ ShutdownSignal \/ UNCHANGED vars
             \/ \E a \in Apps : DeadlinePasses(a) \/ BackoffExpires(a)
    BY <2>3, TimeIsHarmless, HarmlessKeepsOwnership
  <2>4. CASE StopAll
    BY <2>4, StopAllKeepsOwnership
  <2>5. CASE \E p \in Pids : Exit(p)
    BY <2>5, ExitKeepsOwnership
  <2>6. QED
    BY <2>1, <2>2, <2>3, <2>4, <2>5 DEF Next
<1>3. QED
  BY <1>1, <1>2, TypeCorrect, PTL DEF Spec

\* DESIGN principle 8, up to shutdown: no interleaving of passes, requests and
\* exits gives an app two processes that may both go on writing its state.
THEOREM SingleWriter == Spec => []OneWriter
<1>1. Ownership => OneWriter
  BY DEF Ownership, OneWriter, WritersTracked
<1>2. QED
  BY <1>1, OwnershipInvariant, PTL

\* No pid that nockd keeps, in an entry or in a pidfile, is the pid of another
\* app's process, although the system reuses pids.
THEOREM SignalsReachOwnApp == Spec => []SignalsStayHome
<1>1. Ownership => SignalsStayHome
  BY DEF Ownership, SignalsStayHome, EntriesOwn
<1>2. QED
  BY <1>1, OwnershipInvariant, PTL

\* A daemon that dies leaves every writer in a pidfile, up to the one write that
\* each pass may still owe.
THEOREM WritersAreRecoverable == Spec => []Recoverable
<1>1. Ownership => Recoverable
  BY DEF Ownership, Recoverable, WritersRecorded
<1>2. QED
  BY <1>1, OwnershipInvariant, PTL
=============================================================================
