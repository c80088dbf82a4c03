----------------------------- MODULE LivesProofs -----------------------------
(***************************************************************************)
(* What LifecycleProofs says of an entry and its process, over any number  *)
(* of lives of the daemon: processes that earlier lives left behind are in *)
(* no entry, and strangers may have any number that is free.               *)
(***************************************************************************)
EXTENDS BootProofs, LifecycleProofs

\* The part of a life that Daemon describes is made of Daemon's steps.
LEMMA LifeIsDaemon == DaemonStep => Next
  BY DEF DaemonStep, Next

\* A stranger gets a number that no entry holds: a child's number is not free
\* before the daemon has waited for it.
LEMMA StrangerKeepsTruth ==
    ASSUME TypeInv, EntriesOwn, NEW p \in Pids, StrangerStarts(p),
           NEW a \in Apps, TermTruth(a), StateTruth(a)
    PROVE  TermTruth(a)' /\ StateTruth(a)'
<1>1. PICK c : c = procs[a].child
  OBVIOUS
<1>2. procs' = procs /\ os[p].st = "free" /\ \A q \in Pids \ {p} : os'[q] = os[q]
  BY DEF StrangerStarts, FreePids, Started, TypeInv, TypeOK, OsTypeOK
<1>3. c \in Pids \cup {NoPid} /\ (c # NoPid => os'[c] = os[c])
  BY <1>1, <1>2 DEF EntriesOwn, TypeInv, TypeOK, Managed
<1>4. QED
  BY <1>1, <1>2, <1>3 DEF TermTruth, StateTruth, Up

LEMMA LivesKeepTruth ==
    ASSUME BootTypeOK, BootInv, EntryTruth, [BootNext]_allVars
    PROVE  EntryTruth'
<1>1. TypeInv /\ Fresh /\ Owned
  BY DEF BootTypeOK, BootInv
<1>2. CASE ~Looping'
  <2>1. \A a \in Apps : (procs[a] = Untracked)'
    BY <1>1, <1>2, StaysFresh DEF Fresh
  <2>2. \A a \in Apps : (TermTruth(a) /\ StateTruth(a))'
    BY <2>1 DEF Untracked, DefaultEntry, TermTruth, StateTruth
  <2>3. QED
    BY <2>2 DEF EntryTruth
<1>3. CASE Looping'
  <2>1. CASE Launch \/ Die \/ \E a \in Apps : CleanupApp(a)
    BY <1>3, <2>1 DEF Launch, Die, CleanupApp, Looping
  <2>2. CASE EndCleanup \/ KillStragglers
    <3>1. \A a \in Apps : procs'[a] = Untracked
      BY <1>1, <2>2 DEF EndCleanup, KillStragglers, Fresh, Looping, vars
    <3>2. QED
      BY <3>1 DEF Untracked, DefaultEntry, EntryTruth, TermTruth, StateTruth
  <2>3. CASE Bind \/ UNCHANGED allVars
    BY <2>3 DEF Bind, allVars, vars, EntryTruth, OwnsChildren, TermTruth, StateTruth, Up
  <2>4. ASSUME NEW p \in Pids, StrangerStarts(p), OwnsChildren'
        PROVE  EntryTruth'
    <3>1. Looping /\ OwnsChildren
      BY <1>3, <2>4 DEF StrangerStarts, bootVars, Looping, OwnsChildren
    <3>2. QED
      BY <1>1, <2>4, <3>1, StrangerKeepsTruth DEF Owned, EntryTruth
  <2>5. ASSUME NEW p \in Pids, ExitAnyLife(p), OwnsChildren'
        PROVE  EntryTruth'
    <3>1. Exit(p) /\ OwnsChildren
      BY <2>5 DEF ExitAnyLife, Exit, OwnsChildren
    <3>2. QED
      BY <1>1, <3>1, ExitKeepsTruth DEF EntryTruth
  <2>6. CASE DaemonStep /\ UNCHANGED bootVars
    <3>1. OwnsChildren => EntriesOwn
      BY <1>1, <2>6, NoStepBeforeTheLoops DEF Owned
    <3>2. QED
      BY <1>1, <2>6, <3>1, LifeIsDaemon, StepKeepsTruth
  <2>7. ~OwnsChildren' => EntryTruth'
    BY DEF EntryTruth
  <2>8. QED
    BY <2>1, <2>2, <2>3, <2>4, <2>5, <2>6, <2>7
       DEF BootNext, Crash, BindFails, ServeReturns
<1>4. QED
  BY <1>2, <1>3

\* What an entry says of its process is true in every life of the daemon,
\* whatever the lives before it left running.
THEOREM EntriesTellTheTruthOverLives == BootSpec => []EntryTruth
<1>1. BootInit => EntryTruth
  BY UntrackedTruth DEF BootInit, Init, EntryTruth
<1>2. QED
  BY <1>1, LivesKeepTruth, BootTypeCorrect, HandoverInvariant, PTL DEF BootSpec

\* status() shows a process exactly for the apps that have one in this life's
\* table, in every life: an orphan is never taken for the app's process.
THEOREM StatusIsTrueOverLives == BootSpec => []StatusTruth
<1>1. EntryTruth => StatusTruth
  BY DEF EntryTruth, StateTruth, StatusTruth
<1>2. QED
  BY <1>1, EntriesTellTheTruthOverLives, PTL

\* No life counts an exit it asked for as a crash, and the first life after a
\* crash of the daemon owes nothing to the signals of the one before.
THEOREM AskedExitsAreFreeOverLives == BootSpec => NoPenaltyForAskedExit
<1>1. BootTypeOK /\ BootInv /\ EntryTruth /\ [BootNext]_allVars
         => [OwnsChildren =>
                \A a \in Apps :
                    procs'[a].restarts > procs[a].restarts =>
                        \/ procs[a].child = NoPid
                        \/ os[procs[a].child].sig = "none"]_vars
  <2> SUFFICES ASSUME BootTypeOK, BootInv, EntryTruth, [BootNext]_allVars, OwnsChildren,
                      NEW a \in Apps, procs'[a].restarts > procs[a].restarts
               PROVE  procs[a].child = NoPid \/ os[procs[a].child].sig = "none"
    OBVIOUS
  <2>1. TypeInv /\ procs[a].restarts \in Nat
    BY RestartCapAssumption DEF BootTypeOK, TypeInv, TypeOK, Managed
  <2>2. procs'[a].restarts # procs[a].restarts /\ procs'[a].restarts # 0
    BY <2>1
  <2>3. CASE DaemonStep
    <3>1. EntriesOwn
      BY <2>3, NoStepBeforeTheLoops DEF BootInv, Owned
    <3>2. QED
      BY <2>1, <2>3, <3>1, LifeIsDaemon, OnlyCrashesCount
  <2>4. CASE Die
    BY <2>2, <2>4 DEF Die, Untracked, DefaultEntry
  <2>5. CASE ~DaemonStep /\ ~Die
    BY <2>2, <2>5 DEF BootNext, Launch, EndCleanup, KillStragglers, Bind, CleanupApp, Crash,
       BindFails, ServeReturns, StrangerStarts, ExitAnyLife, Exit, allVars, vars
  <2>6. QED
    BY <2>3, <2>4, <2>5 DEF BootNext
<1>2. QED
  BY <1>1, BootTypeCorrect, HandoverInvariant, EntriesTellTheTruthOverLives, PTL
     DEF BootSpec, NoPenaltyForAskedExit
=============================================================================
