--------------------------- MODULE DashboardProofs ---------------------------
(***************************************************************************)
(* Theorems about the pages of MCDashboard together, for every set of apps *)
(* and clients: the loops of Observers and the followers of Streams.       *)
(***************************************************************************)
EXTENDS MCDashboard, StreamsProofs

-----------------------------------------------------------------------------
(***************************************************************************)
(* The entry of one app.                                                   *)
(***************************************************************************)
LEMMA ReapTypes == \A m \in Managed : Reap(m) \in Managed
<1> SUFFICES ASSUME NEW m \in Managed PROVE Reap(m) \in Managed
  OBVIOUS
<1> DEFINE gone == [m EXCEPT !.child = "none", !.restart = FALSE, !.term = FALSE]
<1>1. gone \in Managed
  BY DEF Managed
<1>2. CASE ~Exited(m)
  BY <1>2 DEF Reap
<1>3. CASE Exited(m) /\ m.restart
  <2>1. Reap(m) = [gone EXCEPT !.waiting = FALSE, !.state = "Backoff"]
    BY <1>3 DEF Reap
  <2>2. QED
    BY <1>1, <2>1 DEF Managed
<1>4. CASE Exited(m) /\ ~m.restart /\ m.term
  <2>1. Reap(m) = [gone EXCEPT !.state = "Stopped", !.health = "unknown", !.line = FALSE]
    BY <1>4 DEF Reap
  <2>2. QED
    BY <1>1, <2>1 DEF Managed, Health
<1>5. CASE Exited(m) /\ ~m.restart /\ ~m.term
  <2>1. Reap(m) = [gone EXCEPT !.waiting = TRUE, !.state = "Backoff"]
    BY <1>5 DEF Reap
  <2>2. QED
    BY <1>1, <2>1 DEF Managed
<1>6. m.restart \in BOOLEAN /\ m.term \in BOOLEAN
  BY DEF Managed
<1>7. QED
  BY <1>2, <1>3, <1>4, <1>5, <1>6

LEMMA SpawnedTypes == \A m \in Managed, ok \in BOOLEAN : Spawned(m, ok) \in Managed
<1> SUFFICES ASSUME NEW m \in Managed, NEW ok \in BOOLEAN PROVE Spawned(m, ok) \in Managed
  OBVIOUS
<1>1. CASE ok
  <2> DEFINE usage == IF m.usage = "own" THEN "old" ELSE m.usage
  <2>1. usage \in Reading
    BY DEF Managed, Reading
  <2>2. Spawned(m, ok) = [m EXCEPT !.child = "up", !.mode = "booting", !.state = "Running",
                                   !.term = FALSE, !.restart = FALSE,
                                   !.health = "unknown", !.usage = usage]
    BY <1>1 DEF Spawned
  <2> HIDE DEF usage
  <2>3. QED
    BY <2>1, <2>2 DEF Managed, Mode, Health
<1>2. CASE ~ok
  BY <1>2 DEF Spawned, Managed
<1>3. QED
  BY <1>1, <1>2

LEMMA DriveTypes ==
    \A m \in Managed, want \in {"running", "stopped"}, ok \in BOOLEAN :
        Drive(m, want, ok) \in Managed
<1> SUFFICES ASSUME NEW m \in Managed, NEW want \in {"running", "stopped"}, NEW ok \in BOOLEAN
             PROVE  Drive(m, want, ok) \in Managed
  OBVIOUS
<1>1. CASE want = "stopped" /\ m.child # "none"
  <2> DEFINE s == IF m.term THEN m.state ELSE "Stopping"
  <2>1. Drive(m, want, ok) = [m EXCEPT !.term = TRUE, !.state = s]
    BY <1>1 DEF Drive
  <2>2. s \in {"Running", "Stopping", "Stopped", "Backoff"}
    BY DEF Managed
  <2> HIDE DEF s
  <2>3. QED
    BY <2>1, <2>2 DEF Managed
<1>2. CASE want = "stopped" /\ m.child = "none"
  <2>1. Drive(m, want, ok) = Stopped(m)
    BY <1>2 DEF Drive
  <2>2. QED
    BY <2>1 DEF Stopped, Managed, Health
<1>3. CASE want = "running" /\ m.child # "none"
  <2> DEFINE s == IF m.term THEN "Stopping" ELSE "Running"
  <2>1. Drive(m, want, ok) = [m EXCEPT !.state = s]
    BY <1>3 DEF Drive
  <2>2. QED
    BY <2>1 DEF Managed
<1>4. CASE want = "running" /\ m.child = "none" /\ m.waiting
  <2>1. Drive(m, want, ok) = [m EXCEPT !.state = "Backoff"]
    BY <1>4 DEF Drive
  <2>2. QED
    BY <2>1 DEF Managed
<1>5. CASE want = "running" /\ m.child = "none" /\ ~m.waiting
  <2>1. Drive(m, want, ok) = Spawned(m, ok)
    BY <1>5 DEF Drive
  <2>2. QED
    BY <2>1, SpawnedTypes
<1>6. m.waiting \in BOOLEAN
  BY DEF Managed
<1>7. QED
  BY <1>1, <1>2, <1>3, <1>4, <1>5, <1>6

\* One entry is written and the rest of the table stays.
LEMMA SetTypes ==
    ASSUME NEW a \in Apps, NEW m \in Managed, procs \in [Apps -> Managed], Set(a, m)
    PROVE  procs' \in [Apps -> Managed]
  BY DEF Set

-----------------------------------------------------------------------------
(***************************************************************************)
(* The loops.                                                              *)
(***************************************************************************)
LEMMA InitObsTypes == ObsInit => ObsTypeOK
  BY DEF ObsInit, ObsTypeOK, Managed, Mode, Health, Reading

LEMMA PassTypes ==
    ASSUME ObsTypeOK, NEW failing \in SUBSET Apps, Pass(failing)
    PROVE  ObsTypeOK'
<1>1. procs' \in [Apps -> Managed]
  <2>1. ASSUME NEW a \in Apps
        PROVE  Drive(Reap(procs[a]), desired[a], a \notin failing) \in Managed
    <3>1. Reap(procs[a]) \in Managed
      BY ReapTypes DEF ObsTypeOK
    <3>2. desired[a] \in {"running", "stopped"} /\ (a \notin failing) \in BOOLEAN
      BY DEF ObsTypeOK
    <3>3. QED
      BY <3>1, <3>2, DriveTypes
  <2>2. QED
    BY <2>1 DEF Pass
<1>2. /\ sampler' = [sampler EXCEPT !.take = [a \in Apps |-> Collected(a)]]
      /\ UNCHANGED <<desired, health, status>>
  BY DEF Pass
<1>3. \A a \in Apps : Collected(a) \in {"out", "gone", "own", "old"}
  BY DEF Collected, ObsTypeOK
<1>4. sampler' \in [sleeping : BOOLEAN, take : [Apps -> {"out", "gone", "own", "old"}]]
  BY <1>2, <1>3 DEF ObsTypeOK
<1>5. QED
  BY <1>1, <1>2, <1>4 DEF ObsTypeOK

LEMMA EnvironmentTypes ==
    ASSUME ObsTypeOK, NEW a \in Apps,
           \/ \E want \in {"running", "stopped"} : SetDesired(a, want)
           \/ RequestRestart(a) \/ BackoffExpires(a)
           \/ Becomes(a, "booting", "ready") \/ Becomes(a, "ready", "hung") \/ Exits(a)
    PROVE  ObsTypeOK'
<1>0. procs[a] \in Managed
  BY DEF ObsTypeOK
<1>1. CASE \E want \in {"running", "stopped"} : SetDesired(a, want)
  BY <1>1 DEF SetDesired, ObsTypeOK
<1>2. CASE RequestRestart(a)
  <2> DEFINE up == procs[a].child # "none"
             m == [procs[a] EXCEPT !.restart = up \/ @, !.term = up \/ @, !.waiting = FALSE]
  <2>1. Set(a, m) /\ UNCHANGED <<desired, health, status, sampler>>
    BY <1>2 DEF RequestRestart
  <2>2. m \in Managed
    BY <1>0 DEF Managed
  <2> HIDE DEF m
  <2>3. QED
    BY <2>1, <2>2, SetTypes DEF ObsTypeOK
<1>3. CASE BackoffExpires(a)
  <2> DEFINE m == [procs[a] EXCEPT !.waiting = FALSE]
  <2>1. Set(a, m) /\ UNCHANGED <<desired, health, status, sampler>>
    BY <1>3 DEF BackoffExpires
  <2>2. m \in Managed
    BY <1>0 DEF Managed
  <2> HIDE DEF m
  <2>3. QED
    BY <2>1, <2>2, SetTypes DEF ObsTypeOK
<1>4. ASSUME NEW from, NEW to \in Mode, Becomes(a, from, to)
      PROVE  ObsTypeOK'
  <2> DEFINE m == [procs[a] EXCEPT !.mode = to]
  <2>1. Set(a, m) /\ UNCHANGED <<desired, health, status, sampler>>
    BY <1>4 DEF Becomes
  <2>2. m \in Managed
    BY <1>0 DEF Managed
  <2> HIDE DEF m
  <2>3. QED
    BY <2>1, <2>2, SetTypes DEF ObsTypeOK
<1>5. CASE Exits(a)
  <2> DEFINE m == [procs[a] EXCEPT !.child = "exited"]
  <2>1. /\ Set(a, m) /\ UNCHANGED <<desired, status, sampler>>
        /\ health' = health \/ health' = [health EXCEPT !.answer = "notserving"]
    BY <1>5 DEF Exits
  <2>2. m \in Managed
    BY <1>0 DEF Managed
  <2> HIDE DEF m
  <2>3. health' \in [left : SUBSET Apps, at : Apps \cup {NoApp},
                     answer : Health \cup {"pending"}]
    BY <2>1 DEF ObsTypeOK, Health
  <2>4. QED
    BY <2>1, <2>2, <2>3, SetTypes DEF ObsTypeOK
<1>6. QED
  BY <1>1, <1>2, <1>3, <1>4, <1>5 DEF Mode

\* The probe's answer is recorded once there is one: a pending call never
\* reaches the table.
LEMMA HealthLoopTypes == ObsTypeOK /\ HealthLoop => ObsTypeOK'
<1> SUFFICES ASSUME ObsTypeOK, HealthLoop PROVE ObsTypeOK'
  OBVIOUS
<1> DEFINE Loop == [left : SUBSET Apps, at : Apps \cup {NoApp},
                    answer : Health \cup {"pending"}]
<1>1. CASE HealthTick
  <2>1. health' \in Loop
    BY <1>1 DEF HealthTick, ObsTypeOK
  <2>2. QED
    BY <1>1, <2>1 DEF HealthTick, ObsTypeOK
<1>2. ASSUME NEW a \in Apps, Connect(a) PROVE ObsTypeOK'
  <2> DEFINE answer == IF Listens(procs[a]) THEN "pending" ELSE "unreachable"
  <2>1. answer \in Health \cup {"pending"}
    BY DEF Health
  <2>2. health' = [left |-> health.left \ {a}, at |-> a, answer |-> answer]
    BY <1>2 DEF Connect
  <2> HIDE DEF answer
  <2>3. health' \in Loop
    BY <2>1, <2>2 DEF ObsTypeOK
  <2>4. QED
    BY <1>2, <2>3 DEF Connect, ObsTypeOK
<1>3. ASSUME NEW a \in Apps, Answer(a) PROVE ObsTypeOK'
  <2>1. health' \in Loop
    BY <1>3 DEF Answer, ObsTypeOK, Health
  <2>2. QED
    BY <1>3, <2>1 DEF Answer, ObsTypeOK
<1>4. ASSUME NEW a \in Apps, SetHealth(a) PROVE ObsTypeOK'
  <2> DEFINE m == [procs[a] EXCEPT !.health = health.answer]
  <2>1. health.answer \in Health
    BY <1>4 DEF SetHealth, ObsTypeOK
  <2>2. Set(a, m) /\ UNCHANGED <<desired, status, sampler>>
    BY <1>4 DEF SetHealth
  <2>3. m \in Managed
    BY <2>1 DEF Managed, ObsTypeOK
  <2> HIDE DEF m
  <2>4. health' \in Loop
    BY <1>4 DEF SetHealth, ObsTypeOK, Health
  <2>5. QED
    BY <2>2, <2>3, <2>4, SetTypes DEF ObsTypeOK
<1>5. QED
  BY <1>1, <1>2, <1>3, <1>4 DEF HealthLoop

LEMMA StatusLoopTypes == ObsTypeOK /\ StatusLoop => ObsTypeOK'
<1> SUFFICES ASSUME ObsTypeOK, StatusLoop PROVE ObsTypeOK'
  OBVIOUS
<1>1. CASE StatusTick
  BY <1>1 DEF StatusTick, ObsTypeOK
<1>2. ASSUME NEW a \in Apps, RunStatusCmd(a) PROVE ObsTypeOK'
  BY <1>2 DEF RunStatusCmd, ObsTypeOK
<1>3. ASSUME NEW a \in Apps, NEW some \in BOOLEAN, SetStatusLine(a, some) PROVE ObsTypeOK'
  <2> DEFINE m == [procs[a] EXCEPT !.line = some]
  <2>1. Set(a, m) /\ UNCHANGED <<desired, health, sampler>>
    BY <1>3 DEF SetStatusLine
  <2>2. m \in Managed
    BY DEF Managed, ObsTypeOK
  <2> HIDE DEF m
  <2>3. status' \in [left : SUBSET Apps, at : Apps \cup {NoApp}]
    BY <1>3 DEF SetStatusLine, ObsTypeOK
  <2>4. QED
    BY <2>1, <2>2, <2>3, SetTypes DEF ObsTypeOK
<1>4. QED
  BY <1>1, <1>2, <1>3 DEF StatusLoop

\* What the sampler writes is a reading: an app it does not sample is left out,
\* and a pid it did not find clears the columns.
LEMMA SampleLoopTypes == ObsTypeOK /\ SampleLoop => ObsTypeOK'
<1> SUFFICES ASSUME ObsTypeOK, SampleLoop PROVE ObsTypeOK'
  OBVIOUS
<1> DEFINE Take == {"out", "gone", "own", "old"}
           Loop == [sleeping : BOOLEAN, take : [Apps -> Take]]
<1>1. CASE ListLive
  <2> DEFINE take == [a \in Apps |-> IF procs[a].child # "none" THEN "own" ELSE "out"]
  <2>1. take \in [Apps -> Take]
    OBVIOUS
  <2>2. sampler' = [sleeping |-> TRUE, take |-> take]
    BY <1>1 DEF ListLive
  <2> HIDE DEF take
  <2>3. sampler' \in Loop
    BY <2>1, <2>2
  <2>4. QED
    BY <1>1, <2>3 DEF ListLive, ObsTypeOK
<1>2. CASE Sampled
  <2>1. sampler' \in Loop
    BY <1>2 DEF Sampled, ObsTypeOK
  <2>2. QED
    BY <1>2, <2>1 DEF Sampled, ObsTypeOK
<1>3. ASSUME NEW a \in Apps, SetResources(a) PROVE ObsTypeOK'
  <2> DEFINE r == sampler.take[a]
             usage == IF r = "gone" THEN "none" ELSE r
             m == [procs[a] EXCEPT !.usage = usage]
  <2>1. r # "out" /\ Set(a, m) /\ UNCHANGED <<desired, health, status>>
    BY <1>3 DEF SetResources
  <2>2. r \in Take
    BY DEF ObsTypeOK
  <2>3. usage \in Reading
    BY <2>1, <2>2 DEF Reading
  <2> HIDE DEF usage
  <2>4. m \in Managed
    BY <2>3 DEF Managed, ObsTypeOK
  <2> HIDE DEF m
  <2>5. sampler' = [sampler EXCEPT !.take[a] = "out"]
    BY <1>3 DEF SetResources
  <2>6. sampler' \in Loop
    BY <2>5 DEF ObsTypeOK
  <2>7. QED
    BY <2>1, <2>4, <2>6, SetTypes DEF ObsTypeOK
<1>4. QED
  BY <1>1, <1>2, <1>3 DEF SampleLoop

LEMMA ObsStepTypes == ObsTypeOK /\ ObsNext => ObsTypeOK'
<1>1. ObsTypeOK /\ SomePass => ObsTypeOK'
  BY PassTypes DEF SomePass
<1>2. ObsTypeOK /\ Environment => ObsTypeOK'
  BY EnvironmentTypes DEF Environment
<1>3. QED
  BY <1>1, <1>2, HealthLoopTypes, StatusLoopTypes, SampleLoopTypes DEF ObsNext

-----------------------------------------------------------------------------
(***************************************************************************)
(* The streams: the types of what the followers hold are part of LogInv    *)
(* and EventInv.                                                           *)
(***************************************************************************)
Tallies ==
    /\ raw \in SUBSET (1..MaxPieces)
    /\ truncations \in 0..MaxTruncations

StreamInv == LogInv /\ EventInv /\ Tallies

LEMMA StreamInvTypes == StreamInv => StreamTypeOK
  BY DEF StreamInv, StreamTypeOK, LogInv, LogTypes, EventInv, Tallies

LEMMA InitStreamInv == StreamInit => StreamInv
  BY InitLogInv, InitEventInv, MaxTruncationsAssumption DEF StreamInit, StreamInv, Tallies

LEMMA QuietLog == LogInv /\ UNCHANGED logVars => LogInv'
  BY DEF LogInv, logVars, LogTypes, LatestPieces, ReaderInv, Caught

LEMMA QuietEvents == EventInv /\ UNCHANGED eventVars => EventInv'
  BY DEF EventInv, eventVars, WatcherInv, BatchContinues, SentContiguously, Start

LEMMA LogStepInv == StreamInv /\ LogNext => StreamInv'
<1> SUFFICES ASSUME StreamInv, LogNext PROVE StreamInv'
  OBVIOUS
<1>1. LogInv'
  BY WriteLogInv, TruncateInv, LogFollowerInv DEF StreamInv, LogNext
<1>2. UNCHANGED eventVars
  BY DEF LogNext, Append2Log, Truncate, LogStep, FileLen, ReadTail, OpenLog, ReadOn, Put
<1>3. Tallies'
  <2>1. CASE \E valid \in BOOLEAN : Append2Log(valid)
    BY <2>1, MaxPiecesAssumption DEF Append2Log, StreamInv, Tallies, LogInv, LogTypes
  <2>2. CASE Truncate
    BY <2>2, MaxTruncationsAssumption DEF Truncate, StreamInv, Tallies
  <2>3. CASE \E c \in LogClients : LogStep(c)
    BY <2>3 DEF LogStep, FileLen, ReadTail, OpenLog, ReadOn, Put, StreamInv, Tallies
  <2>4. QED
    BY <2>1, <2>2, <2>3 DEF LogNext
<1>4. QED
  BY <1>1, <1>2, <1>3, QuietEvents DEF StreamInv

LEMMA EventStepInv == StreamInv /\ EventNext => StreamInv'
<1> SUFFICES ASSUME StreamInv, EventNext PROVE StreamInv'
  OBVIOUS
<1>1. EventInv'
  BY AddEventInv, FollowerInv DEF StreamInv, EventNext
<1>2. UNCHANGED logVars
  BY DEF EventNext, AddEvent, EventStep, PollEvents, Emit, LastEvent, PutWatcher
<1>3. QED
  BY <1>1, <1>2, QuietLog DEF StreamInv, Tallies, logVars

-----------------------------------------------------------------------------
DashboardInv == ObsTypeOK /\ StreamInv

LEMMA InitDashboard == Init => DashboardInv
  BY InitObsTypes, InitStreamInv DEF Init, DashboardInv

LEMMA NextDashboard ==
    DashboardInv /\ [Next]_<<page, obsVars, streamVars>> => DashboardInv'
<1> SUFFICES ASSUME DashboardInv, [Next]_<<page, obsVars, streamVars>>
             PROVE  DashboardInv'
  OBVIOUS
<1>1. UNCHANGED obsVars => ObsTypeOK'
  BY DEF DashboardInv, obsVars, ObsTypeOK
<1>2. UNCHANGED streamVars => StreamInv'
  BY QuietLog, QuietEvents DEF DashboardInv, StreamInv, streamVars, logVars, Tallies
<1>3. CASE UNCHANGED <<page, obsVars, streamVars>>
  BY <1>1, <1>2, <1>3 DEF DashboardInv
<1>4. CASE ObsNext /\ UNCHANGED streamVars
  BY <1>2, <1>4, ObsStepTypes DEF DashboardInv
<1>5. CASE LogNext /\ UNCHANGED obsVars
  BY <1>1, <1>5, LogStepInv DEF DashboardInv
<1>6. CASE EventNext /\ UNCHANGED obsVars
  BY <1>1, <1>6, EventStepInv DEF DashboardInv
<1>7. QED
  BY <1>3, <1>4, <1>5, <1>6 DEF Next

\* Whatever the loops write under an app's name after it was stopped, restarted
\* or respawned, the table holds what derive_status() and the pages expect: in
\* particular a probe that is still waiting never shows up as somebody's health,
\* and a pid that was not sampled or not found never as a reading.
THEOREM DashboardTypes == Spec => []TypeOK
<1>1. DashboardInv => TypeOK
  BY StreamInvTypes DEF DashboardInv, TypeOK
<1>2. QED
  BY <1>1, InitDashboard, NextDashboard, PTL DEF Spec

\* The followers keep their promises next to the loops: what is proved of
\* Streams alone holds of the pages that TLC checks together.
THEOREM PagesFollowInOrder == Spec => [](NothingSkipped /\ EventsInOrder)
<1>1. DashboardInv => NothingSkipped
  BY DEF DashboardInv, StreamInv, LogInv, NothingSkipped, ReaderInv, Caught
<1>2. DashboardInv => EventsInOrder
  BY InOrderFromInv DEF DashboardInv, StreamInv, EventInv, EventsInOrder
<1>3. QED
  BY <1>1, <1>2, InitDashboard, NextDashboard, PTL DEF Spec
=============================================================================
