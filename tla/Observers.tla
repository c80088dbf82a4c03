----------------------------- MODULE Observers -----------------------------
(***************************************************************************)
(* The loops of serve() that look at the apps and write what they see into *)
(* the procs table (src/src/daemon.rs), and what the dashboard makes of it *)
(* (src/src/apiv1.rs): the gRPC health probe, the status command and the   *)
(* resource sampler.  Each asks about the instance it finds, waits, and    *)
(* writes the answer under the app's name, whatever has become of the      *)
(* instance since.                                                         *)
(*                                                                         *)
(* Every write takes the procs mutex, so a reconcile pass is one step      *)
(* here; what happens inside it is Supervisor's matter, and so are restart *)
(* policies and rows that a pass listed too early.  What an app is (its    *)
(* process and its gRPC server) is external.                               *)
(***************************************************************************)
EXTENDS Naturals, FiniteSets

CONSTANTS
    Apps,   \* app names, each with an admin address and a status command
    NoApp   \* no app: the loop sleeps

ASSUME NoAppAssumption == NoApp \notin Apps

\* An instance listens from "ready" on; a "hung" one accepts and never answers.
Mode == {"booting", "ready", "hung"}
Health == {"unknown", "unreachable", "notserving", "serving"}

\* Whose reading cpu_pct and rss_bytes hold: nobody's, the app's current or
\* last instance's or an older one's.
Reading == {"none", "own", "old"}

Managed == [child   : {"none", "up", "exited"},  \* the process of the handle
            mode    : Mode,
            state   : {"Running", "Stopping", "Stopped", "Backoff"},
            term    : BOOLEAN,                   \* term_deadline is set
            restart : BOOLEAN,                   \* restart_requested
            waiting : BOOLEAN,                   \* now < backoff_until
            health  : Health,
            line    : BOOLEAN,                   \* status_line is Some
            usage   : Reading]                   \* cpu_pct and rss_bytes

VARIABLES
    desired,   \* desired_status of the registry row
    procs,     \* the procs table
    health,    \* the health loop: apps left, app asked, its answer
    status,    \* the status loop: apps left, app asked
    sampler    \* the resource loop: sampling or not, and what each app gets

obsVars == <<desired, procs, health, status, sampler>>

ObsTypeOK ==
    /\ desired \in [Apps -> {"running", "stopped"}]
    /\ procs \in [Apps -> Managed]
    /\ health \in [left : SUBSET Apps, at : Apps \cup {NoApp},
                   answer : Health \cup {"pending"}]
    /\ status \in [left : SUBSET Apps, at : Apps \cup {NoApp}]
    /\ sampler \in [sleeping : BOOLEAN, take : [Apps -> {"out", "gone", "own", "old"}]]

ObsInit ==
    /\ desired \in [Apps -> {"running", "stopped"}]
    /\ procs = [a \in Apps |->
           [child |-> "none", mode |-> "booting", state |-> "Stopped", term |-> FALSE,
            restart |-> FALSE, waiting |-> FALSE, health |-> "unknown",
            line |-> FALSE, usage |-> "none"]]
    /\ health = [left |-> {}, at |-> NoApp, answer |-> "unknown"]
    /\ status = [left |-> {}, at |-> NoApp]
    /\ sampler = [sleeping |-> FALSE, take |-> [a \in Apps |-> "out"]]

-----------------------------------------------------------------------------
(***************************************************************************)
(* reconcile(), as far as the loops can tell.                              *)
(***************************************************************************)

Exited(m) == m.child = "exited"

\* The first loop.  Only an intentional stop resets what the loops have
\* written: a crash and a requested restart leave it for the next instance.
Reap(m) ==
    LET gone == [m EXCEPT !.child = "none", !.restart = FALSE, !.term = FALSE]
    IN  CASE ~Exited(m)             -> m
          [] Exited(m) /\ m.restart -> [gone EXCEPT !.waiting = FALSE, !.state = "Backoff"]
          [] Exited(m) /\ ~m.restart /\ m.term ->
                [gone EXCEPT !.state = "Stopped", !.health = "unknown", !.line = FALSE]
          [] Exited(m) /\ ~m.restart /\ ~m.term ->
                [gone EXCEPT !.waiting = TRUE, !.state = "Backoff"]

\* Faulty variant: health and line are cleared where the exit is noticed, and not here.
StoppedOnce(m) == [m EXCEPT !.state = "Stopped", !.term = FALSE]

\* A stopped app shows no health and no line: every pass clears them again.
Stopped(m) ==
    [m EXCEPT !.state = "Stopped", !.term = FALSE, !.health = "unknown", !.line = FALSE]

\* spawn() returns Ok or Err.
Spawned(m, ok) ==
    IF ok THEN [m EXCEPT !.child = "up", !.mode = "booting", !.state = "Running",
                         !.term = FALSE, !.restart = FALSE, !.health = "unknown",
                         !.usage = IF @ = "own" THEN "old" ELSE @]
          ELSE [m EXCEPT !.waiting = TRUE, !.state = "Backoff"]

\* The third loop.
Drive(m, want, ok) ==
    CASE want = "stopped" /\ m.child # "none" ->
            [m EXCEPT !.term = TRUE, !.state = IF m.term THEN @ ELSE "Stopping"]
      [] want = "stopped" /\ m.child = "none" -> Stopped(m)
      [] want = "running" /\ m.child # "none" ->
            [m EXCEPT !.state = IF m.term THEN "Stopping" ELSE "Running"]
      [] want = "running" /\ m.child = "none" /\ m.waiting -> [m EXCEPT !.state = "Backoff"]
      [] want = "running" /\ m.child = "none" /\ ~m.waiting -> Spawned(m, ok)

\* What the sampler will find or has found of an instance that was collected.
Collected(a) ==
    IF Exited(procs[a]) /\ sampler.take[a] = "own"
    THEN IF sampler.sleeping THEN "gone" ELSE "old"
    ELSE sampler.take[a]

Pass(failing) ==
    /\ procs' = [a \in Apps |-> Drive(Reap(procs[a]), desired[a], a \notin failing)]
    /\ sampler' = [sampler EXCEPT !.take = [a \in Apps |-> Collected(a)]]
    /\ UNCHANGED <<desired, health, status>>

SomePass == \E failing \in SUBSET Apps : Pass(failing)

Set(a, m) == procs' = [procs EXCEPT ![a] = m]

\* start, stop and restart requests, without the pass that each ends with.
SetDesired(a, want) ==
    /\ desired[a] # want
    /\ desired' = [desired EXCEPT ![a] = want]
    /\ UNCHANGED <<procs, health, status, sampler>>

RequestRestart(a) ==
    LET up == procs[a].child # "none"
    IN  /\ Set(a, [procs[a] EXCEPT !.restart = up \/ @, !.term = up \/ @,
                                   !.waiting = FALSE])
        /\ UNCHANGED <<desired, health, status, sampler>>

BackoffExpires(a) ==
    /\ procs[a].waiting
    /\ Set(a, [procs[a] EXCEPT !.waiting = FALSE])
    /\ UNCHANGED <<desired, health, status, sampler>>

\* The app (external): it starts to listen, it hangs, it exits.  Its exit
\* breaks the connection a probe waits on, and check() returns an error.
Becomes(a, from, to) ==
    /\ procs[a].child = "up" /\ procs[a].mode = from
    /\ Set(a, [procs[a] EXCEPT !.mode = to])
    /\ UNCHANGED <<desired, health, status, sampler>>

Exits(a) ==
    /\ procs[a].child = "up"
    /\ Set(a, [procs[a] EXCEPT !.child = "exited"])
    /\ health' = IF health.at = a /\ health.answer = "pending"
                 THEN [health EXCEPT !.answer = "notserving"] ELSE health
    /\ UNCHANGED <<desired, status, sampler>>

-----------------------------------------------------------------------------
(***************************************************************************)
(* The health loop: one app after the other, with no bound on the call.    *)
(***************************************************************************)
HealthTick ==
    /\ health.at = NoApp /\ health.left = {}
    /\ health' = [health EXCEPT !.left = Apps]
    /\ UNCHANGED <<desired, procs, status, sampler>>

Listens(m) == m.child = "up" /\ m.mode # "booting"

\* probe(): connect, or fail to within two seconds; stopped apps are asked too.
Connect(a) ==
    /\ health.at = NoApp /\ a \in health.left
    /\ health' = [left |-> health.left \ {a}, at |-> a,
                  answer |-> IF Listens(procs[a]) THEN "pending" ELSE "unreachable"]
    /\ UNCHANGED <<desired, procs, status, sampler>>

\* check() returns: a server that is ready says SERVING.
Answer(a) ==
    /\ health.at = a /\ health.answer = "pending"
    /\ procs[a].mode = "ready"
    /\ health' = [health EXCEPT !.answer = "serving"]
    /\ UNCHANGED <<desired, procs, status, sampler>>

\* Faulty variant: the call's result is not waited for.
SetHealthEarly(a) ==
    /\ health.at = a
    /\ Set(a, [procs[a] EXCEPT !.health = health.answer])
    /\ health' = [health EXCEPT !.at = NoApp, !.answer = "unknown"]
    /\ UNCHANGED <<desired, status, sampler>>

\* Faulty variant: the result is recorded the first time only.
SetHealthOnce(a) ==
    /\ health.at = a /\ health.answer # "pending"
    /\ Set(a, [procs[a] EXCEPT !.health = IF @ = "unknown" THEN health.answer ELSE @])
    /\ health' = [health EXCEPT !.at = NoApp, !.answer = "unknown"]
    /\ UNCHANGED <<desired, status, sampler>>

SetHealth(a) ==
    /\ health.at = a /\ health.answer # "pending"
    /\ Set(a, [procs[a] EXCEPT !.health = health.answer])
    /\ health' = [health EXCEPT !.at = NoApp, !.answer = "unknown"]
    /\ UNCHANGED <<desired, status, sampler>>

HealthLoop ==
    HealthTick \/ \E a \in Apps : Connect(a) \/ Answer(a) \/ SetHealth(a)

-----------------------------------------------------------------------------
(***************************************************************************)
(* The status loop: a command per running app, given up after five seconds *)
(***************************************************************************)
StatusTick ==
    /\ status.at = NoApp /\ status.left = {}
    /\ status' = [status EXCEPT !.left = Apps]
    /\ UNCHANGED <<desired, procs, health, sampler>>

\* is_running(): an app that does not run is skipped.
RunStatusCmd(a) ==
    /\ status.at = NoApp /\ a \in status.left
    /\ status' = [left |-> status.left \ {a},
                  at |-> IF procs[a].state = "Running" THEN a ELSE NoApp]
    /\ UNCHANGED <<desired, procs, health, sampler>>

\* The command has printed a line, or failed or timed out.
SetStatusLine(a, some) ==
    /\ status.at = a
    /\ Set(a, [procs[a] EXCEPT !.line = some])
    /\ status' = [status EXCEPT !.at = NoApp]
    /\ UNCHANGED <<desired, health, sampler>>

StatusLoop ==
    \/ StatusTick
    \/ \E a \in Apps : RunStatusCmd(a) \/ \E some \in BOOLEAN : SetStatusLine(a, some)

-----------------------------------------------------------------------------
(***************************************************************************)
(* The resource loop: the pids are read, sampled for 300 ms, and written.  *)
(***************************************************************************)
Asleep == ~sampler.sleeping /\ \A a \in Apps : sampler.take[a] = "out"

\* The apps whose status() has a pid, which a stopped app has not.
ListLive ==
    /\ Asleep
    /\ sampler' = [sleeping |-> TRUE,
                   take |-> [a \in Apps |-> IF procs[a].child # "none" THEN "own" ELSE "out"]]
    /\ UNCHANGED <<desired, procs, health, status>>

\* sample() returns.
Sampled ==
    /\ sampler.sleeping
    /\ sampler' = [sampler EXCEPT !.sleeping = FALSE]
    /\ UNCHANGED <<desired, procs, health, status>>

\* Faulty variant: a pid that was not found leaves the reading as it is, and
\* so does one that was.
SetResourcesNever(a) ==
    /\ ~sampler.sleeping /\ sampler.take[a] # "out"
    /\ Set(a, [procs[a] EXCEPT !.usage = IF @ = "none" THEN "own" ELSE @])
    /\ sampler' = [sampler EXCEPT !.take[a] = "out"]
    /\ UNCHANGED <<desired, health, status>>

\* set_resources(): a pid that was not found clears the reading.
SetResources(a) ==
    LET r == sampler.take[a]
    IN  /\ ~sampler.sleeping /\ r # "out"
        /\ Set(a, [procs[a] EXCEPT !.usage = IF r = "gone" THEN "none" ELSE r])
        /\ sampler' = [sampler EXCEPT !.take[a] = "out"]
        /\ UNCHANGED <<desired, health, status>>

SampleLoop == ListLive \/ Sampled \/ \E a \in Apps : SetResources(a)

-----------------------------------------------------------------------------
\* derive_status(): what /api/v1/apps says of an app.
Shown(a) ==
    LET m == procs[a]
    IN  CASE m.state = "Backoff" -> "crashing"
          [] m.state = "Running" ->
                IF m.health \in {"notserving", "unreachable"} THEN "degraded" ELSE "running"
          [] m.state \in {"Stopped", "Stopping"} -> desired[a]

Environment ==
    \E a \in Apps :
        \/ \E want \in {"running", "stopped"} : SetDesired(a, want)
        \/ RequestRestart(a) \/ BackoffExpires(a)
        \/ Becomes(a, "booting", "ready") \/ Becomes(a, "ready", "hung") \/ Exits(a)

ObsNext ==
    \/ SomePass
    \/ Environment \/ HealthLoop \/ StatusLoop \/ SampleLoop

\* The loops and the tick come back; a process that has been told to exit does,
\* by itself or by the SIGKILL that follows.  Apps need not answer.
ObsFairness ==
    /\ WF_obsVars(SomePass)
    /\ WF_obsVars(HealthLoop) /\ WF_obsVars(StatusLoop) /\ WF_obsVars(SampleLoop)
    /\ \A a \in Apps : WF_obsVars(procs[a].term /\ Exits(a)) /\ WF_obsVars(BackoffExpires(a))

ObsSpec == ObsInit /\ [][ObsNext]_obsVars /\ ObsFairness

-----------------------------------------------------------------------------
Up(a) == procs[a].child = "up" /\ ~procs[a].term

\* An app whose instance stays up and ready ends up shown as serving, whatever
\* late answers of earlier instances were written to its entry meanwhile, as
\* long as no app keeps the loop waiting for ever: a hung instance holds the
\* loop up until it exits, not longer.
HealthSettles ==
    (\A b \in Apps : []<>~(procs[b].child = "up" /\ procs[b].mode = "hung")) =>
        \A a \in Apps :
            <>[](Up(a) /\ procs[a].mode = "ready" /\ desired[a] = "running")
                => <>[](procs[a].health = "serving" /\ Shown(a) = "running")

\* A stopped app ends up shown as stopped and without a status line, although
\* a command may still be running when the stop clears the line, and although
\* the health loop may be held up by a hung app.
StopSettles ==
    \A a \in Apps : <>[](desired[a] = "stopped") =>
        <>[](Shown(a) = "stopped" /\ ~procs[a].line)

\* The memory and CPU shown for an app whose instance stays are that instance's
\* own in the end, not the reading that was under way when it started.
UsageSettles ==
    \A a \in Apps : <>[]Up(a) => <>[](procs[a].usage = "own")
=============================================================================
