---------------------------- MODULE MCDashboard ----------------------------
(***************************************************************************)
(* Small instances of Observers and Streams for TLC: what the daemon feeds *)
(* the pages of the dashboard.  The pages share no state, so one run       *)
(* checks them side by side instead of multiplied: page says which of them *)
(* a behaviour is about.  The health loop and the other two loops of       *)
(* Observers write different columns, and none reads another's, so they    *)
(* are two pages.                                                          *)
(***************************************************************************)
EXTENDS Observers, Streams

CONSTANT Neighbours   \* bound: apps nobody sends requests for

VARIABLE page

Init ==
    /\ page \in {"health", "readings", "log", "events"}
    /\ ObsInit
    /\ StreamInit
    /\ \A a \in Neighbours : desired[a] = IF page = "health" THEN "running" ELSE "stopped"

\* A neighbour starts, answers, hangs and then exits; nobody tells it to.
Undisturbed(a) ==
    /\ desired'[a] = desired[a]
    /\ ~procs'[a].restart
    /\ procs'[a].child = "exited" => procs'[a].mode = "hung"

Next ==
    /\ \/ page = "health" /\ UNCHANGED <<status, sampler, streamVars>> /\ ObsNext
       \/ page = "readings" /\ UNCHANGED <<health, streamVars>> /\ ObsNext
       \/ page = "log" /\ LogNext /\ UNCHANGED obsVars
       \/ page = "events" /\ EventNext /\ UNCHANGED obsVars
    /\ \A a \in Neighbours : Undisturbed(a)
    /\ UNCHANGED page

Spec == Init /\ [][Next]_<<page, obsVars, streamVars>>

\* ObsFairness and StreamFairness, each for the behaviours it is about.
Fairness ==
    /\ WF_obsVars(page \in {"health", "readings"} /\ SomePass)
    /\ WF_obsVars(page = "health" /\ HealthLoop)
    /\ WF_obsVars(page = "readings" /\ StatusLoop)
    /\ WF_obsVars(page = "readings" /\ SampleLoop)
    /\ \A a \in Apps : WF_obsVars(procs[a].term /\ Exits(a))
    /\ \A a \in Apps : WF_obsVars(BackoffExpires(a))
    /\ \A c \in LogClients : WF_streamVars(page = "log" /\ LogStep(c))
    /\ \A c \in EventClients : WF_streamVars(page = "events" /\ EventStep(c))

FairSpec == Spec /\ Fairness

TypeOK == ObsTypeOK /\ StreamTypeOK

\* HealthSettles where the health loop runs: an app whose instance stays up and
\* ready ends up shown as serving, whatever late answers of earlier instances
\* were written to its entry, unless some app stays hung for ever.
HealthPageSettles == page = "health" => HealthSettles

\* UsageSettles where the sampler runs: the memory and CPU shown for an app whose
\* instance stays are that instance's own in the end.
ReadingsPageSettles == page = "readings" => UsageSettles
=============================================================================
