---------------------------- MODULE AppLifecycle ----------------------------
(***************************************************************************)
(* What the supervisor promises for each app, without tasks, passes, pids  *)
(* or the registry: at most one instance, which starts only after the one  *)
(* before has ended and been collected, and which is killed only after it  *)
(* has been asked to exit (DESIGN 5.1: SIGTERM, grace, SIGKILL).           *)
(***************************************************************************)
CONSTANT Apps

VARIABLE
    phase    \* phase[a]: the stage of life of a's instance

Phases == {"none", "running", "asked", "killed", "ended"}

Init == phase = [a \in Apps |-> "none"]

\* App a goes from a phase in From to the phase to.
Moves(a, From, to) ==
    /\ phase[a] \in From
    /\ phase' = [phase EXCEPT ![a] = to]

StartInstance(a) == Moves(a, {"none"}, "running")
AskToExit(a)     == Moves(a, {"running"}, "asked")
Kill(a)          == Moves(a, {"asked"}, "killed")
End(a)           == Moves(a, {"running", "asked", "killed"}, "ended")
Collect(a)       == Moves(a, {"ended"}, "none")

Next ==
    \E a \in Apps :
        StartInstance(a) \/ AskToExit(a) \/ Kill(a) \/ End(a) \/ Collect(a)

Spec == Init /\ [][Next]_phase
=============================================================================
