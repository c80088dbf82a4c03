------------------------------ MODULE MCDaemon ------------------------------
(***************************************************************************)
(* Small instances of Daemon for TLC.                                      *)
(***************************************************************************)
EXTENDS Daemon, TLC

\* Boot configurations.
NothingDeployed == {NoRow}

AlwaysRow == [desired |-> "running", rev |-> "v1", policy |-> "always"]

Running == {AlwaysRow}

RunningNever == {[AlwaysRow EXCEPT !.policy = "never"]}

\* Every row an app may have been left with by an earlier life.
AnyRow == Row

Symmetry == Permutations(Pids)
=============================================================================
