------------------------------- MODULE MCBoot -------------------------------
(***************************************************************************)
(* Small instances of Boot for TLC.                                        *)
(***************************************************************************)
EXTENDS Boot, TLC

AlwaysRow == [desired |-> "running", rev |-> "v1", policy |-> "always"]

\* Every app is registered and should run, or is not there yet.
RunningOrNew == {NoRow, AlwaysRow}

Symmetry == Permutations(Pids)
=============================================================================
