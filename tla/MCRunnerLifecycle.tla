-------------------------- MODULE MCRunnerLifecycle --------------------------
(* Small instances of RunnerLifecycle for TLC. *)
EXTENDS RunnerLifecycle, TLC

Symmetry == Permutations(Daemons)
=============================================================================
