------------------------------ MODULE MCRunnerDB ------------------------------
(* Small instances of RunnerDB for TLC. *)
EXTENDS RunnerDB, TLC

Symmetry == Permutations(Threads) \cup Permutations(Jobs)
=============================================================================
