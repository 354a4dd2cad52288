--------------------------- MODULE MCRunnerDaemon ---------------------------
(* Small instances of RunnerDaemon for TLC. *)
EXTENDS RunnerDaemon

\* Every job id is added under its own name.
DistinctNames == [j \in JobIds |-> j]

\* Every job id is added under the same name: delete, then add again.
OneName == [j \in JobIds |-> "job"]

\* Bound of the capacity run: nothing is followed once a job has failed.
NoFailedJob == \A j \in JobIds : failures[j] = 0
=============================================================================
