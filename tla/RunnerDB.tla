------------------------------- MODULE RunnerDB -------------------------------
(***************************************************************************)
(* The runner's SQLite connection (wayfinder_paths/runner/db.py), one      *)
(* statement at a time.  All threads of the daemon share ONE connection in *)
(* autocommit mode, and reserve_run opens a transaction on it: whatever    *)
(* another thread executes before COMMIT or ROLLBACK joins that            *)
(* transaction, and is lost with it.                                       *)
(*                                                                         *)
(* A table is kept as what the statements change of it: the status of a    *)
(* job, how often its last_run_at was written by a reservation, and how    *)
(* many rows it has in runs.                                               *)
(***************************************************************************)
EXTENDS Integers, FiniteSets

CONSTANTS
  Threads,         \* the scheduler and the control threads
  NoThread,
  Jobs,            \* job ids, used again only when nothing refers to them
  MaxRuns,         \* bound: rows in runs for one job
  CanCrash,        \* bound: whether the process may be killed
  StatementsFail   \* bound: a disk error, or a delete of a job being reserved

ASSUME DBAssumption ==
  /\ NoThread \notin Threads
  /\ MaxRuns \in Nat
  /\ CanCrash \in BOOLEAN /\ StatementsFail \in BOOLEAN

Absent == "absent"      \* no row in job_defs
Stateless == "stateless"  \* a row in job_defs and none in job_state

Status == {"ACTIVE", "PAUSED"}

Nothing == "nothing"    \* no call about this job has succeeded yet

Tables ==
  [status : [Jobs -> Status \cup {Absent, Stateless}],
   touched : [Jobs -> Nat],
   runs : [Jobs -> Nat]]

VARIABLES
  view,   \* the tables as the connection sees them
  disk,   \* the tables as committed
  txn,    \* the thread whose reserve_run has a transaction open
  pc,     \* what each thread executes next
  job,    \* the job its call is about
  told    \* the status the client that wrote last was told

vars == <<view, disk, txn, pc, job, told>>

\* One statement: outside a transaction it commits itself.
Execute(tables) ==
  /\ view' = tables
  /\ disk' = IF txn = NoThread THEN tables ELSE disk

Goto(t, where) == pc' = [pc EXCEPT ![t] = where]

WithStatus(j, s) ==
  [status |-> [view.status EXCEPT ![j] = s],
   touched |-> view.touched, runs |-> view.runs]

MovedOn(j) ==
  [status |-> view.status,
   touched |-> [view.touched EXCEPT ![j] = @ + 1], runs |-> view.runs]

WithRun(j) ==
  [status |-> view.status,
   touched |-> view.touched, runs |-> [view.runs EXCEPT ![j] = @ + 1]]

-----------------------------------------------------------------------------
(* reserve_run *)

\* Mutated form of Begin: no transaction is opened.
BeginNothing(t, j) ==
  /\ pc[t] = "idle" /\ txn = NoThread
  /\ view.status[j] = "ACTIVE" /\ view.runs[j] < MaxRuns
  /\ job' = [job EXCEPT ![t] = j]
  /\ Goto(t, "touch")
  /\ UNCHANGED <<view, disk, txn, told>>

\* BEGIN IMMEDIATE.  While another thread's transaction is open it raises, and
\* transaction_started is still False: the call fails and changes nothing.
Begin(t, j) ==
  /\ pc[t] = "idle" /\ txn = NoThread
  /\ view.status[j] = "ACTIVE" /\ view.runs[j] < MaxRuns
  /\ txn' = t
  /\ job' = [job EXCEPT ![t] = j]
  /\ Goto(t, "touch")
  /\ UNCHANGED <<view, disk, told>>

\* UPDATE job_state SET last_run_at [and next_run_at]: no row, no effect.
Touch(t) ==
  /\ pc[t] = "touch"
  /\ IF view.status[job[t]] \in Status
       THEN Execute(MovedOn(job[t]))
       ELSE UNCHANGED <<view, disk>>
  /\ Goto(t, "insert")
  /\ UNCHANGED <<txn, job, told>>

\* Mutated form of InsertRun: its failure does not lead to a ROLLBACK.
InsertRunNoRollback(t) ==
  /\ pc[t] = "insert"
  /\ \/ /\ view.status[job[t]] # Absent
        /\ Execute(WithRun(job[t]))
        /\ Goto(t, "commit")
     \/ /\ view.status[job[t]] = Absent \/ StatementsFail
        /\ Goto(t, "idle")
        /\ UNCHANGED <<view, disk>>
  /\ UNCHANGED <<txn, job, told>>

\* INSERT INTO runs: it fails without its job (foreign key) or on a disk error.
InsertRun(t) ==
  /\ pc[t] = "insert"
  /\ \/ /\ view.status[job[t]] # Absent
        /\ Execute(WithRun(job[t]))
        /\ Goto(t, "commit")
     \/ /\ view.status[job[t]] = Absent \/ StatementsFail
        /\ Goto(t, "rollback")
        /\ UNCHANGED <<view, disk>>
  /\ UNCHANGED <<txn, job, told>>

Commit(t) ==
  /\ pc[t] = "commit"
  /\ disk' = view
  /\ txn' = NoThread
  /\ Goto(t, "idle")
  /\ UNCHANGED <<view, job, told>>

Rollback(t) ==
  /\ pc[t] = "rollback"
  /\ view' = disk
  /\ txn' = NoThread
  /\ Goto(t, "idle")
  /\ UNCHANGED <<disk, job, told>>

-----------------------------------------------------------------------------
(* The methods that rely on autocommit *)

\* add_job: INSERT INTO job_defs ...
InsertDef(t, j) ==
  /\ pc[t] = "idle" /\ view.status[j] = Absent /\ disk.status[j] = Absent
  /\ \A u \in Threads : pc[u] # "idle" => job[u] # j
  /\ Execute(WithStatus(j, Stateless))
  /\ told' = [told EXCEPT ![j] = Nothing]
  /\ job' = [job EXCEPT ![t] = j]
  /\ Goto(t, "state")
  /\ UNCHANGED txn

\* ... then INSERT INTO job_state, a statement of its own; it fails when the
\* definition was rolled back in between.
InsertState(t) ==
  /\ pc[t] = "state"
  /\ \/ /\ view.status[job[t]] = Stateless
        /\ Execute(WithStatus(job[t], "ACTIVE"))
        /\ told' = [told EXCEPT ![job[t]] = "ACTIVE"]
     \/ /\ view.status[job[t]] # Stateless
        /\ UNCHANGED <<view, disk, told>>
  /\ Goto(t, "idle")
  /\ UNCHANGED <<txn, job>>

\* set_job_status
SetStatus(t, j, s) ==
  /\ pc[t] = "idle" /\ view.status[j] \in Status
  /\ Execute(WithStatus(j, s))
  /\ told' = [told EXCEPT ![j] = s]
  /\ UNCHANGED <<txn, pc, job>>

\* The job is claimed: a reservation of it is under way.
BeingReserved(j) ==
  \E t \in Threads : pc[t] \in {"touch", "insert", "commit", "rollback"} /\ job[t] = j

\* delete_job, cascading to job_state and runs.
DeleteJob(t, j) ==
  /\ pc[t] = "idle" /\ view.status[j] \in Status
  /\ StatementsFail \/ ~BeingReserved(j)
  /\ Execute([status |-> [view.status EXCEPT ![j] = Absent],
              touched |-> [view.touched EXCEPT ![j] = 0],
              runs |-> [view.runs EXCEPT ![j] = 0]])
  /\ told' = [told EXCEPT ![j] = Absent]
  /\ UNCHANGED <<txn, pc, job>>

\* The process dies: an open transaction is gone, autocommitted rows are not.
Crash ==
  /\ CanCrash
  /\ view' = disk
  /\ txn' = NoThread
  /\ pc' = [t \in Threads |-> "idle"]
  /\ UNCHANGED <<disk, job, told>>

-----------------------------------------------------------------------------
Init ==
  /\ view = [status |-> [j \in Jobs |-> Absent],
             touched |-> [j \in Jobs |-> 0],
             runs |-> [j \in Jobs |-> 0]]
  /\ disk = view
  /\ txn = NoThread
  /\ pc = [t \in Threads |-> "idle"]
  /\ job \in [Threads -> Jobs]
  /\ told = [j \in Jobs |-> Nothing]

ReserveStep(t) == Touch(t) \/ InsertRun(t) \/ Commit(t) \/ Rollback(t)

Next ==
  \/ \E t \in Threads :
       \/ ReserveStep(t) \/ InsertState(t)
       \/ \E j \in Jobs :
            \/ Begin(t, j) \/ InsertDef(t, j) \/ DeleteJob(t, j)
            \/ \E s \in Status : SetStatus(t, j, s)
  \/ Crash

Spec == Init /\ [][Next]_vars

-----------------------------------------------------------------------------
(* Properties *)

TypeOK ==
  /\ view \in Tables /\ disk \in Tables
  /\ txn \in Threads \cup {NoThread}
  /\ pc \in [Threads -> {"idle", "touch", "insert", "commit", "rollback", "state"}]
  /\ job \in [Threads -> Jobs]
  /\ told \in [Jobs -> Status \cup {Absent, Nothing}]

\* The database never holds a job whose schedule was moved on without the run
\* it was moved on for, nor a run without the move: through crashes, failing
\* statements and whatever other threads execute inside the transaction.
ReservationIsAtomic == \A j \in Jobs : disk.touched[j] = disk.runs[j]

\* Once no transaction is open, the database says of every job what the client
\* of the last successful call about it was told.
ToldIsStored ==
  txn = NoThread =>
    \A j \in Jobs : told[j] # Nothing => disk.status[j] = told[j]

\* What the connection shows is what a crash would leave, unless a transaction
\* is open; and an open transaction always has a thread that will end it.
NoTransactionIsLost ==
  /\ txn = NoThread => view = disk
  /\ txn # NoThread => pc[txn] \in {"touch", "insert", "commit", "rollback"}
=============================================================================
