----------------------------- MODULE RunnerDaemon -----------------------------
(***************************************************************************)
(* The runner daemon (wayfinder_paths/runner/daemon.py): a scheduler       *)
(* thread that reaps and starts worker processes, control-plane threads    *)
(* that serve run_once / pause / resume / update / stop / delete / add,    *)
(* the per-job locks and claim counters they share, the SQLite rows that   *)
(* survive a crash, and the workers, which survive it too.                 *)
(*                                                                         *)
(* One step of a thread is one access to state that another thread can     *)
(* see; a critical section is split wherever an unlocked thread could be   *)
(* scheduled in the middle of it.  Any statement may raise.  The threads   *)
(* share one connection: while reserve_run of one of them has its          *)
(* transaction open, what the others write is undone if it is not          *)
(* committed.  Time is abstracted: a job is due or it is not, and a worker *)
(* with a timeout may be found to have exceeded it.                        *)
(***************************************************************************)
EXTENDS Integers, FiniteSets

CONSTANTS
  MaxJobs,          \* job ids ever allocated (bound on AUTOINCREMENT)
  JobName,          \* the name each job id is added under
  MaxRuns,          \* run ids ever allocated; beyond it the database is full
  Tick,             \* the scheduler thread
  Ctl,              \* the control-plane threads
  NoThread,         \* nobody
  Locks,            \* lock objects
  MaxWorkers,       \* --max-workers
  MaxFailures,      \* --max-failures
  Unlimited,        \* job ids whose payload disables the run timeout
  BadPayload,       \* job ids whose payload "env" is not a mapping
  Schedules,        \* schedules ctl_update_job may install
  Calls,            \* bound: the control methods clients call
  CanCrash,         \* bound: whether the daemon process may be killed
  MaxFaults,        \* bound: statements that fail with a database error
  AtomicLockTable   \* TRUE: _lock_for_job is never preempted midway

JobIds  == 1..MaxJobs
Runs    == 1..MaxRuns
Threads == Ctl \cup {Tick}
NoJob   == 0
NoRun   == 0
NoLock  == 0

\* A cron expression such as "0 0 31 2 *" is valid but never fires.
LiveSchedule == "fires"
DeadSchedule == "never_fires"

JobStatus == {"ACTIVE", "PAUSED", "ERROR"}
RunStatus == {"RUNNING", "OK", "FAILED", "TIMEOUT", "ABORTED"}
Terminal  == RunStatus \ {"RUNNING"}
Absent    == "absent"   \* no such row

ASSUME BoundsAssumption ==
  /\ MaxJobs \in Nat /\ MaxRuns \in Nat
  /\ MaxWorkers \in Nat \ {0} /\ MaxFailures \in Nat \ {0}
  /\ MaxFaults \in Nat

ASSUME ThreadAssumption == Tick \notin Ctl /\ NoThread \notin Threads

ASSUME ParameterAssumption ==
  /\ Unlimited \subseteq JobIds
  /\ BadPayload \subseteq JobIds
  /\ Schedules \subseteq {LiveSchedule, DeadSchedule}
  /\ AtomicLockTable \in BOOLEAN /\ CanCrash \in BOOLEAN
  /\ Calls \subseteq {"add", "run_once", "pause", "resume", "update", "stop",
                     "delete", "shutdown"}
  /\ NoLock \notin Locks

VARIABLES
  \* --- SQLite, durable (db.py) ---
  jobStatus,   \* job_state.status, Absent when the job has no row
  failures,    \* job_state.consecutive_failures
  due,         \* job_state.next_run_at <= now
  sched,       \* job_defs.schedule_kind / cron_expr / interval_seconds
  nextJob,     \* AUTOINCREMENT of job_defs
  runJob,      \* runs.job_id; also RunningProcess.job_id
  runStatus,   \* runs.status, Absent when the run has no row
  nextRun,     \* AUTOINCREMENT of runs
  \* --- the connection that the threads share ---
  txn,         \* the thread whose reserve_run has a transaction open
  saved,       \* the tables as they were when it was opened
  faults,      \* statements that have failed
  \* --- the daemon's memory ---
  mode,        \* "up", "stopping" (_shutdown is set), "down"
  claims,      \* _running_by_job
  jobLock,     \* _job_locks
  running,     \* the keys of _running
  \* --- the operating system ---
  worker,      \* the worker process of each run
  \* --- the threads ---
  pc, why, thJob, thLock, thRun,
  \* --- the scheduler thread's locals ---
  reapList, dueList, verdict,
  \* --- history, of this daemon process ---
  stranded,    \* runs whose start an exception cut off after the claim
  unsettled,   \* runs whose closing was cut off, or taken back by a ROLLBACK
  dropped      \* job ids whose lock and counter ctl_delete_job removed

db      == <<jobStatus, failures, due, sched, nextJob, runJob, runStatus, nextRun>>
jobRows == <<jobStatus, failures, due, sched, nextJob>>
runRows == <<runJob, runStatus, nextRun>>
memory  == <<claims, jobLock, running>>
locals  == <<pc, why, thJob, thLock, thRun>>
ticking == <<reapList, dueList, verdict>>
conn    == <<txn, saved>>
history == <<stranded, unsettled, dropped>>
frame   == <<mode, conn, faults, history>>
vars    == <<db, frame, memory, worker, locals, ticking>>

-----------------------------------------------------------------------------
(* Reading the state *)

Rows == {j \in JobIds : jobStatus[j] # Absent}

\* The row a statement "... WHERE name = ?" finds, for the name of job j.
SameName(j) == {k \in Rows : JobName[k] = JobName[j]}

\* Inside "with lock" (the thread holds thLock[t]).
Critical == {"bump", "finish_job", "finish_pop", "delete_row", "delete_pop"}

\* The claim has been taken and the run is not yet in _running.
Claimed == {"reserve", "commit", "rollback", "prepare", "spawn", "register", "fail_row", "fail_job"}

\* Steps that wait for the lock in order to give a claim back.
GivingBack == {"unclaim", "unclaim_raise"}

HoldsClaim(t) ==
  \/ pc[t] \in Claimed
  \/ pc[t] \in {"get_lock", "put_lock", "acquire"} /\ why[t] \in GivingBack

Alive == mode # "down"

\* Everything a ROLLBACK, or the end of the process, brings back.
Tables == [jobStatus |-> jobStatus, failures |-> failures, due |-> due, sched |-> sched,
           nextJob |-> nextJob, runJob |-> runJob, runStatus |-> runStatus,
           nextRun |-> nextRun]

NoTables == "none"   \* no transaction is open

Restored(tables) ==
  /\ jobStatus' = tables.jobStatus /\ failures' = tables.failures
  /\ due' = tables.due /\ sched' = tables.sched /\ nextJob' = tables.nextJob
  /\ runJob' = tables.runJob /\ runStatus' = tables.runStatus
  /\ nextRun' = tables.nextRun

\* The tables as a crash would leave them.
Kept == IF txn = NoThread THEN Tables ELSE saved

\* A statement fails: a full disk, an I/O error.
DbFault == faults < MaxFaults /\ faults' = faults + 1

-----------------------------------------------------------------------------
(* Thread control *)

\* The call of thread t is over; t continues at `where`.
Leave(t, where) ==
  /\ pc' = [pc EXCEPT ![t] = where]
  /\ why' = [why EXCEPT ![t] = "none"]
  /\ thJob' = [thJob EXCEPT ![t] = NoJob]
  /\ thLock' = [thLock EXCEPT ![t] = NoLock]
  /\ thRun' = [thRun EXCEPT ![t] = NoRun]

\* _maybe_start_job returns to tick() or to ctl_run_once.
StartReturns(t) ==
  /\ Leave(t, IF t = Tick THEN "sched" ELSE "idle")
  /\ UNCHANGED ticking

\* An exception: tick() abandons the rest of this tick, a control call fails.
Raises(t) ==
  /\ Leave(t, "idle")
  /\ reapList' = IF t = Tick THEN {} ELSE reapList
  /\ dueList' = IF t = Tick THEN {} ELSE dueList
  /\ verdict' = IF t = Tick THEN "none" ELSE verdict

Goto(t, where) == pc' = [pc EXCEPT ![t] = where]

\* Enter _lock_for_job, in order to do w under the lock.
GoLock(t, w) == Goto(t, "get_lock") /\ why' = [why EXCEPT ![t] = w]

Idle(t, j) == t \in Ctl /\ pc[t] = "idle" /\ Alive /\ j \in Rows

-----------------------------------------------------------------------------
(* _lock_for_job and the with-blocks *)

FreeLocks ==
  Locks \ ({jobLock[j] : j \in JobIds} \cup {thLock[t] : t \in Threads})

NewLock == CHOOSE l \in Locks : l \in FreeLocks

\* self._job_locks.get(job_id); when AtomicLockTable, the store follows at once.
GetLock(t) ==
  /\ pc[t] = "get_lock"
  /\ LET found == jobLock[thJob[t]] IN
     \/ /\ found # NoLock
        /\ thLock' = [thLock EXCEPT ![t] = found]
        /\ Goto(t, "acquire")
        /\ UNCHANGED jobLock
     \/ /\ found = NoLock /\ AtomicLockTable /\ FreeLocks # {}
        /\ thLock' = [thLock EXCEPT ![t] = NewLock]
        /\ jobLock' = [jobLock EXCEPT ![thJob[t]] = NewLock]
        /\ Goto(t, "acquire")
     \/ /\ found = NoLock /\ ~AtomicLockTable
        /\ Goto(t, "put_lock")
        /\ UNCHANGED <<thLock, jobLock>>
  /\ UNCHANGED <<db, frame, claims, running, worker, why, thJob, thRun, ticking>>

\* lock = threading.Lock(); self._job_locks[job_id] = lock
PutLock(t) ==
  /\ pc[t] = "put_lock" /\ FreeLocks # {}
  /\ thLock' = [thLock EXCEPT ![t] = NewLock]
  /\ jobLock' = [jobLock EXCEPT ![thJob[t]] = NewLock]
  /\ Goto(t, "acquire")
  /\ UNCHANGED <<db, frame, claims, running, worker, why, thJob, thRun, ticking>>

LockIsHeld(t) ==
  \E u \in Threads \ {t} : pc[u] \in Critical /\ thLock[u] = thLock[t]

Acquires(t, w) == pc[t] = "acquire" /\ why[t] = w /\ ~LockIsHeld(t)

\* ctl_stop_job and ctl_delete_job give up after JOB_LOCK_TIMEOUT_SECONDS.
LockTimeout(t) ==
  /\ pc[t] = "acquire" /\ why[t] \in {"stop", "delete"} /\ LockIsHeld(t)
  /\ Leave(t, "idle")
  /\ UNCHANGED <<db, frame, memory, worker, ticking>>

-----------------------------------------------------------------------------
(* _maybe_start_job *)

HasRoom == Cardinality(running) < MaxWorkers

\* Mutated form of Decremented: no max(0, ...).
DecrementedUnclamped(j) == [claims EXCEPT ![j] = @ - 1]

Decremented(j) == [claims EXCEPT ![j] = IF @ > 0 THEN @ - 1 ELSE 0]

\* The runs whose closing is undone when the open transaction is.
TakenBack == {r \in Runs : saved.runStatus[r] = "RUNNING" /\ runStatus[r] # "RUNNING"}

\* tick(): the next job of the due_jobs snapshot; next_run_after may raise.
TickStart(j, s) ==
  /\ pc[Tick] = "sched" /\ <<j, s>> \in dueList
  /\ \/ /\ ~HasRoom
        /\ dueList' = dueList \ {<<j, s>>}
        /\ UNCHANGED <<locals, reapList, verdict>>
     \/ /\ HasRoom /\ s = DeadSchedule
        /\ Raises(Tick)
     \/ /\ HasRoom /\ s # DeadSchedule
        /\ dueList' = dueList \ {<<j, s>>}
        /\ thJob' = [thJob EXCEPT ![Tick] = j]
        /\ GoLock(Tick, "claim")
        /\ UNCHANGED <<thLock, thRun, reapList, verdict>>
  /\ UNCHANGED <<db, frame, memory, worker>>

\* ctl_run_once: get_job and the ACTIVE check ...
RunOnce(t, j) ==
  /\ Idle(t, j) /\ jobStatus[j] = "ACTIVE"
  /\ thJob' = [thJob EXCEPT ![t] = j]
  /\ Goto(t, "check")
  /\ UNCHANGED <<db, frame, memory, worker, why, thLock, thRun, ticking>>

\* Mutated form of StartCheck: run_once ignores max_workers.
StartCheckUnbounded(t) ==
  /\ pc[t] = "check"
  /\ GoLock(t, "claim")
  /\ UNCHANGED <<db, frame, memory, worker, thJob, thLock, thRun, ticking>>

\* ... then the capacity check, with no lock held (advance_schedule=False).
StartCheck(t) ==
  /\ pc[t] = "check"
  /\ \/ HasRoom /\ GoLock(t, "claim") /\ UNCHANGED <<thJob, thLock, thRun>>
     \/ ~HasRoom /\ Leave(t, "idle")
  /\ UNCHANGED <<db, frame, memory, worker, ticking>>

\* Mutated form of ClaimCheck: the counter is not consulted.
ClaimCheckNever(t) ==
  /\ Acquires(t, "claim")
  /\ Goto(t, "bump")
  /\ UNCHANGED <<db, frame, memory, worker, why, thJob, thLock, thRun, ticking>>

\* with lock: if self._running_by_job.get(job_id, 0) >= 1: return None
ClaimCheck(t) ==
  /\ Acquires(t, "claim")
  /\ \/ claims[thJob[t]] >= 1 /\ StartReturns(t)
     \/ /\ claims[thJob[t]] = 0
        /\ Goto(t, "bump")
        /\ UNCHANGED <<why, thJob, thLock, thRun, ticking>>
  /\ UNCHANGED <<db, frame, memory, worker>>

\* The counter is read again and stored: an unlocked writer may slip between.
ClaimBump(t) ==
  /\ pc[t] = "bump"
  /\ \E seen \in {0, claims[thJob[t]]} :
       claims' = [claims EXCEPT ![thJob[t]] = seen + 1]
  /\ Goto(t, "reserve")
  /\ why' = [why EXCEPT ![t] = "none"]
  /\ thLock' = [thLock EXCEPT ![t] = NoLock]
  /\ UNCHANGED <<db, frame, jobLock, running, worker, thJob, thRun, ticking>>

\* db.reserve_run: BEGIN IMMEDIATE, the schedule moved on, and the run inserted;
\* the transaction stays open on the connection that all threads use ...
Reserve(t) ==
  /\ pc[t] = "reserve" /\ txn = NoThread
  /\ thJob[t] \in Rows /\ nextRun \in Runs
  /\ txn' = t /\ saved' = Tables
  /\ due' = IF t = Tick THEN [due EXCEPT ![thJob[t]] = FALSE] ELSE due
  /\ runJob' = [runJob EXCEPT ![nextRun] = thJob[t]]
  /\ runStatus' = [runStatus EXCEPT ![nextRun] = "RUNNING"]
  /\ nextRun' = nextRun + 1
  /\ thRun' = [thRun EXCEPT ![t] = nextRun]
  /\ Goto(t, "commit")
  /\ UNCHANGED <<jobStatus, failures, sched, nextJob, faults, mode, history, memory,
                 worker, why, thJob, thLock, ticking>>

\* ... or the INSERT fails: the job is deleted (foreign key), the database full ...
InsertFails(t) ==
  /\ pc[t] = "reserve" /\ txn = NoThread
  /\ \/ (thJob[t] \notin Rows \/ nextRun \notin Runs) /\ UNCHANGED faults
     \/ DbFault
  /\ txn' = t /\ saved' = Tables
  /\ due' = IF t = Tick THEN [due EXCEPT ![thJob[t]] = FALSE] ELSE due
  /\ Goto(t, "rollback")
  /\ UNCHANGED <<jobStatus, failures, sched, nextJob, runRows, mode, history, memory,
                 worker, why, thJob, thLock, thRun, ticking>>

\* ... or BEGIN does, also when another thread's transaction is open.
BeginFails(t) ==
  /\ pc[t] = "reserve"
  /\ \/ txn # NoThread /\ UNCHANGED faults
     \/ DbFault
  /\ GoLock(t, "unclaim_raise")
  /\ UNCHANGED <<db, mode, conn, history, memory, worker, thJob, thLock, thRun, ticking>>

Commit(t) ==
  /\ pc[t] = "commit"
  /\ txn' = NoThread /\ saved' = NoTables
  /\ Goto(t, "prepare")
  /\ UNCHANGED <<db, mode, faults, history, memory, worker, why, thJob, thLock, thRun,
                 ticking>>

\* Mutated form of Rollback: the exception leaves the claim taken.
RollbackKeepsClaim(t) ==
  /\ \/ pc[t] = "rollback" /\ UNCHANGED faults
     \/ pc[t] = "commit" /\ DbFault
  /\ Restored(saved)
  /\ txn' = NoThread /\ saved' = NoTables
  /\ unsettled' = unsettled \cup TakenBack
  /\ Raises(t)
  /\ UNCHANGED <<mode, stranded, dropped, memory, worker>>

\* ROLLBACK, after INSERT or COMMIT has failed: it undoes whatever the other
\* threads have written since BEGIN, too.
Rollback(t) ==
  /\ \/ pc[t] = "rollback" /\ UNCHANGED faults
     \/ pc[t] = "commit" /\ DbFault
  /\ Restored(saved)
  /\ txn' = NoThread /\ saved' = NoTables
  /\ unsettled' = unsettled \cup TakenBack
  /\ thRun' = [thRun EXCEPT ![t] = NoRun]
  /\ GoLock(t, "unclaim_raise")
  /\ UNCHANGED <<mode, stranded, dropped, memory, worker, thJob, thLock, ticking>>

\* update_run_log_path, and the environment of the worker ...
Prepare(t) ==
  /\ pc[t] = "prepare" /\ thJob[t] \notin BadPayload
  /\ Goto(t, "spawn")
  /\ UNCHANGED <<db, frame, memory, worker, why, thJob, thLock, thRun, ticking>>

\* Mutated form of StartRaises: the claim is given back, whatever the worker does.
StartRaisesUnclaims(t) ==
  /\ \/ pc[t] \in {"prepare", "register", "fail_row", "fail_job"} /\ DbFault
     \/ pc[t] = "prepare" /\ thJob[t] \in BadPayload /\ UNCHANGED faults
     \/ pc[t] = "fail_job" /\ thJob[t] \notin Rows /\ UNCHANGED faults
  /\ stranded' = stranded \cup {thRun[t]}
  /\ claims' = Decremented(thJob[t])
  /\ Raises(t)
  /\ UNCHANGED <<db, mode, conn, unsettled, dropped, jobLock, running, worker>>

\* ... either may raise, env.update on a payload that is not a mapping; so may
\* update_run_pid once the worker runs, and finish_run and record_job_failure
\* (which wants the job's row) in the error paths.  Nothing catches it before
\* tick() or the client: the claim stays taken and the run is forgotten.
StartRaises(t) ==
  /\ \/ pc[t] \in {"prepare", "register", "fail_row", "fail_job"} /\ DbFault
     \/ pc[t] = "prepare" /\ thJob[t] \in BadPayload /\ UNCHANGED faults
     \/ pc[t] = "fail_job" /\ thJob[t] \notin Rows /\ UNCHANGED faults
  /\ stranded' = stranded \cup {thRun[t]}
  /\ Raises(t)
  /\ UNCHANGED <<db, mode, conn, unsettled, dropped, memory, worker>>

\* _build_worker_cmd and Popen both succeed ...
Spawn(t) ==
  /\ pc[t] = "spawn"
  /\ worker' = [worker EXCEPT ![thRun[t]] = "live"]
  /\ Goto(t, "register")
  /\ UNCHANGED <<db, frame, memory, why, thJob, thLock, thRun, ticking>>

\* Mutated form of SpawnFails: the run row is not closed.
SpawnFailsSilently(t) ==
  /\ pc[t] = "spawn"
  /\ Goto(t, "fail_job")
  /\ UNCHANGED <<db, frame, memory, worker, why, thJob, thLock, thRun, ticking>>

\* ... or one of them raises.
SpawnFails(t) ==
  /\ pc[t] = "spawn"
  /\ Goto(t, "fail_row")
  /\ UNCHANGED <<db, frame, memory, worker, why, thJob, thLock, thRun, ticking>>

\* update_run_pid, then self._running[run_id] = RunningProcess(...), with no lock
Register(t) ==
  /\ pc[t] = "register"
  /\ running' = running \cup {thRun[t]}
  /\ StartReturns(t)
  /\ UNCHANGED <<db, frame, claims, jobLock, worker>>

\* db.finish_run: a missing row is silently left missing.
CloseRow(r, status) ==
  runStatus' = [runStatus EXCEPT ![r] = IF @ = Absent THEN Absent ELSE status]

\* db.record_job_failure on an existing row
CountFailure(j) ==
  /\ failures' = [failures EXCEPT ![j] = @ + 1]
  /\ jobStatus' = IF failures[j] + 1 >= MaxFailures
                    THEN [jobStatus EXCEPT ![j] = "ERROR"] ELSE jobStatus

FailRow(t) ==
  /\ pc[t] = "fail_row"
  /\ CloseRow(thRun[t], "FAILED")
  /\ Goto(t, "fail_job")
  /\ UNCHANGED <<jobRows, runJob, nextRun, frame, memory, worker,
                 why, thJob, thLock, thRun, ticking>>

\* record_job_failure, then the lock in order to give the claim back
FailJob(t) ==
  /\ pc[t] = "fail_job" /\ thJob[t] \in Rows
  /\ CountFailure(thJob[t])
  /\ GoLock(t, "unclaim")
  /\ UNCHANGED <<due, sched, nextJob, runRows, frame, memory, worker, thJob, thLock,
                 thRun, ticking>>

\* with lock: self._running_by_job[job_id] = max(0, ... - 1)
Unclaim(t) ==
  /\ \/ Acquires(t, "unclaim") /\ StartReturns(t)
     \/ Acquires(t, "unclaim_raise") /\ Raises(t)
  /\ claims' = Decremented(thJob[t])
  /\ UNCHANGED <<db, frame, jobLock, running, worker>>

-----------------------------------------------------------------------------
(* tick and _reap, by the scheduler thread only *)

TickBegin ==
  /\ pc[Tick] = "idle" /\ mode = "up"
  /\ Goto(Tick, "reap")
  /\ reapList' = running
  /\ UNCHANGED <<db, frame, memory, worker, why, thJob, thLock, thRun,
                 dueList, verdict>>

\* poll() finds the worker still running, within its time.
ReapSkip(r) ==
  /\ pc[Tick] = "reap" /\ r \in reapList /\ worker[r] = "live"
  /\ reapList' = reapList \ {r}
  /\ UNCHANGED <<db, frame, memory, worker, locals, dueList, verdict>>

GoFinish(r, v) ==
  /\ reapList' = reapList \ {r}
  /\ verdict' = v
  /\ thJob' = [thJob EXCEPT ![Tick] = runJob[r]]
  /\ thRun' = [thRun EXCEPT ![Tick] = r]
  /\ GoLock(Tick, "finish")
  /\ UNCHANGED <<db, frame, memory, thLock, dueList>>

\* Mutated forms of ReapTimeout: the worker is not killed; it is killed and
\* forgotten.
ReapTimeoutNoKill(r) ==
  /\ pc[Tick] = "reap" /\ r \in reapList /\ worker[r] = "live"
  /\ runJob[r] \notin Unlimited
  /\ GoFinish(r, "TIMEOUT")
  /\ UNCHANGED worker

ReapTimeoutForgets(r) ==
  /\ pc[Tick] = "reap" /\ r \in reapList /\ worker[r] = "live"
  /\ runJob[r] \notin Unlimited
  /\ worker' = [worker EXCEPT ![r] = "none"]
  /\ reapList' = reapList \ {r}
  /\ running' = running \ {r}
  /\ claims' = Decremented(runJob[r])
  /\ UNCHANGED <<db, frame, jobLock, locals, dueList, verdict>>

\* Still running after timeout_seconds: SIGKILL to its process group.
ReapTimeout(r) ==
  /\ pc[Tick] = "reap" /\ r \in reapList /\ worker[r] = "live"
  /\ runJob[r] \notin Unlimited
  /\ worker' = [worker EXCEPT ![r] = "failed"]
  /\ GoFinish(r, "TIMEOUT")

\* poll() returns the exit code.
ReapExit(r) ==
  /\ pc[Tick] = "reap" /\ r \in reapList /\ worker[r] \in {"succeeded", "failed"}
  /\ GoFinish(r, IF worker[r] = "succeeded" THEN "OK" ELSE "FAILED")
  /\ UNCHANGED worker

\* _finish_run under the job's lock: close the run row ...
FinishRow ==
  /\ Acquires(Tick, "finish")
  /\ CloseRow(thRun[Tick], verdict)
  /\ Goto(Tick, "finish_job")
  /\ UNCHANGED <<jobRows, runJob, nextRun, frame, memory, worker,
                 why, thJob, thLock, thRun, ticking>>

\* ... record success or failure on the job (a failure wants the job's row) ...
FinishJob ==
  /\ pc[Tick] = "finish_job"
  /\ \/ /\ verdict = "OK"
        /\ failures' = IF thJob[Tick] \in Rows
                         THEN [failures EXCEPT ![thJob[Tick]] = 0] ELSE failures
        /\ UNCHANGED jobStatus
     \/ /\ verdict # "OK" /\ thJob[Tick] \in Rows
        /\ CountFailure(thJob[Tick])
  /\ Goto(Tick, "finish_pop")
  /\ UNCHANGED <<due, sched, nextJob, runRows, frame, memory, worker,
                 why, thJob, thLock, thRun, ticking>>

\* Either statement may raise: the process stays registered, and the next tick
\* finds it again and closes its run again.
FinishRaises ==
  /\ \/ Acquires(Tick, "finish") /\ DbFault /\ UNCHANGED unsettled
     \/ /\ pc[Tick] = "finish_job"
        /\ DbFault \/ (verdict # "OK" /\ thJob[Tick] \notin Rows /\ UNCHANGED faults)
        /\ unsettled' = unsettled \cup {thRun[Tick]}
  /\ Raises(Tick)
  /\ UNCHANGED <<db, mode, conn, stranded, dropped, memory, worker>>

\* Mutated form of FinishPop: the claim is never given back.
FinishPopKeepsClaim ==
  /\ pc[Tick] = "finish_pop"
  /\ running' = running \ {thRun[Tick]}
  /\ worker' = [worker EXCEPT ![thRun[Tick]] = "none"]
  /\ Leave(Tick, "reap")
  /\ verdict' = "none"
  /\ UNCHANGED <<db, frame, claims, jobLock, reapList, dueList>>

\* ... forget the process and give the claim back.
FinishPop ==
  /\ pc[Tick] = "finish_pop"
  /\ running' = running \ {thRun[Tick]}
  /\ claims' = Decremented(thJob[Tick])
  /\ worker' = [worker EXCEPT ![thRun[Tick]] = "none"]
  /\ Leave(Tick, "reap")
  /\ verdict' = "none"
  /\ UNCHANGED <<db, frame, jobLock, reapList, dueList>>

\* db.due_jobs, once everything has been polled
TickDue ==
  /\ pc[Tick] = "reap" /\ reapList = {}
  /\ dueList' = {<<j, sched[j]>> : j \in {k \in Rows : jobStatus[k] = "ACTIVE" /\ due[k]}}
  /\ Goto(Tick, "sched")
  /\ UNCHANGED <<db, frame, memory, worker, why, thJob, thLock, thRun,
                 reapList, verdict>>

TickEnd ==
  /\ pc[Tick] = "sched" /\ dueList = {}
  /\ Goto(Tick, "idle")
  /\ UNCHANGED <<db, frame, memory, worker, why, thJob, thLock, thRun, ticking>>

-----------------------------------------------------------------------------
(* The other control-plane methods *)

\* ctl_add_job: a UNIQUE name, ACTIVE; an interval job is due at once.
AddJob(t) ==
  /\ t \in Ctl /\ pc[t] = "idle" /\ Alive
  /\ nextJob \in JobIds /\ SameName(nextJob) = {}
  /\ jobStatus' = [jobStatus EXCEPT ![nextJob] = "ACTIVE"]
  /\ \E d \in BOOLEAN : due' = [due EXCEPT ![nextJob] = d]
  /\ nextJob' = nextJob + 1
  /\ UNCHANGED <<failures, sched, runRows, frame, memory, worker, locals, ticking>>

PauseJob(t, j) ==
  /\ Idle(t, j)
  /\ jobStatus' = [jobStatus EXCEPT ![j] = "PAUSED"]
  /\ UNCHANGED <<failures, due, sched, nextJob, runRows, frame, memory, worker,
                 locals, ticking>>

\* A call keeps the schedule it has read: _next_run_at raises on a dead one.
ReadJob(t, j) ==
  /\ thJob' = [thJob EXCEPT ![t] = j]
  /\ why' = [why EXCEPT ![t] = IF sched[j] = DeadSchedule THEN "raises" ELSE "none"]
  /\ UNCHANGED <<thLock, thRun>>

\* ctl_resume_job: get_job, then the status by name, then next_run_at by id.
ResumeJob(t, j) ==
  /\ Idle(t, j)
  /\ ReadJob(t, j)
  /\ Goto(t, "resume")
  /\ UNCHANGED <<db, frame, memory, worker, ticking>>

\* set_job_status raises KeyError when no row has that name any more.
ResumeStatus(t) ==
  /\ pc[t] = "resume"
  /\ \/ \E k \in SameName(thJob[t]) :
          /\ jobStatus' = [jobStatus EXCEPT ![k] = "ACTIVE"]
          /\ Goto(t, "set_due")
          /\ UNCHANGED <<why, thJob, thLock, thRun>>
     \/ /\ SameName(thJob[t]) = {}
        /\ Leave(t, "idle")
        /\ UNCHANGED jobStatus
  /\ UNCHANGED <<failures, due, sched, nextJob, runRows, frame, memory, worker, ticking>>

\* ctl_update_job with a schedule: the row by name ...
UpdateJob(t, j, s) ==
  /\ Idle(t, j) /\ s \in Schedules
  /\ sched' = [sched EXCEPT ![j] = s]
  /\ thJob' = [thJob EXCEPT ![t] = j]
  /\ Goto(t, "reread")
  /\ UNCHANGED <<jobStatus, failures, due, nextJob, runRows, frame, memory, worker,
                 why, thLock, thRun, ticking>>

\* ... then get_job, by name again: the job may be another one, or gone.
RereadJob(t) ==
  /\ pc[t] = "reread"
  /\ \/ \E k \in SameName(thJob[t]) : ReadJob(t, k) /\ Goto(t, "set_due")
     \/ SameName(thJob[t]) = {} /\ Leave(t, "idle")
  /\ UNCHANGED <<db, frame, memory, worker, ticking>>

\* _next_run_at, which raises on a dead schedule, and set_next_run_at by id:
\* now for an interval, a later time for a cron expression.
SetDue(t) ==
  /\ pc[t] = "set_due"
  /\ \/ /\ thJob[t] \in Rows /\ why[t] # "raises"
        /\ \E d \in BOOLEAN : due' = [due EXCEPT ![thJob[t]] = d]
     \/ (thJob[t] \notin Rows \/ why[t] = "raises") /\ UNCHANGED due
  /\ Leave(t, "idle")
  /\ UNCHANGED <<jobStatus, failures, sched, nextJob, runRows, frame, memory, worker,
                 ticking>>

\* ctl_stop_job and ctl_delete_job: get_job, then the job's lock.
StopOrDelete(t, j, w) ==
  /\ Idle(t, j)
  /\ thJob' = [thJob EXCEPT ![t] = j]
  /\ GoLock(t, w)
  /\ UNCHANGED <<db, frame, memory, worker, thLock, thRun, ticking>>

\* A signalled worker dies at once or, unless the signal is KILL, later.
StopSignal(t) ==
  /\ Acquires(t, "stop")
  /\ \E dead \in SUBSET {r \in running : runJob[r] = thJob[t] /\ worker[r] = "live"} :
       worker' = [r \in Runs |-> IF r \in dead THEN "failed" ELSE worker[r]]
  /\ Leave(t, "idle")
  /\ UNCHANGED <<db, frame, memory, ticking>>

\* Mutated form of DeleteCheck: a running job is deleted too.
DeleteCheckNothing(t) ==
  /\ Acquires(t, "delete")
  /\ Goto(t, "delete_row")
  /\ UNCHANGED <<db, frame, memory, worker, why, thJob, thLock, thRun, ticking>>

\* if self._running_by_job.get(job.id, 0) >= 1: "job is currently running"
DeleteCheck(t) ==
  /\ Acquires(t, "delete")
  /\ \/ claims[thJob[t]] >= 1 /\ Leave(t, "idle")
     \/ /\ claims[thJob[t]] = 0
        /\ Goto(t, "delete_row")
        /\ UNCHANGED <<why, thJob, thLock, thRun>>
  /\ UNCHANGED <<db, frame, memory, worker, ticking>>

\* db.delete_job by name, runs and state cascading; KeyError without a row.
DeleteRow(t) ==
  /\ pc[t] = "delete_row"
  /\ \/ \E k \in SameName(thJob[t]) :
          /\ jobStatus' = [jobStatus EXCEPT ![k] = Absent]
          /\ failures' = [failures EXCEPT ![k] = 0]
          /\ due' = [due EXCEPT ![k] = FALSE]
          /\ sched' = [sched EXCEPT ![k] = LiveSchedule]
          /\ runStatus' = [r \in Runs |-> IF runJob[r] = k THEN Absent ELSE runStatus[r]]
          /\ Goto(t, "delete_pop")
          /\ UNCHANGED <<why, thJob, thLock, thRun>>
     \/ /\ SameName(thJob[t]) = {}
        /\ Leave(t, "idle")
        /\ UNCHANGED <<jobStatus, failures, due, sched, runStatus>>
  /\ UNCHANGED <<nextJob, runJob, nextRun, frame, memory, worker, ticking>>

DeletePop(t) ==
  /\ pc[t] = "delete_pop"
  /\ claims' = [claims EXCEPT ![thJob[t]] = 0]
  /\ jobLock' = [jobLock EXCEPT ![thJob[t]] = NoLock]
  /\ dropped' = dropped \cup {thJob[t]}
  /\ Leave(t, "idle")
  /\ UNCHANGED <<db, mode, conn, faults, stranded, unsettled, running, worker, ticking>>

\* A statement of any other call raises, or due_jobs of a tick, or the mkdir
\* before a claim.
CallRaises(t) ==
  /\ \/ t \in Ctl /\ pc[t] \in {"check", "resume", "reread", "set_due", "delete_row"}
     \/ t = Tick /\ pc[t] = "reap" /\ reapList = {}
     \/ t = Tick /\ pc[t] = "sched" /\ dueList # {} /\ HasRoom
  /\ DbFault
  /\ Raises(t)
  /\ UNCHANGED <<db, mode, conn, history, memory, worker>>

Shutdown(t) ==
  /\ t \in Ctl /\ pc[t] = "idle" /\ mode = "up"
  /\ mode' = "stopping"
  /\ UNCHANGED <<db, conn, faults, history, memory, worker, locals, ticking>>

-----------------------------------------------------------------------------
(* Workers, the clock, and the life of the daemon process *)

WorkerExits(r) ==
  /\ worker[r] = "live"
  /\ \E w \in {"succeeded", "failed"} : worker' = [worker EXCEPT ![r] = w]
  /\ UNCHANGED <<db, frame, memory, locals, ticking>>

BecomesDue(j) ==
  /\ j \in Rows /\ ~due[j]
  /\ due' = [due EXCEPT ![j] = TRUE]
  /\ UNCHANGED <<jobStatus, failures, sched, nextJob, runRows, frame, memory, worker,
                 locals, ticking>>

\* Memory, threads and an open transaction are gone; committed rows stay, and so
\* do the workers, which run in sessions of their own.
ProcessGone ==
  /\ mode' = "down"
  /\ claims' = [j \in JobIds |-> 0]
  /\ jobLock' = [j \in JobIds |-> NoLock]
  /\ running' = {}
  /\ pc' = [t \in Threads |-> "idle"]
  /\ why' = [t \in Threads |-> "none"]
  /\ thJob' = [t \in Threads |-> NoJob]
  /\ thLock' = [t \in Threads |-> NoLock]
  /\ thRun' = [t \in Threads |-> NoRun]
  /\ reapList' = {} /\ dueList' = {} /\ verdict' = "none"
  /\ stranded' = {} /\ unsettled' = {} /\ dropped' = {}
  /\ Restored(Kept)
  /\ txn' = NoThread /\ saved' = NoTables
  /\ UNCHANGED faults

Crash ==
  /\ Alive /\ ProcessGone
  /\ worker' = [r \in Runs |-> IF worker[r] = "live" THEN "live" ELSE "none"]

\* The loop sees _shutdown after its tick, signals every registered worker
\* (which may outlive the signal) and exits.
ShutdownExit ==
  /\ mode = "stopping" /\ pc[Tick] = "idle" /\ ProcessGone
  /\ \E dead \in SUBSET running :
       worker' = [r \in Runs |->
                    IF worker[r] = "live" /\ r \notin dead THEN "live" ELSE "none"]

\* Mutated form of Boot: the UPDATE lacks its WHERE status = RUNNING.
BootMarksEverything ==
  /\ mode = "down" /\ mode' = "up"
  /\ runStatus' = [r \in Runs |-> IF runStatus[r] = Absent THEN Absent ELSE "ABORTED"]
  /\ UNCHANGED <<jobRows, runJob, nextRun, conn, faults, history, memory, worker,
                 locals, ticking>>

\* start(): every run still RUNNING in the database is marked ABORTED.
Boot ==
  /\ mode = "down" /\ mode' = "up"
  /\ runStatus' = [r \in Runs |-> IF runStatus[r] = "RUNNING" THEN "ABORTED"
                                  ELSE runStatus[r]]
  /\ UNCHANGED <<jobRows, runJob, nextRun, conn, faults, history, memory, worker,
                 locals, ticking>>

-----------------------------------------------------------------------------
Init ==
  /\ jobStatus = [j \in JobIds |-> Absent]
  /\ failures = [j \in JobIds |-> 0]
  /\ due = [j \in JobIds |-> FALSE]
  /\ sched = [j \in JobIds |-> LiveSchedule]
  /\ nextJob = 1
  /\ runJob = [r \in Runs |-> NoJob]
  /\ runStatus = [r \in Runs |-> Absent]
  /\ nextRun = 1
  /\ txn = NoThread /\ saved = NoTables /\ faults = 0
  /\ mode = "down"
  /\ claims = [j \in JobIds |-> 0]
  /\ jobLock = [j \in JobIds |-> NoLock]
  /\ running = {}
  /\ worker = [r \in Runs |-> "none"]
  /\ pc = [t \in Threads |-> "idle"]
  /\ why = [t \in Threads |-> "none"]
  /\ thJob = [t \in Threads |-> NoJob]
  /\ thLock = [t \in Threads |-> NoLock]
  /\ thRun = [t \in Threads |-> NoRun]
  /\ reapList = {}
  /\ dueList = {}
  /\ verdict = "none"
  /\ stranded = {} /\ unsettled = {} /\ dropped = {}

\* A step of _maybe_start_job, or of the lock it takes.
StartStep(t) ==
  \/ GetLock(t) \/ PutLock(t) \/ ClaimCheck(t) \/ ClaimBump(t)
  \/ Reserve(t) \/ InsertFails(t) \/ BeginFails(t) \/ Commit(t) \/ Rollback(t)
  \/ Prepare(t) \/ Spawn(t) \/ SpawnFails(t) \/ Register(t)
  \/ FailRow(t) \/ FailJob(t) \/ StartRaises(t) \/ Unclaim(t)

TickStep ==
  \/ TickBegin \/ TickDue \/ TickEnd \/ FinishRow \/ FinishJob \/ FinishPop
  \/ FinishRaises \/ CallRaises(Tick)
  \/ \E r \in Runs : ReapSkip(r) \/ ReapTimeout(r) \/ ReapExit(r)
  \/ \E j \in JobIds, s \in {LiveSchedule, DeadSchedule} : TickStart(j, s)

\* A control call in progress goes on.
CtlStep(t) ==
  \/ StartCheck(t) \/ ResumeStatus(t) \/ RereadJob(t) \/ SetDue(t)
  \/ LockTimeout(t)
  \/ StopSignal(t) \/ DeleteCheck(t) \/ DeleteRow(t) \/ DeletePop(t) \/ CallRaises(t)

\* A client's request arrives on a control thread.
Request(t) ==
  \/ "add" \in Calls /\ AddJob(t)
  \/ "shutdown" \in Calls /\ Shutdown(t)
  \/ \E j \in JobIds :
       \/ "run_once" \in Calls /\ RunOnce(t, j)
       \/ "pause" \in Calls /\ PauseJob(t, j)
       \/ "resume" \in Calls /\ ResumeJob(t, j)
       \/ "update" \in Calls /\ \E s \in Schedules : UpdateJob(t, j, s)
       \/ \E w \in {"stop", "delete"} \cap Calls : StopOrDelete(t, j, w)

Environment ==
  \/ \E r \in Runs : WorkerExits(r)
  \/ \E j \in JobIds : BecomesDue(j)

Next ==
  \/ \E t \in Threads : StartStep(t)
  \/ TickStep
  \/ \E t \in Ctl : CtlStep(t) \/ Request(t)
  \/ Environment
  \/ (CanCrash /\ Crash) \/ ShutdownExit \/ Boot

Spec == Init /\ [][Next]_vars

\* The scheduler loop runs for as long as the process does, a control thread
\* finishes the call it has begun, and time passes: a worker that is polled
\* again and again is in the end found beyond its timeout.  Nothing obliges
\* workers to exit, clients to call, or a crashed daemon to be booted again.
Fairness ==
  /\ WF_vars(TickStep) /\ WF_vars(ShutdownExit)
  /\ \A t \in Threads : WF_vars(StartStep(t))
  /\ \A t \in Ctl : WF_vars(CtlStep(t))
  /\ \A r \in Runs : SF_vars(ReapTimeout(r))

FairSpec == Spec /\ Fairness

-----------------------------------------------------------------------------
(* Properties *)

Pcs == {"idle", "get_lock", "put_lock", "acquire", "check", "sched", "reap",
        "resume", "reread", "set_due"} \cup Critical \cup Claimed

Reasons == {"none", "claim", "finish", "stop", "delete", "raises"} \cup GivingBack

\* Every variable has the type the code gives it; in particular a claim counter
\* of _running_by_job never becomes negative, even when the lock table is raced.
TypeOK ==
  /\ jobStatus \in [JobIds -> JobStatus \cup {Absent}]
  /\ failures \in [JobIds -> Nat]
  /\ due \in [JobIds -> BOOLEAN]
  /\ sched \in [JobIds -> {LiveSchedule, DeadSchedule}]
  /\ nextJob \in 1..(MaxJobs + 1)
  /\ runJob \in [Runs -> JobIds \cup {NoJob}]
  /\ runStatus \in [Runs -> RunStatus \cup {Absent}]
  /\ nextRun \in 1..(MaxRuns + 1)
  /\ txn \in Threads \cup {NoThread}
  /\ faults \in 0..MaxFaults
  /\ mode \in {"up", "stopping", "down"}
  /\ claims \in [JobIds -> Nat]
  /\ jobLock \in [JobIds -> Locks \cup {NoLock}]
  /\ running \subseteq Runs
  /\ worker \in [Runs -> {"none", "live", "succeeded", "failed"}]
  /\ pc \in [Threads -> Pcs]
  /\ why \in [Threads -> Reasons]
  /\ thJob \in [Threads -> JobIds \cup {NoJob}]
  /\ thLock \in [Threads -> Locks \cup {NoLock}]
  /\ thRun \in [Threads -> Runs \cup {NoRun}]
  /\ reapList \subseteq Runs
  /\ dueList \subseteq JobIds \X {LiveSchedule, DeadSchedule}
  /\ verdict \in {"none", "OK", "FAILED", "TIMEOUT"}
  /\ stranded \subseteq Runs /\ unsettled \subseteq Runs /\ dropped \subseteq JobIds

\* What may be running for job j: a thread that has claimed it, a registered
\* process, or a start that an exception cut off, whose worker may be alive.
Claimants(j) == {t \in Threads : HoldsClaim(t) /\ thJob[t] = j}
Watched(j) == {r \in running : runJob[r] = j}
CutOff(j) == {r \in stranded : runJob[r] = j}

\* A job is being started or run at most once at a time by one daemon, whatever
\* scheduler ticks, run_once calls and deletions interleave and whatever
\* statement fails: what _running_by_job and the per-job lock of
\* _maybe_start_job are for.  (A deletion removes the lock and the counter.)
SingleFlight ==
  \A j \in JobIds \ dropped :
    /\ \A t, u \in Claimants(j) : t = u
    /\ \A r, q \in Watched(j) \cup CutOff(j) : r = q
    /\ Claimants(j) = {} \/ Watched(j) \cup CutOff(j) = {}

\* _running_by_job never says a job is running when no thread is starting it
\* and no process of it is registered, for then it could neither run nor be
\* deleted until the daemon restarts: only an exception between the claim and
\* _running[run_id] leaves it so, and only the job that it hits.
NoLeakedClaim ==
  \A j \in JobIds \ dropped :
    claims[j] >= 1 => Claimants(j) # {} \/ Watched(j) # {} \/ CutOff(j) # {}

\* While the daemon is up, a run whose row says RUNNING is registered in
\* _running or in the hands of the thread that reserved it, for nobody else
\* would ever close the row: only the run whose start an exception cut off, or
\* whose closing a ROLLBACK took back, is lost.
RunningRowIsOwned ==
  Alive => \A r \in Runs :
             runStatus[r] = "RUNNING" =>
               \/ r \in running \/ \E t \in Threads : thRun[t] = r
               \/ r \in stranded \cup unsettled

\* A registered process has a row, and the row says RUNNING until the
\* scheduler thread closes it (delete_job refuses a running job), or fails to
\* close it and will try again.
RegisteredRowIsRunning ==
  \A r \in running :
    \/ runStatus[r] = "RUNNING"
    \/ runStatus[r] # Absent /\ (r \in unsettled \/ (thRun[Tick] = r /\ pc[Tick] \in Critical))

\* ctl_delete_job never removes the run row of a process the daemon still holds:
\* it refuses with "job is currently running" instead.
DeleteSparesRunning == \A r \in running : runStatus[r] # Absent

\* A live worker is never recorded as having ended: its run is registered or
\* being registered, or its daemon is gone or has lost it, and the run RUNNING
\* or ABORTED.
LiveWorkerNotRecordedAsEnded ==
  \A r \in Runs :
    worker[r] = "live" => runStatus[r] \in {"RUNNING", "ABORTED", Absent}

\* The capacity test is made without a lock, so max_workers can be exceeded,
\* but only by the starts in progress: one per thread.
CapacityBound ==
  Cardinality(running) + Cardinality({t \in Threads : HoldsClaim(t)})
    < MaxWorkers + Cardinality(Threads)

\* The outcome of r is on disk, and nothing went wrong when it was written.
Settled(r) ==
  runStatus[r] \in Terminal /\ Kept.runStatus[r] = runStatus[r] /\ r \notin unsettled

\* The recorded outcome of a run never changes again (only deleting its job
\* removes it): no reap, failure path, ROLLBACK, crash or restart closes a run
\* twice or reopens it.
OutcomeIsFinal ==
  [][\A r \in Runs : Settled(r) => runStatus'[r] \in {runStatus[r], Absent}]_vars

\* A run that has begun is closed, or the daemon stops: a lost process or a
\* scheduler thread that keeps failing would leave it open.  A statement that
\* fails when a run is closed is made good by a later tick; only the run that a
\* failure of its start or a ROLLBACK has cut loose stays open.
RunsEnd ==
  \A r \in Runs :
    runStatus[r] = "RUNNING" ~>
      runStatus[r] # "RUNNING" \/ ~Alive \/ r \in stranded \cup unsettled

\* A due ACTIVE job is started (its next_run_at moves on), unless it is paused,
\* tripped or deleted, the daemon stops, the database is full, or an earlier
\* start of this same job was cut off and keeps its claim.
DueJobsStart ==
  \A j \in JobIds :
    (due[j] /\ jobStatus[j] = "ACTIVE") ~>
      \/ ~due[j] \/ jobStatus[j] # "ACTIVE" \/ mode # "up" \/ nextRun \notin Runs
      \/ CutOff(j) # {}

\* The same for the jobs that have a schedule that fires, whatever schedules the
\* other jobs have: one bad job does not keep the scheduler from the others.
FiringJobsStart ==
  \A j \in JobIds :
    (due[j] /\ jobStatus[j] = "ACTIVE" /\ sched[j] = LiveSchedule) ~>
      \/ ~due[j] \/ jobStatus[j] # "ACTIVE" \/ sched[j] # LiveSchedule
      \/ mode # "up" \/ nextRun \notin Runs \/ CutOff(j) # {}

\* Every RUNNING row has somebody who will close it.  Not so: a start that raises
\* after the claim leaves one, and so does the ROLLBACK of another reservation.
EveryRunIsWatched ==
  Alive => \A r \in Runs :
             runStatus[r] = "RUNNING" => r \in running \/ \E t \in Threads : thRun[t] = r

\* A run that was closed stays as it was closed.  Not so: the ROLLBACK of another
\* reservation reopens it.
OutcomesStand ==
  [][\A r \in Runs : runStatus[r] \in Terminal => runStatus'[r] \in {runStatus[r], Absent}]_vars

\* The refinement mapping: a run is in flight while it is registered or in the
\* hands of the thread that starts or closes it.
InFlight == running \cup ({thRun[t] : t \in Threads} \ {NoRun})

\* The run rows that the end of an open transaction may bring back.
SavedRuns ==
  IF txn = NoThread THEN {}
  ELSE {[jobOf |-> saved.runJob, outcome |-> saved.runStatus]}

Promise == INSTANCE JobRuns WITH
  Jobs <- JobIds, up <- Alive, jobOf <- runJob, outcome <- runStatus,
  before <- SavedRuns, inFlight <- InFlight

\* The daemon implements JobRuns: through every interleaving of its threads,
\* failure, rollback, crash and restart, each step is a step of the promise or
\* no step of it.  (For jobs whose names are not reused.)
ImplementsJobRuns == Promise!Spec
=============================================================================
