--------------------------- MODULE RunnerRunsProofs ---------------------------
(***************************************************************************)
(* Proofs about the runs of RunnerDaemon, for every value of its           *)
(* constants: who holds a run that is started or closed, what its row and  *)
(* its worker say meanwhile and what the disk says, the claim counters,    *)
(* the capacity, and the refinement of JobRuns.                            *)
(***************************************************************************)
EXTENDS RunnerDaemonProofs, FiniteSetTheorems

(* The stages of a run in the hands of a thread. *)

\* The row is written, and no worker of it lives.
Starting(t) == pc[t] \in {"commit", "prepare", "spawn", "fail_row"}

\* The worker is started, and nobody watches it yet.
Spawned(t) == pc[t] = "register"

\* The start has failed and its row is closed.
Failed(t) == pc[t] = "fail_job" \/ (pc[t] \in InLockTable /\ why[t] = "unclaim")

\* The worker has ended; the row is still open, then closed.
Closing(t) == pc[t] \in InLockTable /\ why[t] = "finish"
Closed(t) == pc[t] \in {"finish_job", "finish_pop"}

\* A thread has a run in its hands at these stages only; the run is its own,
\* and a watched one only while the scheduler thread closes it.
HandInv ==
  /\ \A t \in Threads :
       /\ thRun[t] # NoRun <=> \/ Starting(t) \/ Spawned(t) \/ Failed(t)
                               \/ Closing(t) \/ Closed(t)
       /\ thRun[t] < nextRun
       /\ Closing(t) \/ Closed(t) => t = Tick
       /\ thRun[t] \in running => Closing(t) \/ Closed(t)
       /\ thRun[t] \notin stranded
  /\ \A t, u \in Threads : thRun[t] = thRun[u] /\ thRun[t] # NoRun => t = u

\* What the rows of the runs would say after a crash.
DiskStatus == IF txn = NoThread THEN runStatus ELSE saved.runStatus

\* A row that is open, or deleted with its job.
Open == {"RUNNING", Absent}

\* What the rows and the worker of a run say at each stage.
RowInv ==
  /\ \A t \in Threads :
       /\ Starting(t) \/ Spawned(t) =>
            runStatus[thRun[t]] \in Open /\ DiskStatus[thRun[t]] \in Open
       /\ Starting(t) \/ Failed(t) => worker[thRun[t]] = "none"
       /\ Failed(t) \/ Closed(t) => runStatus[thRun[t]] # "RUNNING" \/ thRun[t] \in unsettled
       /\ Closing(t) \/ Closed(t) => worker[thRun[t]] # "live"
  /\ \A r \in running :
       \/ runStatus[r] \in Open /\ DiskStatus[r] \in Open
       \/ (thRun[Tick] = r /\ Closed(Tick)) \/ r \in unsettled
  /\ \A r \in Runs :
       /\ r >= nextRun => runStatus[r] = Absent /\ runJob[r] = NoJob
       /\ r >= NextOnDisk => DiskStatus[r] = Absent /\ worker[r] = "none"
       /\ txn # NoThread /\ r >= NextOnDisk => saved.runJob[r] = NoJob
       /\ worker[r] = "live" =>
            {runStatus[r], DiskStatus[r]} \subseteq {"RUNNING", "ABORTED", Absent}

\* A daemon that is down has no memory.
DownInv == ~Alive => running = {} /\ \A t \in Threads : pc[t] = "idle"

\* With unique names, and if no deletion is taken back, a job cannot be deleted
\* while a run of it is started or watched: its row is there and says RUNNING
\* until the run is closed.
LiveRunInv ==
  /\ \A t \in Threads :
       /\ Starting(t) \/ Spawned(t) =>
            /\ runStatus[thRun[t]] = "RUNNING"
            /\ pc[t] # "commit" => DiskStatus[thRun[t]] = "RUNNING"
       /\ Failed(t) \/ Closed(t) =>
            /\ runStatus[thRun[t]] # Absent /\ DiskStatus[thRun[t]] # Absent
  /\ \A r \in running : runStatus[r] # Absent /\ DiskStatus[r] # Absent

\* The starts that have found room and are not registered or given up yet.
Admit(t) ==
  \/ pc[t] \in Claimed \cup {"bump"}
  \/ pc[t] \in InLockTable /\ why[t] \in GivingBack \cup {"claim"}

Admitted == {t \in Threads : Admit(t)}

\* No name is used for two job ids: a deleted name is not added again.
NamesAreUnique == \A j, k \in JobIds : JobName[j] = JobName[k] => j = k

\* No deletion of a job is taken back by a ROLLBACK once its lock is dropped.
DeletionsStand == Rows \cap dropped = {}

\* No more than k starts are between finding room and being registered.
StartsAtOnce(k) == Cardinality(Admitted) <= k

\* The limit is exceeded by less than k.
CapacityWithin(k) ==
  Cardinality(running) + Cardinality({t \in Threads : HoldsClaim(t)}) < MaxWorkers + k

\* Each watched worker was admitted below the limit, among k starts at most.
RoomInv(k) == Cardinality(running) + Cardinality(Admitted) < MaxWorkers + k

-----------------------------------------------------------------------------
\* Everything the proofs below look at stays as it is; a thread may only have
\* been admitted, if there was room.
Quiet ==
  /\ UNCHANGED <<runRows, running, worker, thRun, claims, conn, history>>
  /\ Alive' <=> Alive
  /\ \A t \in Threads :
       /\ Starting(t)' <=> Starting(t)
       /\ Spawned(t)' <=> Spawned(t)
       /\ Failed(t)' <=> Failed(t)
       /\ Closing(t)' <=> Closing(t)
       /\ Closed(t)' <=> Closed(t)
       /\ HoldsClaim(t)' <=> HoldsClaim(t)
       /\ pc'[t] = "commit" <=> pc[t] = "commit"
       /\ thRun[t] # NoRun \/ HoldsClaim(t) => thJob'[t] = thJob[t]
       /\ Admit(t)' => Admit(t) \/ HasRoom

\* The steps that are not quiet.
RunStep(t) ==
  \/ ClaimBump(t) \/ Reserve(t) \/ InsertFails(t) \/ Commit(t) \/ Rollback(t)
  \/ Spawn(t) \/ Register(t) \/ StartRaises(t) \/ FailRow(t) \/ Unclaim(t)

ReapStep ==
  \/ FinishRow \/ FinishPop \/ FinishRaises
  \/ \E r \in Runs : ReapTimeout(r) \/ ReapExit(r)

JobStep(t) == StopSignal(t) \/ DeleteRow(t) \/ DeletePop(t)

Loud ==
  \/ \E t \in Threads : RunStep(t)
  \/ ReapStep
  \/ \E t \in Ctl : JobStep(t)
  \/ \E r \in Runs : WorkerExits(r)
  \/ Crash \/ ShutdownExit \/ Boot

\* Every step is quiet or one of those.
LEMMA QuietOrLoud ==
  ASSUME TypesInv, HandInv, [Next]_vars
  PROVE  Quiet \/ Loud
<1> USE ThreadAssumption
<1> USE DEF TypesInv, TypeOK, ThreadInv, Threads, Goto, Leave, GoLock, Quiet,
            Starting, Spawned, Failed, Closing, Closed, HandInv, HoldsClaim, Admit,
            Claimed, GivingBack, InLockTable, Alive,
            db, frame, conn, history, jobRows, runRows, memory, locals, ticking, vars
<1>1. ASSUME NEW t \in Threads, GetLock(t)
      PROVE  Quiet
  BY <1>1 DEF GetLock
<1>2. ASSUME NEW t \in Threads, PutLock(t)
      PROVE  Quiet
  BY <1>2 DEF PutLock
<1>3. ASSUME NEW t \in Threads, ClaimCheck(t)
      PROVE  Quiet
  BY <1>3 DEF ClaimCheck, StartReturns, Acquires
<1>4. ASSUME NEW t \in Threads, BeginFails(t)
      PROVE  Quiet
  BY <1>4 DEF BeginFails, DbFault
<1>5. ASSUME NEW t \in Threads, Prepare(t)
      PROVE  Quiet
  BY <1>5 DEF Prepare
<1>6. ASSUME NEW t \in Threads, SpawnFails(t)
      PROVE  Quiet
  BY <1>6 DEF SpawnFails
<1>7. ASSUME NEW t \in Threads, FailJob(t)
      PROVE  Quiet
  BY <1>7 DEF FailJob, CountFailure, Rows
<1>8. ASSUME NEW t \in Threads, CallRaises(t)
      PROVE  Quiet
  BY <1>8 DEF CallRaises, DbFault, Raises
<1>9. ASSUME TickBegin
      PROVE  Quiet
  BY <1>9 DEF TickBegin
<1>10. ASSUME TickDue
      PROVE  Quiet
  BY <1>10 DEF TickDue, Rows
<1>11. ASSUME TickEnd
      PROVE  Quiet
  BY <1>11 DEF TickEnd
<1>12. ASSUME FinishJob
      PROVE  Quiet
  BY <1>12 DEF FinishJob, CountFailure, Rows
<1>13. ASSUME NEW r \in Runs, ReapSkip(r)
      PROVE  Quiet
  BY <1>13 DEF ReapSkip
<1>14. ASSUME NEW j \in JobIds, NEW s \in {LiveSchedule, DeadSchedule},
              TickStart(j, s)
      PROVE  Quiet
  BY <1>14 DEF TickStart, Raises
<1>15. ASSUME NEW t \in Ctl, StartCheck(t)
      PROVE  Quiet
  BY <1>15 DEF StartCheck
<1>16. ASSUME NEW t \in Ctl, ResumeStatus(t)
      PROVE  Quiet
  BY <1>16 DEF ResumeStatus, SameName, Rows
<1>17. ASSUME NEW t \in Ctl, RereadJob(t)
      PROVE  Quiet
  BY <1>17 DEF RereadJob, ReadJob, SameName, Rows
<1>18. ASSUME NEW t \in Ctl, SetDue(t)
      PROVE  Quiet
  BY <1>18 DEF SetDue, Rows
<1>19. ASSUME NEW t \in Ctl, LockTimeout(t)
      PROVE  Quiet
  BY <1>19 DEF LockTimeout
<1>20. ASSUME NEW t \in Ctl, DeleteCheck(t)
      PROVE  Quiet
  BY <1>20 DEF DeleteCheck, Acquires
<1>21. ASSUME NEW t \in Ctl, AddJob(t)
      PROVE  Quiet
  BY <1>21 DEF AddJob
<1>22. ASSUME NEW t \in Ctl, Shutdown(t)
      PROVE  Quiet
  BY <1>22 DEF Shutdown
<1>23. ASSUME NEW t \in Ctl, NEW j \in JobIds, RunOnce(t, j)
      PROVE  Quiet
  BY <1>23 DEF RunOnce, Idle, Rows
<1>24. ASSUME NEW t \in Ctl, NEW j \in JobIds, PauseJob(t, j)
      PROVE  Quiet
  BY <1>24 DEF PauseJob, Idle, Rows
<1>25. ASSUME NEW t \in Ctl, NEW j \in JobIds, ResumeJob(t, j)
      PROVE  Quiet
  BY <1>25 DEF ResumeJob, ReadJob, Idle, Rows
<1>26. ASSUME NEW t \in Ctl, NEW j \in JobIds, NEW s \in Schedules,
              UpdateJob(t, j, s)
      PROVE  Quiet
  BY <1>26 DEF UpdateJob, Idle, Rows
<1>27. ASSUME NEW t \in Ctl, NEW j \in JobIds, NEW w \in {"stop", "delete"},
              StopOrDelete(t, j, w)
      PROVE  Quiet
  BY <1>27 DEF StopOrDelete, Idle, Rows
<1>28. ASSUME NEW j \in JobIds, BecomesDue(j)
      PROVE  Quiet
  BY <1>28 DEF BecomesDue, Rows
<1>29. ASSUME UNCHANGED vars
      PROVE  Quiet
  BY <1>29
<1> HIDE DEF TypesInv, TypeOK, ThreadInv, Goto, Leave, GoLock, Quiet, HandInv, vars
<1> QED
  BY <1>1, <1>2, <1>3, <1>4, <1>5, <1>6, <1>7, <1>8, <1>9, <1>10, <1>11, <1>12, <1>13,
     <1>14, <1>15, <1>16, <1>17, <1>18, <1>19, <1>20, <1>21, <1>22, <1>23, <1>24, <1>25,
     <1>26, <1>27, <1>28, <1>29
  DEF Next, StartStep, TickStep, CtlStep, Request, Environment, Loud, RunStep, ReapStep,
      JobStep

\* The initial state satisfies the invariants about runs.
LEMMA InitRuns == Init => HandInv /\ RowInv /\ DownInv /\ LiveRunInv
  BY BoundsAssumption
  DEF Init, HandInv, RowInv, DownInv, LiveRunInv, DiskStatus, NextOnDisk, Open,
      Starting, Spawned, Failed, Closing, Closed, InLockTable, NoRun, NoJob,
      Absent, Threads, Runs

\* Every step leaves each run in the hands of at most one thread.
LEMMA StepHand ==
  ASSUME TypesInv, HandInv, [Next]_vars
  PROVE  HandInv'
<1>0. /\ nextRun \in Nat /\ 0 < nextRun /\ NoRun = 0 /\ NoRun \notin Runs
      /\ thRun \in [Threads -> Runs \cup {NoRun}] /\ running \subseteq Runs
      /\ stranded \subseteq Runs
      /\ pc \in [Threads -> Pcs] /\ why \in [Threads -> Reasons]
      /\ \A r \in running \cup stranded : r < nextRun
      /\ Tick \in Threads /\ \A u \in Threads : thRun[u] \in Nat
  BY BoundsAssumption
  DEF TypesInv, TypeOK, RunInv, SavedInv, NextOnDisk, NoRun, Runs, Threads
<1> USE <1>0
<1> USE DEF HandInv, Goto, Leave, GoLock, Starting, Spawned, Failed, Closing, Closed,
            InLockTable, db, frame, conn, history, runRows, memory, locals
<1>1. CASE Quiet
  BY <1>1 DEF Quiet, runRows
<1>2. ASSUME NEW t \in Threads, ClaimBump(t) \/ InsertFails(t) \/ Commit(t) \/ Spawn(t)
      PROVE  HandInv'
  BY <1>2 DEF ClaimBump, InsertFails, Commit, Spawn, DbFault
<1>3. ASSUME NEW t \in Threads, Reserve(t) PROVE HandInv'
  <2>1. /\ nextRun \in Runs /\ nextRun' = nextRun + 1 /\ nextRun \notin running \cup stranded
        /\ pc[t] = "reserve" /\ pc'[t] = "commit" /\ thRun'[t] = nextRun
        /\ UNCHANGED <<why, running, stranded>>
    BY <1>3 DEF Reserve
  <2>2. \A u \in Threads \ {t} : pc'[u] = pc[u] /\ thRun'[u] = thRun[u]
    BY <1>3 DEF Reserve
  <2>3. \A u \in Threads : thRun[u] # nextRun /\ thRun[u] < nextRun'
    BY <1>0, <2>1
  <2> QED
    BY <2>1, <2>2, <2>3
<1>4. ASSUME NEW t \in Threads, Rollback(t) PROVE HandInv'
  <2>1. /\ thRun' = [thRun EXCEPT ![t] = NoRun] /\ pc' = [pc EXCEPT ![t] = "get_lock"]
        /\ why' = [why EXCEPT ![t] = "unclaim_raise"]
        /\ pc[t] \in InTxn /\ UNCHANGED <<running, stranded>>
    BY <1>4 DEF Rollback, InTxn
  <2>2. /\ nextRun' = saved.nextRun /\ txn = t /\ txn # NoThread
        /\ saved.nextRun \in Nat /\ 0 < saved.nextRun
    BY <1>4, <2>1, ThreadAssumption
    DEF Rollback, Restored, TypesInv, ThreadInv, SavedInv, Threads
  <2>3. \A u \in Threads \ {t} : pc[u] # "commit"
    BY <2>2 DEF TypesInv, ThreadInv, InTxn
  <2>4. \A r \in running : r < saved.nextRun
    BY <2>2 DEF TypesInv, RunInv, NextOnDisk
  <2>5. ASSUME NEW u \in Threads \ {t} PROVE thRun[u] < saved.nextRun
    <3>1. CASE Starting(u) \/ Spawned(u) \/ Failed(u)
      BY <2>2, <2>3, <3>1 DEF TypesInv, RunInv, HasRun, NextOnDisk
    <3>2. CASE Closing(u) \/ Closed(u)
      <4>1. u = Tick /\ why[Tick] = "finish"
        BY <3>2 DEF TypesInv, ThreadInv
      <4> QED
        BY <4>1, <2>4 DEF TypesInv, RunInv
    <3>3. CASE thRun[u] = NoRun
      BY <3>3, <2>2
    <3> QED
      BY <3>1, <3>2, <3>3
  <2> QED
    BY <2>1, <2>2, <2>5 DEF InTxn
<1>6. ASSUME NEW t \in Threads, Register(t) PROVE HandInv'
  BY <1>6 DEF Register, StartReturns
<1>7. ASSUME NEW t \in Threads, FailRow(t) PROVE HandInv'
  BY <1>7 DEF FailRow
<1>8. ASSUME NEW t \in Threads, StartRaises(t) PROVE HandInv'
  BY <1>8 DEF StartRaises, Raises, DbFault
<1>9. ASSUME NEW t \in Threads, Unclaim(t) PROVE HandInv'
  BY <1>9 DEF Unclaim, Acquires, StartReturns, Raises
<1>10. CASE FinishRow
  BY <1>10 DEF FinishRow, Acquires
<1>11. CASE FinishRaises
  BY <1>11 DEF FinishRaises, Acquires, Raises
<1>12. CASE FinishPop
  BY <1>12 DEF FinishPop
<1>13. ASSUME NEW r \in Runs, ReapTimeout(r) \/ ReapExit(r) PROVE HandInv'
  BY <1>13 DEF ReapTimeout, ReapExit, GoFinish, TypesInv, RunInv, OwnInv
<1>14. ASSUME NEW t \in Ctl, DeletePop(t) PROVE HandInv'
  BY <1>14 DEF DeletePop, Threads
<1>15. ASSUME NEW t \in Ctl, StopSignal(t) PROVE HandInv'
  BY <1>15 DEF StopSignal, Acquires, Threads
<1>16. ASSUME NEW t \in Ctl, DeleteRow(t) PROVE HandInv'
  BY <1>16 DEF DeleteRow, Threads
<1>17. ASSUME NEW r \in Runs, WorkerExits(r) PROVE HandInv'
  BY <1>17 DEF WorkerExits
<1>18. CASE Crash \/ ShutdownExit
  <2>1. /\ nextRun' = IF txn = NoThread THEN nextRun ELSE saved.nextRun
        /\ nextRun' \in Nat /\ 0 < nextRun'
    BY <1>18
    DEF Crash, ShutdownExit, ProcessGone, Restored, Kept, Tables, TypesInv, SavedInv
  <2> QED
    BY <1>18, <2>1 DEF Crash, ShutdownExit, ProcessGone
<1>19. CASE Boot
  BY <1>19 DEF Boot
<1> HIDE DEF HandInv
<1> QED
  BY QuietOrLoud, <1>1, <1>2, <1>3, <1>4, <1>6, <1>7, <1>8, <1>9, <1>10,
     <1>11, <1>12, <1>13, <1>14, <1>15, <1>16, <1>17, <1>18, <1>19
  DEF Loud, RunStep, ReapStep, JobStep

\* Every step of a daemon that is down leaves it without memory.
LEMMA StepDown ==
  ASSUME TypesInv, HandInv, DownInv, [Next]_vars
  PROVE  DownInv'
<1> USE DEF DownInv, Alive, Idle, Acquires
<1>1. CASE Alive
  <2>1. CASE Quiet
    BY <1>1, <2>1 DEF Quiet
  <2>2. CASE Crash \/ ShutdownExit
    BY <2>2 DEF Crash, ShutdownExit, ProcessGone
  <2>3. ASSUME NEW t \in Threads, RunStep(t) PROVE Alive'
    BY <1>1, <2>3
    DEF RunStep, ClaimBump, Reserve, InsertFails, Commit, Rollback, Spawn, Register,
        StartRaises, FailRow, Unclaim, frame, conn
  <2>4. CASE ReapStep
    BY <1>1, <2>4
    DEF ReapStep, FinishRow, FinishPop, FinishRaises, ReapTimeout, ReapExit, GoFinish, frame
  <2>5. ASSUME Loud, ~(Crash \/ ShutdownExit), ~ReapStep, \A t \in Threads : ~RunStep(t)
        PROVE  Alive'
    BY <1>1, <2>5
    DEF Loud, JobStep, StopSignal, DeleteRow, DeletePop, WorkerExits, Boot, frame
  <2> QED
    BY QuietOrLoud, <2>1, <2>2, <2>3, <2>4, <2>5, <1>1
<1>2. CASE ~Alive
  <2>1. ASSUME NEW t \in Threads, StartStep(t) PROVE FALSE
    BY <1>2, <2>1
    DEF StartStep, GetLock, PutLock, ClaimCheck, ClaimBump, Reserve, InsertFails, BeginFails,
        Commit, Rollback, Prepare, Spawn, SpawnFails, Register, FailRow, FailJob, StartRaises,
        Unclaim
  <2>2. ~TickStep
    BY <1>2
    DEF TickStep, TickBegin, TickDue, TickEnd, FinishRow, FinishJob, FinishPop, FinishRaises,
        CallRaises, ReapSkip, ReapTimeout, ReapExit, TickStart, Threads
  <2>3. ASSUME NEW t \in Ctl, CtlStep(t) \/ Request(t) PROVE FALSE
    BY <1>2, <2>3
    DEF CtlStep, StartCheck, ResumeStatus, RereadJob, SetDue, LockTimeout, StopSignal,
        DeleteCheck, DeleteRow, DeletePop, CallRaises, Request, AddJob, Shutdown, RunOnce,
        PauseJob, ResumeJob, UpdateJob, StopOrDelete, Threads
  <2>4. CASE Environment \/ Boot \/ UNCHANGED vars
    BY <1>2, <2>4
    DEF Environment, WorkerExits, BecomesDue, Boot, vars, frame, locals, memory
  <2> QED
    BY <1>2, <2>1, <2>2, <2>3, <2>4 DEF Next, Crash, ShutdownExit
<1> QED
  BY <1>1, <1>2

\* A run in the hands of a thread is a run of the thread's job.
LEMMA RunOfThread ==
  ASSUME TypesInv, HandInv, NEW t \in Threads
  PROVE  /\ thRun[t] # NoRun => thRun[t] \in Runs
         /\ Starting(t) \/ Spawned(t) \/ Failed(t) \/ Closing(t) \/ Closed(t) =>
              thRun[t] \in Runs /\ runJob[thRun[t]] = thJob[t] /\ thJob[t] \in JobIds
         /\ Closing(t) \/ Closed(t) => thRun[t] \in running
         /\ Starting(t) \/ Spawned(t) \/ Failed(t) => HoldsClaim(t)
  BY DEF TypesInv, TypeOK, ThreadInv, RunInv, HandInv, Starting, Spawned, Failed, Closing,
         Closed, HasRun, HoldsClaim, Claimed, GivingBack, InLockTable, Threads

\* Where a run that is known to the daemon stands relative to the disk.
LEMMA RunsOnDisk ==
  ASSUME TypesInv, HandInv
  PROVE  /\ \A r \in running \cup stranded : r < NextOnDisk
         /\ \A t \in Threads : thRun[t] # NoRun /\ pc[t] # "commit" => thRun[t] < NextOnDisk
         /\ nextRun \in Nat /\ NextOnDisk \in Nat /\ NextOnDisk <= nextRun
         /\ \A t \in Threads : pc[t] = "commit" => txn = t /\ thRun[t] = NextOnDisk
         /\ \A t \in Threads : txn = t => t # NoThread
<1>1. /\ \A r \in running \cup stranded : r < NextOnDisk
      /\ nextRun \in Nat /\ NextOnDisk \in Nat /\ NextOnDisk <= nextRun
      /\ \A t \in Threads : txn = t => t # NoThread
  BY ThreadAssumption, BoundsAssumption DEF TypesInv, TypeOK, RunInv, SavedInv, NextOnDisk
<1>2. ASSUME NEW t \in Threads, thRun[t] # NoRun, pc[t] # "commit"
      PROVE  thRun[t] < NextOnDisk
  <2>1. CASE Starting(t) \/ Spawned(t) \/ Failed(t)
    BY <1>2, <2>1
    DEF TypesInv, RunInv, HasRun, Starting, Spawned, Failed
  <2>2. CASE Closing(t) \/ Closed(t)
    BY <1>1, <2>2, RunOfThread
  <2> QED
    BY <1>2, <2>1, <2>2 DEF HandInv
<1>3. ASSUME NEW t \in Threads, pc[t] = "commit"
      PROVE  txn = t /\ thRun[t] = NextOnDisk
  BY <1>3, ThreadAssumption DEF TypesInv, ThreadInv, SavedInv, InTxn, NextOnDisk
<1> QED
  BY <1>1, <1>2, <1>3

\* Every step keeps what rows and workers say at each stage of a run.
LEMMA StepRows ==
  ASSUME TypesInv, HandInv, RowInv, DownInv, [Next]_vars
  PROVE  RowInv'
<1>0. /\ nextRun \in Nat /\ 0 < nextRun /\ NoRun = 0 /\ NoRun \notin Runs
      /\ thRun \in [Threads -> Runs \cup {NoRun}] /\ running \subseteq Runs
      /\ pc \in [Threads -> Pcs] /\ why \in [Threads -> Reasons]
      /\ runStatus \in [Runs -> RunStatus \cup {Absent}]
      /\ worker \in [Runs -> {"none", "live", "succeeded", "failed"}]
      /\ runJob \in [Runs -> JobIds \cup {NoJob}]
      /\ DiskStatus \in [Runs -> RunStatus \cup {Absent}]
      /\ \A r \in running : r < nextRun
      /\ \A r \in Runs : r \in Nat
      /\ Tick \in Threads
  BY BoundsAssumption
  DEF TypesInv, TypeOK, RunInv, SavedInv, DiskStatus, NextOnDisk, NoRun, Runs, Threads
<1>00. /\ \A r \in running \cup stranded : r < NextOnDisk
       /\ \A t \in Threads : thRun[t] # NoRun /\ pc[t] # "commit" => thRun[t] < NextOnDisk
       /\ NextOnDisk \in Nat /\ NextOnDisk <= nextRun
       /\ \A t \in Threads : pc[t] = "commit" => txn = t /\ thRun[t] = NextOnDisk
       /\ \A t \in Threads : txn = t => t # NoThread
  BY RunsOnDisk
<1> USE <1>0, <1>00
<1> USE DEF HandInv, RowInv, Goto, Leave, GoLock, Open,
            Starting, Spawned, Failed, Closing, Closed, InLockTable, Absent,
            db, frame, conn, history, jobRows, runRows, memory, locals
<1>1. CASE Quiet
  <2>1. \A t \in Threads : thRun'[t] = thRun[t]
    BY <1>1 DEF Quiet
  <2>2. DiskStatus' = DiskStatus /\ NextOnDisk' = NextOnDisk
    BY <1>1 DEF Quiet, DiskStatus, NextOnDisk
  <2> QED
    BY <1>1, <2>1, <2>2 DEF Quiet
<1>2. ASSUME NEW t \in Threads, ClaimBump(t) PROVE RowInv'
  BY <1>2 DEF ClaimBump, DiskStatus, NextOnDisk
<1>3. ASSUME NEW t \in Threads, Reserve(t) PROVE RowInv'
  <2>1. /\ nextRun \in Runs /\ nextRun' = nextRun + 1 /\ t # NoThread
        /\ runJob' = [runJob EXCEPT ![nextRun] = thJob[t]]
        /\ runStatus' = [runStatus EXCEPT ![nextRun] = "RUNNING"]
        /\ thRun' = [thRun EXCEPT ![t] = nextRun] /\ pc' = [pc EXCEPT ![t] = "commit"]
        /\ pc[t] = "reserve" /\ txn' = t /\ NextOnDisk = nextRun
        /\ UNCHANGED <<why, running, worker, unsettled>>
    BY <1>3, ThreadAssumption DEF Reserve, NextOnDisk, Threads
  <2>2. DiskStatus' = runStatus /\ DiskStatus = runStatus
    BY <1>3, <2>1 DEF Reserve, Tables, DiskStatus
  <2>3. NextOnDisk' = nextRun /\ saved'.runJob = runJob
    BY <1>3, <2>1 DEF Reserve, Tables, NextOnDisk
  <2>4. \A u \in Threads : thRun[u] # nextRun
    OBVIOUS
  <2>5. \A r \in running : r \in Runs /\ r # nextRun
    BY <2>1
  <2>6. \A r \in Runs : r # nextRun => runStatus'[r] = runStatus[r] /\ runJob'[r] = runJob[r]
    BY <2>1
  <2>7. runStatus[nextRun] = Absent /\ worker[nextRun] = "none"
    BY <2>1
  <2>8. /\ \A u \in Threads :
             /\ Spawned(u)' <=> Spawned(u)
             /\ Failed(u)' <=> Failed(u)
             /\ Closing(u)' <=> Closing(u)
             /\ Closed(u)' <=> Closed(u)
             /\ Starting(u)' <=> u = t \/ Starting(u)
             /\ u # t => thRun'[u] = thRun[u]
        /\ ~Failed(t) /\ ~Spawned(t) /\ ~Closing(t) /\ ~Closed(t)
        /\ thRun'[t] = nextRun /\ runStatus'[nextRun] = "RUNNING"
    BY <2>1
  <2>9. \A u \in Threads : Starting(u) \/ Spawned(u) \/ Failed(u) \/ Closing(u) \/ Closed(u) =>
          thRun[u] \in Runs
    OBVIOUS
  <2>10. \A r \in Runs : r >= nextRun' => r >= nextRun /\ r # nextRun
    BY <2>1
  <2> HIDE DEF Starting, Spawned, Failed, Closing, Closed
  <2> QED
    BY <2>1, <2>2, <2>3, <2>4, <2>5, <2>6, <2>7, <2>8, <2>9, <2>10
<1>4. ASSUME NEW t \in Threads, InsertFails(t) PROVE RowInv'
  <2>1. t # NoThread /\ txn' = t /\ NextOnDisk = nextRun
        /\ pc' = [pc EXCEPT ![t] = "rollback"] /\ pc[t] = "reserve"
        /\ UNCHANGED <<why, thRun, running, worker, unsettled, runJob, runStatus, nextRun>>
    BY <1>4, ThreadAssumption DEF InsertFails, DbFault, NextOnDisk, Threads
  <2>2. DiskStatus' = runStatus /\ DiskStatus = runStatus
    BY <1>4, <2>1 DEF InsertFails, Tables, DiskStatus
  <2>3. NextOnDisk' = nextRun /\ saved'.runJob = runJob
    BY <1>4, <2>1 DEF InsertFails, Tables, NextOnDisk
  <2> QED
    BY <2>1, <2>2, <2>3
<1>5. ASSUME NEW t \in Threads, Commit(t) PROVE RowInv'
  <2>1. /\ txn' = NoThread /\ pc' = [pc EXCEPT ![t] = "prepare"] /\ pc[t] = "commit"
        /\ UNCHANGED <<why, thRun, running, worker, unsettled, runJob, runStatus, nextRun>>
    BY <1>5 DEF Commit
  <2>2. DiskStatus' = runStatus /\ NextOnDisk' = nextRun
    BY <2>1 DEF DiskStatus, NextOnDisk
  <2> QED
    BY <2>1, <2>2
<1>6. ASSUME NEW t \in Threads, Rollback(t) PROVE RowInv'
  <2>1. /\ thRun' = [thRun EXCEPT ![t] = NoRun] /\ pc' = [pc EXCEPT ![t] = "get_lock"]
        /\ why' = [why EXCEPT ![t] = "unclaim_raise"]
        /\ pc[t] \in {"commit", "rollback"} /\ UNCHANGED <<running, worker>>
    BY <1>6 DEF Rollback
  <2>2. txn = t /\ txn # NoThread /\ txn' = NoThread
    BY <1>6, <2>1 DEF Rollback, TypesInv, ThreadInv, InTxn
  <2>3. /\ runStatus' = DiskStatus /\ DiskStatus' = DiskStatus
        /\ nextRun' = NextOnDisk /\ NextOnDisk' = NextOnDisk /\ runJob' = saved.runJob
        /\ unsettled' = unsettled \cup {r \in Runs : DiskStatus[r] = "RUNNING" /\ runStatus[r] # "RUNNING"}
    BY <1>6, <2>2 DEF Rollback, Restored, DiskStatus, NextOnDisk, TakenBack
  <2>4. \A u \in Threads \ {t} : pc[u] # "commit"
    BY <2>2
  <2>5. \A u \in Threads : Failed(u) \/ Closed(u) => thRun[u] \in Runs
    BY RunOfThread
  <2> QED
    BY <2>1, <2>2, <2>3, <2>4, <2>5
<1>7. ASSUME NEW t \in Threads, Spawn(t) PROVE RowInv'
  <2>1. thRun[t] < NextOnDisk
    BY <1>7 DEF Spawn
  <2> QED
    BY <1>7, <2>1 DEF Spawn, DiskStatus, NextOnDisk
<1>8. ASSUME NEW t \in Threads, Register(t) PROVE RowInv'
  BY <1>8 DEF Register, StartReturns, DiskStatus, NextOnDisk
<1>9. ASSUME NEW t \in Threads, StartRaises(t) PROVE RowInv'
  BY <1>9 DEF StartRaises, Raises, DiskStatus, NextOnDisk
<1>10. ASSUME NEW t \in Threads, FailRow(t) PROVE RowInv'
  <2>1. /\ pc' = [pc EXCEPT ![t] = "fail_job"] /\ pc[t] = "fail_row"
        /\ UNCHANGED <<why, thRun, running, worker, unsettled, runJob, nextRun, txn, saved>>
    BY <1>10 DEF FailRow
  <2>2. thRun[t] \in Runs /\ thRun[t] < NextOnDisk /\ thRun[t] < nextRun
    BY <2>1
  <2>3. NextOnDisk' = NextOnDisk
    BY <2>1 DEF NextOnDisk
  <2>4. /\ \A r \in Runs : r # thRun[t] => runStatus'[r] = runStatus[r]
        /\ runStatus'[thRun[t]] \in {"FAILED", Absent}
    BY <1>10, <2>2 DEF FailRow, CloseRow
  <2>5. \A r \in Runs : DiskStatus'[r] = DiskStatus[r] \/ (r = thRun[t] /\ DiskStatus'[r] = runStatus'[r])
    BY <2>1, <2>4 DEF DiskStatus
  <2> QED
    BY <2>1, <2>2, <2>3, <2>4, <2>5
<1>11. ASSUME NEW t \in Threads, Unclaim(t) PROVE RowInv'
  BY <1>11 DEF Unclaim, Acquires, StartReturns, Raises, DiskStatus, NextOnDisk
<1>12. CASE FinishRow
  <2>1. verdict \in {"OK", "FAILED", "TIMEOUT"}
    BY <1>12 DEF FinishRow, Acquires, TypesInv, TypeOK, RunInv
  <2>2. /\ pc' = [pc EXCEPT ![Tick] = "finish_job"] /\ Closing(Tick)
        /\ UNCHANGED <<why, thRun, running, worker, unsettled, runJob, nextRun, txn, saved>>
    BY <1>12 DEF FinishRow, Acquires
  <2>3. thRun[Tick] \in running /\ thRun[Tick] < NextOnDisk
    BY <2>2, RunOfThread
  <2>4. NextOnDisk' = NextOnDisk
    BY <2>2 DEF NextOnDisk
  <2>5. /\ \A r \in Runs : r # thRun[Tick] => runStatus'[r] = runStatus[r]
        /\ runStatus'[thRun[Tick]] \in {verdict, Absent}
    BY <1>12, <2>3 DEF FinishRow, CloseRow
  <2>6. \A r \in Runs : \/ DiskStatus'[r] = DiskStatus[r]
                        \/ r = thRun[Tick] /\ DiskStatus'[r] = runStatus'[r]
    BY <2>2, <2>5 DEF DiskStatus
  <2>7. thRun[Tick] # NoRun /\ \A u \in Threads : thRun[u] = thRun[Tick] => u = Tick
    BY <2>3
  <2> QED
    BY <2>1, <2>2, <2>3, <2>4, <2>5, <2>6, <2>7
<1>13. CASE FinishRaises
  BY <1>13 DEF FinishRaises, Acquires, Raises, DiskStatus, NextOnDisk
<1>14. CASE FinishPop
  BY <1>14 DEF FinishPop, DiskStatus, NextOnDisk
<1>15. ASSUME NEW r \in Runs, ReapTimeout(r) \/ ReapExit(r) PROVE RowInv'
  BY <1>15 DEF ReapTimeout, ReapExit, GoFinish, TypesInv, RunInv, DiskStatus, NextOnDisk
<1>16. ASSUME NEW t \in Ctl, StopSignal(t) \/ DeletePop(t) PROVE RowInv'
  BY <1>16 DEF StopSignal, DeletePop, Acquires, Threads, DiskStatus, NextOnDisk
<1>17. ASSUME NEW t \in Ctl, DeleteRow(t) PROVE RowInv'
  <2>1. /\ pc[t] = "delete_row" /\ t \in Threads
        /\ UNCHANGED <<runJob, nextRun, running, worker, txn, saved, unsettled>>
    BY <1>17 DEF DeleteRow, Threads
  <2>2. \A u \in Threads : /\ Starting(u)' <=> Starting(u)
                           /\ Spawned(u)' <=> Spawned(u)
                           /\ Failed(u)' <=> Failed(u)
                           /\ Closing(u)' <=> Closing(u)
                           /\ Closed(u)' <=> Closed(u)
                           /\ thRun'[u] = thRun[u]
    BY <1>17, <2>1 DEF DeleteRow
  <2>3. \A r \in Runs : runStatus'[r] \in {runStatus[r], Absent}
    BY <1>17 DEF DeleteRow
  <2>4. \A r \in Runs : DiskStatus'[r] \in {DiskStatus[r], Absent}
    BY <2>1, <2>3 DEF DiskStatus
  <2>5. NextOnDisk' = NextOnDisk
    BY <2>1 DEF NextOnDisk
  <2>6. \A u \in Threads : thRun[u] # NoRun => thRun[u] \in Runs
    OBVIOUS
  <2> HIDE DEF Starting, Spawned, Failed, Closing, Closed
  <2> QED
    BY <2>1, <2>2, <2>3, <2>4, <2>5, <2>6
<1>18. ASSUME NEW r \in Runs, WorkerExits(r) PROVE RowInv'
  BY <1>18 DEF WorkerExits, DiskStatus, NextOnDisk
<1>19. CASE Crash \/ ShutdownExit
  <2>1. /\ running' = {} /\ txn' = NoThread
        /\ \A u \in Threads : pc'[u] = "idle"
    BY <1>19 DEF Crash, ShutdownExit, ProcessGone
  <2>2. \A r \in Runs : worker'[r] = "live" => worker[r] = "live"
    BY <1>19 DEF Crash, ShutdownExit
  <2>3. \A r \in Runs : worker[r] # "live" => worker'[r] = "none"
    BY <1>19 DEF Crash, ShutdownExit
  <2>4. /\ runStatus' = DiskStatus /\ nextRun' = NextOnDisk
        /\ DiskStatus' = DiskStatus /\ NextOnDisk' = NextOnDisk
        /\ runJob' = IF txn = NoThread THEN runJob ELSE saved.runJob
    BY <1>19
    DEF Crash, ShutdownExit, ProcessGone, Restored, Kept, Tables, DiskStatus, NextOnDisk
  <2>5. txn = NoThread => NextOnDisk = nextRun
    BY DEF NextOnDisk
  <2> QED
    BY <2>1, <2>2, <2>3, <2>4, <2>5
<1>20. CASE Boot
  <2>1. ~Alive /\ \A u \in Threads : pc[u] = "idle"
    BY <1>20 DEF Boot, DownInv, Alive
  <2>2. txn = NoThread
    BY <2>1 DEF TypesInv, TypeOK, ThreadInv, InTxn
  <2> QED
    BY <1>20, <2>1, <2>2 DEF Boot, DownInv, DiskStatus, NextOnDisk
<1> HIDE DEF HandInv, RowInv
<1> QED
  BY QuietOrLoud, <1>1, <1>2, <1>3, <1>4, <1>5, <1>6, <1>7, <1>8, <1>9, <1>10,
     <1>11, <1>12, <1>13, <1>14, <1>15, <1>16, <1>17, <1>18, <1>19, <1>20
  DEF Loud, RunStep, ReapStep, JobStep

\* A row that is watched, started or closed is not deleted, if names are unique
\* and deletions stand.
LEMMA DeletionSpares ==
  ASSUME NamesAreUnique, DeletionsStand, TypesInv, ClaimInv, HandInv,
         NEW t \in Threads, pc[t] = "delete_row", NEW k \in SameName(thJob[t])
  PROVE  /\ k = thJob[t] /\ k \in JobIds
         /\ \A u \in Threads : HoldsClaim(u) => thJob[u] # k
         /\ \A r \in running \cup stranded : runJob[r] # k
         /\ \A u \in Threads : thRun[u] # NoRun => runJob[thRun[u]] # k
<1>1. thJob[t] \in JobIds /\ k \in Rows /\ k \in JobIds /\ k = thJob[t]
  BY DEF NamesAreUnique, SameName, Rows, TypesInv, ThreadInv
<1>2. k \notin dropped /\ claims[k] = 0
  BY <1>1 DEF DeletionsStand, ClaimInv
<1>3. \A u \in Threads : HoldsClaim(u) => thJob[u] # k
  BY <1>2 DEF ClaimInv
<1>4. \A r \in running \cup stranded : runJob[r] # k
  BY <1>2 DEF ClaimInv
<1>5. \A u \in Threads : thRun[u] # NoRun => runJob[thRun[u]] # k
  BY <1>3, <1>4, RunOfThread DEF HandInv
<1> QED
  BY <1>1, <1>3, <1>4, <1>5

\* With unique names and deletions that stand, every step leaves the row of a
\* run that is started or watched in its table, and as it should be.
LEMMA StepLive ==
  ASSUME NamesAreUnique, DeletionsStand, TypesInv, LockInv, ClaimInv,
         HandInv, RowInv, DownInv, LiveRunInv, [Next]_vars
  PROVE  LiveRunInv'
<1>0. /\ thRun \in [Threads -> Runs \cup {NoRun}] /\ running \subseteq Runs
      /\ pc \in [Threads -> Pcs] /\ why \in [Threads -> Reasons]
      /\ runStatus \in [Runs -> RunStatus \cup {Absent}]
      /\ Tick \in Threads /\ NoRun \notin Runs /\ Absent \notin RunStatus
      /\ \A u \in Threads : Starting(u) \/ Spawned(u) \/ Failed(u) \/ Closing(u) \/ Closed(u) =>
           thRun[u] # NoRun /\ thRun[u] \in Runs
  BY RunOfThread DEF TypesInv, TypeOK, Threads, NoRun, Runs, RunStatus, Absent, HandInv
<1>00. /\ \A r \in running \cup stranded : r < NextOnDisk
       /\ \A t \in Threads : thRun[t] # NoRun /\ pc[t] # "commit" => thRun[t] < NextOnDisk
       /\ nextRun \in Nat /\ NextOnDisk \in Nat /\ NextOnDisk <= nextRun
       /\ \A t \in Threads : pc[t] = "commit" => txn = t /\ thRun[t] = NextOnDisk
       /\ \A t \in Threads : txn = t => t # NoThread
  BY RunsOnDisk
<1> USE <1>0, <1>00
<1> USE DEF HandInv, LiveRunInv, Goto, Leave, GoLock, RunStatus,
            Starting, Spawned, Failed, Closing, Closed, InLockTable,
            db, frame, conn, history, jobRows, runRows, memory, locals
<1>1. CASE Quiet
  <2>1. \A t \in Threads : thRun'[t] = thRun[t]
    BY <1>1 DEF Quiet
  <2>2. DiskStatus' = DiskStatus
    BY <1>1 DEF Quiet, DiskStatus
  <2> QED
    BY <1>1, <2>1, <2>2 DEF Quiet
<1>2. ASSUME NEW t \in Threads, ClaimBump(t) PROVE LiveRunInv'
  BY <1>2 DEF ClaimBump, DiskStatus
<1>3. ASSUME NEW t \in Threads, Reserve(t) PROVE LiveRunInv'
  <2>1. /\ nextRun \in Runs /\ t # NoThread /\ txn = NoThread
        /\ runStatus' = [runStatus EXCEPT ![nextRun] = "RUNNING"]
        /\ thRun' = [thRun EXCEPT ![t] = nextRun] /\ pc' = [pc EXCEPT ![t] = "commit"]
        /\ pc[t] = "reserve" /\ txn' = t /\ NextOnDisk = nextRun
        /\ UNCHANGED <<why, running>>
    BY <1>3, ThreadAssumption DEF Reserve, NextOnDisk, Threads
  <2>2. DiskStatus' = runStatus /\ DiskStatus = runStatus
    BY <1>3, <2>1 DEF Reserve, Tables, DiskStatus
  <2>3. /\ \A u \in Threads : thRun[u] # nextRun
        /\ \A r \in running : r # nextRun
    BY <2>1 DEF NoRun, Runs
  <2>4. /\ \A u \in Threads :
             /\ Spawned(u)' <=> Spawned(u)
             /\ Failed(u)' <=> Failed(u)
             /\ Closed(u)' <=> Closed(u)
             /\ Starting(u)' <=> u = t \/ Starting(u)
             /\ u # t => thRun'[u] = thRun[u] /\ pc'[u] = pc[u] /\ pc[u] # "commit"
        /\ ~Failed(t) /\ ~Spawned(t) /\ ~Closed(t) /\ pc'[t] = "commit"
        /\ thRun'[t] = nextRun /\ runStatus'[nextRun] = "RUNNING"
    BY <2>1
  <2> HIDE DEF Starting, Spawned, Failed, Closing, Closed
  <2> QED
    BY <2>1, <2>2, <2>3, <2>4
<1>4. ASSUME NEW t \in Threads, InsertFails(t) PROVE LiveRunInv'
  <2>1. t # NoThread /\ txn' = t /\ txn = NoThread
        /\ pc' = [pc EXCEPT ![t] = "rollback"] /\ pc[t] = "reserve"
        /\ UNCHANGED <<why, thRun, running, runStatus>>
    BY <1>4, ThreadAssumption DEF InsertFails, DbFault, Threads
  <2>2. DiskStatus' = runStatus /\ DiskStatus = runStatus
    BY <1>4, <2>1 DEF InsertFails, Tables, DiskStatus
  <2> QED
    BY <2>1, <2>2
<1>5. ASSUME NEW t \in Threads, Commit(t) PROVE LiveRunInv'
  <2>1. /\ txn' = NoThread /\ pc' = [pc EXCEPT ![t] = "prepare"] /\ pc[t] = "commit"
        /\ UNCHANGED <<why, thRun, running, runStatus>>
    BY <1>5 DEF Commit
  <2>2. DiskStatus' = runStatus
    BY <2>1 DEF DiskStatus
  <2> QED
    BY <2>1, <2>2
<1>6. ASSUME NEW t \in Threads, Rollback(t) PROVE LiveRunInv'
  <2>1. /\ thRun' = [thRun EXCEPT ![t] = NoRun] /\ pc' = [pc EXCEPT ![t] = "get_lock"]
        /\ why' = [why EXCEPT ![t] = "unclaim_raise"]
        /\ pc[t] \in {"commit", "rollback"} /\ UNCHANGED running
    BY <1>6 DEF Rollback
  <2>2. txn = t /\ txn # NoThread /\ txn' = NoThread
    BY <1>6, <2>1 DEF Rollback, TypesInv, ThreadInv, InTxn
  <2>3. runStatus' = DiskStatus /\ DiskStatus' = DiskStatus
    BY <1>6, <2>2 DEF Rollback, Restored, DiskStatus
  <2>4. \A u \in Threads \ {t} : pc[u] # "commit"
    BY <2>2
  <2> QED
    BY <2>1, <2>3, <2>4
<1>7. ASSUME NEW t \in Threads, Spawn(t) PROVE LiveRunInv'
  BY <1>7 DEF Spawn, DiskStatus
<1>8. ASSUME NEW t \in Threads, Register(t) PROVE LiveRunInv'
  BY <1>8 DEF Register, StartReturns, DiskStatus, Absent
<1>9. ASSUME NEW t \in Threads, StartRaises(t) PROVE LiveRunInv'
  BY <1>9 DEF StartRaises, Raises, DiskStatus
<1>10. ASSUME NEW t \in Threads, FailRow(t) PROVE LiveRunInv'
  <2>1. /\ pc' = [pc EXCEPT ![t] = "fail_job"] /\ pc[t] = "fail_row"
        /\ UNCHANGED <<why, thRun, running, txn, saved>>
    BY <1>10 DEF FailRow
  <2>2. /\ \A r \in Runs : r # thRun[t] => runStatus'[r] = runStatus[r]
        /\ runStatus'[thRun[t]] = "FAILED"
    BY <1>10, <2>1 DEF FailRow, CloseRow, Absent
  <2>3. \A r \in Runs : DiskStatus'[r] = DiskStatus[r] \/ (r = thRun[t] /\ DiskStatus'[r] = runStatus'[r])
    BY <2>1, <2>2 DEF DiskStatus
  <2>4. DiskStatus[thRun[t]] = "RUNNING"
    BY <2>1
  <2> QED
    BY <2>1, <2>2, <2>3, <2>4 DEF Absent
<1>11. ASSUME NEW t \in Threads, Unclaim(t) PROVE LiveRunInv'
  BY <1>11 DEF Unclaim, Acquires, StartReturns, Raises, DiskStatus
<1>12. CASE FinishRow
  <2>1. verdict \in {"OK", "FAILED", "TIMEOUT"}
    BY <1>12 DEF FinishRow, Acquires, TypesInv, TypeOK, RunInv
  <2>2. /\ pc' = [pc EXCEPT ![Tick] = "finish_job"] /\ Closing(Tick)
        /\ UNCHANGED <<why, thRun, running, txn, saved>>
    BY <1>12 DEF FinishRow, Acquires
  <2>3. thRun[Tick] \in running /\ runStatus[thRun[Tick]] # Absent
    BY <2>2, RunOfThread
  <2>4. /\ \A r \in Runs : r # thRun[Tick] => runStatus'[r] = runStatus[r]
        /\ runStatus'[thRun[Tick]] = verdict
    BY <1>12, <2>3 DEF FinishRow, CloseRow
  <2>5. \A r \in Runs : \/ DiskStatus'[r] = DiskStatus[r]
                        \/ r = thRun[Tick] /\ DiskStatus'[r] = runStatus'[r]
    BY <2>2, <2>4 DEF DiskStatus
  <2>6. thRun[Tick] # NoRun /\ \A u \in Threads : thRun[u] = thRun[Tick] => u = Tick
    BY <2>3
  <2> QED
    BY <2>1, <2>2, <2>3, <2>4, <2>5, <2>6 DEF Absent
<1>13. CASE FinishRaises
  BY <1>13 DEF FinishRaises, Acquires, Raises, DiskStatus
<1>14. CASE FinishPop
  BY <1>14 DEF FinishPop, DiskStatus
<1>15. ASSUME NEW r \in Runs, ReapTimeout(r) \/ ReapExit(r) PROVE LiveRunInv'
  BY <1>15 DEF ReapTimeout, ReapExit, GoFinish, TypesInv, RunInv, DiskStatus
<1>16. ASSUME NEW t \in Ctl, StopSignal(t) \/ DeletePop(t) PROVE LiveRunInv'
  BY <1>16 DEF StopSignal, DeletePop, Acquires, Threads, DiskStatus
<1>17. ASSUME NEW t \in Ctl, DeleteRow(t) PROVE LiveRunInv'
  <2>1. /\ pc[t] = "delete_row" /\ t \in Threads
        /\ UNCHANGED <<running, txn, saved>>
    BY <1>17 DEF DeleteRow, Threads
  <2>2. \A u \in Threads : /\ Starting(u)' <=> Starting(u)
                           /\ Spawned(u)' <=> Spawned(u)
                           /\ Failed(u)' <=> Failed(u)
                           /\ Closed(u)' <=> Closed(u)
                           /\ (pc'[u] = "commit") <=> (pc[u] = "commit")
                           /\ thRun'[u] = thRun[u]
    BY <1>17, <2>1 DEF DeleteRow
  <2>3. /\ \A r \in running : runStatus'[r] = runStatus[r]
        /\ \A u \in Threads : thRun[u] # NoRun => runStatus'[thRun[u]] = runStatus[thRun[u]]
    <3>1. CASE SameName(thJob[t]) = {}
      BY <1>17, <3>1 DEF DeleteRow
    <3>2. CASE SameName(thJob[t]) # {}
      <4>1. PICK k \in SameName(thJob[t]) :
              runStatus' = [r \in Runs |-> IF runJob[r] = k THEN Absent ELSE runStatus[r]]
        BY <1>17, <3>2 DEF DeleteRow
      <4>2. /\ \A r \in running : runJob[r] # k
            /\ \A u \in Threads : thRun[u] # NoRun => runJob[thRun[u]] # k
        BY <2>1, DeletionSpares
      <4> QED
        BY <4>1, <4>2
    <3> QED
      BY <3>1, <3>2
  <2>4. DiskStatus' = DiskStatus \/ DiskStatus' = runStatus'
    BY <2>1 DEF DiskStatus
  <2>5. DiskStatus' = DiskStatus \/ DiskStatus = runStatus
    BY <2>1 DEF DiskStatus
  <2> HIDE DEF Starting, Spawned, Failed, Closing, Closed
  <2> QED
    BY <2>1, <2>2, <2>3, <2>4, <2>5
<1>18. ASSUME NEW r \in Runs, WorkerExits(r) PROVE LiveRunInv'
  BY <1>18 DEF WorkerExits, DiskStatus
<1>19. CASE Crash \/ ShutdownExit
  BY <1>19 DEF Crash, ShutdownExit, ProcessGone
<1>20. CASE Boot
  BY <1>20 DEF Boot, DownInv, Alive
<1> HIDE DEF HandInv, LiveRunInv
<1> QED
  BY QuietOrLoud, <1>1, <1>2, <1>3, <1>4, <1>5, <1>6, <1>7, <1>8, <1>9, <1>10,
     <1>11, <1>12, <1>13, <1>14, <1>15, <1>16, <1>17, <1>18, <1>19, <1>20
  DEF Loud, RunStep, ReapStep, JobStep

\* No step takes a RUNNING row out of the daemon's hands unrecorded.
LEMMA StepOwned ==
  ASSUME TypesInv, HandInv, RowInv, DownInv, RunningRowIsOwned, [Next]_vars
  PROVE  RunningRowIsOwned'
<1>0. /\ thRun \in [Threads -> Runs \cup {NoRun}] /\ NoRun \notin Runs
      /\ runStatus \in [Runs -> RunStatus \cup {Absent}]
      /\ Tick \in Threads /\ Absent # "RUNNING"
      /\ \A u \in Threads : Starting(u) \/ Spawned(u) \/ Failed(u) \/ Closing(u) \/ Closed(u) =>
           thRun[u] \in Runs
      /\ \A u \in Threads : Closing(u) \/ Closed(u) => thRun[u] \in running
  BY RunOfThread DEF TypesInv, TypeOK, Threads, NoRun, Runs, Absent
<1> USE <1>0
<1> USE DEF RunningRowIsOwned, Goto, Leave, GoLock, Alive, HandInv, Starting, Spawned, Failed,
            Closing, Closed, InLockTable,
            db, frame, conn, history, jobRows, runRows, memory, locals
<1>1. CASE Quiet
  <2>1. \A t \in Threads : thRun'[t] = thRun[t]
    BY <1>1 DEF Quiet
  <2> QED
    BY <1>1, <2>1 DEF Quiet
<1>2. ASSUME NEW t \in Threads, ClaimBump(t) \/ InsertFails(t) \/ Commit(t) \/ Spawn(t)
      PROVE  RunningRowIsOwned'
  BY <1>2 DEF ClaimBump, InsertFails, Commit, Spawn
<1>3. ASSUME NEW t \in Threads, Reserve(t) PROVE RunningRowIsOwned'
  BY <1>3 DEF Reserve
<1>4. ASSUME NEW t \in Threads, Rollback(t) PROVE RunningRowIsOwned'
  <2>1. /\ thRun' = [thRun EXCEPT ![t] = NoRun] /\ pc[t] \in {"commit", "rollback"}
        /\ runStatus' = saved.runStatus /\ UNCHANGED <<mode, running, stranded>>
        /\ unsettled' = unsettled \cup TakenBack
    BY <1>4 DEF Rollback, Restored
  <2>2. txn = t /\ txn # NoThread /\ DiskStatus = saved.runStatus
    BY <2>1, ThreadAssumption DEF TypesInv, ThreadInv, InTxn, DiskStatus, Threads
  <2>3. thRun[t] # NoRun => saved.runStatus[thRun[t]] = Absent
    <3>1. thRun[t] # NoRun => pc[t] = "commit"
      BY <2>1
    <3>2. thRun[t] # NoRun => thRun[t] = NextOnDisk /\ NextOnDisk \in Nat /\ thRun[t] \in Runs
      BY <3>1, RunsOnDisk
    <3> QED
      BY <2>2, <3>2 DEF RowInv
  <2> QED
    BY <2>1, <2>2, <2>3 DEF TakenBack
<1>5. ASSUME NEW t \in Threads, Register(t) PROVE RunningRowIsOwned'
  BY <1>5 DEF Register, StartReturns
<1>6. ASSUME NEW t \in Threads, FailRow(t) PROVE RunningRowIsOwned'
  BY <1>6 DEF FailRow, CloseRow
<1>7. ASSUME NEW t \in Threads, StartRaises(t) PROVE RunningRowIsOwned'
  BY <1>7 DEF StartRaises, Raises
<1>8. ASSUME NEW t \in Threads, Unclaim(t) PROVE RunningRowIsOwned'
  <2>1. runStatus[thRun[t]] # "RUNNING" \/ thRun[t] = NoRun \/ thRun[t] \in unsettled
    BY <1>8 DEF Unclaim, Acquires, RowInv
  <2> QED
    BY <1>8, <2>1 DEF Unclaim, StartReturns, Raises
<1>9. CASE FinishRow
  BY <1>9 DEF FinishRow, CloseRow
<1>10. CASE FinishRaises
  BY <1>10 DEF FinishRaises, Raises, Acquires
<1>11. CASE FinishPop
  BY <1>11 DEF FinishPop, RowInv
<1>12. ASSUME NEW r \in Runs, ReapTimeout(r) \/ ReapExit(r) PROVE RunningRowIsOwned'
  BY <1>12 DEF ReapTimeout, ReapExit, GoFinish, TypesInv, TypeOK
<1>13. ASSUME NEW t \in Ctl, StopSignal(t) \/ DeletePop(t)
       PROVE  RunningRowIsOwned'
  BY <1>13 DEF StopSignal, DeletePop, Acquires, Threads
<1>14. ASSUME NEW t \in Ctl, DeleteRow(t) PROVE RunningRowIsOwned'
  BY <1>14 DEF DeleteRow, Threads
<1>15. ASSUME NEW r \in Runs, WorkerExits(r) PROVE RunningRowIsOwned'
  BY <1>15 DEF WorkerExits
<1>16. CASE Crash \/ ShutdownExit
  BY <1>16 DEF Crash, ShutdownExit, ProcessGone
<1>17. CASE Boot
  BY <1>17 DEF Boot
<1> HIDE DEF RunningRowIsOwned
<1> QED
  BY QuietOrLoud, <1>1, <1>2, <1>3, <1>4, <1>5, <1>6, <1>7, <1>8, <1>9, <1>10,
     <1>11, <1>12, <1>13, <1>14, <1>15, <1>16, <1>17
  DEF Loud, RunStep, ReapStep, JobStep

\* No step leaves the counter of a job behind, unless it cuts a start of it off.
LEMMA StepLeak ==
  ASSUME TypesInv, LockInv, ClaimInv, HandInv, NoLeakedClaim, [Next]_vars
  PROVE  NoLeakedClaim'
<1>0. /\ thJob \in [Threads -> JobIds \cup {NoJob}] /\ NoJob \notin JobIds
      /\ claims \in [JobIds -> Nat] /\ pc \in [Threads -> Pcs] /\ why \in [Threads -> Reasons]
      /\ Tick \in Threads
      /\ running \subseteq Runs /\ stranded \subseteq Runs
  BY DEF TypesInv, TypeOK, Threads, NoJob, JobIds
<1> USE <1>0
<1> USE DEF NoLeakedClaim, Claimants, Watched, CutOff, Goto, Leave, GoLock, HoldsClaim, Claimed,
            GivingBack, db, frame, conn, history, jobRows, runRows, memory, locals
<1>1. CASE Quiet
  BY <1>1 DEF Quiet, runRows
<1>2. ASSUME NEW t \in Threads, ClaimBump(t) PROVE NoLeakedClaim'
  BY <1>2 DEF ClaimBump
<1>3. ASSUME NEW t \in Threads, Reserve(t) PROVE NoLeakedClaim'
  <2>1. \A r \in running \cup stranded : r # nextRun
    BY RunsOnDisk DEF Runs
  <2> QED
    BY <1>3, <2>1 DEF Reserve
<1>4. ASSUME NEW t \in Threads,
             InsertFails(t) \/ Commit(t) \/ Spawn(t) \/ FailRow(t)
      PROVE  NoLeakedClaim'
  BY <1>4 DEF InsertFails, Commit, Spawn, FailRow
<1>5. ASSUME NEW t \in Threads, Rollback(t) PROVE NoLeakedClaim'
  <2>1. /\ pc' = [pc EXCEPT ![t] = "get_lock"] /\ why' = [why EXCEPT ![t] = "unclaim_raise"]
        /\ pc[t] \in {"commit", "rollback"} /\ runJob' = saved.runJob
        /\ UNCHANGED <<thJob, claims, running, stranded, dropped>>
    BY <1>5 DEF Rollback, Restored
  <2>2. txn = t /\ txn # NoThread
    BY <2>1, ThreadAssumption DEF TypesInv, ThreadInv, InTxn, Threads
  <2>3. \A r \in running \cup stranded : r \in Runs /\ runJob'[r] = runJob[r]
    BY <2>1, <2>2, RunsOnDisk DEF TypesInv, SavedInv, NextOnDisk
  <2>4. \A u \in Threads : HoldsClaim(u)' <=> HoldsClaim(u)
    BY <2>1
  <2> HIDE DEF HoldsClaim
  <2> QED
    BY <2>1, <2>3, <2>4
<1>6. ASSUME NEW t \in Threads, Register(t) PROVE NoLeakedClaim'
  <2>1. runJob[thRun[t]] = thJob[t]
    BY <1>6, RunOfThread DEF Register, Spawned
  <2> QED
    BY <1>6, <2>1 DEF Register, StartReturns
<1>7. ASSUME NEW t \in Threads, StartRaises(t) PROVE NoLeakedClaim'
  <2>1. runJob[thRun[t]] = thJob[t]
    BY <1>7, RunOfThread DEF StartRaises, Spawned, Starting, Failed
  <2> QED
    BY <1>7, <2>1 DEF StartRaises, Raises
<1>8. ASSUME NEW t \in Threads, Unclaim(t) PROVE NoLeakedClaim'
  <2>1. HoldsClaim(t) /\ UNCHANGED <<running, runJob, stranded, dropped>>
    BY <1>8 DEF Unclaim, Acquires
  <2>2. thJob[t] \in JobIds /\ (thJob[t] \notin dropped => claims'[thJob[t]] = 0)
    BY <1>8, <2>1 DEF Unclaim, Decremented, ClaimInv, TypesInv, ThreadInv
  <2>3. \A j \in JobIds : j # thJob[t] => claims'[j] = claims[j]
    BY <1>8 DEF Unclaim, Decremented
  <2>4. \A u \in Threads \ {t} : (HoldsClaim(u) => HoldsClaim(u)') /\ thJob'[u] = thJob[u]
    BY <1>8 DEF Unclaim, StartReturns, Raises
  <2> HIDE DEF HoldsClaim
  <2> QED
    BY <2>1, <2>2, <2>3, <2>4
<1>9. CASE FinishRow \/ FinishRaises
  BY <1>9 DEF FinishRow, FinishRaises, Raises, Acquires
<1>10. CASE FinishPop
  <2>1. thRun[Tick] \in running /\ runJob[thRun[Tick]] = thJob[Tick] /\ thJob[Tick] \in JobIds
    BY <1>10, RunOfThread DEF FinishPop, Closed
  <2>2. thJob[Tick] \notin dropped => claims'[thJob[Tick]] = 0
    BY <1>10, <2>1 DEF FinishPop, Decremented, ClaimInv
  <2>3. \A j \in JobIds : j # thJob[Tick] => claims'[j] = claims[j]
    BY <1>10 DEF FinishPop, Decremented
  <2>4. \A u \in Threads : HoldsClaim(u) => u # Tick /\ HoldsClaim(u)' /\ thJob'[u] = thJob[u]
    BY <1>10 DEF FinishPop
  <2>5. running' = running \ {thRun[Tick]} /\ UNCHANGED <<runJob, stranded, dropped>>
    BY <1>10 DEF FinishPop
  <2> HIDE DEF HoldsClaim
  <2> QED
    BY <2>1, <2>2, <2>3, <2>4, <2>5
<1>11. ASSUME NEW r \in Runs, ReapTimeout(r) \/ ReapExit(r) PROVE NoLeakedClaim'
  BY <1>11 DEF ReapTimeout, ReapExit, GoFinish
<1>12. ASSUME NEW t \in Ctl, StopSignal(t) PROVE NoLeakedClaim'
  BY <1>12 DEF StopSignal, Acquires, Threads
<1>13. ASSUME NEW t \in Ctl, DeleteRow(t) PROVE NoLeakedClaim'
  BY <1>13 DEF DeleteRow, Threads
<1>14. ASSUME NEW t \in Ctl, DeletePop(t) PROVE NoLeakedClaim'
  BY <1>14 DEF DeletePop, Threads
<1>15. ASSUME NEW r \in Runs, WorkerExits(r) PROVE NoLeakedClaim'
  BY <1>15 DEF WorkerExits
<1>16. CASE Crash \/ ShutdownExit
  BY <1>16 DEF Crash, ShutdownExit, ProcessGone
<1>17. CASE Boot
  BY <1>17 DEF Boot
<1> HIDE DEF NoLeakedClaim
<1> QED
  BY QuietOrLoud, <1>1, <1>2, <1>3, <1>4, <1>5, <1>6, <1>7, <1>8, <1>9, <1>10,
     <1>11, <1>12, <1>13, <1>14, <1>15, <1>16, <1>17
  DEF Loud, RunStep, ReapStep, JobStep

\* A settled outcome survives every step, or its job is deleted.
LEMMA StepOutcome ==
  ASSUME TypesInv, HandInv, RowInv, [Next]_vars, NEW r \in Runs, Settled(r)
  PROVE  runStatus'[r] \in {runStatus[r], Absent}
<1>0. /\ runStatus \in [Runs -> RunStatus \cup {Absent}] /\ Absent \notin Terminal
      /\ "RUNNING" \notin Terminal /\ runStatus[r] \in Terminal /\ r \notin unsettled
      /\ Tick \in Threads /\ DiskStatus[r] = runStatus[r]
  BY DEF TypesInv, TypeOK, Threads, Absent, Terminal, RunStatus, Settled, DiskStatus, Kept,
         Tables
<1>1. \A t \in Threads : thRun[t] # NoRun => thRun[t] \in Runs
  BY RunOfThread
<1> USE <1>0 DEF runRows, db
<1>2. CASE Quiet
  BY <1>2 DEF Quiet
<1>3. ASSUME NEW t \in Threads, Reserve(t)
      PROVE  runStatus'[r] \in {runStatus[r], Absent}
  <2>1. nextRun # r
    BY RunsOnDisk DEF RowInv
  <2> QED
    BY <1>3, <2>1 DEF Reserve
<1>4. ASSUME NEW t \in Threads, Rollback(t)
      PROVE  runStatus'[r] = runStatus[r]
  <2>1. txn # NoThread
    BY <1>4, ThreadAssumption DEF Rollback, TypesInv, ThreadInv, InTxn, Threads
  <2> QED
    BY <1>4, <2>1 DEF Rollback, Restored, DiskStatus
<1>5. ASSUME NEW t \in Threads, FailRow(t)
      PROVE  runStatus'[r] \in {runStatus[r], Absent}
  <2>1. thRun[t] # r
    BY <1>5 DEF FailRow, RowInv, Starting, Open
  <2> QED
    BY <1>5, <2>1 DEF FailRow, CloseRow
<1>6. ASSUME NEW t \in Threads,
             \/ ClaimBump(t) \/ InsertFails(t) \/ Commit(t) \/ Spawn(t) \/ Register(t)
             \/ StartRaises(t) \/ Unclaim(t)
      PROVE  runStatus' = runStatus
  BY <1>6 DEF ClaimBump, InsertFails, Commit, Spawn, Register, StartRaises, Unclaim
<1>7. CASE FinishRow
  <2>1. Closing(Tick) /\ ~Closed(Tick)
    BY <1>7 DEF FinishRow, Acquires, Closing, Closed, InLockTable
  <2>2. thRun[Tick] # r
    BY <2>1, RunOfThread DEF RowInv, Open
  <2> QED
    BY <1>7, <2>2 DEF FinishRow, CloseRow
<1>8. CASE FinishRaises \/ FinishPop \/ \E q \in Runs : ReapTimeout(q) \/ ReapExit(q)
  BY <1>8 DEF FinishRaises, FinishPop, ReapTimeout, ReapExit, GoFinish
<1>9. ASSUME NEW t \in Ctl, JobStep(t)
      PROVE  runStatus'[r] \in {runStatus[r], Absent}
  BY <1>9 DEF JobStep, StopSignal, DeleteRow, DeletePop
<1>10. CASE Boot
  BY <1>10 DEF Boot
<1>11. CASE Crash \/ ShutdownExit
  BY <1>11 DEF Crash, ShutdownExit, ProcessGone, Restored, Kept, Tables, DiskStatus
<1>12. CASE \E q \in Runs : WorkerExits(q)
  BY <1>12 DEF WorkerExits
<1> QED
  BY QuietOrLoud, <1>2, <1>3, <1>4, <1>5, <1>6, <1>7, <1>8, <1>9, <1>10, <1>11, <1>12
  DEF Loud, RunStep, ReapStep

-----------------------------------------------------------------------------
(* Capacity *)

\* The sets that are counted are finite.
LEMMA CountedSets ==
  ASSUME IsFiniteSet(Ctl), TypesInv
  PROVE  /\ IsFiniteSet(Threads) /\ Cardinality(Threads) \in Nat
         /\ IsFiniteSet(running) /\ Cardinality(running) \in Nat
         /\ IsFiniteSet(Admitted) /\ Cardinality(Admitted) \in Nat
         /\ Cardinality(Admitted) <= Cardinality(Threads)
<1>1. IsFiniteSet(Threads)
  BY FS_AddElement DEF Threads
<1>2. IsFiniteSet(Runs) /\ running \in SUBSET Runs
  BY FS_Interval, BoundsAssumption DEF Runs, TypesInv, TypeOK
<1>3. Admitted \in SUBSET Threads
  BY DEF Admitted
<1> QED
  BY <1>1, <1>2, <1>3, FS_Subset, FS_CardinalityType

\* A step that registers nothing, and admits a thread only if there is room,
\* keeps the bound.
LEMMA RoomKept ==
  ASSUME IsFiniteSet(Ctl), NEW k \in Nat, TypesInv, TypesInv', RoomInv(k), StartsAtOnce(k)',
         running' \subseteq running, Admitted' \subseteq Admitted \/ HasRoom
  PROVE  RoomInv(k)'
<1>1. Cardinality(running') <= Cardinality(running)
  BY CountedSets, FS_Subset
<1>2. Cardinality(running') \in Nat /\ Cardinality(running) \in Nat
  BY CountedSets, FS_Subset, FS_CardinalityType
<1>3. /\ Cardinality(Admitted') \in Nat /\ Cardinality(Admitted) \in Nat
      /\ Cardinality(Admitted') <= k
  <2>1. IsFiniteSet(Threads) /\ Admitted' \in SUBSET Threads
    BY CountedSets DEF Admitted
  <2> QED
    BY <2>1, CountedSets, FS_Subset, FS_CardinalityType DEF StartsAtOnce
<1>4. CASE Admitted' \subseteq Admitted
  <2>1. Cardinality(Admitted') <= Cardinality(Admitted)
    BY <1>4, CountedSets, FS_Subset
  <2> QED
    BY <1>1, <1>2, <1>3, <2>1, BoundsAssumption DEF RoomInv
<1>5. CASE HasRoom
  BY <1>1, <1>2, <1>3, <1>5, BoundsAssumption DEF RoomInv, HasRoom
<1> QED
  BY <1>4, <1>5

\* Every step keeps the bound on admitted and registered runs.
LEMMA StepRoom ==
  ASSUME IsFiniteSet(Ctl), NEW k \in Nat, TypesInv, TypesInv', HandInv, RoomInv(k),
         StartsAtOnce(k)', [Next]_vars
  PROVE  RoomInv(k)'
<1>0. /\ pc \in [Threads -> Pcs] /\ why \in [Threads -> Reasons] /\ Tick \in Threads
  BY DEF TypesInv, TypeOK, Threads
<1> DEFINE Shrinks == running' \subseteq running /\ (Admitted' \subseteq Admitted \/ HasRoom)
<1> USE <1>0
<1> USE DEF Goto, Leave, GoLock, Admitted, Admit, Claimed, GivingBack, InLockTable,
            frame, memory, locals
<1>1. ASSUME Quiet PROVE Shrinks
  BY <1>1 DEF Quiet
<1>2. ASSUME NEW t \in Threads, Register(t) PROVE RoomInv(k)'
  <2>1. Admitted' = Admitted \ {t} /\ t \in Admitted
    BY <1>2 DEF Register, StartReturns
  <2>2. running' = running \cup {thRun[t]}
    BY <1>2 DEF Register
  <2>3. /\ Cardinality(Admitted') = Cardinality(Admitted) - 1
        /\ Cardinality(running') <= Cardinality(running) + 1
        /\ Cardinality(running') \in Nat
    <3> HIDE DEF Admitted
    <3>1. Cardinality(Admitted \ {t}) = Cardinality(Admitted) - 1
      BY <2>1, CountedSets, FS_RemoveElement
    <3>2. /\ IsFiniteSet(running \cup {thRun[t]})
          /\ Cardinality(running \cup {thRun[t]}) <= Cardinality(running) + 1
      <4>1. IsFiniteSet(running) /\ Cardinality(running) \in Nat
        BY CountedSets
      <4>2. /\ IsFiniteSet(running \cup {thRun[t]})
            /\ \/ Cardinality(running \cup {thRun[t]}) = Cardinality(running)
               \/ Cardinality(running \cup {thRun[t]}) = Cardinality(running) + 1
        BY <4>1, FS_AddElement
      <4> QED
        BY <4>1, <4>2
    <3> QED
      BY <2>1, <2>2, <3>1, <3>2, FS_CardinalityType
  <2> HIDE DEF Admitted
  <2> QED
    BY <2>3, CountedSets, BoundsAssumption DEF RoomInv
<1>3. ASSUME NEW t \in Threads,
             \/ ClaimBump(t) \/ Reserve(t) \/ InsertFails(t) \/ Commit(t) \/ Rollback(t)
             \/ Spawn(t) \/ StartRaises(t) \/ FailRow(t) \/ Unclaim(t)
      PROVE  Shrinks
  BY <1>3
  DEF ClaimBump, Reserve, InsertFails, Commit, Rollback, Spawn, StartRaises, FailRow, Unclaim,
      StartReturns, Raises, Acquires
<1>4. ASSUME ReapStep PROVE Shrinks
  BY <1>4
  DEF ReapStep, FinishRow, FinishRaises, FinishPop, ReapTimeout, ReapExit, GoFinish, Raises,
      Acquires
<1>5. ASSUME NEW t \in Ctl, JobStep(t) PROVE Shrinks
  BY <1>5
  DEF JobStep, StopSignal, DeleteRow, DeletePop, Acquires, Threads
<1>6. ASSUME Boot \/ \E r \in Runs : WorkerExits(r) PROVE Shrinks
  BY <1>6 DEF Boot, WorkerExits
<1>7. ASSUME Crash \/ ShutdownExit PROVE Shrinks
  BY <1>7 DEF Crash, ShutdownExit, ProcessGone
<1> HIDE DEF Admitted
<1> QED
  BY QuietOrLoud, RoomKept, <1>1, <1>2, <1>3, <1>4, <1>5, <1>6, <1>7 DEF Loud, RunStep

-----------------------------------------------------------------------------
(* The refinement of JobRuns *)

\* A step that changes nothing the promise speaks of.
Stutters ==
  UNCHANGED <<runJob, runStatus, InFlight, txn, saved, stranded, unsettled>> /\ (Alive' <=> Alive)

\* Such a step is no step of the promise.
LEMMA StutterRefines ==
  ASSUME Stutters
  PROVE  UNCHANGED Promise!jobVars
<1>1. Alive' = Alive /\ SavedRuns' = SavedRuns
  BY DEF Stutters, Alive, SavedRuns
<1> QED
  BY <1>1 DEF Stutters, Promise!jobVars

\* Only the run of its holder is in flight of a job whose claim is held.
LEMMA FlightOfJob ==
  ASSUME DeletionsStand, TypesInv, HandInv, ClaimInv, NEW j \in Rows,
         NEW t \in Threads, HoldsClaim(t), thJob[t] = j, thRun[t] = NoRun
  PROVE  \A r \in InFlight \cup stranded : runJob[r] # j
<1>1. j \in JobIds /\ j \notin dropped
  BY DEF DeletionsStand, Rows
<1>2. /\ Claimants(j) = {t} /\ Watched(j) \cup CutOff(j) = {}
  BY <1>1 DEF ClaimInv, SingleFlight, Claimants
<1>3. \A r \in running \cup stranded : runJob[r] # j
  BY <1>2 DEF Watched, CutOff
<1>4. ASSUME NEW u \in Threads, thRun[u] # NoRun, runJob[thRun[u]] = j
      PROVE  FALSE
  <2>1. thRun[u] \notin running
    BY <1>3, <1>4
  <2>2. HoldsClaim(u) /\ thJob[u] = j
    BY <2>1, <1>4, RunOfThread DEF HandInv
  <2> QED
    BY <2>2, <1>2, <1>4 DEF Claimants
<1> QED
  BY <1>3, <1>4 DEF InFlight

\* Every step of the daemon is a step of the promise or none of it.
LEMMA StepRefines ==
  ASSUME NamesAreUnique, DeletionsStand, TypesInv, LockInv, ClaimInv,
         HandInv, RowInv, DownInv, LiveRunInv, [Next]_vars
  PROVE  [Promise!Next]_(Promise!jobVars)
<1>0. /\ thRun \in [Threads -> Runs \cup {NoRun}] /\ running \subseteq Runs
      /\ pc \in [Threads -> Pcs] /\ why \in [Threads -> Reasons]
      /\ thJob \in [Threads -> JobIds \cup {NoJob}]
      /\ runStatus \in [Runs -> RunStatus \cup {Absent}]
      /\ runJob \in [Runs -> JobIds \cup {NoJob}]
      /\ Tick \in Threads /\ NoRun \notin Runs /\ Rows \subseteq JobIds
      /\ \A u \in Threads : Starting(u) \/ Spawned(u) \/ Failed(u) \/ Closing(u) \/ Closed(u) =>
           thRun[u] # NoRun /\ thRun[u] \in Runs
      /\ NoThread \notin Threads
  BY RunOfThread, ThreadAssumption
  DEF TypesInv, TypeOK, Threads, NoRun, Runs, Rows, HandInv
<1>00. \A u \in Threads : pc[u] # "idle" => Alive
  BY DEF DownInv
<1> USE <1>0 DEF Goto, Leave, GoLock, InFlight, db, frame, conn, history, jobRows, runRows,
                 memory, locals
<1>1. CASE Quiet
  <2>1. Stutters
    BY <1>1 DEF Quiet, Stutters
  <2> QED
    BY <2>1, StutterRefines
<1>2. ASSUME NEW t \in Threads, ClaimBump(t) \/ Spawn(t)
      PROVE  UNCHANGED Promise!jobVars
  <2>1. Stutters
    BY <1>2 DEF ClaimBump, Spawn, Stutters, Alive
  <2> QED
    BY <2>1, StutterRefines
<1>3. ASSUME NEW t \in Threads, Reserve(t) PROVE Promise!Next
  <2>1. /\ nextRun \in Runs /\ thJob[t] \in Rows /\ pc[t] = "reserve" /\ mode' = mode
        /\ runJob' = [runJob EXCEPT ![nextRun] = thJob[t]]
        /\ runStatus' = [runStatus EXCEPT ![nextRun] = "RUNNING"]
        /\ thRun' = [thRun EXCEPT ![t] = nextRun]
        /\ txn = NoThread /\ txn' = t /\ UNCHANGED <<running, stranded, unsettled>>
    BY <1>3 DEF Reserve
  <2>2. HoldsClaim(t) /\ thRun[t] = NoRun
    BY <2>1
    DEF HoldsClaim, Claimed, HandInv, Starting, Spawned, Failed, Closing, Closed, InLockTable
  <2>3. \A r \in InFlight \cup stranded : runJob[r] # thJob[t]
    BY <2>1, <2>2, FlightOfJob
  <2>4. Alive /\ Alive' = Alive
    BY <2>1, <1>00 DEF Alive
  <2>5. runJob[nextRun] = NoJob
    BY <2>1, RunsOnDisk DEF RowInv
  <2>6. InFlight' = InFlight \cup {nextRun}
    BY <2>1, <2>2
  <2>7. SavedRuns = {} /\ SavedRuns' = {[jobOf |-> runJob, outcome |-> runStatus]}
    BY <1>3, <2>1 DEF Reserve, Tables, SavedRuns
  <2>8. ASSUME NEW j \in JobIds, NEW r \in Runs, j = thJob[t], r = nextRun
        PROVE  Promise!Next
    <3>1. Promise!Begin(j, r)
      BY <2>1, <2>3, <2>4, <2>5, <2>6, <2>7, <2>8 DEF Promise!Begin, Promise!Records
    <3> QED
      BY ONLY <3>1, <2>8, Zenon DEF Promise!Next
  <2> QED
    BY <2>1, <2>8
<1>4. ASSUME NEW t \in Threads, InsertFails(t) PROVE Promise!Next
  <2>1. /\ pc[t] = "reserve" /\ mode' = mode /\ txn = NoThread /\ txn' = t
        /\ UNCHANGED <<runJob, runStatus, thRun, running, stranded, unsettled>>
    BY <1>4 DEF InsertFails, DbFault
  <2>2. Alive /\ Alive' = Alive /\ InFlight' = InFlight
    BY <2>1, <1>00 DEF Alive
  <2>3. SavedRuns = {} /\ SavedRuns' = {[jobOf |-> runJob, outcome |-> runStatus]}
    BY <1>4, <2>1 DEF InsertFails, Tables, SavedRuns
  <2>4. Promise!TryBegin
    BY <2>1, <2>2, <2>3 DEF Promise!TryBegin, Promise!Records
  <2> QED
    BY <2>4 DEF Promise!Next
<1>5. ASSUME NEW t \in Threads, Commit(t) PROVE Promise!Next
  <2>1. /\ pc[t] = "commit" /\ mode' = mode /\ txn' = NoThread
        /\ UNCHANGED <<runJob, runStatus, thRun, running, stranded, unsettled>>
    BY <1>5 DEF Commit
  <2>2. txn = t
    BY <2>1, RunsOnDisk
  <2>3. Alive' = Alive /\ InFlight' = InFlight /\ SavedRuns' = {} /\ SavedRuns # {}
    <3>1. SavedRuns = {[jobOf |-> saved.runJob, outcome |-> saved.runStatus]}
      BY <2>2 DEF SavedRuns
    <3>2. SavedRuns # {}
      BY <3>1, Zenon
    <3> QED
      BY <2>1, <3>2 DEF Alive, SavedRuns
  <2>4. Promise!Keep
    BY <2>1, <2>3 DEF Promise!Keep
  <2> QED
    BY <2>4 DEF Promise!Next
<1>6. ASSUME NEW t \in Threads, Rollback(t) PROVE Promise!Next
  <2>1. /\ thRun' = [thRun EXCEPT ![t] = NoRun] /\ pc[t] \in {"commit", "rollback"}
        /\ txn' = NoThread /\ UNCHANGED <<mode, running, stranded>>
        /\ runJob' = saved.runJob /\ runStatus' = saved.runStatus
        /\ unsettled' = unsettled \cup TakenBack
    BY <1>6 DEF Rollback, Restored
  <2>2. txn = t /\ txn # NoThread
    BY <2>1 DEF TypesInv, ThreadInv, InTxn
  <2>3. Alive /\ Alive' = Alive /\ SavedRuns' = {}
    BY <2>1, <1>00 DEF Alive, SavedRuns
  <2> DEFINE old == [jobOf |-> saved.runJob, outcome |-> saved.runStatus]
  <2>4. /\ SavedRuns = {old} /\ old.jobOf = saved.runJob /\ old.outcome = saved.runStatus
    BY <2>2 DEF SavedRuns
  <2>5. ASSUME NEW r \in InFlight, r # thRun[t] PROVE r \in Runs /\ saved.runJob[r] # NoJob
    <3>1. r \in Runs /\ r < NextOnDisk
      <4>1. CASE r \in running
        BY <4>1, RunsOnDisk
      <4>2. ASSUME NEW u \in Threads, r = thRun[u], r # NoRun PROVE r \in Runs /\ r < NextOnDisk
        BY <4>2, <2>5, <2>2, RunsOnDisk
      <4> QED
        BY <4>1, <4>2, <2>5
    <3>2. runJob[r] \in JobIds
      <4>1. CASE r \in running
        BY <4>1 DEF TypesInv, RunInv
      <4>2. ASSUME NEW u \in Threads, r = thRun[u], r # NoRun, r \notin running
            PROVE runJob[r] \in JobIds
        BY <4>2, RunOfThread DEF HandInv
      <4> QED
        BY <4>1, <4>2, <2>5
    <3>3. saved.runJob[r] = runJob[r]
      BY <3>1, <2>2 DEF TypesInv, SavedInv, NextOnDisk
    <3> QED
      BY <3>1, <3>2, <3>3 DEF NoJob, JobIds
  <2>6. thRun[t] \in InFlight => saved.runJob[thRun[t]] = NoJob /\ thRun[t] \notin running
    <3>1. thRun[t] \in InFlight => thRun[t] # NoRun
      OBVIOUS
    <3>2. thRun[t] # NoRun => pc[t] = "commit" /\ thRun[t] \in Runs
      BY <2>1 DEF HandInv, Starting, Spawned, Failed, Closing, Closed, InLockTable
    <3>3. thRun[t] # NoRun => thRun[t] = NextOnDisk /\ NextOnDisk \in Nat
      BY <3>2, RunsOnDisk
    <3>4. thRun[t] # NoRun => thRun[t] \notin running
      BY <3>2 DEF HandInv, Closing, Closed, InLockTable
    <3> QED
      BY <3>1, <3>2, <3>3, <3>4, <2>2 DEF RowInv
  <2>7. InFlight' = {r \in InFlight : saved.runJob[r] # NoJob}
    <3>1. InFlight' = InFlight \ {thRun[t]}
      <4>1. running' = running /\ \A u \in Threads \ {t} : thRun'[u] = thRun[u]
        BY <2>1
      <4>2. \A u \in Threads \ {t} : thRun[u] # NoRun => thRun[u] # thRun[t]
        BY DEF HandInv
      <4>3. thRun'[t] = NoRun /\ (thRun[t] \in running => thRun[t] \notin InFlight)
        BY <2>1, <2>6
      <4> QED
        BY <4>1, <4>2, <4>3
    <3> HIDE DEF InFlight
    <3> QED
      BY <3>1, <2>5, <2>6
  <2> HIDE DEF InFlight, old
  <2>8. Promise!TakeBack
    BY <2>1, <2>3, <2>4, <2>7 DEF Promise!TakeBack, TakenBack
  <2> QED
    BY <2>8 DEF Promise!Next
<1>7. ASSUME NEW t \in Threads, Register(t) PROVE UNCHANGED Promise!jobVars
  <2>1. thRun[t] \in Runs
    BY <1>7, RunOfThread DEF Register, Spawned
  <2>2. Stutters
    BY <1>7, <2>1 DEF Register, StartReturns, Stutters, Alive
  <2> QED
    BY <2>2, StutterRefines
<1>8. ASSUME NEW t \in Threads, StartRaises(t) PROVE Promise!Next
  <2>1. /\ pc[t] \in {"prepare", "register", "fail_row", "fail_job"}
        /\ thRun' = [thRun EXCEPT ![t] = NoRun] /\ stranded' = stranded \cup {thRun[t]}
        /\ UNCHANGED <<mode, runJob, runStatus, running, txn, saved, unsettled>>
    BY <1>8 DEF StartRaises, Raises
  <2>2. Starting(t) \/ Spawned(t) \/ Failed(t)
    BY <2>1 DEF Starting, Spawned, Failed
  <2>3. thRun[t] # NoRun /\ thRun[t] \in Runs /\ thRun[t] \notin running
    BY <2>1, <2>2 DEF HandInv, Closing, Closed, InLockTable
  <2>4. \A u \in Threads \ {t} : thRun[u] # thRun[t]
    BY <2>3 DEF HandInv
  <2>5. InFlight' = InFlight \ {thRun[t]} /\ thRun[t] \in InFlight
    BY <2>1, <2>3, <2>4
  <2>6. Alive' = Alive /\ SavedRuns' = SavedRuns
    BY <2>1 DEF Alive, SavedRuns
  <2>7. ASSUME NEW r \in Runs, r = thRun[t] PROVE Promise!Next
    <3>1. Promise!Strand(r)
      BY <2>1, <2>5, <2>6, <2>7 DEF Promise!Strand
    <3> QED
      BY ONLY <3>1, <2>7, Zenon DEF Promise!Next
  <2> QED
    BY <2>3, <2>7
<1>9. ASSUME NEW r \in Runs, r \in InFlight,
             runStatus[r] = "RUNNING" \/ (runStatus[r] # Absent /\ r \in unsettled),
             NEW end \in {"OK", "FAILED", "TIMEOUT"},
             runStatus' = [runStatus EXCEPT ![r] = end],
             UNCHANGED <<mode, runJob, running, thRun, txn, saved, stranded, unsettled>>
      PROVE  Promise!Next
  <2>1. Alive' = Alive /\ InFlight' = InFlight /\ SavedRuns' = SavedRuns
    BY <1>9 DEF Alive, SavedRuns
  <2>2. Promise!Close(r)
    BY <1>9, <2>1 DEF Promise!Close, Promise!Ended, Absent
  <2> QED
    BY <2>2 DEF Promise!Next
<1>10. ASSUME NEW t \in Threads, FailRow(t) PROVE Promise!Next
  <2>1. thRun[t] \in Runs /\ runStatus[thRun[t]] = "RUNNING" /\ thRun[t] \in InFlight
    BY <1>10 DEF FailRow, Starting, LiveRunInv
  <2>2. runStatus' = [runStatus EXCEPT ![thRun[t]] = "FAILED"]
    BY <1>10, <2>1 DEF FailRow, CloseRow, Absent
  <2> QED
    BY <1>9, <1>10, <2>1, <2>2 DEF FailRow
<1>11. CASE FinishRow
  <2>1. Closing(Tick) /\ ~Closed(Tick)
    BY <1>11 DEF FinishRow, Acquires, Closing, Closed, InLockTable
  <2>2. thRun[Tick] \in running /\ runStatus[thRun[Tick]] # Absent
    BY <2>1, RunOfThread DEF LiveRunInv
  <2>3. runStatus[thRun[Tick]] = "RUNNING" \/ thRun[Tick] \in unsettled
    BY <2>1, <2>2 DEF RowInv, Open
  <2>4. verdict \in {"OK", "FAILED", "TIMEOUT"}
    BY <1>11 DEF FinishRow, Acquires, TypesInv, TypeOK, RunInv
  <2>5. runStatus' = [runStatus EXCEPT ![thRun[Tick]] = verdict]
    BY <1>11, <2>2 DEF FinishRow, CloseRow, Absent
  <2> QED
    BY <1>9, <1>11, <2>2, <2>3, <2>4, <2>5 DEF FinishRow
<1>12. CASE FinishRaises
  <2>1. /\ thRun' = [thRun EXCEPT ![Tick] = NoRun]
        /\ Closing(Tick) \/ Closed(Tick)
        /\ UNCHANGED <<mode, runJob, runStatus, running, txn, saved, stranded>>
    BY <1>12 DEF FinishRaises, Raises, Acquires, Closing, Closed, InLockTable
  <2>2. thRun[Tick] \in running
    BY <2>1, RunOfThread
  <2>3. InFlight' = InFlight /\ Alive' = Alive /\ SavedRuns' = SavedRuns
    BY <2>1, <2>2 DEF Alive, SavedRuns
  <2>4. CASE unsettled' = unsettled
    <3>1. Stutters
      BY <2>1, <2>3, <2>4 DEF Stutters
    <3> QED
      BY <3>1, StutterRefines
  <2>5. CASE unsettled' # unsettled
    <3>1. Closed(Tick) /\ unsettled' = unsettled \cup {thRun[Tick]} /\ thRun[Tick] \notin unsettled
      <4>1. pc[Tick] = "finish_job" /\ unsettled' = unsettled \cup {thRun[Tick]}
        BY <1>12, <2>5 DEF FinishRaises
      <4> QED
        BY <4>1, <2>5 DEF Closed
    <3>2. runStatus[thRun[Tick]] \in Terminal
      BY <2>2, <3>1 DEF LiveRunInv, RowInv, Terminal
    <3>3. Promise!CloseFails(thRun[Tick])
      BY <2>1, <2>2, <2>3, <3>1, <3>2 DEF Promise!CloseFails, Promise!Ended, Terminal, RunStatus
    <3> QED
      BY <2>2, <3>3 DEF Promise!Next
  <2> QED
    BY <2>4, <2>5
<1>13. ASSUME NEW r \in InFlight, runStatus[r] \in Terminal \/ r \in unsettled,
              InFlight' = InFlight \ {r},
              UNCHANGED <<mode, runJob, runStatus, txn, saved, stranded, unsettled>>
       PROVE  Promise!Next
  <2>1. Alive' = Alive /\ r \in Runs /\ SavedRuns' = SavedRuns
    BY <1>13 DEF Alive, SavedRuns
  <2>2. Promise!Release(r)
    BY <1>13, <2>1 DEF Promise!Release, Promise!Ended, Terminal, RunStatus
  <2> QED
    BY <2>1, <2>2 DEF Promise!Next
<1>14. ASSUME NEW t \in Threads, Unclaim(t) PROVE [Promise!Next]_(Promise!jobVars)
  <2>1. /\ thRun' = [thRun EXCEPT ![t] = NoRun]
        /\ UNCHANGED <<mode, runJob, runStatus, running, txn, saved, stranded, unsettled>>
    BY <1>14 DEF Unclaim, StartReturns, Raises
  <2>2. CASE thRun[t] = NoRun
    <3>1. Stutters
      BY <2>1, <2>2 DEF Stutters, Alive
    <3> QED
      BY <3>1, StutterRefines
  <2>3. CASE thRun[t] # NoRun
    <3>1. Failed(t) /\ ~Closing(t) /\ ~Closed(t)
      BY <1>14, <2>3
      DEF Unclaim, Acquires, HandInv, Starting, Spawned, Failed, Closing, Closed, InLockTable
    <3>2. /\ runStatus[thRun[t]] \in Terminal \/ thRun[t] \in unsettled
          /\ thRun[t] \notin running
      BY <3>1 DEF LiveRunInv, HandInv, RowInv, Terminal
    <3>3. InFlight' = InFlight \ {thRun[t]}
      BY <2>1, <2>3, <3>2 DEF HandInv
    <3> QED
      BY <1>13, <2>1, <2>3, <3>2, <3>3
  <2> QED
    BY <2>2, <2>3
<1>15. CASE FinishPop
  <2>1. Closed(Tick) /\ thRun[Tick] \in running
    BY <1>15, RunOfThread DEF FinishPop, Closed
  <2>2. runStatus[thRun[Tick]] \in Terminal \/ thRun[Tick] \in unsettled
    BY <2>1 DEF LiveRunInv, RowInv, Terminal
  <2>3. /\ running' = running \ {thRun[Tick]} /\ thRun' = [thRun EXCEPT ![Tick] = NoRun]
        /\ UNCHANGED <<mode, runJob, runStatus, txn, saved, stranded, unsettled>>
    BY <1>15 DEF FinishPop
  <2>4. \A u \in Threads : u # Tick => thRun[u] # thRun[Tick]
    BY <2>1 DEF HandInv
  <2>5. InFlight' = InFlight \ {thRun[Tick]}
    BY <2>1, <2>3, <2>4
  <2> QED
    BY <1>13, <2>1, <2>2, <2>3, <2>5
<1>16. ASSUME NEW r \in Runs, ReapTimeout(r) \/ ReapExit(r) PROVE UNCHANGED Promise!jobVars
  <2>1. r \in running /\ thRun' = [thRun EXCEPT ![Tick] = r]
        /\ UNCHANGED <<mode, runJob, runStatus, running, txn, saved, stranded, unsettled>>
    BY <1>16 DEF ReapTimeout, ReapExit, GoFinish, TypesInv, RunInv
  <2>2. thRun[Tick] = NoRun
    BY <1>16
    DEF ReapTimeout, ReapExit, HandInv, Starting, Spawned, Failed, Closing, Closed, InLockTable
  <2>3. Stutters
    BY <2>1, <2>2 DEF Stutters, Alive
  <2> QED
    BY <2>3, StutterRefines
<1>17. ASSUME NEW t \in Ctl, StopSignal(t) \/ DeletePop(t)
       PROVE  UNCHANGED Promise!jobVars
  <2>1. thRun[t] = NoRun /\ t \in Threads
    BY <1>17
    DEF StopSignal, DeletePop, Acquires, HandInv, Starting, Spawned, Failed, Closing, Closed,
        InLockTable, Threads
  <2>2. Stutters
    BY <1>17, <2>1 DEF StopSignal, DeletePop, Stutters, Alive
  <2> QED
    BY <2>2, StutterRefines
<1>18. ASSUME NEW t \in Ctl, DeleteRow(t) PROVE [Promise!Next]_(Promise!jobVars)
  <2>0. /\ t \in Threads /\ thRun[t] = NoRun /\ pc[t] = "delete_row"
        /\ UNCHANGED <<mode, runJob, running, txn, saved, stranded, unsettled>>
    BY <1>18
    DEF DeleteRow, Threads, HandInv, Starting, Spawned, Failed, Closing,
        Closed, InLockTable
  <2>1. CASE SameName(thJob[t]) = {}
    <3>1. Stutters
      BY <1>18, <2>0, <2>1 DEF DeleteRow, Stutters, Alive
    <3> QED
      BY <3>1, StutterRefines
  <2>2. CASE SameName(thJob[t]) # {}
    <3>1. PICK k \in SameName(thJob[t]) :
            /\ runStatus' = [r \in Runs |-> IF runJob[r] = k THEN Absent ELSE runStatus[r]]
            /\ thRun' = thRun
      BY <1>18, <2>2 DEF DeleteRow
    <3>2. /\ k \in JobIds
          /\ \A r \in running \cup stranded : runJob[r] # k
          /\ \A u \in Threads : thRun[u] # NoRun => runJob[thRun[u]] # k
      BY <2>0, DeletionSpares
    <3>3. \A r \in InFlight \cup stranded : runJob[r] # k
      BY <3>2
    <3>4. Alive /\ Alive' = Alive /\ InFlight' = InFlight /\ SavedRuns' = SavedRuns
      BY <2>0, <3>1, <1>00 DEF Alive, SavedRuns
    <3>5. Promise!Delete(k)
      BY <2>0, <3>1, <3>3, <3>4 DEF Promise!Delete, Absent
    <3> QED
      BY <3>2, <3>5 DEF Promise!Next
  <2> QED
    BY <2>1, <2>2
<1>19. ASSUME NEW r \in Runs, WorkerExits(r) PROVE UNCHANGED Promise!jobVars
  <2>1. Stutters
    BY <1>19 DEF WorkerExits, Stutters, Alive
  <2> QED
    BY <2>1, StutterRefines
<1>20. CASE Crash \/ ShutdownExit
  <2>1. /\ Alive /\ mode' = "down" /\ InFlight' = {} /\ txn' = NoThread
        /\ stranded' = {} /\ unsettled' = {}
        /\ runJob' = Kept.runJob /\ runStatus' = Kept.runStatus
    BY <1>20 DEF Crash, ShutdownExit, ProcessGone, Restored, Alive
  <2>2. Alive' = FALSE /\ SavedRuns' = {}
    BY <2>1 DEF Alive, SavedRuns
  <2>3. CASE txn = NoThread
    <3>1. SavedRuns = {} /\ UNCHANGED <<runJob, runStatus>>
      BY <2>1, <2>3 DEF SavedRuns, Kept, Tables
    <3>2. Promise!GoDown
      BY <2>1, <2>2, <3>1 DEF Promise!GoDown
    <3> QED
      BY <3>2 DEF Promise!Next
  <2>4. CASE txn # NoThread
    <3> DEFINE old == [jobOf |-> saved.runJob, outcome |-> saved.runStatus]
    <3>1. old \in SavedRuns /\ runJob' = old.jobOf /\ runStatus' = old.outcome
      BY <2>1, <2>4 DEF SavedRuns, Kept
    <3> HIDE DEF old
    <3>2. Promise!GoDown
      BY <2>1, <2>2, <3>1 DEF Promise!GoDown
    <3> QED
      BY <3>2 DEF Promise!Next
  <2> QED
    BY <2>3, <2>4
<1>21. CASE Boot
  <2>1. /\ ~Alive /\ mode' = "up" /\ InFlight' = InFlight
        /\ UNCHANGED <<runJob, txn, saved, stranded, unsettled>>
    BY <1>21 DEF Boot, Alive
  <2>2. Alive' = TRUE /\ SavedRuns' = SavedRuns
    BY <2>1 DEF Alive, SavedRuns
  <2>3. Promise!ComeBack
    BY <1>21, <2>1, <2>2 DEF Boot, Promise!ComeBack
  <2> QED
    BY <2>3 DEF Promise!Next
<1> QED
  BY QuietOrLoud, <1>1, <1>2, <1>3, <1>4, <1>5, <1>6, <1>7, <1>8, <1>10, <1>11, <1>12, <1>14,
     <1>15, <1>16, <1>17, <1>18, <1>19, <1>20, <1>21
  DEF Loud, RunStep, ReapStep, JobStep

-----------------------------------------------------------------------------
\* A worker that lives is never recorded as having ended, for every number of
\* threads, jobs and runs, whatever statements fail and whatever crashes,
\* rollbacks, deletions and lock races happen.
THEOREM LiveWorkerTheorem == Spec => []LiveWorkerNotRecordedAsEnded
<1> DEFINE IInv == TypesInv /\ HandInv /\ RowInv /\ DownInv
<1>1. Init => IInv
  BY InitTypes, InitRuns
<1>2. IInv /\ [Next]_vars => IInv'
  BY StepTypes, StepHand, StepRows, StepDown
<1>3. IInv => LiveWorkerNotRecordedAsEnded
  BY DEF RowInv, LiveWorkerNotRecordedAsEnded
<1> HIDE DEF IInv
<1> QED
  BY <1>1, <1>2, <1>3, PTL DEF Spec

\* The outcome of a run, once it is on disk and nothing went wrong in writing
\* it, is final, whatever reaps, failed starts, rollbacks, deletions, crashes
\* and restarts follow.
THEOREM OutcomeTheorem == Spec => OutcomeIsFinal
<1> DEFINE IInv == TypesInv /\ HandInv /\ RowInv /\ DownInv
           Final == \A r \in Runs : Settled(r) => runStatus'[r] \in {runStatus[r], Absent}
<1>1. Init => IInv
  BY InitTypes, InitRuns
<1>2. IInv /\ [Next]_vars => IInv'
  BY StepTypes, StepHand, StepRows, StepDown
<1>3. IInv /\ [Next]_vars => [Final]_vars
  BY StepOutcome
<1> HIDE DEF IInv, Final
<1>4. Spec => [][Final]_vars
  BY <1>1, <1>2, <1>3, PTL DEF Spec
<1> QED
  BY <1>4 DEF OutcomeIsFinal, Final

\* While the daemon is up every RUNNING row is in its hands, but for the starts
\* that a failing statement cut off and the outcomes that a ROLLBACK took back:
\* for every number of threads, jobs and runs, whatever statements fail, and
\* also when the lock table is raced.
THEOREM OwnedTheorem == Spec => []RunningRowIsOwned
<1> DEFINE IInv == TypesInv /\ HandInv /\ RowInv /\ DownInv /\ RunningRowIsOwned
<1>1. Init => IInv
  BY InitTypes, InitRuns DEF Init, RunningRowIsOwned, Alive
<1>2. IInv /\ [Next]_vars => IInv'
  BY StepTypes, StepHand, StepRows, StepDown, StepOwned
<1>3. IInv => RunningRowIsOwned
  OBVIOUS
<1> HIDE DEF IInv
<1> QED
  BY <1>1, <1>2, <1>3, PTL DEF Spec

\* The invariant behind the limit, for k starts at once.
RoomAll(k) == TypesInv /\ HandInv /\ RoomInv(k)

\* It holds as long as no more than k starts are in progress.
LEMMA RoomIsKept ==
  ASSUME IsFiniteSet(Ctl), NEW k \in Nat
  PROVE  /\ Init => RoomAll(k)
         /\ RoomAll(k) /\ StartsAtOnce(k)' /\ [Next]_vars => RoomAll(k)'
         /\ RoomAll(k) => CapacityWithin(k)
<1>1. Init => RoomAll(k)
  <2>1. ASSUME Init PROVE RoomInv(k)
    <3>1. running = {} /\ Admitted = {}
      BY <2>1 DEF Init, Admitted, Admit, Claimed, InLockTable
    <3> QED
      BY <3>1, FS_EmptySet, BoundsAssumption DEF RoomInv
  <2> QED
    BY <2>1, InitTypes, InitRuns DEF RoomAll
<1>2. RoomAll(k) /\ StartsAtOnce(k)' /\ [Next]_vars => RoomAll(k)'
  <2>1. TypesInv /\ [Next]_vars => TypesInv'
    BY StepTypes
  <2> QED
    BY <2>1, IsFiniteSet(Ctl), StepHand, StepRoom DEF RoomAll
<1>3. RoomAll(k) => CapacityWithin(k)
  <2> SUFFICES ASSUME TypesInv, RoomInv(k) PROVE CapacityWithin(k)
    BY DEF RoomAll
  <2> DEFINE Holders == {t \in Threads : HoldsClaim(t)}
  <2>1. Holders \in SUBSET Admitted
    BY DEF Admitted, Admit, HoldsClaim, InLockTable
  <2>2. Cardinality(Holders) <= Cardinality(Admitted) /\ Cardinality(Holders) \in Nat
    BY <2>1, CountedSets, FS_Subset, FS_CardinalityType
  <2> HIDE DEF Holders
  <2>3. Cardinality(running) + Cardinality(Holders) < MaxWorkers + k
    BY <2>2, CountedSets, BoundsAssumption DEF RoomInv
  <2> QED
    BY <2>3 DEF CapacityWithin, Holders
<1> QED
  BY <1>1, <1>2, <1>3

\* max_workers is exceeded by less than the number of starts in progress at once:
\* what protects the limit, as no lock does, is only that starts do not overlap.
THEOREM LimitTheorem ==
  ASSUME IsFiniteSet(Ctl), NEW k \in Nat
  PROVE  Spec /\ []StartsAtOnce(k) => []CapacityWithin(k)
<1>1. /\ Init => RoomAll(k)
      /\ RoomAll(k) /\ StartsAtOnce(k)' /\ [Next]_vars => RoomAll(k)'
      /\ RoomAll(k) => CapacityWithin(k)
  BY IsFiniteSet(Ctl), RoomIsKept
<1> QED
  BY <1>1, PTL DEF Spec

\* The limit is kept as long as no two starts overlap.
COROLLARY LimitIsKept ==
  ASSUME IsFiniteSet(Ctl)
  PROVE  Spec /\ []StartsAtOnce(1) => [](Cardinality(running) <= MaxWorkers)
<1>1. /\ Init => RoomAll(1)
      /\ RoomAll(1) /\ StartsAtOnce(1)' /\ [Next]_vars => RoomAll(1)'
  BY IsFiniteSet(Ctl), RoomIsKept
<1>2. RoomAll(1) => Cardinality(running) <= MaxWorkers
  <2> SUFFICES ASSUME RoomAll(1) PROVE Cardinality(running) <= MaxWorkers
    OBVIOUS
  <2>1. /\ Cardinality(running) \in Nat /\ Cardinality(Admitted) \in Nat
        /\ Cardinality(running) + Cardinality(Admitted) < MaxWorkers + 1
    BY CountedSets DEF RoomAll, RoomInv
  <2> QED
    BY <2>1, BoundsAssumption
<1> QED
  BY <1>1, <1>2, PTL DEF Spec

\* max_workers is exceeded by less than the number of threads that start jobs,
\* for every number of threads and workers, although no lock protects the test.
THEOREM CapacityTheorem ==
  ASSUME IsFiniteSet(Ctl)
  PROVE  Spec => []CapacityBound
<1> DEFINE k == Cardinality(Threads)
<1>1. k \in Nat
  BY FS_AddElement, FS_CardinalityType DEF Threads
<1>2. TypesInv => StartsAtOnce(k)
  BY CountedSets DEF StartsAtOnce
<1>3. CapacityWithin(k) => CapacityBound
  BY DEF CapacityWithin, CapacityBound
<1> HIDE DEF k
<1>4. /\ Init => RoomAll(k)
      /\ RoomAll(k) /\ StartsAtOnce(k)' /\ [Next]_vars => RoomAll(k)'
      /\ RoomAll(k) => CapacityWithin(k)
  BY <1>1, RoomIsKept
<1>5. RoomAll(k) /\ [Next]_vars => TypesInv'
  BY StepTypes DEF RoomAll
<1> QED
  BY <1>2, <1>3, <1>4, <1>5, PTL DEF Spec

\* No claim counter is left behind by a start that fails, but by one that an
\* exception cut off, whatever statements fail and whatever is deleted meanwhile,
\* as long as no two threads make the first use of a lock at once.
THEOREM ClaimsWithoutRace == Spec /\ []LookupsAlone => []NoLeakedClaim
<1> DEFINE IInv == TypesInv /\ LockInv /\ ClaimInv /\ HandInv /\ NoLeakedClaim
<1>1. Init => IInv
  <2>1. Init => NoLeakedClaim
    BY DEF Init, NoLeakedClaim
  <2> QED
    BY <2>1, InitTypes, InitClaims, InitRuns
<1>2. IInv /\ LookupsAlone /\ [Next]_vars => IInv'
  BY StepTypes, StepLocks, StepClaims, StepHand, StepLeak
<1>3. IInv => NoLeakedClaim
  OBVIOUS
<1> HIDE DEF IInv
<1> QED
  BY <1>1, <1>2, <1>3, PTL DEF Spec

\* The same if _lock_for_job is never preempted midway.
THEOREM NoLeakTheorem ==
  ASSUME AtomicLockTable
  PROVE  Spec => []NoLeakedClaim
<1>1. Spec => []LookupsAlone
  BY AtomicLockTable, LookupsNeverRace
<1> QED
  BY <1>1, ClaimsWithoutRace, PTL

\* What the theorems about deletion start from.
LEMMA LiveRuns ==
  ASSUME NamesAreUnique
  PROVE  Spec /\ []LookupsAlone /\ []DeletionsStand =>
           [](/\ TypesInv /\ LockInv /\ ClaimInv
              /\ HandInv /\ RowInv /\ DownInv /\ LiveRunInv)
<1> DEFINE IInv == /\ TypesInv /\ LockInv /\ ClaimInv
                   /\ HandInv /\ RowInv /\ DownInv /\ LiveRunInv
<1>1. Init => IInv
  BY InitTypes, InitClaims, InitRuns
<1>2. IInv /\ LookupsAlone /\ DeletionsStand /\ [Next]_vars => IInv'
  BY NamesAreUnique, StepTypes, StepLocks, StepClaims, StepHand, StepRows, StepDown, StepLive
<1> QED
  <2> HIDE DEF IInv
  <2>1. Spec /\ []LookupsAlone /\ []DeletionsStand => []IInv
    BY <1>1, <1>2, PTL DEF Spec
  <2> QED
    BY <2>1 DEF IInv

\* The row of a watched process is there and says RUNNING until the scheduler
\* thread closes it, whatever is deleted meanwhile, provided that names are not
\* added again, as long as no ROLLBACK takes a deletion back and no two threads
\* make the first use of a lock at once.
THEOREM RowsWithoutRace ==
  ASSUME NamesAreUnique
  PROVE  Spec /\ []LookupsAlone /\ []DeletionsStand => []RegisteredRowIsRunning
<1>1. RowInv /\ LiveRunInv => RegisteredRowIsRunning
  BY DEF RowInv, LiveRunInv, RegisteredRowIsRunning, Closed, Critical, Open
<1> QED
  BY <1>1, LiveRuns, NamesAreUnique, PTL

\* The same if _lock_for_job is never preempted midway.
THEOREM RegisteredRowTheorem ==
  ASSUME AtomicLockTable, NamesAreUnique
  PROVE  Spec /\ []DeletionsStand => []RegisteredRowIsRunning
<1>1. Spec /\ []LookupsAlone /\ []DeletionsStand => []RegisteredRowIsRunning
  BY NamesAreUnique, RowsWithoutRace
<1>2. Spec => []LookupsAlone
  BY AtomicLockTable, LookupsNeverRace
<1> QED
  BY <1>1, <1>2, PTL

\* The daemon implements JobRuns, for every number of threads, jobs and runs:
\* through every interleaving, failing statement, rollback, deletion, crash and
\* restart each step is a step of the promise or none of it, provided that names
\* are not added again, as long as no ROLLBACK takes a deletion back and no two
\* threads make the first use of a lock at once.
THEOREM RefinementWithoutRace ==
  ASSUME NamesAreUnique
  PROVE  Spec /\ []LookupsAlone /\ []DeletionsStand => ImplementsJobRuns
<1> DEFINE IInv == /\ TypesInv /\ LockInv /\ ClaimInv
                   /\ HandInv /\ RowInv /\ DownInv /\ LiveRunInv
<1>1. Init => Promise!Init
  BY DEF Init, Promise!Init, Alive, InFlight, Absent, SavedRuns
<1>2. IInv /\ DeletionsStand /\ [Next]_vars => [Promise!Next]_(Promise!jobVars)
  BY NamesAreUnique, StepRefines
<1>3. Spec /\ []LookupsAlone /\ []DeletionsStand => []IInv
  BY LiveRuns, NamesAreUnique
<1> HIDE DEF IInv
<1> QED
  BY <1>1, <1>2, <1>3, PTL DEF Spec, ImplementsJobRuns, Promise!Spec

\* The same if _lock_for_job is never preempted midway.
THEOREM Refinement ==
  ASSUME AtomicLockTable, NamesAreUnique
  PROVE  Spec /\ []DeletionsStand => ImplementsJobRuns
<1>1. Spec /\ []LookupsAlone /\ []DeletionsStand => ImplementsJobRuns
  BY NamesAreUnique, RefinementWithoutRace
<1>2. Spec => []LookupsAlone
  BY AtomicLockTable, LookupsNeverRace
<1> QED
  BY <1>1, <1>2, PTL
=============================================================================
