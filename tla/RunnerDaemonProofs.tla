-------------------------- MODULE RunnerDaemonProofs --------------------------
(* Proofs about RunnerDaemon, for every value of its constants. *)
EXTENDS RunnerDaemon, TLAPS

InLockTable == {"get_lock", "put_lock", "acquire"}
InTxn == {"commit", "rollback"}

\* A thread at these points has a run of its own that is not registered.
HasRun(t) ==
  \/ pc[t] \in {"commit", "prepare", "spawn", "register", "fail_row", "fail_job"}
  \/ pc[t] \in InLockTable /\ why[t] = "unclaim"

\* A thread that is inside a call works on some job id; only the scheduler
\* thread finishes runs; the open transaction is that of the thread that will
\* end it.
ThreadInv ==
  \A t \in Threads :
    /\ pc[t] \notin {"idle", "sched", "reap"} => thJob[t] \in JobIds
    /\ pc[t] \in {"finish_job", "finish_pop"} => t = Tick /\ why[t] = "finish"
    /\ why[t] = "finish" => pc[t] \in InLockTable \cup {"finish_job", "finish_pop"}
    /\ pc[t] \in InTxn <=> txn = t

\* The rows that the end of the open transaction may bring back are rows, and
\* those of the runs that were there before it are still what they were.
SavedInv ==
  txn # NoThread =>
    /\ saved.jobStatus \in [JobIds -> JobStatus \cup {Absent}]
    /\ saved.failures \in [JobIds -> Nat]
    /\ saved.due \in [JobIds -> BOOLEAN]
    /\ saved.sched \in [JobIds -> {LiveSchedule, DeadSchedule}]
    /\ saved.nextJob \in 1..(MaxJobs + 1)
    /\ saved.runJob \in [Runs -> JobIds \cup {NoJob}]
    /\ saved.runStatus \in [Runs -> RunStatus \cup {Absent}]
    /\ saved.nextRun \in 1..(MaxRuns + 1) /\ saved.nextRun <= nextRun
    /\ \A r \in Runs : r < saved.nextRun => saved.runJob[r] = runJob[r]
    /\ pc[txn] = "commit" => thRun[txn] = saved.nextRun

\* The run ids below this one are on disk.
NextOnDisk == IF txn = NoThread THEN nextRun ELSE saved.nextRun

\* What the run ids in the daemon's memory refer to.
RunInv ==
  /\ reapList \subseteq running
  /\ \A r \in running \cup stranded : r < NextOnDisk /\ runJob[r] \in JobIds
  /\ \A t \in Threads :
       HasRun(t) =>
         /\ thRun[t] \in Runs /\ thRun[t] < nextRun /\ runJob[thRun[t]] = thJob[t]
         /\ pc[t] # "commit" => thRun[t] < NextOnDisk
  /\ why[Tick] = "finish" =>
       /\ thRun[Tick] \in running \ reapList /\ runJob[thRun[Tick]] = thJob[Tick]
       /\ verdict # "none"

\* A run is watched, or cut off, or in the hands of the one thread that starts it.
OwnInv ==
  /\ running \cap stranded = {}
  /\ \A t \in Threads : HasRun(t) => thRun[t] \notin running \cup stranded
  /\ \A t, u \in Threads : HasRun(t) /\ HasRun(u) /\ thRun[t] = thRun[u] => t = u

TypesInv == TypeOK /\ ThreadInv /\ SavedInv /\ RunInv /\ OwnInv

\* No two threads have looked for the lock of the same job in vain and are both
\* about to store one of their own: the race of _lock_for_job.
LookupsAlone ==
  \A t, u \in Threads :
    pc[t] = "put_lock" /\ pc[u] = "put_lock" /\ thJob[t] = thJob[u] => t = u

\* Until a deletion drops it from the table, every thread that waits for the lock
\* of a job or is inside a with-block of it has the same lock object.
LockInv ==
  /\ \A t \in Threads :
       /\ AtomicLockTable => pc[t] # "put_lock"
       /\ pc[t] = "put_lock" /\ thJob[t] \notin dropped => jobLock[thJob[t]] = NoLock
       /\ thLock[t] # NoLock <=> pc[t] \in Critical \cup {"acquire"}
       /\ thLock[t] # NoLock /\ thJob[t] \notin dropped => thLock[t] = jobLock[thJob[t]]
  /\ \A t, u \in Threads :
       pc[t] \in Critical /\ pc[u] \in Critical /\ thJob[t] = thJob[u]
         /\ thJob[t] \notin dropped => t = u

\* Until then its counter is 1 when somebody has the claim, and 0 under the lock
\* of a thread that has found it so.
ClaimInv ==
  /\ \A t \in Threads : HoldsClaim(t) /\ thJob[t] \notin dropped => claims[thJob[t]] = 1
  /\ \A r \in running \cup stranded : runJob[r] \notin dropped => claims[runJob[r]] = 1
  /\ \A t \in Threads :
       pc[t] \in {"bump", "delete_row"} /\ thJob[t] \notin dropped => claims[thJob[t]] = 0
  /\ SingleFlight

\* A lock object that nothing refers to can be taken from the pool.
LEMMA NewLockType ==
  ASSUME FreeLocks # {}
  PROVE  NewLock \in Locks
  BY DEF FreeLocks, NewLock

\* A new lock object is in no thread's hands and not in the table.
LEMMA NewLockFresh ==
  ASSUME FreeLocks # {}
  PROVE  /\ \A j \in JobIds : NewLock # jobLock[j]
         /\ \A t \in Threads : NewLock # thLock[t]
  BY DEF FreeLocks, NewLock

\* The initial state is well typed.
LEMMA InitTypes == Init => TypesInv
  BY BoundsAssumption, ParameterAssumption, ThreadAssumption
  DEF Init, TypesInv, TypeOK, ThreadInv, SavedInv, RunInv, OwnInv, JobIds, Runs, Threads, NoJob,
      NoRun, NoLock, Absent, JobStatus, RunStatus, LiveSchedule, DeadSchedule, Pcs, Reasons,
      HasRun, Critical, Claimed, GivingBack, InLockTable, InTxn

\* The initial state satisfies the invariants about locks and counters.
LEMMA InitClaims == Init => LockInv /\ ClaimInv
  BY DEF Init, LockInv, ClaimInv, SingleFlight, Claimants, Watched, CutOff, HoldsClaim,
         Threads, NoJob, NoLock, Claimed, Critical, GivingBack, JobIds

\* Every step keeps the type invariant.
LEMMA StepTypeOK ==
  ASSUME TypesInv, [Next]_vars
  PROVE  TypeOK'
<1> USE BoundsAssumption, ParameterAssumption, ThreadAssumption DEF TypesInv
<1> USE DEF TypeOK, ThreadInv, HasRun, InLockTable, Threads, Pcs, Reasons, Critical, Claimed,
            GivingBack, Goto, Leave, GoLock, db, frame, conn, history, jobRows, runRows, memory,
            locals, ticking, vars
<1>1. ASSUME NEW t \in Threads, GetLock(t)
      PROVE  TypeOK'
  BY <1>1, NewLockType DEF GetLock
<1>2. ASSUME NEW t \in Threads, PutLock(t)
      PROVE  TypeOK'
  BY <1>2, NewLockType DEF PutLock
<1>3. ASSUME NEW t \in Threads, ClaimCheck(t)
      PROVE  TypeOK'
  BY <1>3 DEF ClaimCheck, StartReturns, Acquires
<1>4. ASSUME NEW t \in Threads, ClaimBump(t)
      PROVE  TypeOK'
  BY <1>4 DEF ClaimBump
<1>5. ASSUME NEW t \in Threads, Reserve(t)
      PROVE  TypeOK'
  <2>1. nextRun \in Runs /\ nextRun' \in 1..(MaxRuns + 1)
    BY <1>5 DEF Reserve, Runs
  <2>2. runJob' \in [Runs -> JobIds \cup {NoJob}] /\ thRun' \in [Threads -> Runs \cup {NoRun}]
    BY <1>5, <2>1 DEF Reserve
  <2>3. runStatus' \in [Runs -> RunStatus \cup {Absent}]
    BY <1>5, <2>1 DEF Reserve, RunStatus
  <2>4. due' \in [JobIds -> BOOLEAN] /\ pc' \in [Threads -> Pcs]
    BY <1>5 DEF Reserve
  <2> QED
    BY <1>5, <2>1, <2>2, <2>3, <2>4 DEF Reserve
<1>6. ASSUME NEW t \in Threads, InsertFails(t)
      PROVE  TypeOK'
  BY <1>6 DEF InsertFails, DbFault, Tables
<1>7. ASSUME NEW t \in Threads, BeginFails(t)
      PROVE  TypeOK'
  BY <1>7 DEF BeginFails, DbFault
<1>8. ASSUME NEW t \in Threads, Commit(t)
      PROVE  TypeOK'
  BY <1>8 DEF Commit
<1>9. ASSUME NEW t \in Threads, Rollback(t)
      PROVE  TypeOK'
  BY <1>9 DEF Rollback, DbFault, Restored, TakenBack, SavedInv, InTxn
<1>10. ASSUME NEW t \in Threads, Prepare(t)
      PROVE  TypeOK'
  BY <1>10 DEF Prepare
<1>11. ASSUME NEW t \in Threads, Spawn(t)
      PROVE  TypeOK'
  BY <1>11 DEF Spawn
<1>12. ASSUME NEW t \in Threads, SpawnFails(t)
      PROVE  TypeOK'
  BY <1>12 DEF SpawnFails
<1>13. ASSUME NEW t \in Threads, Register(t)
      PROVE  TypeOK'
  <2>1. thRun[t] \in Runs
    BY <1>13 DEF Register, RunInv
  <2> QED
    BY <1>13, <2>1 DEF Register, StartReturns
<1>14. ASSUME NEW t \in Threads, FailRow(t)
      PROVE  TypeOK'
  BY <1>14 DEF FailRow, CloseRow, JobStatus, RunStatus, LiveSchedule, DeadSchedule
<1>15. ASSUME NEW t \in Threads, FailJob(t)
      PROVE  TypeOK'
  BY <1>15, SMTT(60)
  DEF FailJob, CountFailure, Rows, JobStatus, RunStatus, LiveSchedule, DeadSchedule
<1>16. ASSUME NEW t \in Threads, StartRaises(t)
      PROVE  TypeOK'
  BY <1>16 DEF StartRaises, DbFault, Raises, RunInv
<1>17. ASSUME NEW t \in Threads, Unclaim(t)
      PROVE  TypeOK'
  BY <1>17 DEF Unclaim, Acquires, StartReturns, Raises, Decremented
<1>18. ASSUME NEW t \in Threads, CallRaises(t)
      PROVE  TypeOK'
  BY <1>18 DEF CallRaises, DbFault, Raises
<1>19. ASSUME TickBegin
      PROVE  TypeOK'
  BY <1>19 DEF TickBegin
<1>20. ASSUME TickDue
      PROVE  TypeOK'
  BY <1>20 DEF TickDue, Rows, JobStatus, RunStatus, LiveSchedule, DeadSchedule
<1>21. ASSUME TickEnd
      PROVE  TypeOK'
  BY <1>21 DEF TickEnd
<1>22. ASSUME FinishRow
      PROVE  TypeOK'
  BY <1>22
  DEF FinishRow, Acquires, CloseRow, JobStatus, RunStatus, LiveSchedule, DeadSchedule,
      RunInv
<1>23. ASSUME FinishJob
      PROVE  TypeOK'
  BY <1>23
  DEF FinishJob, CountFailure, Rows, JobStatus, RunStatus, LiveSchedule, DeadSchedule
<1>24. ASSUME FinishPop
      PROVE  TypeOK'
  <2>1. thJob[Tick] \in JobIds /\ Tick \in Threads
    BY <1>24 DEF FinishPop
  <2>2. claims' \in [JobIds -> Nat]
    BY <1>24, <2>1 DEF FinishPop, Decremented
  <2>3. /\ running' \subseteq Runs /\ verdict' = "none"
        /\ worker' \in [Runs -> {"none", "live", "succeeded", "failed"}]
    BY <1>24 DEF FinishPop
  <2>4. /\ pc' \in [Threads -> Pcs] /\ why' \in [Threads -> Reasons]
        /\ thJob' \in [Threads -> JobIds \cup {NoJob}]
        /\ thLock' \in [Threads -> Locks \cup {NoLock}]
        /\ thRun' \in [Threads -> Runs \cup {NoRun}]
    BY <1>24 DEF FinishPop
  <2>5. UNCHANGED <<db, mode, txn, faults, jobLock, reapList, dueList, stranded, unsettled, dropped>>
    BY <1>24 DEF FinishPop
  <2> QED
    BY <2>2, <2>3, <2>4, <2>5
<1>25. ASSUME FinishRaises
      PROVE  TypeOK'
  BY <1>25 DEF FinishRaises, Acquires, DbFault, Raises, RunInv
<1>26. ASSUME NEW r \in Runs, ReapSkip(r)
      PROVE  TypeOK'
  BY <1>26 DEF ReapSkip
<1>27. ASSUME NEW r \in Runs, ReapTimeout(r)
      PROVE  TypeOK'
  BY <1>27 DEF ReapTimeout, GoFinish
<1>28. ASSUME NEW r \in Runs, ReapExit(r)
      PROVE  TypeOK'
  BY <1>28 DEF ReapExit, GoFinish
<1>29. ASSUME NEW j \in JobIds, NEW s \in {LiveSchedule, DeadSchedule},
              TickStart(j, s)
      PROVE  TypeOK'
  BY <1>29 DEF TickStart, Raises
<1>30. ASSUME NEW t \in Ctl, StartCheck(t)
      PROVE  TypeOK'
  BY <1>30 DEF StartCheck
<1>31. ASSUME NEW t \in Ctl, ResumeStatus(t)
      PROVE  TypeOK'
  BY <1>31
  DEF ResumeStatus, SameName, Rows, JobStatus, RunStatus, LiveSchedule, DeadSchedule
<1>32. ASSUME NEW t \in Ctl, RereadJob(t)
      PROVE  TypeOK'
  BY <1>32 DEF RereadJob, ReadJob, SameName, Rows
<1>33. ASSUME NEW t \in Ctl, SetDue(t)
      PROVE  TypeOK'
  BY <1>33 DEF SetDue, Rows
<1>34. ASSUME NEW t \in Ctl, LockTimeout(t)
      PROVE  TypeOK'
  BY <1>34 DEF LockTimeout
<1>35. ASSUME NEW t \in Ctl, StopSignal(t)
      PROVE  TypeOK'
  BY <1>35 DEF StopSignal, Acquires
<1>36. ASSUME NEW t \in Ctl, DeleteCheck(t)
      PROVE  TypeOK'
  BY <1>36 DEF DeleteCheck, Acquires
<1>37. ASSUME NEW t \in Ctl, DeleteRow(t)
      PROVE  TypeOK'
  <2>1. CASE SameName(thJob[t]) = {}
    BY <1>37, <2>1 DEF DeleteRow
  <2>2. ASSUME NEW k \in SameName(thJob[t]),
               jobStatus' = [jobStatus EXCEPT ![k] = Absent],
               failures' = [failures EXCEPT ![k] = 0],
               due' = [due EXCEPT ![k] = FALSE],
               sched' = [sched EXCEPT ![k] = LiveSchedule]
        PROVE  /\ jobStatus' \in [JobIds -> JobStatus \cup {Absent}]
               /\ failures' \in [JobIds -> Nat]
               /\ due' \in [JobIds -> BOOLEAN]
               /\ sched' \in [JobIds -> {LiveSchedule, DeadSchedule}]
    BY <2>2
  <2> QED
    BY <1>37, <2>1, <2>2 DEF DeleteRow
<1>38. ASSUME NEW t \in Ctl, DeletePop(t)
      PROVE  TypeOK'
  BY <1>38 DEF DeletePop
<1>39. ASSUME NEW t \in Ctl, AddJob(t)
      PROVE  TypeOK'
  BY <1>39, SMTT(60) DEF AddJob, JobStatus, RunStatus, Runs, JobIds
<1>40. ASSUME NEW t \in Ctl, Shutdown(t)
      PROVE  TypeOK'
  BY <1>40 DEF Shutdown
<1>41. ASSUME NEW t \in Ctl, NEW j \in JobIds, RunOnce(t, j)
      PROVE  TypeOK'
  BY <1>41 DEF RunOnce, Idle, Rows
<1>42. ASSUME NEW t \in Ctl, NEW j \in JobIds, PauseJob(t, j)
      PROVE  TypeOK'
  BY <1>42 DEF PauseJob, Idle, Rows, JobStatus, RunStatus, LiveSchedule, DeadSchedule
<1>43. ASSUME NEW t \in Ctl, NEW j \in JobIds, ResumeJob(t, j)
      PROVE  TypeOK'
  BY <1>43 DEF ResumeJob, ReadJob, Idle, Rows
<1>44. ASSUME NEW t \in Ctl, NEW j \in JobIds, NEW s \in Schedules,
              UpdateJob(t, j, s)
      PROVE  TypeOK'
  BY <1>44 DEF UpdateJob, Idle, Rows, JobStatus, RunStatus, LiveSchedule, DeadSchedule
<1>45. ASSUME NEW t \in Ctl, NEW j \in JobIds, NEW w \in {"stop", "delete"},
              StopOrDelete(t, j, w)
      PROVE  TypeOK'
  BY <1>45 DEF StopOrDelete, Idle, Rows
<1>46. ASSUME NEW r \in Runs, WorkerExits(r)
      PROVE  TypeOK'
  BY <1>46 DEF WorkerExits
<1>47. ASSUME NEW j \in JobIds, BecomesDue(j)
      PROVE  TypeOK'
  BY <1>47 DEF BecomesDue, Rows
<1>48. ASSUME Crash
      PROVE  TypeOK'
  BY <1>48 DEF Crash, ProcessGone, Restored, Kept, Tables, SavedInv
<1>49. ASSUME ShutdownExit
      PROVE  TypeOK'
  BY <1>49 DEF ShutdownExit, ProcessGone, Restored, Kept, Tables, SavedInv
<1>50. ASSUME Boot
      PROVE  TypeOK'
  BY <1>50 DEF Boot, JobStatus, RunStatus, LiveSchedule, DeadSchedule
<1>51. ASSUME UNCHANGED vars
      PROVE  TypeOK'
  BY <1>51
<1> HIDE DEF TypesInv, TypeOK, ThreadInv, SavedInv, RunInv, OwnInv, LockInv, ClaimInv,
             SingleFlight, HoldsClaim, Rows, Goto, Leave, GoLock, vars
<1> QED
  BY <1>1, <1>2, <1>3, <1>4, <1>5, <1>6, <1>7, <1>8, <1>9, <1>10, <1>11, <1>12, <1>13,
     <1>14, <1>15, <1>16, <1>17, <1>18, <1>19, <1>20, <1>21, <1>22, <1>23, <1>24, <1>25,
     <1>26, <1>27, <1>28, <1>29, <1>30, <1>31, <1>32, <1>33, <1>34, <1>35, <1>36, <1>37,
     <1>38, <1>39, <1>40, <1>41, <1>42, <1>43, <1>44, <1>45, <1>46, <1>47, <1>48, <1>49,
     <1>50, <1>51
  DEF Next, StartStep, TickStep, CtlStep, Request, Environment

\* Every step keeps the association of threads with job ids.
LEMMA StepThread ==
  ASSUME TypesInv, [Next]_vars
  PROVE  ThreadInv'
<1> USE BoundsAssumption, ParameterAssumption, ThreadAssumption DEF TypesInv
<1> USE DEF TypeOK, ThreadInv, RunInv, InLockTable, InTxn, Threads, Goto, Leave, GoLock,
            db, frame, conn, history, jobRows, runRows, memory, locals, ticking, vars
<1>1. ASSUME NEW t \in Threads, GetLock(t)
      PROVE  ThreadInv'
  BY <1>1, NewLockType DEF GetLock
<1>2. ASSUME NEW t \in Threads, PutLock(t)
      PROVE  ThreadInv'
  BY <1>2, NewLockType DEF PutLock
<1>3. ASSUME NEW t \in Threads, ClaimCheck(t)
      PROVE  ThreadInv'
  BY <1>3 DEF ClaimCheck, StartReturns, Acquires
<1>4. ASSUME NEW t \in Threads, ClaimBump(t)
      PROVE  ThreadInv'
  BY <1>4 DEF ClaimBump
<1>5. ASSUME NEW t \in Threads, Reserve(t)
      PROVE  ThreadInv'
  BY <1>5 DEF Reserve, Tables
<1>6. ASSUME NEW t \in Threads, InsertFails(t)
      PROVE  ThreadInv'
  BY <1>6 DEF InsertFails, DbFault, Tables
<1>7. ASSUME NEW t \in Threads, BeginFails(t)
      PROVE  ThreadInv'
  BY <1>7 DEF BeginFails, DbFault
<1>8. ASSUME NEW t \in Threads, Commit(t)
      PROVE  ThreadInv'
  BY <1>8 DEF Commit
<1>9. ASSUME NEW t \in Threads, Rollback(t)
      PROVE  ThreadInv'
  BY <1>9 DEF Rollback, DbFault, Restored, TakenBack
<1>10. ASSUME NEW t \in Threads, Prepare(t)
      PROVE  ThreadInv'
  BY <1>10 DEF Prepare
<1>11. ASSUME NEW t \in Threads, Spawn(t)
      PROVE  ThreadInv'
  BY <1>11 DEF Spawn
<1>12. ASSUME NEW t \in Threads, SpawnFails(t)
      PROVE  ThreadInv'
  BY <1>12 DEF SpawnFails
<1>13. ASSUME NEW t \in Threads, Register(t)
      PROVE  ThreadInv'
  BY <1>13 DEF Register, StartReturns
<1>14. ASSUME NEW t \in Threads, FailRow(t)
      PROVE  ThreadInv'
  BY <1>14 DEF FailRow, CloseRow
<1>15. ASSUME NEW t \in Threads, FailJob(t)
      PROVE  ThreadInv'
  BY <1>15 DEF FailJob, CountFailure, Rows
<1>16. ASSUME NEW t \in Threads, StartRaises(t)
      PROVE  ThreadInv'
  BY <1>16 DEF StartRaises, DbFault, Raises
<1>17. ASSUME NEW t \in Threads, Unclaim(t)
      PROVE  ThreadInv'
  BY <1>17 DEF Unclaim, Acquires, StartReturns, Raises, Decremented
<1>18. ASSUME NEW t \in Threads, CallRaises(t)
      PROVE  ThreadInv'
  BY <1>18 DEF CallRaises, DbFault, Raises
<1>19. ASSUME TickBegin
      PROVE  ThreadInv'
  BY <1>19 DEF TickBegin
<1>20. ASSUME TickDue
      PROVE  ThreadInv'
  BY <1>20 DEF TickDue, Rows
<1>21. ASSUME TickEnd
      PROVE  ThreadInv'
  BY <1>21 DEF TickEnd
<1>22. ASSUME FinishRow
      PROVE  ThreadInv'
  BY <1>22 DEF FinishRow, Acquires, CloseRow
<1>23. ASSUME FinishJob
      PROVE  ThreadInv'
  BY <1>23 DEF FinishJob, CountFailure, Rows
<1>24. ASSUME FinishPop
      PROVE  ThreadInv'
  BY <1>24 DEF FinishPop, Decremented
<1>25. ASSUME FinishRaises
      PROVE  ThreadInv'
  BY <1>25 DEF FinishRaises, Acquires, DbFault, Raises
<1>26. ASSUME NEW r \in Runs, ReapSkip(r)
      PROVE  ThreadInv'
  BY <1>26 DEF ReapSkip
<1>27. ASSUME NEW r \in Runs, ReapTimeout(r)
      PROVE  ThreadInv'
  BY <1>27 DEF ReapTimeout, GoFinish
<1>28. ASSUME NEW r \in Runs, ReapExit(r)
      PROVE  ThreadInv'
  BY <1>28 DEF ReapExit, GoFinish
<1>29. ASSUME NEW j \in JobIds, NEW s \in {LiveSchedule, DeadSchedule},
              TickStart(j, s)
      PROVE  ThreadInv'
  BY <1>29 DEF TickStart, Raises
<1>30. ASSUME NEW t \in Ctl, StartCheck(t)
      PROVE  ThreadInv'
  BY <1>30 DEF StartCheck
<1>31. ASSUME NEW t \in Ctl, ResumeStatus(t)
      PROVE  ThreadInv'
  BY <1>31 DEF ResumeStatus, SameName, Rows
<1>32. ASSUME NEW t \in Ctl, RereadJob(t)
      PROVE  ThreadInv'
  BY <1>32 DEF RereadJob, ReadJob, SameName, Rows
<1>33. ASSUME NEW t \in Ctl, SetDue(t)
      PROVE  ThreadInv'
  BY <1>33 DEF SetDue, Rows
<1>34. ASSUME NEW t \in Ctl, LockTimeout(t)
      PROVE  ThreadInv'
  BY <1>34 DEF LockTimeout
<1>35. ASSUME NEW t \in Ctl, StopSignal(t)
      PROVE  ThreadInv'
  BY <1>35 DEF StopSignal, Acquires
<1>36. ASSUME NEW t \in Ctl, DeleteCheck(t)
      PROVE  ThreadInv'
  BY <1>36 DEF DeleteCheck, Acquires
<1>37. ASSUME NEW t \in Ctl, DeleteRow(t)
      PROVE  ThreadInv'
  BY <1>37 DEF DeleteRow, SameName, Rows
<1>38. ASSUME NEW t \in Ctl, DeletePop(t)
      PROVE  ThreadInv'
  BY <1>38 DEF DeletePop
<1>39. ASSUME NEW t \in Ctl, AddJob(t)
      PROVE  ThreadInv'
  BY <1>39 DEF AddJob
<1>40. ASSUME NEW t \in Ctl, Shutdown(t)
      PROVE  ThreadInv'
  BY <1>40 DEF Shutdown
<1>41. ASSUME NEW t \in Ctl, NEW j \in JobIds, RunOnce(t, j)
      PROVE  ThreadInv'
  BY <1>41 DEF RunOnce, Idle, Rows
<1>42. ASSUME NEW t \in Ctl, NEW j \in JobIds, PauseJob(t, j)
      PROVE  ThreadInv'
  BY <1>42 DEF PauseJob, Idle, Rows
<1>43. ASSUME NEW t \in Ctl, NEW j \in JobIds, ResumeJob(t, j)
      PROVE  ThreadInv'
  BY <1>43 DEF ResumeJob, ReadJob, Idle, Rows
<1>44. ASSUME NEW t \in Ctl, NEW j \in JobIds, NEW s \in Schedules,
              UpdateJob(t, j, s)
      PROVE  ThreadInv'
  BY <1>44 DEF UpdateJob, Idle, Rows
<1>45. ASSUME NEW t \in Ctl, NEW j \in JobIds, NEW w \in {"stop", "delete"},
              StopOrDelete(t, j, w)
      PROVE  ThreadInv'
  BY <1>45 DEF StopOrDelete, Idle, Rows
<1>46. ASSUME NEW r \in Runs, WorkerExits(r)
      PROVE  ThreadInv'
  BY <1>46 DEF WorkerExits
<1>47. ASSUME NEW j \in JobIds, BecomesDue(j)
      PROVE  ThreadInv'
  BY <1>47 DEF BecomesDue, Rows
<1>48. ASSUME Crash
      PROVE  ThreadInv'
  BY <1>48 DEF Crash, ProcessGone, Restored, Kept, Tables
<1>49. ASSUME ShutdownExit
      PROVE  ThreadInv'
  BY <1>49 DEF ShutdownExit, ProcessGone, Restored, Kept, Tables
<1>50. ASSUME Boot
      PROVE  ThreadInv'
  BY <1>50 DEF Boot
<1>51. ASSUME UNCHANGED vars
      PROVE  ThreadInv'
  BY <1>51
<1> HIDE DEF TypesInv, TypeOK, ThreadInv, SavedInv, RunInv, OwnInv, LockInv, ClaimInv,
             SingleFlight, HoldsClaim, Rows, Goto, Leave, GoLock, vars
<1> QED
  BY <1>1, <1>2, <1>3, <1>4, <1>5, <1>6, <1>7, <1>8, <1>9, <1>10, <1>11, <1>12, <1>13,
     <1>14, <1>15, <1>16, <1>17, <1>18, <1>19, <1>20, <1>21, <1>22, <1>23, <1>24, <1>25,
     <1>26, <1>27, <1>28, <1>29, <1>30, <1>31, <1>32, <1>33, <1>34, <1>35, <1>36, <1>37,
     <1>38, <1>39, <1>40, <1>41, <1>42, <1>43, <1>44, <1>45, <1>46, <1>47, <1>48, <1>49,
     <1>50, <1>51
  DEF Next, StartStep, TickStep, CtlStep, Request, Environment

\* Every step keeps what the end of the transaction may bring back.
LEMMA StepSaved ==
  ASSUME TypesInv, [Next]_vars
  PROVE  SavedInv'
<1> USE BoundsAssumption, ParameterAssumption, ThreadAssumption DEF TypesInv
<1> USE DEF TypeOK, ThreadInv, SavedInv, InTxn, Threads, Goto, Leave, GoLock,
            db, frame, conn, history, jobRows, runRows, memory, locals, ticking, vars
<1>1. ASSUME NEW t \in Threads, GetLock(t)
      PROVE  SavedInv'
  BY <1>1 DEF GetLock
<1>2. ASSUME NEW t \in Threads, PutLock(t)
      PROVE  SavedInv'
  BY <1>2 DEF PutLock
<1>3. ASSUME NEW t \in Threads, ClaimCheck(t)
      PROVE  SavedInv'
  BY <1>3 DEF ClaimCheck, StartReturns, Acquires
<1>4. ASSUME NEW t \in Threads, ClaimBump(t)
      PROVE  SavedInv'
  BY <1>4 DEF ClaimBump
<1>5. ASSUME NEW t \in Threads, Reserve(t)
      PROVE  SavedInv'
  BY <1>5 DEF Reserve, Tables
<1>6. ASSUME NEW t \in Threads, InsertFails(t)
      PROVE  SavedInv'
  BY <1>6 DEF InsertFails, DbFault, Tables
<1>7. ASSUME NEW t \in Threads, BeginFails(t)
      PROVE  SavedInv'
  BY <1>7 DEF BeginFails, DbFault
<1>8. ASSUME NEW t \in Threads, Commit(t)
      PROVE  SavedInv'
  BY <1>8 DEF Commit
<1>9. ASSUME NEW t \in Threads, Rollback(t)
      PROVE  SavedInv'
  BY <1>9 DEF Rollback, DbFault, Restored, TakenBack
<1>10. ASSUME NEW t \in Threads, Prepare(t)
      PROVE  SavedInv'
  BY <1>10 DEF Prepare
<1>11. ASSUME NEW t \in Threads, Spawn(t)
      PROVE  SavedInv'
  BY <1>11 DEF Spawn
<1>12. ASSUME NEW t \in Threads, SpawnFails(t)
      PROVE  SavedInv'
  BY <1>12 DEF SpawnFails
<1>13. ASSUME NEW t \in Threads, Register(t)
      PROVE  SavedInv'
  BY <1>13 DEF Register, StartReturns
<1>14. ASSUME NEW t \in Threads, FailRow(t)
      PROVE  SavedInv'
  BY <1>14 DEF FailRow, CloseRow
<1>15. ASSUME NEW t \in Threads, FailJob(t)
      PROVE  SavedInv'
  BY <1>15 DEF FailJob, CountFailure, Rows
<1>16. ASSUME NEW t \in Threads, StartRaises(t)
      PROVE  SavedInv'
  BY <1>16 DEF StartRaises, DbFault, Raises
<1>17. ASSUME NEW t \in Threads, Unclaim(t)
      PROVE  SavedInv'
  BY <1>17 DEF Unclaim, Acquires, StartReturns, Raises, Decremented
<1>18. ASSUME NEW t \in Threads, CallRaises(t)
      PROVE  SavedInv'
  BY <1>18 DEF CallRaises, DbFault, Raises
<1>19. ASSUME TickBegin
      PROVE  SavedInv'
  BY <1>19 DEF TickBegin
<1>20. ASSUME TickDue
      PROVE  SavedInv'
  BY <1>20 DEF TickDue, Rows
<1>21. ASSUME TickEnd
      PROVE  SavedInv'
  BY <1>21 DEF TickEnd
<1>22. ASSUME FinishRow
      PROVE  SavedInv'
  BY <1>22 DEF FinishRow, Acquires, CloseRow
<1>23. ASSUME FinishJob
      PROVE  SavedInv'
  BY <1>23 DEF FinishJob, CountFailure, Rows
<1>24. ASSUME FinishPop
      PROVE  SavedInv'
  BY <1>24 DEF FinishPop, Decremented
<1>25. ASSUME FinishRaises
      PROVE  SavedInv'
  BY <1>25 DEF FinishRaises, Acquires, DbFault, Raises
<1>26. ASSUME NEW r \in Runs, ReapSkip(r)
      PROVE  SavedInv'
  BY <1>26 DEF ReapSkip
<1>27. ASSUME NEW r \in Runs, ReapTimeout(r)
      PROVE  SavedInv'
  BY <1>27 DEF ReapTimeout, GoFinish
<1>28. ASSUME NEW r \in Runs, ReapExit(r)
      PROVE  SavedInv'
  BY <1>28 DEF ReapExit, GoFinish
<1>29. ASSUME NEW j \in JobIds, NEW s \in {LiveSchedule, DeadSchedule},
              TickStart(j, s)
      PROVE  SavedInv'
  BY <1>29 DEF TickStart, Raises
<1>30. ASSUME NEW t \in Ctl, StartCheck(t)
      PROVE  SavedInv'
  BY <1>30 DEF StartCheck
<1>31. ASSUME NEW t \in Ctl, ResumeStatus(t)
      PROVE  SavedInv'
  BY <1>31 DEF ResumeStatus, SameName, Rows
<1>32. ASSUME NEW t \in Ctl, RereadJob(t)
      PROVE  SavedInv'
  BY <1>32 DEF RereadJob, ReadJob, SameName, Rows
<1>33. ASSUME NEW t \in Ctl, SetDue(t)
      PROVE  SavedInv'
  BY <1>33 DEF SetDue, Rows
<1>34. ASSUME NEW t \in Ctl, LockTimeout(t)
      PROVE  SavedInv'
  BY <1>34 DEF LockTimeout
<1>35. ASSUME NEW t \in Ctl, StopSignal(t)
      PROVE  SavedInv'
  BY <1>35 DEF StopSignal, Acquires
<1>36. ASSUME NEW t \in Ctl, DeleteCheck(t)
      PROVE  SavedInv'
  BY <1>36 DEF DeleteCheck, Acquires
<1>37. ASSUME NEW t \in Ctl, DeleteRow(t)
      PROVE  SavedInv'
  BY <1>37 DEF DeleteRow, SameName, Rows
<1>38. ASSUME NEW t \in Ctl, DeletePop(t)
      PROVE  SavedInv'
  BY <1>38 DEF DeletePop
<1>39. ASSUME NEW t \in Ctl, AddJob(t)
      PROVE  SavedInv'
  BY <1>39 DEF AddJob
<1>40. ASSUME NEW t \in Ctl, Shutdown(t)
      PROVE  SavedInv'
  BY <1>40 DEF Shutdown
<1>41. ASSUME NEW t \in Ctl, NEW j \in JobIds, RunOnce(t, j)
      PROVE  SavedInv'
  BY <1>41 DEF RunOnce, Idle, Rows
<1>42. ASSUME NEW t \in Ctl, NEW j \in JobIds, PauseJob(t, j)
      PROVE  SavedInv'
  BY <1>42 DEF PauseJob, Idle, Rows
<1>43. ASSUME NEW t \in Ctl, NEW j \in JobIds, ResumeJob(t, j)
      PROVE  SavedInv'
  BY <1>43 DEF ResumeJob, ReadJob, Idle, Rows
<1>44. ASSUME NEW t \in Ctl, NEW j \in JobIds, NEW s \in Schedules,
              UpdateJob(t, j, s)
      PROVE  SavedInv'
  BY <1>44 DEF UpdateJob, Idle, Rows
<1>45. ASSUME NEW t \in Ctl, NEW j \in JobIds, NEW w \in {"stop", "delete"},
              StopOrDelete(t, j, w)
      PROVE  SavedInv'
  BY <1>45 DEF StopOrDelete, Idle, Rows
<1>46. ASSUME NEW r \in Runs, WorkerExits(r)
      PROVE  SavedInv'
  BY <1>46 DEF WorkerExits
<1>47. ASSUME NEW j \in JobIds, BecomesDue(j)
      PROVE  SavedInv'
  BY <1>47 DEF BecomesDue, Rows
<1>48. ASSUME Crash
      PROVE  SavedInv'
  BY <1>48 DEF Crash, ProcessGone, Restored, Kept, Tables
<1>49. ASSUME ShutdownExit
      PROVE  SavedInv'
  BY <1>49 DEF ShutdownExit, ProcessGone, Restored, Kept, Tables
<1>50. ASSUME Boot
      PROVE  SavedInv'
  BY <1>50 DEF Boot
<1>51. ASSUME UNCHANGED vars
      PROVE  SavedInv'
  BY <1>51
<1> HIDE DEF TypesInv, TypeOK, ThreadInv, SavedInv, RunInv, OwnInv, LockInv, ClaimInv,
             SingleFlight, HoldsClaim, Rows, Goto, Leave, GoLock, vars
<1> QED
  BY <1>1, <1>2, <1>3, <1>4, <1>5, <1>6, <1>7, <1>8, <1>9, <1>10, <1>11, <1>12, <1>13,
     <1>14, <1>15, <1>16, <1>17, <1>18, <1>19, <1>20, <1>21, <1>22, <1>23, <1>24, <1>25,
     <1>26, <1>27, <1>28, <1>29, <1>30, <1>31, <1>32, <1>33, <1>34, <1>35, <1>36, <1>37,
     <1>38, <1>39, <1>40, <1>41, <1>42, <1>43, <1>44, <1>45, <1>46, <1>47, <1>48, <1>49,
     <1>50, <1>51
  DEF Next, StartStep, TickStep, CtlStep, Request, Environment

\* Every step keeps what the run ids in memory refer to.
LEMMA StepRun ==
  ASSUME TypesInv, [Next]_vars
  PROVE  RunInv'
<1> USE BoundsAssumption, ParameterAssumption, ThreadAssumption DEF TypesInv
<1> USE DEF TypeOK, ThreadInv, SavedInv, RunInv, HasRun, InLockTable, InTxn, NextOnDisk, Threads,
            Goto, Leave, GoLock, db, frame, conn, history, jobRows, runRows, memory, locals,
            ticking, vars
<1>1. ASSUME NEW t \in Threads, GetLock(t)
      PROVE  RunInv'
  BY <1>1 DEF GetLock
<1>2. ASSUME NEW t \in Threads, PutLock(t)
      PROVE  RunInv'
  BY <1>2 DEF PutLock
<1>3. ASSUME NEW t \in Threads, ClaimCheck(t)
      PROVE  RunInv'
  BY <1>3 DEF ClaimCheck, StartReturns, Acquires
<1>4. ASSUME NEW t \in Threads, ClaimBump(t)
      PROVE  RunInv'
  BY <1>4 DEF ClaimBump
<1>5. ASSUME NEW t \in Threads, Reserve(t)
      PROVE  RunInv'
  <2>1. t # NoThread /\ txn = NoThread /\ t \in Threads /\ NextOnDisk = nextRun
    BY <1>5 DEF Reserve
  <2>2. NextOnDisk' = nextRun /\ nextRun' = nextRun + 1 /\ nextRun \in Runs /\ nextRun \in Nat
    BY <1>5, <2>1 DEF Reserve, Tables, Runs
  <2>3. runJob'[nextRun] = thJob[t] /\ \A r \in Runs : r # nextRun => runJob'[r] = runJob[r]
    BY <1>5, <2>2 DEF Reserve
  <2>4. thRun'[t] = nextRun /\ pc'[t] = "commit"
    BY <1>5 DEF Reserve
  <2>5. \A u \in Threads \ {t} : pc'[u] = pc[u] /\ thRun'[u] = thRun[u]
    BY <1>5 DEF Reserve
  <2>6. UNCHANGED <<reapList, running, stranded, why, thJob, verdict>>
    BY <1>5 DEF Reserve
  <2>7. reapList' \subseteq running'
    BY <2>6
  <2>8. \A r \in running' \cup stranded' : r < NextOnDisk' /\ runJob'[r] \in JobIds
    BY <2>1, <2>2, <2>3, <2>6
  <2>9. \A u \in Threads \ {t} : HasRun(u) => thRun[u] # nextRun /\ thRun[u] < nextRun
    BY <2>2
  <2>10. \A u \in Threads :
           HasRun(u)' =>
             /\ thRun'[u] \in Runs /\ thRun'[u] < nextRun' /\ runJob'[thRun'[u]] = thJob'[u]
             /\ pc'[u] # "commit" => thRun'[u] < NextOnDisk'
    <3>1. /\ thRun'[t] \in Runs /\ thRun'[t] < nextRun' /\ runJob'[thRun'[t]] = thJob'[t]
          /\ pc'[t] = "commit"
      BY <1>5, <2>2, <2>3, <2>4, <2>6
    <3>2. ASSUME NEW u \in Threads \ {t}, HasRun(u)'
          PROVE  /\ thRun'[u] \in Runs /\ thRun'[u] < nextRun'
                 /\ runJob'[thRun'[u]] = thJob'[u] /\ thRun'[u] < NextOnDisk'
      BY <3>2, <2>2, <2>3, <2>5, <2>6, <2>9 DEF Runs
    <3> QED
      BY <3>1, <3>2, Zenon
  <2>11. why[Tick] = "finish" => t # Tick /\ thRun'[Tick] = thRun[Tick]
    BY <1>5, <2>5 DEF Reserve
  <2>12. why[Tick] = "finish" => runJob'[thRun[Tick]] = runJob[thRun[Tick]]
    <3>1. why[Tick] = "finish" => thRun[Tick] \in Runs /\ thRun[Tick] < nextRun
      BY <2>1
    <3>2. \A r \in Runs : r < nextRun => r # nextRun
      BY <2>2 DEF Runs
    <3> QED
      BY <2>3, <3>1, <3>2
  <2> HIDE DEF HasRun
  <2> QED
    BY <2>6, <2>7, <2>8, <2>10, <2>11, <2>12
<1>6. ASSUME NEW t \in Threads, InsertFails(t)
      PROVE  RunInv'
  BY <1>6 DEF InsertFails, DbFault, Tables
<1>7. ASSUME NEW t \in Threads, BeginFails(t)
      PROVE  RunInv'
  BY <1>7 DEF BeginFails, DbFault
<1>8. ASSUME NEW t \in Threads, Commit(t)
      PROVE  RunInv'
  <2>1. t # NoThread /\ txn = t /\ NextOnDisk = saved.nextRun /\ NextOnDisk' = nextRun
    BY <1>8 DEF Commit
  <2>2. saved.nextRun <= nextRun /\ saved.nextRun \in Nat /\ nextRun \in Nat
    BY <2>1
  <2>3. \A r \in Runs : r < saved.nextRun => r < nextRun
    BY <2>2 DEF Runs
  <2>4. \A u \in Threads : HasRun(u)' => HasRun(u)
    BY <1>8 DEF Commit
  <2>5. UNCHANGED <<reapList, running, stranded, why, thJob, thRun, runJob, nextRun, verdict>>
    BY <1>8 DEF Commit
  <2> QED
    BY <2>1, <2>3, <2>4, <2>5
<1>9. ASSUME NEW t \in Threads, Rollback(t)
      PROVE  RunInv'
  <2>1. t # NoThread /\ txn = t /\ NextOnDisk = saved.nextRun /\ NextOnDisk' = saved.nextRun
    BY <1>9 DEF Rollback, DbFault, Restored
  <2>2. /\ nextRun' = saved.nextRun
        /\ \A r \in Runs : r < saved.nextRun => runJob'[r] = runJob[r]
    BY <1>9, <2>1 DEF Rollback, Restored
  <2>3. \A u \in Threads \ {t} :
          pc'[u] = pc[u] /\ why'[u] = why[u] /\ thJob'[u] = thJob[u] /\ thRun'[u] = thRun[u]
    BY <1>9 DEF Rollback
  <2>4. \A u \in Threads : HasRun(u)' => u # t /\ HasRun(u) /\ pc[u] # "commit"
    BY <1>9, <2>1, <2>3 DEF Rollback
  <2>5. UNCHANGED <<reapList, running, stranded, thJob, verdict>>
    BY <1>9 DEF Rollback
  <2>6. why'[Tick] = "finish" => t # Tick /\ why[Tick] = "finish"
    BY <1>9, <2>3 DEF Rollback
  <2> QED
    BY <2>1, <2>2, <2>3, <2>4, <2>5, <2>6
<1>10. ASSUME NEW t \in Threads, Prepare(t)
      PROVE  RunInv'
  BY <1>10 DEF Prepare
<1>11. ASSUME NEW t \in Threads, Spawn(t)
      PROVE  RunInv'
  BY <1>11 DEF Spawn
<1>12. ASSUME NEW t \in Threads, SpawnFails(t)
      PROVE  RunInv'
  BY <1>12 DEF SpawnFails
<1>13. ASSUME NEW t \in Threads, Register(t)
      PROVE  RunInv'
  BY <1>13 DEF Register, StartReturns
<1>14. ASSUME NEW t \in Threads, FailRow(t)
      PROVE  RunInv'
  BY <1>14 DEF FailRow, CloseRow
<1>15. ASSUME NEW t \in Threads, FailJob(t)
      PROVE  RunInv'
  BY <1>15 DEF FailJob, CountFailure, Rows
<1>16. ASSUME NEW t \in Threads, StartRaises(t)
      PROVE  RunInv'
  BY <1>16 DEF StartRaises, DbFault, Raises
<1>17. ASSUME NEW t \in Threads, Unclaim(t)
      PROVE  RunInv'
  BY <1>17 DEF Unclaim, Acquires, StartReturns, Raises, Decremented
<1>18. ASSUME NEW t \in Threads, CallRaises(t)
      PROVE  RunInv'
  BY <1>18 DEF CallRaises, DbFault, Raises
<1>19. ASSUME TickBegin
      PROVE  RunInv'
  BY <1>19 DEF TickBegin
<1>20. ASSUME TickDue
      PROVE  RunInv'
  BY <1>20 DEF TickDue, Rows
<1>21. ASSUME TickEnd
      PROVE  RunInv'
  BY <1>21 DEF TickEnd
<1>22. ASSUME FinishRow
      PROVE  RunInv'
  BY <1>22 DEF FinishRow, Acquires, CloseRow
<1>23. ASSUME FinishJob
      PROVE  RunInv'
  BY <1>23 DEF FinishJob, CountFailure, Rows
<1>24. ASSUME FinishPop
      PROVE  RunInv'
  BY <1>24 DEF FinishPop, Decremented
<1>25. ASSUME FinishRaises
      PROVE  RunInv'
  BY <1>25 DEF FinishRaises, Acquires, DbFault, Raises
<1>26. ASSUME NEW r \in Runs, ReapSkip(r)
      PROVE  RunInv'
  BY <1>26 DEF ReapSkip
<1>27. ASSUME NEW r \in Runs, ReapTimeout(r)
      PROVE  RunInv'
  BY <1>27 DEF ReapTimeout, GoFinish
<1>28. ASSUME NEW r \in Runs, ReapExit(r)
      PROVE  RunInv'
  BY <1>28 DEF ReapExit, GoFinish
<1>29. ASSUME NEW j \in JobIds, NEW s \in {LiveSchedule, DeadSchedule},
              TickStart(j, s)
      PROVE  RunInv'
  BY <1>29 DEF TickStart, Raises
<1>30. ASSUME NEW t \in Ctl, StartCheck(t)
      PROVE  RunInv'
  BY <1>30 DEF StartCheck
<1>31. ASSUME NEW t \in Ctl, ResumeStatus(t)
      PROVE  RunInv'
  BY <1>31 DEF ResumeStatus, SameName, Rows
<1>32. ASSUME NEW t \in Ctl, RereadJob(t)
      PROVE  RunInv'
  BY <1>32 DEF RereadJob, ReadJob, SameName, Rows
<1>33. ASSUME NEW t \in Ctl, SetDue(t)
      PROVE  RunInv'
  BY <1>33 DEF SetDue, Rows
<1>34. ASSUME NEW t \in Ctl, LockTimeout(t)
      PROVE  RunInv'
  BY <1>34 DEF LockTimeout
<1>35. ASSUME NEW t \in Ctl, StopSignal(t)
      PROVE  RunInv'
  BY <1>35 DEF StopSignal, Acquires
<1>36. ASSUME NEW t \in Ctl, DeleteCheck(t)
      PROVE  RunInv'
  BY <1>36 DEF DeleteCheck, Acquires
<1>37. ASSUME NEW t \in Ctl, DeleteRow(t)
      PROVE  RunInv'
  BY <1>37 DEF DeleteRow, SameName, Rows
<1>38. ASSUME NEW t \in Ctl, DeletePop(t)
      PROVE  RunInv'
  BY <1>38 DEF DeletePop
<1>39. ASSUME NEW t \in Ctl, AddJob(t)
      PROVE  RunInv'
  BY <1>39 DEF AddJob
<1>40. ASSUME NEW t \in Ctl, Shutdown(t)
      PROVE  RunInv'
  BY <1>40 DEF Shutdown
<1>41. ASSUME NEW t \in Ctl, NEW j \in JobIds, RunOnce(t, j)
      PROVE  RunInv'
  BY <1>41 DEF RunOnce, Idle, Rows
<1>42. ASSUME NEW t \in Ctl, NEW j \in JobIds, PauseJob(t, j)
      PROVE  RunInv'
  BY <1>42 DEF PauseJob, Idle, Rows
<1>43. ASSUME NEW t \in Ctl, NEW j \in JobIds, ResumeJob(t, j)
      PROVE  RunInv'
  BY <1>43 DEF ResumeJob, ReadJob, Idle, Rows
<1>44. ASSUME NEW t \in Ctl, NEW j \in JobIds, NEW s \in Schedules,
              UpdateJob(t, j, s)
      PROVE  RunInv'
  BY <1>44 DEF UpdateJob, Idle, Rows
<1>45. ASSUME NEW t \in Ctl, NEW j \in JobIds, NEW w \in {"stop", "delete"},
              StopOrDelete(t, j, w)
      PROVE  RunInv'
  BY <1>45 DEF StopOrDelete, Idle, Rows
<1>46. ASSUME NEW r \in Runs, WorkerExits(r)
      PROVE  RunInv'
  BY <1>46 DEF WorkerExits
<1>47. ASSUME NEW j \in JobIds, BecomesDue(j)
      PROVE  RunInv'
  BY <1>47 DEF BecomesDue, Rows
<1>48. ASSUME Crash
      PROVE  RunInv'
  BY <1>48 DEF Crash, ProcessGone, Restored, Kept, Tables
<1>49. ASSUME ShutdownExit
      PROVE  RunInv'
  BY <1>49 DEF ShutdownExit, ProcessGone, Restored, Kept, Tables
<1>50. ASSUME Boot
      PROVE  RunInv'
  BY <1>50 DEF Boot
<1>51. ASSUME UNCHANGED vars
      PROVE  RunInv'
  BY <1>51
<1> HIDE DEF TypesInv, TypeOK, ThreadInv, SavedInv, RunInv, OwnInv, LockInv, ClaimInv,
             SingleFlight, HoldsClaim, Rows, Goto, Leave, GoLock, vars
<1> QED
  BY <1>1, <1>2, <1>3, <1>4, <1>5, <1>6, <1>7, <1>8, <1>9, <1>10, <1>11, <1>12, <1>13,
     <1>14, <1>15, <1>16, <1>17, <1>18, <1>19, <1>20, <1>21, <1>22, <1>23, <1>24, <1>25,
     <1>26, <1>27, <1>28, <1>29, <1>30, <1>31, <1>32, <1>33, <1>34, <1>35, <1>36, <1>37,
     <1>38, <1>39, <1>40, <1>41, <1>42, <1>43, <1>44, <1>45, <1>46, <1>47, <1>48, <1>49,
     <1>50, <1>51
  DEF Next, StartStep, TickStep, CtlStep, Request, Environment

\* Every step leaves each run in one place.
LEMMA StepOwn ==
  ASSUME TypesInv, [Next]_vars
  PROVE  OwnInv'
<1> USE BoundsAssumption, ParameterAssumption, ThreadAssumption DEF TypesInv
<1> USE DEF TypeOK, ThreadInv, RunInv, OwnInv, HasRun, InLockTable, Threads,
            Goto, Leave, GoLock, db, frame, conn, history, jobRows, runRows, memory, locals,
            ticking, vars
<1>1. ASSUME NEW t \in Threads, GetLock(t)
      PROVE  OwnInv'
  BY <1>1 DEF GetLock
<1>2. ASSUME NEW t \in Threads, PutLock(t)
      PROVE  OwnInv'
  BY <1>2 DEF PutLock
<1>3. ASSUME NEW t \in Threads, ClaimCheck(t)
      PROVE  OwnInv'
  BY <1>3 DEF ClaimCheck, StartReturns, Acquires
<1>4. ASSUME NEW t \in Threads, ClaimBump(t)
      PROVE  OwnInv'
  BY <1>4 DEF ClaimBump
<1>5. ASSUME NEW t \in Threads, Reserve(t)
      PROVE  OwnInv'
  <2>1. /\ nextRun \in Runs /\ thRun'[t] = nextRun /\ NextOnDisk = nextRun
        /\ UNCHANGED <<running, stranded>>
    BY <1>5 DEF Reserve, NextOnDisk
  <2>2. \A u \in Threads \ {t} : pc'[u] = pc[u] /\ why'[u] = why[u] /\ thRun'[u] = thRun[u]
    BY <1>5 DEF Reserve
  <2>3. \A r \in running \cup stranded : r # nextRun
    BY <2>1 DEF Runs
  <2>4. \A u \in Threads : HasRun(u) => thRun[u] # nextRun
    BY <2>1 DEF Runs
  <2>5. \A u \in Threads \ {t} : HasRun(u)' => HasRun(u)
    BY <2>2
  <2> HIDE DEF HasRun
  <2> QED
    BY <2>1, <2>2, <2>3, <2>4, <2>5
<1>6. ASSUME NEW t \in Threads, InsertFails(t)
      PROVE  OwnInv'
  BY <1>6 DEF InsertFails, DbFault, Tables
<1>7. ASSUME NEW t \in Threads, BeginFails(t)
      PROVE  OwnInv'
  BY <1>7 DEF BeginFails, DbFault
<1>8. ASSUME NEW t \in Threads, Commit(t)
      PROVE  OwnInv'
  BY <1>8 DEF Commit
<1>9. ASSUME NEW t \in Threads, Rollback(t)
      PROVE  OwnInv'
  BY <1>9 DEF Rollback, DbFault, Restored, TakenBack
<1>10. ASSUME NEW t \in Threads, Prepare(t)
      PROVE  OwnInv'
  BY <1>10 DEF Prepare
<1>11. ASSUME NEW t \in Threads, Spawn(t)
      PROVE  OwnInv'
  BY <1>11 DEF Spawn
<1>12. ASSUME NEW t \in Threads, SpawnFails(t)
      PROVE  OwnInv'
  BY <1>12 DEF SpawnFails
<1>13. ASSUME NEW t \in Threads, Register(t)
      PROVE  OwnInv'
  BY <1>13 DEF Register, StartReturns
<1>14. ASSUME NEW t \in Threads, FailRow(t)
      PROVE  OwnInv'
  BY <1>14 DEF FailRow, CloseRow
<1>15. ASSUME NEW t \in Threads, FailJob(t)
      PROVE  OwnInv'
  BY <1>15 DEF FailJob, CountFailure, Rows
<1>16. ASSUME NEW t \in Threads, StartRaises(t)
      PROVE  OwnInv'
  BY <1>16 DEF StartRaises, DbFault, Raises
<1>17. ASSUME NEW t \in Threads, Unclaim(t)
      PROVE  OwnInv'
  BY <1>17 DEF Unclaim, Acquires, StartReturns, Raises, Decremented
<1>18. ASSUME NEW t \in Threads, CallRaises(t)
      PROVE  OwnInv'
  BY <1>18 DEF CallRaises, DbFault, Raises
<1>19. ASSUME TickBegin
      PROVE  OwnInv'
  BY <1>19 DEF TickBegin
<1>20. ASSUME TickDue
      PROVE  OwnInv'
  BY <1>20 DEF TickDue, Rows
<1>21. ASSUME TickEnd
      PROVE  OwnInv'
  BY <1>21 DEF TickEnd
<1>22. ASSUME FinishRow
      PROVE  OwnInv'
  BY <1>22 DEF FinishRow, Acquires, CloseRow
<1>23. ASSUME FinishJob
      PROVE  OwnInv'
  BY <1>23 DEF FinishJob, CountFailure, Rows
<1>24. ASSUME FinishPop
      PROVE  OwnInv'
  BY <1>24 DEF FinishPop, Decremented
<1>25. ASSUME FinishRaises
      PROVE  OwnInv'
  BY <1>25 DEF FinishRaises, Acquires, DbFault, Raises
<1>26. ASSUME NEW r \in Runs, ReapSkip(r)
      PROVE  OwnInv'
  BY <1>26 DEF ReapSkip
<1>27. ASSUME NEW r \in Runs, ReapTimeout(r)
      PROVE  OwnInv'
  BY <1>27 DEF ReapTimeout, GoFinish
<1>28. ASSUME NEW r \in Runs, ReapExit(r)
      PROVE  OwnInv'
  BY <1>28 DEF ReapExit, GoFinish
<1>29. ASSUME NEW j \in JobIds, NEW s \in {LiveSchedule, DeadSchedule},
              TickStart(j, s)
      PROVE  OwnInv'
  BY <1>29 DEF TickStart, Raises
<1>30. ASSUME NEW t \in Ctl, StartCheck(t)
      PROVE  OwnInv'
  BY <1>30 DEF StartCheck
<1>31. ASSUME NEW t \in Ctl, ResumeStatus(t)
      PROVE  OwnInv'
  BY <1>31 DEF ResumeStatus, SameName, Rows
<1>32. ASSUME NEW t \in Ctl, RereadJob(t)
      PROVE  OwnInv'
  BY <1>32 DEF RereadJob, ReadJob, SameName, Rows
<1>33. ASSUME NEW t \in Ctl, SetDue(t)
      PROVE  OwnInv'
  BY <1>33 DEF SetDue, Rows
<1>34. ASSUME NEW t \in Ctl, LockTimeout(t)
      PROVE  OwnInv'
  BY <1>34 DEF LockTimeout
<1>35. ASSUME NEW t \in Ctl, StopSignal(t)
      PROVE  OwnInv'
  BY <1>35 DEF StopSignal, Acquires
<1>36. ASSUME NEW t \in Ctl, DeleteCheck(t)
      PROVE  OwnInv'
  BY <1>36 DEF DeleteCheck, Acquires
<1>37. ASSUME NEW t \in Ctl, DeleteRow(t)
      PROVE  OwnInv'
  BY <1>37 DEF DeleteRow, SameName, Rows
<1>38. ASSUME NEW t \in Ctl, DeletePop(t)
      PROVE  OwnInv'
  BY <1>38 DEF DeletePop
<1>39. ASSUME NEW t \in Ctl, AddJob(t)
      PROVE  OwnInv'
  BY <1>39 DEF AddJob
<1>40. ASSUME NEW t \in Ctl, Shutdown(t)
      PROVE  OwnInv'
  BY <1>40 DEF Shutdown
<1>41. ASSUME NEW t \in Ctl, NEW j \in JobIds, RunOnce(t, j)
      PROVE  OwnInv'
  BY <1>41 DEF RunOnce, Idle, Rows
<1>42. ASSUME NEW t \in Ctl, NEW j \in JobIds, PauseJob(t, j)
      PROVE  OwnInv'
  BY <1>42 DEF PauseJob, Idle, Rows
<1>43. ASSUME NEW t \in Ctl, NEW j \in JobIds, ResumeJob(t, j)
      PROVE  OwnInv'
  BY <1>43 DEF ResumeJob, ReadJob, Idle, Rows
<1>44. ASSUME NEW t \in Ctl, NEW j \in JobIds, NEW s \in Schedules,
              UpdateJob(t, j, s)
      PROVE  OwnInv'
  BY <1>44 DEF UpdateJob, Idle, Rows
<1>45. ASSUME NEW t \in Ctl, NEW j \in JobIds, NEW w \in {"stop", "delete"},
              StopOrDelete(t, j, w)
      PROVE  OwnInv'
  BY <1>45 DEF StopOrDelete, Idle, Rows
<1>46. ASSUME NEW r \in Runs, WorkerExits(r)
      PROVE  OwnInv'
  BY <1>46 DEF WorkerExits
<1>47. ASSUME NEW j \in JobIds, BecomesDue(j)
      PROVE  OwnInv'
  BY <1>47 DEF BecomesDue, Rows
<1>48. ASSUME Crash
      PROVE  OwnInv'
  BY <1>48 DEF Crash, ProcessGone, Restored, Kept, Tables
<1>49. ASSUME ShutdownExit
      PROVE  OwnInv'
  BY <1>49 DEF ShutdownExit, ProcessGone, Restored, Kept, Tables
<1>50. ASSUME Boot
      PROVE  OwnInv'
  BY <1>50 DEF Boot
<1>51. ASSUME UNCHANGED vars
      PROVE  OwnInv'
  BY <1>51
<1> HIDE DEF TypesInv, TypeOK, ThreadInv, SavedInv, RunInv, OwnInv, LockInv, ClaimInv,
             SingleFlight, HoldsClaim, Rows, Goto, Leave, GoLock, vars
<1> QED
  BY <1>1, <1>2, <1>3, <1>4, <1>5, <1>6, <1>7, <1>8, <1>9, <1>10, <1>11, <1>12, <1>13,
     <1>14, <1>15, <1>16, <1>17, <1>18, <1>19, <1>20, <1>21, <1>22, <1>23, <1>24, <1>25,
     <1>26, <1>27, <1>28, <1>29, <1>30, <1>31, <1>32, <1>33, <1>34, <1>35, <1>36, <1>37,
     <1>38, <1>39, <1>40, <1>41, <1>42, <1>43, <1>44, <1>45, <1>46, <1>47, <1>48, <1>49,
     <1>50, <1>51
  DEF Next, StartStep, TickStep, CtlStep, Request, Environment

\* Every step keeps all of these.
LEMMA StepTypes ==
  ASSUME TypesInv, [Next]_vars
  PROVE  TypesInv'
  BY StepTypeOK, StepThread, StepSaved, StepRun, StepOwn DEF TypesInv

\* Every step keeps the lock table coherent, if lookups of a job do not overlap.
LEMMA StepLocks ==
  ASSUME LookupsAlone, TypesInv, LockInv, [Next]_vars
  PROVE  LockInv'
<1> USE BoundsAssumption
<1> USE DEF TypesInv, TypeOK, ThreadInv, RunInv, Threads, Goto, Leave, GoLock, LockInv, Critical,
            db, frame, conn, history, jobRows, runRows, memory, locals, ticking, vars
<1>1. ASSUME NEW t \in Threads, GetLock(t)
      PROVE  LockInv'
  BY <1>1, NewLockType, NewLockFresh, ParameterAssumption DEF GetLock
<1>2. ASSUME NEW t \in Threads, PutLock(t)
      PROVE  LockInv'
  BY <1>2, NewLockType, NewLockFresh, ParameterAssumption DEF PutLock, LookupsAlone
<1>3. ASSUME NEW t \in Threads, ClaimCheck(t)
      PROVE  LockInv'
  BY <1>3 DEF ClaimCheck, StartReturns, Acquires, LockIsHeld
<1>4. ASSUME NEW t \in Threads, ClaimBump(t)
      PROVE  LockInv'
  BY <1>4 DEF ClaimBump
<1>5. ASSUME NEW t \in Threads, Reserve(t)
      PROVE  LockInv'
  BY <1>5 DEF Reserve, Tables
<1>6. ASSUME NEW t \in Threads, InsertFails(t)
      PROVE  LockInv'
  BY <1>6 DEF InsertFails, DbFault, Tables
<1>7. ASSUME NEW t \in Threads, BeginFails(t)
      PROVE  LockInv'
  BY <1>7 DEF BeginFails, DbFault
<1>8. ASSUME NEW t \in Threads, Commit(t)
      PROVE  LockInv'
  BY <1>8 DEF Commit
<1>9. ASSUME NEW t \in Threads, Rollback(t)
      PROVE  LockInv'
  BY <1>9 DEF Rollback, DbFault, Restored, TakenBack
<1>10. ASSUME NEW t \in Threads, Prepare(t)
      PROVE  LockInv'
  BY <1>10 DEF Prepare
<1>11. ASSUME NEW t \in Threads, Spawn(t)
      PROVE  LockInv'
  BY <1>11 DEF Spawn
<1>12. ASSUME NEW t \in Threads, SpawnFails(t)
      PROVE  LockInv'
  BY <1>12 DEF SpawnFails
<1>13. ASSUME NEW t \in Threads, Register(t)
      PROVE  LockInv'
  BY <1>13 DEF Register, StartReturns
<1>14. ASSUME NEW t \in Threads, FailRow(t)
      PROVE  LockInv'
  BY <1>14 DEF FailRow, CloseRow
<1>15. ASSUME NEW t \in Threads, FailJob(t)
      PROVE  LockInv'
  BY <1>15 DEF FailJob, CountFailure, Rows
<1>16. ASSUME NEW t \in Threads, StartRaises(t)
      PROVE  LockInv'
  BY <1>16 DEF StartRaises, DbFault, Raises
<1>17. ASSUME NEW t \in Threads, Unclaim(t)
      PROVE  LockInv'
  BY <1>17 DEF Unclaim, Acquires, StartReturns, Raises, Decremented
<1>18. ASSUME NEW t \in Threads, CallRaises(t)
      PROVE  LockInv'
  BY <1>18 DEF CallRaises, DbFault, Raises
<1>19. ASSUME TickBegin
      PROVE  LockInv'
  BY <1>19 DEF TickBegin
<1>20. ASSUME TickDue
      PROVE  LockInv'
  BY <1>20 DEF TickDue, Rows
<1>21. ASSUME TickEnd
      PROVE  LockInv'
  BY <1>21 DEF TickEnd
<1>22. ASSUME FinishRow
      PROVE  LockInv'
  BY <1>22 DEF FinishRow, Acquires, CloseRow, LockIsHeld
<1>23. ASSUME FinishJob
      PROVE  LockInv'
  BY <1>23 DEF FinishJob, CountFailure, Rows
<1>24. ASSUME FinishPop
      PROVE  LockInv'
  BY <1>24 DEF FinishPop, Decremented
<1>25. ASSUME FinishRaises
      PROVE  LockInv'
  BY <1>25 DEF FinishRaises, Acquires, DbFault, Raises
<1>26. ASSUME NEW r \in Runs, ReapSkip(r)
      PROVE  LockInv'
  BY <1>26 DEF ReapSkip
<1>27. ASSUME NEW r \in Runs, ReapTimeout(r)
      PROVE  LockInv'
  BY <1>27 DEF ReapTimeout, GoFinish
<1>28. ASSUME NEW r \in Runs, ReapExit(r)
      PROVE  LockInv'
  BY <1>28 DEF ReapExit, GoFinish
<1>29. ASSUME NEW j \in JobIds, NEW s \in {LiveSchedule, DeadSchedule},
              TickStart(j, s)
      PROVE  LockInv'
  BY <1>29 DEF TickStart, Raises
<1>30. ASSUME NEW t \in Ctl, StartCheck(t)
      PROVE  LockInv'
  BY <1>30 DEF StartCheck
<1>31. ASSUME NEW t \in Ctl, ResumeStatus(t)
      PROVE  LockInv'
  BY <1>31 DEF ResumeStatus, SameName, Rows
<1>32. ASSUME NEW t \in Ctl, RereadJob(t)
      PROVE  LockInv'
  BY <1>32 DEF RereadJob, ReadJob, SameName, Rows
<1>33. ASSUME NEW t \in Ctl, SetDue(t)
      PROVE  LockInv'
  BY <1>33 DEF SetDue, Rows
<1>34. ASSUME NEW t \in Ctl, LockTimeout(t)
      PROVE  LockInv'
  BY <1>34 DEF LockTimeout
<1>35. ASSUME NEW t \in Ctl, StopSignal(t)
      PROVE  LockInv'
  BY <1>35 DEF StopSignal, Acquires
<1>36. ASSUME NEW t \in Ctl, DeleteCheck(t)
      PROVE  LockInv'
  BY <1>36 DEF DeleteCheck, Acquires, LockIsHeld
<1>37. ASSUME NEW t \in Ctl, DeleteRow(t)
      PROVE  LockInv'
  BY <1>37 DEF DeleteRow, SameName, Rows
<1>38. ASSUME NEW t \in Ctl, DeletePop(t)
      PROVE  LockInv'
  BY <1>38 DEF DeletePop
<1>39. ASSUME NEW t \in Ctl, AddJob(t)
      PROVE  LockInv'
  BY <1>39 DEF AddJob
<1>40. ASSUME NEW t \in Ctl, Shutdown(t)
      PROVE  LockInv'
  BY <1>40 DEF Shutdown
<1>41. ASSUME NEW t \in Ctl, NEW j \in JobIds, RunOnce(t, j)
      PROVE  LockInv'
  BY <1>41 DEF RunOnce, Idle, Rows
<1>42. ASSUME NEW t \in Ctl, NEW j \in JobIds, PauseJob(t, j)
      PROVE  LockInv'
  BY <1>42 DEF PauseJob, Idle, Rows
<1>43. ASSUME NEW t \in Ctl, NEW j \in JobIds, ResumeJob(t, j)
      PROVE  LockInv'
  BY <1>43 DEF ResumeJob, ReadJob, Idle, Rows
<1>44. ASSUME NEW t \in Ctl, NEW j \in JobIds, NEW s \in Schedules,
              UpdateJob(t, j, s)
      PROVE  LockInv'
  BY <1>44 DEF UpdateJob, Idle, Rows
<1>45. ASSUME NEW t \in Ctl, NEW j \in JobIds, NEW w \in {"stop", "delete"},
              StopOrDelete(t, j, w)
      PROVE  LockInv'
  BY <1>45 DEF StopOrDelete, Idle, Rows
<1>46. ASSUME NEW r \in Runs, WorkerExits(r)
      PROVE  LockInv'
  BY <1>46 DEF WorkerExits
<1>47. ASSUME NEW j \in JobIds, BecomesDue(j)
      PROVE  LockInv'
  BY <1>47 DEF BecomesDue, Rows
<1>48. ASSUME Crash
      PROVE  LockInv'
  BY <1>48 DEF Crash, ProcessGone, Restored, Kept, Tables
<1>49. ASSUME ShutdownExit
      PROVE  LockInv'
  BY <1>49 DEF ShutdownExit, ProcessGone, Restored, Kept, Tables
<1>50. ASSUME Boot
      PROVE  LockInv'
  BY <1>50 DEF Boot
<1>51. ASSUME UNCHANGED vars
      PROVE  LockInv'
  BY <1>51
<1> HIDE DEF TypesInv, TypeOK, ThreadInv, SavedInv, RunInv, OwnInv, LockInv, ClaimInv,
             SingleFlight, HoldsClaim, Rows, Goto, Leave, GoLock, vars
<1> QED
  BY <1>1, <1>2, <1>3, <1>4, <1>5, <1>6, <1>7, <1>8, <1>9, <1>10, <1>11, <1>12, <1>13,
     <1>14, <1>15, <1>16, <1>17, <1>18, <1>19, <1>20, <1>21, <1>22, <1>23, <1>24, <1>25,
     <1>26, <1>27, <1>28, <1>29, <1>30, <1>31, <1>32, <1>33, <1>34, <1>35, <1>36, <1>37,
     <1>38, <1>39, <1>40, <1>41, <1>42, <1>43, <1>44, <1>45, <1>46, <1>47, <1>48, <1>49,
     <1>50, <1>51
  DEF Next, StartStep, TickStep, CtlStep, Request, Environment

\* What a step of thread t does that has no business with claims.
KeepsClaims(t) ==
  /\ UNCHANGED <<claims, running, stranded, dropped, runJob>>
  /\ \A u \in Threads \ {t} :
       pc'[u] = pc[u] /\ why'[u] = why[u] /\ thJob'[u] = thJob[u]
  /\ ~HoldsClaim(t)' /\ pc'[t] \notin {"bump", "delete_row"}

\* Such a step disturbs nobody's claim.
LEMMA ClaimsKept ==
  ASSUME ClaimInv, NEW t \in Threads, KeepsClaims(t)
  PROVE  ClaimInv'
<1>1. \A u \in Threads : HoldsClaim(u)' => HoldsClaim(u) /\ thJob'[u] = thJob[u]
  BY DEF KeepsClaims, HoldsClaim
<1>2. \A u \in Threads :
        pc'[u] \in {"bump", "delete_row"} => pc'[u] = pc[u] /\ thJob'[u] = thJob[u]
  BY DEF KeepsClaims
<1>3. UNCHANGED <<claims, running, stranded, dropped, runJob>>
  BY DEF KeepsClaims
<1> HIDE DEF HoldsClaim, KeepsClaims
<1> QED
  BY <1>1, <1>2, <1>3 DEF ClaimInv, SingleFlight, Claimants, Watched, CutOff

\* Every step keeps the counters of running workers exact.
LEMMA StepClaims ==
  ASSUME TypesInv, LockInv, ClaimInv, [Next]_vars
  PROVE  ClaimInv'
<1> USE BoundsAssumption, ThreadAssumption
<1> USE DEF TypesInv, TypeOK, ThreadInv, RunInv, Threads, Goto, Leave, GoLock, ClaimInv,
            SingleFlight, Claimants, Watched, CutOff, HoldsClaim, Claimed, GivingBack,
            db, frame, conn, history, jobRows, runRows, memory, locals, ticking, vars
<1>1. ASSUME NEW t \in Threads, GetLock(t)
      PROVE  ClaimInv'
  BY <1>1 DEF GetLock
<1>2. ASSUME NEW t \in Threads, PutLock(t)
      PROVE  ClaimInv'
  BY <1>2 DEF PutLock
<1>3. ASSUME NEW t \in Threads, ClaimCheck(t)
      PROVE  ClaimInv'
  BY <1>3, SMTT(60) DEF ClaimCheck, StartReturns, Acquires
<1>4. ASSUME NEW t \in Threads, ClaimBump(t)
      PROVE  ClaimInv'
  <2> DEFINE j == thJob[t]
  <2>1. j \in JobIds /\ pc[t] = "bump" /\ t \in Threads
    BY <1>4 DEF ClaimBump
  <2>2. /\ pc' = [pc EXCEPT ![t] = "reserve"] /\ why' = [why EXCEPT ![t] = "none"]
        /\ UNCHANGED <<thJob, thRun, running, stranded, dropped, runJob>>
    BY <1>4 DEF ClaimBump
  <2>3. j \notin dropped => claims[j] = 0 /\ claims' = [claims EXCEPT ![j] = 1]
    <3>1. j \notin dropped => claims[j] = 0
      BY <2>1
    <3>2. PICK seen \in {0, claims[j]} : claims' = [claims EXCEPT ![j] = seen + 1]
      BY <1>4 DEF ClaimBump
    <3>3. j \notin dropped => seen = 0
      BY <3>1
    <3>4. seen = 0 => seen + 1 = 1
      OBVIOUS
    <3> HIDE DEF j
    <3> QED
      BY <3>1, <3>2, <3>3, <3>4
  <2>4. \A k \in JobIds : k # j => claims'[k] = claims[k]
    BY <1>4, <2>1 DEF ClaimBump
  <2>5. j \notin dropped =>
          \A u \in Threads \ {t} : thJob[u] = j => ~HoldsClaim(u) /\ pc[u] \notin {"bump", "delete_row"}
    BY <2>1, <2>3 DEF LockInv, Critical
  <2>6. j \notin dropped => \A r \in running \cup stranded : runJob[r] # j
    BY <2>3
  <2>7. \A u \in Threads : HoldsClaim(u)' <=> u = t \/ HoldsClaim(u)
    BY <2>1, <2>2
  <2>8. \A u \in Threads : pc'[u] \in {"bump", "delete_row"} => u # t /\ pc[u] = pc'[u]
    BY <2>1, <2>2
  <2>9. \A u \in Threads : (HoldsClaim(u) \/ pc[u] \in {"bump", "delete_row"}) => thJob[u] \in JobIds
    OBVIOUS
  <2>10. j \notin dropped => claims'[j] = 1
    BY <2>1, <2>3
  <2>11. \A r \in running \cup stranded : runJob[r] \in JobIds
    OBVIOUS
  <2> HIDE DEF HoldsClaim, j, TypesInv, TypeOK, ThreadInv, RunInv
  <2> QED
    BY <2>1, <2>2, <2>4, <2>5, <2>6, <2>7, <2>8, <2>9, <2>10, <2>11 DEF j
<1>5. ASSUME NEW t \in Threads, Reserve(t)
      PROVE  ClaimInv'
  <2>1. t # NoThread /\ t \in Threads /\ pc[t] = "reserve" /\ nextRun \in Runs /\ NextOnDisk = nextRun
    BY <1>5 DEF Reserve, NextOnDisk
  <2>2. \A r \in running \cup stranded : r # nextRun /\ runJob'[r] = runJob[r]
    BY <1>5, <2>1 DEF Reserve, Runs
  <2>3. UNCHANGED <<claims, running, stranded, dropped, thJob, why>>
    BY <1>5 DEF Reserve
  <2>4. pc' = [pc EXCEPT ![t] = "commit"]
    BY <1>5 DEF Reserve
  <2>5. \A u \in Threads : HoldsClaim(u)' <=> HoldsClaim(u)
    BY <2>1, <2>3, <2>4
  <2>6. \A u \in Threads : pc'[u] \in {"bump", "delete_row"} => pc[u] = pc'[u]
    BY <2>4
  <2> HIDE DEF HoldsClaim, TypesInv, TypeOK, ThreadInv, RunInv
  <2> QED
    BY <2>2, <2>3, <2>5, <2>6
<1>6. ASSUME NEW t \in Threads, InsertFails(t)
      PROVE  ClaimInv'
  BY <1>6 DEF InsertFails, DbFault, Tables
<1>7. ASSUME NEW t \in Threads, BeginFails(t)
      PROVE  ClaimInv'
  BY <1>7 DEF BeginFails, DbFault
<1>8. ASSUME NEW t \in Threads, Commit(t)
      PROVE  ClaimInv'
  BY <1>8 DEF Commit
<1>9. ASSUME NEW t \in Threads, Rollback(t)
      PROVE  ClaimInv'
  <2>1. t # NoThread /\ t \in Threads /\ txn = t /\ pc[t] \in {"commit", "rollback"} /\ NextOnDisk = saved.nextRun
    BY <1>9 DEF Rollback, NextOnDisk, InTxn
  <2>2. \A r \in running \cup stranded : runJob'[r] = runJob[r]
    BY <1>9, <2>1 DEF Rollback, Restored, SavedInv
  <2>3. UNCHANGED <<claims, running, stranded, dropped, thJob>>
    BY <1>9 DEF Rollback
  <2>4. pc' = [pc EXCEPT ![t] = "get_lock"] /\ why' = [why EXCEPT ![t] = "unclaim_raise"]
    BY <1>9 DEF Rollback
  <2>5. \A u \in Threads : HoldsClaim(u)' <=> HoldsClaim(u)
    BY <2>1, <2>4
  <2>6. \A u \in Threads : pc'[u] \in {"bump", "delete_row"} => pc[u] = pc'[u]
    BY <2>4
  <2> HIDE DEF HoldsClaim, TypesInv, TypeOK, ThreadInv, RunInv
  <2> QED
    BY <2>2, <2>3, <2>5, <2>6
<1>10. ASSUME NEW t \in Threads, Prepare(t)
      PROVE  ClaimInv'
  BY <1>10 DEF Prepare
<1>11. ASSUME NEW t \in Threads, Spawn(t)
      PROVE  ClaimInv'
  BY <1>11 DEF Spawn
<1>12. ASSUME NEW t \in Threads, SpawnFails(t)
      PROVE  ClaimInv'
  BY <1>12 DEF SpawnFails
<1>13. ASSUME NEW t \in Threads, Register(t)
      PROVE  ClaimInv'
  BY <1>13, SMTT(60) DEF Register, StartReturns, HasRun
<1>14. ASSUME NEW t \in Threads, FailRow(t)
      PROVE  ClaimInv'
  BY <1>14 DEF FailRow, CloseRow
<1>15. ASSUME NEW t \in Threads, FailJob(t)
      PROVE  ClaimInv'
  BY <1>15 DEF FailJob, CountFailure, Rows
<1>16. ASSUME NEW t \in Threads, StartRaises(t)
      PROVE  ClaimInv'
  BY <1>16, SMTT(60) DEF StartRaises, DbFault, Raises, HasRun
<1>17. ASSUME NEW t \in Threads, Unclaim(t)
      PROVE  ClaimInv'
  BY <1>17 DEF Unclaim, Acquires, StartReturns, Raises, Decremented
<1>18. ASSUME NEW t \in Threads, CallRaises(t)
      PROVE  ClaimInv'
  BY <1>18 DEF CallRaises, DbFault, Raises
<1>19. ASSUME TickBegin
      PROVE  ClaimInv'
  BY <1>19 DEF TickBegin
<1>20. ASSUME TickDue
      PROVE  ClaimInv'
  BY <1>20 DEF TickDue, Rows
<1>21. ASSUME TickEnd
      PROVE  ClaimInv'
  BY <1>21 DEF TickEnd
<1>22. ASSUME FinishRow
      PROVE  ClaimInv'
  BY <1>22 DEF FinishRow, Acquires, CloseRow
<1>23. ASSUME FinishJob
      PROVE  ClaimInv'
  <2>1. /\ pc[Tick] = "finish_job" /\ pc' = [pc EXCEPT ![Tick] = "finish_pop"]
        /\ UNCHANGED <<why, thJob, claims, running, stranded, dropped, runJob>>
    BY <1>23 DEF FinishJob
  <2>2. KeepsClaims(Tick)
    BY <2>1 DEF KeepsClaims
  <2> HIDE DEF ClaimInv
  <2> QED
    BY <2>2, ClaimsKept
<1>24. ASSUME FinishPop
      PROVE  ClaimInv'
  <2> DEFINE j == thJob[Tick]
             r == thRun[Tick]
  <2>1. /\ j \in JobIds /\ pc[Tick] = "finish_pop" /\ Tick \in Threads
        /\ r \in running /\ runJob[r] = j
    BY <1>24 DEF FinishPop
  <2>2. /\ running' = running \ {r} /\ UNCHANGED <<stranded, dropped, runJob>>
        /\ pc'[Tick] = "reap" /\ why'[Tick] = "none"
        /\ \A u \in Threads \ {Tick} :
             pc'[u] = pc[u] /\ why'[u] = why[u] /\ thJob'[u] = thJob[u]
    BY <1>24 DEF FinishPop
  <2>3. j \notin dropped =>
          /\ claims[j] = 1 /\ claims'[j] = 0
          /\ \A q \in running \cup stranded : runJob[q] = j => q = r
          /\ \A u \in Threads : HoldsClaim(u) => thJob[u] # j
    <3>1. j \notin dropped => claims[j] = 1 /\ r \in Watched(j)
      BY <2>1
    <3>2. j \notin dropped => claims'[j] = 0
      BY <1>24, <2>1, <3>1 DEF FinishPop, Decremented
    <3> QED
      BY <2>1, <3>1, <3>2
  <2>4. \A k \in JobIds : k # j => claims'[k] = claims[k]
    BY <1>24, <2>1 DEF FinishPop, Decremented
  <2>5. \A u \in Threads : HoldsClaim(u)' => u # Tick /\ HoldsClaim(u) /\ thJob'[u] = thJob[u]
    BY <2>2
  <2>6. \A u \in Threads : pc'[u] \in {"bump", "delete_row"} =>
          u # Tick /\ pc[u] = pc'[u] /\ thJob'[u] = thJob[u] /\ thJob[u] \in JobIds
    BY <2>2
  <2>7. \A u \in Threads : HoldsClaim(u) => thJob[u] \in JobIds
    OBVIOUS
  <2>8. running \cap stranded = {} /\ \A q \in running \cup stranded : runJob[q] \in JobIds
    BY DEF OwnInv
  <2>9. \A k \in JobIds : claims[k] \in Nat
    OBVIOUS
  <2> HIDE DEF HoldsClaim, j, r, TypesInv, TypeOK, ThreadInv, RunInv
  <2>10. \A u \in Threads : HoldsClaim(u)' /\ thJob'[u] \notin dropped' => claims'[thJob'[u]] = 1
    BY <2>2, <2>3, <2>4, <2>5, <2>7
  <2>11. \A q \in (running \cup stranded)' : runJob'[q] \notin dropped' => claims'[runJob'[q]] = 1
    <3>1. ASSUME NEW q \in running \cup stranded, q \in (running \cup stranded)', runJob[q] = j
          PROVE  j \in dropped
      <4>1. q \in stranded \/ q # r
        BY <3>1, <2>2
      <4>2. CASE q # r
        BY <3>1, <4>2, <2>3
      <4>3. CASE q \in stranded
        BY <3>1, <4>3, <2>3, <2>1, <2>8
      <4> QED
        BY <4>1, <4>2, <4>3
    <3> QED
      BY <3>1, <2>2, <2>4, <2>8
  <2>12. \A u \in Threads :
           pc'[u] \in {"bump", "delete_row"} /\ thJob'[u] \notin dropped' => claims'[thJob'[u]] = 0
    BY <2>2, <2>3, <2>4, <2>6
  <2>13. SingleFlight'
    BY <2>2, <2>3, <2>5
  <2> QED
    BY <2>10, <2>11, <2>12, <2>13
<1>25. ASSUME FinishRaises
      PROVE  ClaimInv'
  BY <1>25 DEF FinishRaises, Acquires, DbFault, Raises
<1>26. ASSUME NEW r \in Runs, ReapSkip(r)
      PROVE  ClaimInv'
  BY <1>26 DEF ReapSkip
<1>27. ASSUME NEW r \in Runs, ReapTimeout(r)
      PROVE  ClaimInv'
  BY <1>27 DEF ReapTimeout, GoFinish
<1>28. ASSUME NEW r \in Runs, ReapExit(r)
      PROVE  ClaimInv'
  BY <1>28 DEF ReapExit, GoFinish
<1>29. ASSUME NEW j \in JobIds, NEW s \in {LiveSchedule, DeadSchedule},
              TickStart(j, s)
      PROVE  ClaimInv'
  <2>1. KeepsClaims(Tick)
    BY <1>29 DEF TickStart, Raises, KeepsClaims
  <2> HIDE DEF ClaimInv
  <2> QED
    BY <2>1, ClaimsKept
<1>30. ASSUME NEW t \in Ctl, StartCheck(t)
      PROVE  ClaimInv'
  <2>1. KeepsClaims(t)
    BY <1>30 DEF StartCheck, KeepsClaims
  <2> HIDE DEF ClaimInv
  <2> QED
    BY <2>1, ClaimsKept
<1>31. ASSUME NEW t \in Ctl, ResumeStatus(t)
      PROVE  ClaimInv'
  <2>1. KeepsClaims(t)
    BY <1>31 DEF ResumeStatus, SameName, KeepsClaims
  <2> HIDE DEF ClaimInv
  <2> QED
    BY <2>1, ClaimsKept
<1>32. ASSUME NEW t \in Ctl, RereadJob(t)
      PROVE  ClaimInv'
  <2>1. KeepsClaims(t)
    BY <1>32 DEF RereadJob, ReadJob, SameName, KeepsClaims
  <2> HIDE DEF ClaimInv
  <2> QED
    BY <2>1, ClaimsKept
<1>33. ASSUME NEW t \in Ctl, SetDue(t)
      PROVE  ClaimInv'
  BY <1>33 DEF SetDue, Rows
<1>34. ASSUME NEW t \in Ctl, LockTimeout(t)
      PROVE  ClaimInv'
  BY <1>34 DEF LockTimeout
<1>35. ASSUME NEW t \in Ctl, StopSignal(t)
      PROVE  ClaimInv'
  <2>1. KeepsClaims(t)
    BY <1>35 DEF StopSignal, Acquires, KeepsClaims
  <2> HIDE DEF ClaimInv
  <2> QED
    BY <2>1, ClaimsKept
<1>36. ASSUME NEW t \in Ctl, DeleteCheck(t)
      PROVE  ClaimInv'
  BY <1>36 DEF DeleteCheck, Acquires
<1>37. ASSUME NEW t \in Ctl, DeleteRow(t)
      PROVE  ClaimInv'
  <2>1. /\ UNCHANGED <<runJob, claims, running, stranded, dropped>>
        /\ \E where \in {"idle", "delete_pop"} : pc' = [pc EXCEPT ![t] = where]
    BY <1>37 DEF DeleteRow
  <2>2. \A u \in Threads \ {t} : why'[u] = why[u] /\ thJob'[u] = thJob[u]
    BY <1>37 DEF DeleteRow
  <2>3. KeepsClaims(t)
    BY <2>1, <2>2 DEF KeepsClaims
  <2> HIDE DEF ClaimInv
  <2> QED
    BY <2>3, ClaimsKept
<1>38. ASSUME NEW t \in Ctl, DeletePop(t)
      PROVE  ClaimInv'
  BY <1>38, SMTT(60) DEF DeletePop, LockInv
<1>39. ASSUME NEW t \in Ctl, AddJob(t)
      PROVE  ClaimInv'
  BY <1>39 DEF AddJob
<1>40. ASSUME NEW t \in Ctl, Shutdown(t)
      PROVE  ClaimInv'
  BY <1>40 DEF Shutdown
<1>41. ASSUME NEW t \in Ctl, NEW j \in JobIds, RunOnce(t, j)
      PROVE  ClaimInv'
  BY <1>41 DEF RunOnce, Idle, Rows
<1>42. ASSUME NEW t \in Ctl, NEW j \in JobIds, PauseJob(t, j)
      PROVE  ClaimInv'
  BY <1>42 DEF PauseJob, Idle, Rows
<1>43. ASSUME NEW t \in Ctl, NEW j \in JobIds, ResumeJob(t, j)
      PROVE  ClaimInv'
  BY <1>43 DEF ResumeJob, ReadJob, Idle, Rows
<1>44. ASSUME NEW t \in Ctl, NEW j \in JobIds, NEW s \in Schedules,
              UpdateJob(t, j, s)
      PROVE  ClaimInv'
  BY <1>44 DEF UpdateJob, Idle, Rows
<1>45. ASSUME NEW t \in Ctl, NEW j \in JobIds, NEW w \in {"stop", "delete"},
              StopOrDelete(t, j, w)
      PROVE  ClaimInv'
  BY <1>45 DEF StopOrDelete, Idle, Rows
<1>46. ASSUME NEW r \in Runs, WorkerExits(r)
      PROVE  ClaimInv'
  BY <1>46 DEF WorkerExits
<1>47. ASSUME NEW j \in JobIds, BecomesDue(j)
      PROVE  ClaimInv'
  BY <1>47 DEF BecomesDue, Rows
<1>48. ASSUME Crash
      PROVE  ClaimInv'
  BY <1>48 DEF Crash, ProcessGone, Restored, Kept, Tables
<1>49. ASSUME ShutdownExit
      PROVE  ClaimInv'
  BY <1>49 DEF ShutdownExit, ProcessGone, Restored, Kept, Tables
<1>50. ASSUME Boot
      PROVE  ClaimInv'
  BY <1>50 DEF Boot
<1>51. ASSUME UNCHANGED vars
      PROVE  ClaimInv'
  BY <1>51
<1> HIDE DEF TypesInv, TypeOK, ThreadInv, SavedInv, RunInv, OwnInv, LockInv, ClaimInv,
             SingleFlight, HoldsClaim, Rows, Goto, Leave, GoLock, vars
<1> QED
  BY <1>1, <1>2, <1>3, <1>4, <1>5, <1>6, <1>7, <1>8, <1>9, <1>10, <1>11, <1>12, <1>13,
     <1>14, <1>15, <1>16, <1>17, <1>18, <1>19, <1>20, <1>21, <1>22, <1>23, <1>24, <1>25,
     <1>26, <1>27, <1>28, <1>29, <1>30, <1>31, <1>32, <1>33, <1>34, <1>35, <1>36, <1>37,
     <1>38, <1>39, <1>40, <1>41, <1>42, <1>43, <1>44, <1>45, <1>46, <1>47, <1>48, <1>49,
     <1>50, <1>51
  DEF Next, StartStep, TickStep, CtlStep, Request, Environment

-----------------------------------------------------------------------------
\* Type correctness, for every configuration of the daemon, the lock table's
\* preemption, failing statements and rollbacks included.
THEOREM TypeCorrectness == Spec => []TypeOK
<1>1. Init => TypesInv
  BY InitTypes
<1>2. TypesInv /\ [Next]_vars => TypesInv'
  BY StepTypes
<1>3. TypesInv => TypeOK
  BY DEF TypesInv
<1> QED
  BY <1>1, <1>2, <1>3, PTL DEF Spec

\* A lookup that is not preempted overlaps with none.
LEMMA AtomicLookups ==
  ASSUME AtomicLockTable
  PROVE  LockInv => LookupsAlone
BY DEF LockInv, LookupsAlone

\* A job is in flight at most once in one daemon, for every number of control
\* threads, jobs and runs, every interleaving of ticks, run_once, stop, delete
\* (with the name added again) and restarts, and whatever statement fails, as
\* long as no two threads make the first use of the job's lock at once.
THEOREM FlightsWithoutRace == Spec /\ []LookupsAlone => []SingleFlight
<1> DEFINE IInv == TypesInv /\ LockInv /\ ClaimInv
<1>1. Init => IInv
  BY InitTypes, InitClaims
<1>2. IInv /\ LookupsAlone /\ [Next]_vars => IInv'
  BY StepTypes, StepLocks, StepClaims
<1>3. IInv => SingleFlight
  BY DEF ClaimInv
<1> HIDE DEF IInv
<1> QED
  BY <1>1, <1>2, <1>3, PTL DEF Spec

\* Lookups never overlap if _lock_for_job is not preempted between its lookup
\* and its store.
LEMMA LookupsNeverRace ==
  ASSUME AtomicLockTable
  PROVE  Spec => []LookupsAlone
<1> DEFINE IInv == TypesInv /\ LockInv
<1>1. Init => IInv
  BY InitTypes, InitClaims
<1>2. IInv => LookupsAlone
  BY AtomicLookups
<1>3. IInv /\ [Next]_vars => IInv'
  BY <1>2, StepTypes, StepLocks
<1> HIDE DEF IInv
<1> QED
  BY <1>1, <1>2, <1>3, PTL DEF Spec

\* So a job is never started twice if _lock_for_job is not preempted midway.
THEOREM SingleFlightTheorem ==
  ASSUME AtomicLockTable
  PROVE  Spec => []SingleFlight
BY LookupsNeverRace, FlightsWithoutRace, PTL
=============================================================================
