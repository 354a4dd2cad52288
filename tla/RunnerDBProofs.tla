--------------------------- MODULE RunnerDBProofs ---------------------------
(***************************************************************************)
(* Proofs about RunnerDB: whatever the threads of the daemon execute on    *)
(* the connection they share, whenever it is killed and whichever          *)
(* statement fails, a reservation is on disk as a whole or not at all.     *)
(***************************************************************************)
EXTENDS RunnerDB, TLAPS

Reserving == {"touch", "insert", "commit", "rollback"}

\* A thread inside reserve_run owns the transaction, and its job has a state
\* row or no row at all.
ReserverOwnsTxn ==
  \A t \in Threads :
    pc[t] \in Reserving => txn = t /\ view.status[job[t]] # Stateless

\* A job that was moved on without its run yet is the one being reserved.
Unbalanced(j) ==
  /\ txn # NoThread /\ job[txn] = j
  /\ \/ pc[txn] = "rollback"
     \/ /\ pc[txn] = "insert" /\ view.status[j] \in Status
        /\ view.touched[j] = view.runs[j] + 1

ViewIsBalanced ==
  /\ \A j \in Jobs : view.touched[j] = view.runs[j] \/ Unbalanced(j)
  /\ \A t \in Threads :
       pc[t] = "insert" /\ view.status[job[t]] \in Status => Unbalanced(job[t])

\* The inductive invariant.
IInv ==
  /\ TypeOK
  /\ ReservationIsAtomic
  /\ NoTransactionIsLost
  /\ ReserverOwnsTxn
  /\ ViewIsBalanced

\* The initial state satisfies the invariant.
LEMMA InitIInv == Init => IInv
  BY DBAssumption
  DEF Init, IInv, TypeOK, Tables, ReservationIsAtomic, NoTransactionIsLost,
      ReserverOwnsTxn, ViewIsBalanced, Unbalanced, Reserving, Status, Absent,
      Stateless, Nothing

\* Every step preserves the invariant.
LEMMA StepIInv ==
  ASSUME IInv, [Next]_vars
  PROVE  IInv'
<1> USE DBAssumption
<1> USE DEF IInv, TypeOK, Tables, ReservationIsAtomic, NoTransactionIsLost,
            ReserverOwnsTxn, ViewIsBalanced, Unbalanced, Reserving, Status,
            Absent, Stateless, Nothing, Goto
<1>1. ASSUME NEW t \in Threads, Touch(t)
      PROVE  IInv'
  <2>1. txn = t /\ pc[t] = "touch" /\ pc' = [pc EXCEPT ![t] = "insert"]
        /\ UNCHANGED <<txn, job, told>>
    BY <1>1 DEF Touch
  <2>2. CASE view.status[job[t]] \in Status
    <3>1. /\ view' \in Tables
          /\ view'.status = view.status /\ view'.runs = view.runs
          /\ view'.touched = [view.touched EXCEPT ![job[t]] = @ + 1]
          /\ disk' = disk
      BY <1>1, <2>1, <2>2 DEF Touch, Execute, MovedOn
    <3>2. view.touched[job[t]] = view.runs[job[t]]
      BY <2>1
    <3> QED
      BY <2>1, <2>2, <3>1, <3>2
  <2>3. CASE view.status[job[t]] \notin Status
    BY <1>1, <2>1, <2>3 DEF Touch
  <2> QED
    BY <2>2, <2>3
<1>2. ASSUME NEW t \in Threads, InsertRun(t)
      PROVE  IInv'
  <2>1. txn = t /\ pc[t] = "insert" /\ UNCHANGED <<txn, job, told>>
    BY <1>2 DEF InsertRun
  <2>2. CASE pc' = [pc EXCEPT ![t] = "rollback"] /\ UNCHANGED <<view, disk>>
    BY <2>1, <2>2
  <2>3. CASE pc' = [pc EXCEPT ![t] = "commit"] /\ view.status[job[t]] # Absent
             /\ Execute(WithRun(job[t]))
    <3>1. /\ view' \in Tables
          /\ view'.status = view.status /\ view'.touched = view.touched
          /\ view'.runs = [view.runs EXCEPT ![job[t]] = @ + 1]
          /\ disk' = disk
      BY <2>1, <2>3 DEF Execute, WithRun
    <3>2. view.touched[job[t]] = view.runs[job[t]] + 1
      BY <2>1, <2>3
    <3>3. \A j \in Jobs : view'.touched[j] = view'.runs[j]
      BY <2>1, <3>1, <3>2
    <3> QED
      BY <2>1, <2>3, <3>1, <3>3
  <2> QED
    BY <1>2, <2>2, <2>3 DEF InsertRun
<1>3. ASSUME NEW t \in Threads, Commit(t)
      PROVE  IInv'
  BY <1>3 DEF Commit
<1>4. ASSUME NEW t \in Threads, Rollback(t)
      PROVE  IInv'
  BY <1>4 DEF Rollback
<1>5. ASSUME NEW t \in Threads, InsertState(t)
      PROVE  IInv'
  BY <1>5 DEF InsertState, Execute, WithStatus
<1>6. ASSUME NEW t \in Threads, NEW j \in Jobs, Begin(t, j)
      PROVE  IInv'
  BY <1>6 DEF Begin
<1>7. ASSUME NEW t \in Threads, NEW j \in Jobs, InsertDef(t, j)
      PROVE  IInv'
  BY <1>7 DEF InsertDef, Execute, WithStatus
<1>8. ASSUME NEW t \in Threads, NEW j \in Jobs, DeleteJob(t, j)
      PROVE  IInv'
  BY <1>8 DEF DeleteJob, Execute
<1>9. ASSUME NEW t \in Threads, NEW j \in Jobs, NEW s \in Status,
              SetStatus(t, j, s)
      PROVE  IInv'
  BY <1>9 DEF SetStatus, Execute, WithStatus
<1>10. ASSUME Crash
      PROVE  IInv'
  BY <1>10 DEF Crash
<1>11. ASSUME UNCHANGED vars
      PROVE  IInv'
  BY <1>11 DEF vars
<1> QED
  BY <1>1, <1>2, <1>3, <1>4, <1>5, <1>6, <1>7, <1>8, <1>9, <1>10, <1>11
  DEF Next, ReserveStep

\* A reservation is atomic on disk, for any number of threads and jobs.
THEOREM ReservationAtomic == Spec => []ReservationIsAtomic
<1>1. IInv => ReservationIsAtomic
  BY DEF IInv
<1> QED
  BY InitIInv, StepIInv, <1>1, PTL DEF Spec

\* A transaction is never left open, nor its writes left behind.
THEOREM TransactionsEnd == Spec => []NoTransactionIsLost
<1>1. IInv => NoTransactionIsLost
  BY DEF IInv
<1> QED
  BY InitIInv, StepIInv, <1>1, PTL DEF Spec
=============================================================================
