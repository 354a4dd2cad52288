------------------------------- MODULE JobRuns -------------------------------
(***************************************************************************)
(* What the runner promises about its jobs, without threads, locks,        *)
(* counters or processes: a job has at most one run in flight or stranded, *)
(* a run is closed once and only while it is in flight, whatever is        *)
(* recorded as running when the daemon goes down is closed as ABORTED when *)
(* it comes back, and a job can be deleted only when nothing of it is in   *)
(* flight.  It also says what a failure may cost: one run is stranded, or  *)
(* the records written while a run was being reserved are taken back.      *)
(* RunnerDaemon is shown to implement it.                                  *)
(***************************************************************************)
CONSTANTS Jobs, Runs, NoJob

VARIABLES
  up,        \* the daemon is there
  jobOf,     \* the job of each run
  outcome,   \* the recorded outcome of each run, "absent" without a record
  before,    \* { the records before the reservation in progress }, or {}
  inFlight,  \* the runs the daemon is starting, watching or closing
  stranded,  \* the runs it began and forgot
  unsettled  \* the runs whose closing failed halfway or was taken back

jobVars == <<up, jobOf, outcome, before, inFlight, stranded, unsettled>>

Ended == {"OK", "FAILED", "TIMEOUT", "ABORTED"}

Records == [jobOf |-> jobOf, outcome |-> outcome]

Init ==
  /\ up = FALSE
  /\ jobOf = [r \in Runs |-> NoJob]
  /\ outcome = [r \in Runs |-> "absent"]
  /\ before = {}
  /\ inFlight = {} /\ stranded = {} /\ unsettled = {}

\* A reservation begins, with the record of the new run or before it.
TryBegin ==
  /\ up /\ before = {}
  /\ before' = {Records}
  /\ UNCHANGED <<up, jobOf, outcome, inFlight, stranded, unsettled>>

Begin(j, r) ==
  /\ up /\ before = {} /\ before' = {Records}
  /\ jobOf[r] = NoJob
  /\ \A q \in inFlight \cup stranded : jobOf[q] # j
  /\ jobOf' = [jobOf EXCEPT ![r] = j]
  /\ outcome' = [outcome EXCEPT ![r] = "RUNNING"]
  /\ inFlight' = inFlight \cup {r}
  /\ UNCHANGED <<up, stranded, unsettled>>

Keep ==
  /\ before # {} /\ before' = {}
  /\ UNCHANGED <<up, jobOf, outcome, inFlight, stranded, unsettled>>

\* The reservation fails: its run is no more, and every closing since is undone.
TakeBack ==
  /\ up
  /\ \E old \in before :
       /\ jobOf' = old.jobOf /\ outcome' = old.outcome
       /\ inFlight' = {r \in inFlight : old.jobOf[r] # NoJob}
       /\ unsettled' = unsettled \cup
            {r \in Runs : old.outcome[r] = "RUNNING" /\ outcome[r] # "RUNNING"}
  /\ before' = {}
  /\ UNCHANGED <<up, stranded>>

Close(r) ==
  /\ r \in inFlight
  /\ \/ outcome[r] = "RUNNING"
     \/ outcome[r] # "absent" /\ r \in unsettled
  /\ \E end \in Ended \ {"ABORTED"} : outcome' = [outcome EXCEPT ![r] = end]
  /\ UNCHANGED <<up, jobOf, before, inFlight, stranded, unsettled>>

\* The record is written, what belongs to it is not: it will be closed again.
CloseFails(r) ==
  /\ r \in inFlight /\ outcome[r] \in Ended
  /\ unsettled' = unsettled \cup {r}
  /\ UNCHANGED <<up, jobOf, outcome, before, inFlight, stranded>>

Release(r) ==
  /\ r \in inFlight
  /\ outcome[r] \in Ended \/ r \in unsettled
  /\ inFlight' = inFlight \ {r}
  /\ UNCHANGED <<up, jobOf, outcome, before, stranded, unsettled>>

Strand(r) ==
  /\ r \in inFlight
  /\ inFlight' = inFlight \ {r}
  /\ stranded' = stranded \cup {r}
  /\ UNCHANGED <<up, jobOf, outcome, before, unsettled>>

Delete(j) ==
  /\ up /\ \A r \in inFlight \cup stranded : jobOf[r] # j
  /\ outcome' = [r \in Runs |-> IF jobOf[r] = j THEN "absent" ELSE outcome[r]]
  /\ UNCHANGED <<up, jobOf, before, inFlight, stranded, unsettled>>

GoDown ==
  /\ up /\ up' = FALSE
  /\ \/ before = {} /\ UNCHANGED <<jobOf, outcome>>
     \/ \E old \in before : jobOf' = old.jobOf /\ outcome' = old.outcome
  /\ before' = {}
  /\ inFlight' = {} /\ stranded' = {} /\ unsettled' = {}

ComeBack ==
  /\ ~up /\ up' = TRUE
  /\ outcome' = [r \in Runs |-> IF outcome[r] = "RUNNING" THEN "ABORTED" ELSE outcome[r]]
  /\ UNCHANGED <<jobOf, before, inFlight, stranded, unsettled>>

Next ==
  \/ \E r \in Runs :
       \/ \E j \in Jobs : Begin(j, r)
       \/ Close(r) \/ CloseFails(r) \/ Release(r) \/ Strand(r)
  \/ \E j \in Jobs : Delete(j)
  \/ TryBegin \/ Keep \/ TakeBack \/ GoDown \/ ComeBack

Spec == Init /\ [][Next]_jobVars
=============================================================================
