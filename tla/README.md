# Wayfinder Paths SDK: a TLA+ development

This directory holds TLA+ models of the Wayfinder Paths SDK, the TLC runs that
check them and the TLAPS proofs about them. The SDK is a large Python library
(strategies, protocol adapters, API clients, backtesting, command line and MCP
tools). Most of it is sequential code around external services. Two parts have
state of their own, several actors and something to lose, and are modelled:

- the **local runner**, the daemon that schedules every recurring job;
- the **code that moves money** and must survive dying half way: the
  funding-rate harvester, which the runner schedules, the filler that trades its
  two legs, the engine of the active perps strategies, and the function that
  sends every transaction.

Paths below are relative to `src/wayfinder_paths/` unless they begin with `src/`.

Contents: 1 inventory, 2 the modules and the code, 3 the runs, 4 bounds,
5 fairness, 6 proofs, 7 disagreements found, 8 what is left out, 9 plan.

## 1. Inventory

| Part | State it keeps | Operations | What makes it correct |
|---|---|---|---|
| Runner daemon (`runner/daemon.py`) | `_running`, `_running_by_job` (claims), `_job_locks`, `_shutdown` | `tick` (reap, start due jobs), `ctl_*` calls, boot, shutdown | a job runs at most once at a time; claims are given back; every run is closed, once; due jobs start |
| Runner database (`runner/db.py`) | `job_defs`, `job_state`, `runs`, on one SQLite connection | one method per query; `reserve_run` is a transaction | a reservation is atomic; what was answered ok is stored |
| Control plane (`runner/control.py`, `api.py`, `protocol.py`, `client.py`, `transport.py`) | the listening socket and its path | bind, serve each connection in a thread, close, unlink | the path leads to the daemon that serves |
| Lifecycle (`runner/lifecycle.py`, `cli.py`, `mcp/tools/runner.py`) | none: a client asks the socket | `ensure_daemon_started`, `daemon_stop` | starting is idempotent; a stop ends the daemon |
| Schedules (`runner/schedule.py`) | none | `next_run_after`, `normalize_schedule` | the next run is in the future |
| Side effects of the runner (`daemon.py:204-475`) | a thread per sync, report or notification | post jobs, runs, session messages | the backend ends up with the last state |
| Worker scripts, monitor state (`runner/script_resolver.py`, `monitor_state.py`) | JSON files of the script | load, save | none shared with the daemon |
| Funding-rate harvester (`src/paths/funding-rate-harvester/scripts/main.py`, `legs.py`, `rate_lock.py`) | the position book, one JSON file that every process loads and saves whole; positions on Hyperliquid, Boros, Pendle and in the wallet | `deposit`, `unwind`, `rotate`, `update`, `lock`, `unlock`, `exit`, `quote`, `discover` | whatever is held is recorded; a pair is hedged; nothing else of the wallet is sold; a halted book buys nothing |
| Paired filler (`adapters/hyperliquid_adapter/paired_filler.py`) | counters of one call | `fill_pair_units`: chunks of two orders, repairs, roll back | the legs stay balanced, the totals are true |
| Transaction sending (`core/utils/transaction.py`, `svm_transaction.py`) | none: nonces are the node's, submissions the backend's | send sponsored, poll, fall back, broadcast, wait for the receipt | a transaction takes effect at most once; a returned hash is mined |
| Active perps engine (`core/strategies/active_perps.py`, `core/perps/`) | `state.json`, a snapshot file per trigger, positions at the venue | `update`: trigger, snapshot, throttled reconcile; `withdraw` | no update overshoots; the snapshots explain the fills |
| MCP state stores (`mcp/state/`) | JSON files | load, change, save | no update is lost |
| Paths: publish, heartbeat (`paths/`) | cooldown file, upload session | heartbeat, publish | one heartbeat per cooldown |
| Backtesting, quant (`core/backtesting/`, `quant/`) | none shared | floating-point computation | numeric: out of TLC's reach |
| Strategies, adapters, clients | external services | sequences of remote calls | depends on the services |

**How the runner's parts interact.** A client (CLI, MCP server) finds the daemon
only through the file `runner.sock`. `ensure_daemon_started` asks for `status`
and, without an answer, spawns a process and polls until any daemon answers. The
daemon closes the RUNNING rows it finds, binds the socket and enters its loop.
Each connection becomes a thread that runs one `ctl_*` method. Those threads
and the scheduler share the memory of the daemon and one SQLite connection in
autocommit mode. Per job there is a `threading.Lock`, made on first use, and a
counter that says whether the job is taken. A worker is a process in its own
session: the daemon polls it, kills it after its timeout, and loses it when it
crashes; the worker itself lives on.

**How the money-moving parts interact.** The runner starts `update` of a harvester or
of an active perps strategy as a worker; an operator starts the other commands
beside it. The harvester opens and closes an `hl_spot` pair with
`fill_pair_units`, and the other spot legs with swaps that go through
`send_transaction`. Each process loads its state file once and writes its whole copy
back at points the code chose; nothing locks the file, and the venues remember what was
traded whatever becomes of the process.

**What is hard.** The lock of a job is looked up without a lock. A claim is
taken under the lock, the run starts outside it, and the claim is given back on
six different paths, several of which write to the database first and may raise. `max_workers` is tested unlocked. Calls resolve a name to
an id and then wait. A tick that raises abandons the jobs behind. The database
methods of other threads run inside the transaction of `reserve_run`, and are
undone with it. Daemons
know of each other only by a file that anybody unlinks. Outside the runner, a trade
and the record of it are never one step: the process may die in between, an order
may be refused, filled in part, or answered with an exception and filled later, a
read may fail and look like an empty account, and the position an order is to
reduce may be gone when the order arrives. `PROJECT.json` lists
these hazards at their lines, with the properties that watch them.

## 2. The modules and the code

| Module | Role |
|---|---|
| `RunnerDaemon` | the daemon: threads, locks, claims, workers, rows, crash and boot |
| `JobRuns` | the abstract specification: what the daemon promises about runs |
| `RunnerLifecycle` | clients that start and stop daemons; the socket path; stale rows |
| `RunnerDB` | the shared SQLite connection, one statement at a time |
| `FundingHarvester` | the harvester's processes, its book and the venues |
| `PairedFiller` | one call of `fill_pair_units` and the two venues it trades on |
| `FillerContract` | what the harvester takes for that call, and the filler is proved to keep |
| `SendTransaction` | the calls of one wallet, the backend, the mempool and the chain |
| `ActivePerps` | updates and withdrawals of one strategy, its files and the venue |
| `RunnerDaemonProofs`, `RunnerRunsProofs` (the runs of the daemon, and that it implements `JobRuns`), `RunnerLifecycleProofs`, `RunnerDBProofs`, `FundingHarvesterProofs`, `PairedFillerProofs`, `SendTransactionProofs`, `ActivePerpsProofs` | theorems |
| `MC…`, one per component | names, small sets and symmetry for TLC |

### RunnerDaemon

*Variables.* `jobStatus`, `failures`, `due`, `sched`, `runJob`, `runStatus` are
the rows of `job_state`, `job_defs` and `runs`; `nextJob`, `nextRun` are the
AUTOINCREMENT counters, so ids are never used twice, as in the schema. They
survive a crash. `claims`, `jobLock`, `running` are `_running_by_job`,
`_job_locks` and `_running`; they do not. `worker` is the process of each run and
survives the daemon. `pc`, `thJob`, `thLock`, `thRun`, `why` are the place and
the locals of each thread (`why` is what it acquires the lock for); `reapList`,
`dueList`, `verdict` those of the tick. `txn` is the thread whose `BEGIN IMMEDIATE`
is open on the connection and `saved` the tables as they were then; `faults` counts
the statements that failed. `stranded`, `unsettled` and `dropped` are history: the
runs whose start an exception cut off after the claim, those whose closing was cut
off or undone, the jobs whose lock and counter a deletion removed.

*Granularity.* One step is one access to state that another thread can see. So
`_lock_for_job` is two steps (`GetLock`, `PutLock`) unless `AtomicLockTable`;
acquiring, the claim test (`ClaimCheck`) and the increment (`ClaimBump`) are
separate; the steps of `_finish_run` (row, job, `_running.pop`, counter) are
separate, since `ctl_delete_job` and the capacity test look in between. The
read and the write of the *decrement* `max(0, get - 1)` are one step: both are
under the job's lock. `reserve_run` is its `BEGIN`, its `INSERT` (`Reserve` or
`InsertFails`) and its `COMMIT` or `ROLLBACK`; what any other thread writes between
the first and the last is undone with it, by the `ROLLBACK` or by a crash. Every
other database method is one step, which takes effect or raises (`DbFault`): in the
start of a run, in its error paths, when a run is closed, in a tick and in a control
call. `RunnerDB` looks inside more of the methods.

*Correspondence.*

| Code | Actions |
|---|---|
| `tick`, `_loop` | `TickBegin`, `TickDue`, `TickStart`, `TickEnd` |
| `_reap` | `ReapSkip`, `ReapTimeout`, `ReapExit` |
| `_finish_run` | `GetLock`…, `FinishRow`, `FinishJob`, `FinishPop`; a statement that raises: `FinishRaises` |
| `_maybe_start_job` | `StartCheck`, `GetLock`, `PutLock`, `ClaimCheck`, `ClaimBump`, `Prepare`, `Spawn`, `SpawnFails`, `FailRow`, `FailJob`, `Unclaim`, `Register`; whatever raises after the claim and is caught by nobody: `StartRaises` |
| `reserve_run` | `Reserve`, `InsertFails`, `BeginFails`, `Commit`, `Rollback` |
| `ctl_run_once`, `ctl_add_job`, `ctl_update_job`, `ctl_pause_job`, `ctl_resume_job` | `RunOnce`, `AddJob`, `UpdateJob` + `RereadJob` + `SetDue`, `PauseJob`, `ResumeJob` + `ResumeStatus` + `SetDue` |
| `ctl_stop_job`, `ctl_delete_job` | `StopOrDelete`, `LockTimeout`, `StopSignal`; `DeleteCheck`, `DeleteRow`, `DeletePop` |
| a statement that raises in a tick or a control call | `CallRaises` |
| `ctl_shutdown`, the end of `start` | `Shutdown`, `ShutdownExit` |
| the start of `start` | `Boot` |
| the operating system | `Crash`, worker exits, time passing |

*Abstractions.* Time: a job is due or not, and a worker whose job has a timeout
may at any tick be found to have exceeded it. A schedule fires or never fires.
What a call has
read of a schedule it keeps (`ReadJob`, `dueList`). The due jobs are looked at in any order (the code orders by `next_run_at`). A
payload can be built or breaks the environment, and `ctl_update_job` changes only
the schedule. Logs, reports, syncs and
notifications change nothing the daemon reads back and are left out.

### JobRuns

What the daemon promises about runs, without threads, locks, counters or processes.
A reservation begins (`TryBegin`, or `Begin` with the record of a run, only if nothing
of its job is in flight or stranded) and is kept or taken back (`Keep`, `TakeBack`). A
run is closed (`Close`: once, not as ABORTED, again only if the closing failed halfway
or was undone, `CloseFails`), and released. A job is deleted only with nothing of it
in flight or stranded. The daemon goes down, forgetting what is not kept, and comes
back closing what was RUNNING. What a failure may cost is part of the promise:
`Strand`, one run and its job until the restart; `TakeBack`, the records written since
the reservation began.

`RunnerDaemon!Promise` is the instance: a run is *in flight* while it is in `running`
or in the hands of the thread that starts or closes it (`InFlight`), and the records a
reservation may bring back are those of `saved` (`SavedRuns`). `ImplementsJobRuns` is
checked by TLC as a temporal property.

### RunnerLifecycle

A launcher is a client: `EnsureProbe` is `try_status`, `EnsureSpawn` is
`spawn_detached`, `WaitStarted` and `WaitGivesUp` are `wait_for_started`;
`StopRequest` and `StopReturns` are `daemon_stop` (or `runner stop`, which does
not wait). A daemon process goes through `boot` → `MarkStale` → `UnlinkOld` →
`Bind` → `serving` → `stopping` → `CloseServer` → `UnlinkAndExit`, the order of
`RunnerDaemon.start`, `RunnerControlServer.start` and `.stop`. `path` is whose
socket the file is: the file outlives a crash, and unlinking takes it from
whoever owns it. Each process runs at most one job, enough to watch its row
being closed by another. Process identities are used again when no file, row
or worker of the process is left, so a bounded set of identities stands for any
number of restarts.

### RunnerDB

`view` is what the connection reads, `disk` what a crash would leave; `txn` is
the thread whose `BEGIN IMMEDIATE` is open. `Execute` is a statement: it commits
itself unless a transaction, whoever's, is open on the connection
(`isolation_level=None`, `check_same_thread=False`). `Begin`, `Touch`,
`InsertRun`, `Commit`, `Rollback` are the statements of `reserve_run`;
`InsertDef`, `InsertState` those of `add_job`; `SetStatus`, `DeleteJob` are one
statement each. A table is reduced to what the statements change: the status of
the job, how often a reservation moved its schedule, how many runs it has.
`told` is a history variable: the status the last successful call was answered.
The foreign key of `runs` is why `InsertRun` fails for a deleted job.

### FundingHarvester

*Variables.* `disk` is the state file, `mem` each process's copy; `short`, `own`,
`other`, `lockOpen` are what the venues and the wallet hold (`own` a pair bought,
`other` was there before); `proc` is the control state of each process. A pair
keeps the fields of its record that decide something: status, leg, lot,
`pre_spot_units`, entry value, lock.

*Granularity.* One step ends at each order and at each save, so that a crash
falls between any two. A process reads the file in the step that starts it.

*Correspondence.*

| Code | Actions |
|---|---|
| `run`, `load_state`, the start of each `action_…` | `StartDeposit`, `StartUnwind`, `StartRotate`, `StartUpdate`, `StartLock`, `StartUnlock`, `StartQuote`, `StartExit` |
| `action_deposit`, `PairExecutor.open_pair` and `_open_paired_atomic` | `DepositRefused`, `DepositAccepted`, `DepositRecord`, `OpenHedge`, `OpenRefused`, `OpenSpot`, `SpotRefused`, `OpenPaired`, `DepositFailed`, `DepositDone` |
| `_close_pair_full`, `PairExecutor.close_pair` | `NextClose`, `NothingToClose`, `UnwindLock`, `MarkClosing`, `SellSpot`, `SellRefused`, `CoverShort`, `CoverRefused`, `Settle` |
| `action_update`, `_reduce_pair`, `_execute_rotation`, `_boros_step` | `RailOk`, `ReduceHedge`, `ReduceRefused`, `TrimSpot`, `TrimRefused`, `DrawdownHalt`, `Paused`, `NegativeCarryExit`, `Rotate`, `StayPut`, `Rebalance`, `NoRebalance`, `DeltaDone`, `BorosStep`, `NoBorosStep`, `BorosDone`, `FinalSave` |
| `action_lock`, `action_unlock`, `action_exit`, `action_discover`, `_quote_payload` | `LockOrder`, `LockSave`, `FinishExit`, `SaveScores` |

*Abstractions.* Quantities are units: a deposit trades `Full` on each leg, a
reduction half of what is there. Prices, carry, limits and idempotency keys only
decide whether a step happens, which the model leaves open. What the paired
filler may leave behind is in `FillerContract`: `FillerOutcome` when it returns (exact, or
with the fault `rollback` also after a roll back that was not whole or a look-up that
missed a part), `Fills` when it raises. `ContractTheorem` (section 6) proves that `PairedFiller`
does no more, for `FillerMost` at least `MaxChunk * MaxLoops`. A late fill after an
exception is in the set, but the harvester's model has it at once, with the exception.

### PairedFiller

`loop` is the head of the main loop, `legs` the `gather` of a chunk. `SendChunk`
sends the two orders; `Answered(l)` is the answer of a leg with whatever it filled;
`Confirm` is `confirm_leg` for both, which looks the fills up and finds of each order
that filled a part or the whole (`Found`); `Count`, `RollBackPerp`, `NoProgress` are
the three ways the loop takes what was found; `Repair(l)` is an order on the leg that is behind; `Finish` returns.
`LegRaises(l)` ends the call with the other order in flight, which may fill later
(`LateFill(l)`). `told` is `total_spot` and `total_perp`, `venue` what was traded.
`missed` and `naked` are history: what look-ups did not find of what was filled, and
what the roll back of a lone perp left of it.

`Found` follows from `_sum_fills_by_oid_window` and its caller. The account's fills are
listed once, after the polls, and the sum over the order's ids counts if it is
positive, whatever part of the order it is. If the list has none, cannot be read, or
there is no id to look for, what the order's answer reported counts, and that is the
whole fill. (A look-up by client id finds no id: `get_order_status` makes an integer of
it, `hyperliquid_adapter/adapter.py:1398`.) The roll back is an order like any other:
it fills in part, whole, not at all, or raises, and the loop ends whatever it did.

The roll back of a spot leg is left out, because nothing reaches it: it asks for a
`marginRejected` status, and an order without a fill has been answered as failed
by then, without one.

### SendTransaction

`pc[c]` is where a call is; `job[c]` is its sponsored submission at the backend,
which may broadcast it after the call has given up; `pool` and `nonce` are its own
transaction in the mempool, `used` the nonces the chain has taken. `Begin` to
`PollEnds` are the sponsored way, `Prepare` to `BroadcastRefused` the local one,
`Receipt` to `ConfirmFails` the wait. A transaction with the nonce of a pending
one replaces it (`Rivals`). Backend, mempool and chain are external. A call on
Solana (`svm_transaction.py`) has no nonce: its local broadcast replaces nothing.

### ActivePerps

*Variables.* `now` counts ticks, `BarTicks` to a bar. `rows[b]` is the target of
bar `b`, which moves while the bar is in progress as its candle does (`Tick`).
`pos` is the venue; `disk`, `data` the state file and each process's copy; `files` the
intents in the snapshots of each bar; `proc` the control state. `fills`, `died` and
`ran` are history: what triggers bought and sold, the bars during which one died,
when the last automatic reconcile began.

| Code | Actions |
|---|---|
| `__init__`, `StateStore._load_live` | `StartUpdate`, `StartWithdraw` |
| `update` stopped by the risk limits | `Halted` |
| `_run_trigger`: trigger time, data, closed bars | `Begin`, `NoCompletedBar`, `Fetch` |
| `default_decide` through `RecordingHandler` and `LiveHandler` | `Decide`, `PlaceOrder` |
| the rest of `_run_trigger` | `SaveState`, `WriteSnapshot` |
| `_maybe_auto_reconcile` | `Throttled`, `MarkReconcile`, `Reconcile` |
| `withdraw` | `ReadToClose`, `Close`, `WithdrawEnds` |
| the venue, the operating system | `Liquidate`, `Crash` |

*Abstractions.* Sizes are whole units and `min_order_usd` is `MinSize` of them. An order
is refused or fills in part or whole, a reduce-only one never more than the
position. `decide` is the default one. One snapshot per trigger, written in one
step: in the code two triggers of the same second share a file, and the write is not
atomic. A fill is known to the venue at once. A
withdrawal's orders leave no snapshot, and `fills` does not count them.

## 3. The runs

| Run | Config | What it shows |
|---|---|---|
| `daemon_core` | `RunnerDaemon_core` | One job, two control threads and the scheduler, every spawn failure, a full database and one more failing statement, anywhere, crashes and restarts: `SingleFlight`, `RegisteredRowIsRunning`; `NoLeakedClaim` and `RunningRowIsOwned`, which say that only the run hit by an exception or a roll back is lost; and `ImplementsJobRuns`, the refinement of `JobRuns` |
| `daemon_capacity` | `RunnerDaemon_capacity` | `max_workers = 1` and three jobs: the unlocked test is exceeded, by at most one start per other thread (`CapacityBound`) |
| `daemon_hostile` | `RunnerDaemon_hostile` | Preemptible lock table, dead cron, a failing statement, a run closed inside the reservation of another that rolls back, crashes: `TypeOK`, `LiveWorkerNotRecordedAsEnded`, `OutcomeIsFinal` still hold |
| `daemon_live` | `RunnerDaemon_live` | With fairness and a failing statement, runs are closed and due jobs start, but those the failure hit: `RunsEnd`, `DueJobsStart` |
| `lifecycle_serial` | `RunnerLifecycle_serial` | One client, stops and crashes anywhere: `OneDaemonUp`, `ServingIsReachable`, `AbortedRunWasLost` |
| `lifecycle_contended` | `RunnerLifecycle_contended` | Two clients start at once: whatever daemon is stranded, both reach one (`ContendedStartsSucceed`) |
| `db_hostile` | `RunnerDB_hostile` | Three threads, failing statements, jobs deleted under a reservation, crashes: `ReservationIsAtomic`, `NoTransactionIsLost` |
| `harvester` | `FundingHarvester_alone` | One process at a time, a swapped and an `hl_spot` symbol, orders refused, crashes between any two steps: `ExposureIsRecorded`, `OpenPairIsHedged`, `ReferenceMatchesBook`, `NeverOpenedTwice`, `HedgeOutlivesSpot`, `RecoveryOnlyShrinks`, `HaltedOpensNothing` |
| `harvester_lots` | `FundingHarvester_lots` | Ends in a violation of `LotIsolation`: section 7 |
| `filler` | `PairedFiller_pass` | A pair of six units in chunks of three, partial fills, refusals, look-ups that find a part, roll backs that fill in part or not at all, an exception with the other leg in flight: `TotalsAreTraded`, `DeltaIsImbalance`, `CompletedIsFilled`, `NakedPerpIsAChunk`, `UnpairedIsAChunk` |
| `send` | `SendTransaction_pass` | A sponsored, a local and a Solana call at once, stale nonces and lost answers: `OneEffect`, `ReturnedIsMined`, and with fairness `CallsEnd` |
| `perps` | `ActivePerps_pass` | Updates and withdrawals over three bars with crashes and liquidations: `TowardTarget`, `OpensOnlyItsSide`, `FillsAreExplained`, `ReconcileThrottled` |

`harvester`, `filler`, `send` and `perps` also check the type invariant of their module.

Every property of a passing run has a mutated definition (`ClaimCheckNever`,
`BindCleansUp`, …, each beside the definition it mutates) that is a plausible
bug of that code and makes TLC report the property.

`CHECK_DEADLOCK FALSE` appears where the system or the model really stops: in
`PairedFiller_pass` and `SendTransaction_pass`, whose calls end, and in
`RunnerLifecycle` configurations with few process identities (when all are stranded
the model has nothing left to spawn). Everything else checks deadlock.

## 4. Bounds, and why they are enough

- `MaxJobs`, `MaxRuns`: ids ever allocated. Two runs of a job are what a double
  start or a double close needs; two jobs under one name are what
  delete-and-add-again needs (that `SingleFlight` survives it is part of the
  theorem, which has no bound on ids and any names). Past `MaxRuns`, the `INSERT` of `reserve_run`
  fails like a full disk, so the failure path is part of every run. The exhaustive
  runs of the start path have one job; two jobs, one of them closed inside the
  reservation of the other, were checked once with the five properties of
  `daemon_core` and `OutcomeIsFinal` (one control thread, no crash, one fault: four
  million states). In `daemon_hostile` two runs of one job, which the raced lock
  table allows, show the same.
- `MaxFaults`: one statement that fails at a time and place of TLC's choice, in
  `daemon_core`, `daemon_hostile` and `daemon_live`; none in `daemon_capacity`, where
  a start that fails only makes room. The theorems have no bound on it.
- `NoFailedJob`, a state constraint of `daemon_capacity` only: nothing is followed
  once a job has failed. What is left of a failed start or of a failed run is to give
  its claim or its slot back, and with `MaxFailures = 1` the job is then in `ERROR`,
  where neither the scheduler nor `run_once` picks it. It halves the run; without it
  the instance has seven million states and was checked once, with the same result.
- `Ctl`: two control threads and the scheduler are three actors on one lock:
  holder, waiter, and one that replaces the lock. With one or two jobs a third
  control thread only repeats a role.
- `Locks`: one more than the threads, so a fresh lock object is always there.
- `MaxFailures` 1 or 2: a job that trips at once, and one that survives a failure.
- `Calls`, `CanCrash`, `Schedules`, `BadPayload`, `Unlimited` choose which part of
  the environment a run has, so that each run stays exhaustive. A payload that breaks
  the environment (in `daemon_capacity`) takes the same way as a failing
  `update_run_log_path` one line before.
- `AtomicLockTable = TRUE` says that `_lock_for_job` is not preempted between its
  `get` and its store. CPython makes that likely, not certain. `daemon_hostile` has FALSE. With
  FALSE and two control threads TLC finds `SingleFlight` violated in a few
  steps: both threads miss the lock of a job, each stores one of its own, and
  both start the job.
- `Daemons`: four identities in `lifecycle_serial` (a serving process, an exiting
  one, a dead one with a live worker, one to spawn); three in the contended run,
  so that a stranded process does not stop the other client.
- `PromptExit`, `CanTimeout`: in `lifecycle_serial` a process that closed its
  server unlinks the path before the next one gets to it, and the client waits
  while its process boots. Both are timing assumptions of the code (milliseconds
  against the boot of a Python process, and the ten seconds of
  `wait_for_started`), stated as constants and as assumptions of the theorems.
- `RunnerDB`: two or three threads, two jobs, two runs: one reserver, one
  intruder, one job that is not involved.
- `FundingHarvester`: one process, because nothing lets two overlap safely (section
  7). Two symbols, one per kind of leg, are what a rotation and the order of closing
  need. `Full = 2`: a reduction to half leaves something, a second open shows.
  `FillerMost = 2`: neither, one or both units of a leg. `Faults = {"crash"}`; the
  other faults break what they break by what the code does with them, not by an
  interleaving (a misread Pendle balance drops the pair; section 7 has the roll back).
- `PairedFiller`: `Total = 6`, `MaxChunk = 3`, `MinUnits = 2`: two chunks, a chunk
  shrunk below the minimum, an imbalance too small to repair (1) and one to repair.
  `Funds = 9` lets repairs go past the total. `MaxLoops = 8` is more than a fill
  without refusals takes, so that both ends of the loop happen.
- `SendTransaction`: three calls, one of each kind, two of them on one nonce; two
  confirmations, so that a receipt is not yet enough.
- `ActivePerps`: `MaxTime = 4` with two ticks to a bar is three bars, of which two
  close: an update can begin in one bar and trade in the next, and die, and its
  successor read another row. Targets are a short, none and a long, twice the
  smallest order apart, so that a partial fill leaves less than is worth an order.
  `Prompt` says that a trigger takes no longer than a bar, which is the point of the
  bar: without it the fills are explained by no snapshot near them
  (`FillsAreExplained` fails with `MaxTime = 6`). Two symbols over two bars
  were checked once, with crashes (1.6 million states).

Symmetry is used for process identities, database threads and jobs, in runs
without temporal properties only.

## 5. Fairness

`RunnerDaemon!Fairness`: weak fairness of the scheduler thread's steps (its loop
never waits for anything but a lock and a sleep), of the exit after a shutdown,
of each thread inside `_maybe_start_job` and of each control thread inside a
call (they hold a lock for a bounded time, and the ones that wait do it with a
timeout). Strong fairness of `ReapTimeout(r)`: at every tick a worker either has
or has not passed its timeout, and one that runs for ever passes it. No
fairness for clients, crashes, boots, worker exits, or jobs without a timeout
(`Unlimited`), for which `RunsEnd` is not claimed.

`RunnerLifecycle!Fairness`: a client in `ensure_daemon_started` goes on polling;
a process goes on booting and exiting. Nobody is forced to call or to stop.

`SendTransaction!LiveSpec`: weak fairness of each step of a call, because every
request it makes is answered or times out, and of `EmptyBlock`, because the chain
goes on: the wait for confirmations has no timeout of its own. No fairness for the
backend or for the inclusion of a transaction.

## 6. Proofs

All theorems hold for every value of the constants that satisfies the
assumptions in the modules; none uses a bound of the runs.

| Theorem | Says | Under |
|---|---|---|
| `RunnerDaemonProofs!TypeCorrectness` | `[]TypeOK` | nothing more: also with a raced lock table |
| `RunnerDaemonProofs!FlightsWithoutRace`, `SingleFlightTheorem` | `[]SingleFlight` | `[]LookupsAlone`, `AtomicLockTable` respectively |
| `RunnerRunsProofs!LiveWorkerTheorem`, `OutcomeTheorem` | `[]LiveWorkerNotRecordedAsEnded`, `OutcomeIsFinal` | nothing more: also with a raced lock table |
| `RunnerRunsProofs!OwnedTheorem` | `[]RunningRowIsOwned` | nothing more: any statement may fail, any payload may be broken |
| `RunnerRunsProofs!CapacityTheorem` | `[]CapacityBound` | finitely many control threads |
| `RunnerRunsProofs!LimitTheorem` | `[]CapacityWithin(k)`: `max_workers` is exceeded by less than `k` | the same, and `[]StartsAtOnce(k)` |
| `RunnerRunsProofs!LimitIsKept` | `max_workers` is kept | the same, and `[]StartsAtOnce(1)` |
| `RunnerRunsProofs!ClaimsWithoutRace`, `NoLeakTheorem` | `[]NoLeakedClaim` | `[]LookupsAlone`, `AtomicLockTable` respectively |
| `RunnerRunsProofs!RowsWithoutRace`, `RegisteredRowTheorem` | `[]RegisteredRowIsRunning` | `[]LookupsAlone`, `AtomicLockTable` respectively; both with `NamesAreUnique`, `[]DeletionsStand` |
| `RunnerRunsProofs!RefinementWithoutRace`, `Refinement` | `ImplementsJobRuns` | `[]LookupsAlone`, `AtomicLockTable` respectively; both with `NamesAreUnique`, `[]DeletionsStand` |
| `RunnerLifecycleProofs!SerializedStarts` | `[]OneDaemonUp`, `[]ServingIsReachable`, `[]AbortedRunWasLost` | `Patient`, and `[]StartsAlone`: any number of clients |
| `RunnerLifecycleProofs!StartIsIdempotent` | `[]OneDaemonUp` | `OneClient` |
| `RunnerLifecycleProofs!ServingReached` | `[]ServingIsReachable` | `OneClient` |
| `RunnerLifecycleProofs!OnlyLostRunsAborted` | `[]AbortedRunWasLost` | `OneClient` |
| `RunnerDBProofs!ReservationAtomic` | `[]ReservationIsAtomic` | nothing more |
| `RunnerDBProofs!TransactionsEnd` | `[]NoTransactionIsLost` | nothing more |
| `FundingHarvesterProofs!TypeTheorem` | `[]TypeOK` | nothing more: any processes at once, every fault |
| `FundingHarvesterProofs!ReferenceTheorem` | `[]ReferenceMatchesBook` | nothing more: any processes at once, every fault |
| `FundingHarvesterProofs!HaltedTheorem`, `RecoveryTheorem` | `HaltedOpensNothing`, `RecoveryOnlyShrinks` | `OneProcess`: with every fault |
| `FundingHarvesterProofs!ExposureTheorem`, `OpenedOnceTheorem`, `LastOffTheorem` | `[]ExposureIsRecorded`, `[]NeverOpenedTwice`, `HedgeOutlivesSpot` | `OneProcess`, no fault but crashes and refused orders |
| `FundingHarvesterProofs!HedgedTheorem` | `[]OpenPairIsHedged` | the same, and `Unrelated = 0` |
| `FundingHarvesterProofs!HedgedBesideOthers` | `[]OpenPairIsHedged` | `Undisturbed`: `OneProcess`, no fault, no rate lock; any `Unrelated` |
| `PairedFillerProofs!FillerTypes`, `DeltaTheorem`, `CompletionTheorem` | `[]TypeOK`, `[]DeltaIsImbalance`, `[]CompletedIsFilled` | nothing more |
| `PairedFillerProofs!UnpairedTheorem` | `[]UnpairedIsAChunk` | nothing more: also when an order raises, a roll back fails, a look-up finds a part |
| `PairedFillerProofs!BoundTheorem`, `ContractTheorem` | `[]TradesAreBounded`, `[]KeepsContract` | nothing more |
| `PairedFillerProofs!TotalsTheorem`, `NakedPerpTheorem` | `[]TotalsAreTraded`, `[]NakedPerpIsAChunk` | nothing more |
| `SendTransactionProofs!SendTypes`, `OneEffectTheorem`, `ReturnedTheorem` | `[]TypeOK`, `[]OneEffect`, `[]ReturnedIsMined` | nothing more: with every fault |
| `ActivePerpsProofs!PerpsTypes`, `SideTheorem` | `[]TypeOK`, `OpensOnlyItsSide` | nothing more: any processes, every fault |
| `ActivePerpsProofs!ExplainedTheorem` | `[]FillsAreExplained` | `Prompt` |
| `ActivePerpsProofs!ThrottleTheorem` | `ReconcileThrottled` | `OneProcess` |
| `ActivePerpsProofs!TowardTargetTheorem` | `TowardTarget` | `OneProcess`, reads do not fail |

*Types.* `TypeOK` is not inductive: the step that closes a run reads the verdict
and the run id of the scheduler thread, and a roll back restores what was saved.
`TypesInv` adds `ThreadInv` (what a thread at each place has in its locals, and that
the open transaction is that of the thread which will end it), `SavedInv` (the saved
rows are rows), `RunInv` (run ids in memory are allocated, and belong to the job of
the thread) and `OwnInv` (a run is watched, stranded, or with one thread).

*Single flight.* `ClaimInv` says that the counter of a job is 1 while somebody holds
the claim, is watched under it, or was cut off with it. It needs mutual exclusion
inside the with-blocks, `LockInv`: every thread that waits for the lock of a job has
the object in the table. Both speak of jobs whose lock no deletion has dropped
(`dropped`), because a deletion breaks them, and harmlessly: ids are never used
again. They are proved step by step, one step of the proof per action. A claim is
lost only with the exception that lost it, so a stranded run blocks its job and
nothing else.

The race of `_lock_for_job` enters in one place, the store of a new lock:
`LookupsAlone` says that no two threads are about to store one for the same job, and
then whoever is finds the table still without one. With `AtomicLockTable` that holds
by itself; where a lookup may be preempted, the theorems say that this race, on the
first use of a job's lock, is the only one that matters, and without the hypothesis
`SingleFlight` is false (section 4).

*Runs.* A run goes through the hands of threads: its row is written, its worker
started, the run registered in `_running`; later the scheduler takes the verdict,
closes the row, then lets go. `HandInv` names these stages and says that a run is in
one pair of hands and not watched by the daemon at the same time, except while it is
closed; `RowInv` what row and worker say at each stage, on the connection and on
disk (`DiskStatus`, what a crash or a roll back would leave); `DownInv` that a daemon
that is down holds nothing. The three need no assumption, and give `OutcomeTheorem`
and `OwnedTheorem`: a run whose row is taken back to RUNNING is in `unsettled`, a run
dropped by an exception in `stranded`, and no other loses its watcher. `LiveRunInv`
sharpens them: the row of a run in hand is there and says RUNNING. That needs
`SingleFlight` (a job in use is not deleted), `NamesAreUnique`, because a delete goes by
name and can hit another id of the same name (section 7), and `DeletionsStand`: a roll
back that brings a deleted job back, its lock and counter dropped, lets that job be
started beside itself (section 7). Most steps do not touch any of this; `Quiet` says
what they leave alone, once, and each property is then proved for the `Loud` steps
one by one. The capacity is counted: `RoomInv` bounds the watched workers and
the starts that found room. A start is only let in below the limit, so what is above
it are starts that were let in together: less than `k` of them if no more than `k`
are in progress at once (`StartsAtOnce`), less than the number of threads always,
none if starts do not overlap. Nothing in the code keeps the scheduler and a
`run_once` from overlapping. The refinement takes the stages as `inFlight` and the
saved rows as `before`: each loud step is a step of `JobRuns` or none, each quiet step
none.

*Harvester.* What the records of the book promise (`Fits`): no record, no exposure;
a lot that is known is at least what was bought and at most what one open buys; a
lot that is not known yet is what was added to a baseline that still stands. It is
not inductive alone. The process trades first and saves later, so its copy must
promise the same (`CopyInv`) and may differ from the file only in ways that
promise no more (`Agree`): marks, locks and lots that a reduction changed in memory
only. And what has been achieved before each step of the open and the close is
`Stage`: the hedge is on before the spot is bought, the spot is gone before the
hedge is taken off, both are gone when the record is dropped. `OneProcess` is
needed because the whole copy is written back (section 7), and the faults are
excluded because a misread balance, a partial cover or a failed roll back drops the
record of what is still held. The halt and the recovery need much less, `Guards`
(a copy is halted with the file, and shows a pair open only if the file does), and
so hold with every fault. With crashes `Unrelated = 0` is needed for
`OpenPairIsHedged`: with `Unrelated = 1` TLC finds it violated (section 7).
`HedgedBesideOthers` says what it takes otherwise: if every process reaches its
save, its copy knows the lots exactly (`HeldInv`: an open pair holds its lot, no
less and no more), so a reduction by the lot sells the pair's own units, and some of
them are left. A rate lock has to be excluded as a crash has, because a rotation
inside an update whose rate unlock fails ends without the save.

The reference is the easier one, and the stronger: it needs no assumption at all,
because each book balances on its own (`Balanced`, of the file and of every copy)
and a process only ever replaces a whole book by a whole book. The reference is a
sum over the pairs, a fold over a set. What the fold gives when one pair changes
would take an induction over the set, and the library's take an operator as a
parameter; it is proved from the smallest set of symbols for which it fails, which
exists because the cardinalities are natural numbers.

*Lifecycle.* `Patient` is a client that waits while its process boots, and an exit
quicker than a boot; `StartsAlone`, that no two clients are past their status call
at once, which nothing in the code sees to. Stops, runs and crashes overlap with
anything. `OneClient` is the case in which `StartsAlone` holds by itself. While
starts stay apart, whoever boots is awaited (`BootIsAwaited`), a client that is
about to spawn has seen nothing up (`SpawnIsNeeded`), and the path is quiet between
a process's unlink and its bind (`PathIsQuiet`).

*Database.* A job whose schedule was moved without a run is the job of the
thread that has the transaction (`ViewIsBalanced`), and that thread is about to
insert the run or to roll back (`ReserverOwnsTxn`).

*Paired filler.* `IInv` adds three facts to the types and `DeltaIsImbalance`:
`Ledger`, what the venues hold is what is counted, what the look-ups missed, what the
chunk in flight has filled and what a roll back left; `Progress`, no leg is short of the progress counted; `SpotFirst`, a total
without spot has no perp. `ChunkInv` bounds what is unpaired: an imbalance is
repaired, or ends the loop, before another chunk is sent, and the order that an
exception leaves in flight can only catch up. The bound: every step that sends an
order counts a loop, and no order is larger than a chunk (`ChunkPerLoop`). The
contract follows from the same facts: the spot total never claims more than was
bought. A perp alone is at most a chunk (`FirstChunk`): while no spot is counted
nothing of the perp is on the venue but the first chunk's, because a repair follows a
counted spot and the loop ends with a roll back, whatever that filled. None of these
theorems assumes anything of roll backs or look-ups.

*Sending.* The argument for one effect is `FallbackIsAlone`: a call that signs a
transaction of its own has no submission that may still reach the chain. With
`ChainIsFed` (what is on chain was broadcast) that is one effect; `HashIsHeld` (the
hash a call waits for is of something it broadcast) gives the receipt.

*Active perps.* `OrderedByAnOrder` says which steps take a symbol off a
process's list. Side: an order that is not reduce-only goes the way of its target,
and a reduce-only one ends at zero (`FillsOnItsSide`), arithmetic alone. Target:
`AimInv`, an update that orders wants the row of the bar before its own, which no
later tick changes, and what it has yet to order is still as it read it; crashed
updates need no case of their own because the next one reads the venue. Snapshots:
`FillsInv`, a fill is found in a file or held by a trigger of the same bar or the
one before (`Punctual`). Throttle: `MarkInv`, the file and the process's copy hold
when the last reconcile began.

*Not proved.* Every safety property of a passing run is the subject of a theorem.
Liveness (`RunsEnd`, `DueJobsStart`, `ContendedStartsSucceed`, `CallsEnd`) and
anything with ENABLED is out of the prover's reach and stays with TLC.

## 7. Where code and words disagree

**A lot is sold twice** (run `harvester_lots`; `main.py:1369` of the harvester). A close whose
spot sale succeeded and whose cover was refused is saved as impaired with its lot
unchanged. The next unwind sells that lot again, out of whatever the wallet holds of
the token. The harvester's README (line 82) says the wallet "never has unrelated
holdings sold" and that this "holds through every failure mode". TLC ends the run
with the shortest behaviour.

The following were found the same way, with the constants named here; each is
reproduced by adding the definition to a configuration.

| Where | With | What happens |
|---|---|---|
| harvester `main.py:1331` | `RateLock = FALSE`, `ExitIsSettled` | `lock` builds the Boros adapter always, `unwind` only with `rate_lock.enabled`: the close drops the pair and its record of the lock, and `exit` runs with the Boros position open (its README:95 says it refuses) |
| harvester `main.py:237` | two in `Procs`, `ExposureIsRecorded` | two commands at once overwrite each other's pairs |
| harvester `main.py:1586` | `Unrelated = 1`, `OpenPairIsHedged` | a reduction scales the lot in memory, and a crash before the final save forgets it: the next reductions sell by the larger lot, so units the pair never bought stand in for its own, and a pair shown as open may have sold all of them under a live short. With `RateLock = TRUE` a rotation whose rate unlock fails forgets them too, without a crash |
| `paired_filler.py:822` | `Total = 7`, `WithinTotal` | progress is the smaller leg and repairs do not count, so a pair may end above the size asked for. What bounds it is one chunk for each of `max_loops` loops (`BoundTheorem`) |
| `perps/handlers/live.py:160` | `"read"` in `Faults`, `TowardTarget` | a failed read is an empty account, and the whole target is ordered again; `context.py:101` says that a decide should do nothing at zero NAV, which `default_decide` does not look at |
| `active_perps.py:152` | two in `Procs`, `TowardTarget` | two updates at once both order the whole difference; the runner starts one at a time (`SingleFlight`), an operator need not |
| `daemon.py:985` | `JobName` of one name, two jobs, `DeleteSparesRunning` | a delete that waited for the lock of an id deletes by name, and so a job added meanwhile, although it runs |
| `daemon.py:520`, `548`, `563`, `570`, `600`, `607`, `618` | `MaxFaults = 1` or a `BadPayload`, `EveryRunIsWatched` | a statement that raises between the claim and `_running`, or a payload `env` that is no mapping, passes every handler that gives the claim back. The row stays RUNNING (not after 570 and 607), after 618 with a live worker that is never polled, killed or stopped, and the job can neither run nor be deleted until the daemon restarts. The properties of the runs name such a run (`stranded`) and say that nothing else is lost |
| `daemon.py:306` | `MaxFaults = 1`, `OutcomesStand` | when counting a failure raises, the run has been closed and stays registered: the next tick closes it again, and a TIMEOUT becomes FAILED with the exit code of the kill |
| `db.py:443` | two jobs, `MaxFaults = 1`, `OutcomesStand` | a run closed by one thread inside the open `reserve_run` of another is RUNNING again after its roll back; nobody watches it any more, and the next boot closes an OK run as ABORTED |
| `db.py:443` | two jobs, two control threads, `DeletionsStand` | a delete answered ok inside an open `reserve_run` is undone by its roll back; the job is back without the lock and counter that the delete dropped, so a thread that still waits for the old lock no longer excludes one that takes a new one |
| `daemon.py:490` | `"never_fires"`, `FiringJobsStart` | a cron expression that never fires makes every tick raise before the jobs behind it |
| `paired_filler.py:785` | `NoSpotNoPerp` | the order that sends a lone perp back fills in part, not at all or raises: it is logged, the loop ends, and totals of zero are returned with a perp of up to a chunk on the venue (`NakedPerpIsAChunk`). In the harvester (`"rollback"` in `Faults`, `OpenPairIsHedged`) the pair is then shown open with a short and no spot |
| `paired_filler.py:186` | `missed` stays `Nothing`; harvester: `"rollback"` in `Faults`, `ExposureIsRecorded` | a list of fills that lags behind shows a part of an order; any positive sum replaces the whole that the order's answer reported. The filler repairs an imbalance that is not there, and the harvester records a lot smaller than what it bought, which its unwind then leaves in the wallet |
| `lifecycle.py:124` | two clients, `OneDaemonUp` | two starts at once leave two daemons; the first is unreachable and keeps scheduling |
| `db.py:443` | `ToldIsStored` | a pause executed inside another thread's open `reserve_run` is undone by a crash after it was answered ok |

Read off the code while modelling, without a property: a snapshot keeps the
positions after the trade (`active_perps.py:275`) while `handlers/reconcile.py:3`
says that decide sees what live saw; `withdraw` reports ok with "Closed 0"
when the positions could not be read. And two more that no document settles.
`daemon.py:176`: the get-or-create of a job's lock is a race (section 4).
`lifecycle.py:125`: a daemon that was told to stop still answers `status`, so a start
right after a stop may be answered `already_running` and leave no daemon
(`EnsureProbe` in mode `stopping`).

## 8. What is not modelled

- Inside the runner: the side-effect threads (backend sync, run reports, session
  binding and notification), socket framing, script resolution, logs, and the
  arithmetic of schedules.
- `update_job` and the `record_*` methods appear in `RunnerDaemon` as single steps,
  which may fail, and not again in `RunnerDB`: each is one statement, or a read and a
  write of one row that only one thread makes at a time. `RunnerDaemon` in turn has
  `add_job` and the aborting `UPDATE` of a boot in one step that does not fail (a boot
  that fails leaves the daemon down).
- In the harvester: prices, carry, scoring, paper mode, idempotency keys, the
  ledger. In the filler: notionals, order identifiers, the time window of the look-up. In the
  sending of transactions: gas, fees, token helpers, wallets. In the perps engine:
  `deposit` and `exit`, decide functions of strategies, leverage and risk
  arithmetic, what the reconciler replays, venues beside the first.
- The MCP state stores and the heartbeat (planned), and the rest of the path tools,
  which generate text.
- Backtesting and quantitative code is floating-point computation without
  interleaving. Strategies and adapters, most of the repository's lines, are long
  sequences of calls to services this repository does not contain; a model of them
  would be one of those services.

## 9. Plan

Done, in this order: `RunnerDaemon` (the most important behaviour) with `JobRuns`,
`RunnerLifecycle`, `RunnerDB`, `FundingHarvester`, `PairedFiller`,
`SendTransaction`, `ActivePerps`; then the theorems of section 6, so that every
safety property a passing run checks is proved.

Next theorem: `HedgedBesideOthers` with a rate lock, for an update whose rate unlocks
succeed.

Next modules: `RunnerSync` (threads that post in any order, the session binding that
writes back a payload it read before), `RunnerSchedule` (`next_run_after` against
"the least grid point after now"), `StateStore` (load-modify-save with several
writers against an abstract atomic store), `Heartbeat`.
