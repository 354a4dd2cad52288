------------------------------ MODULE ActivePerps ------------------------------
(***************************************************************************)
(* ActivePerpsStrategy (core/strategies/active_perps.py) with the default  *)
(* decide, the live handler and the state store (core/perps): every update *)
(* and every withdraw is a process of its own, which the runner or an      *)
(* operator starts at any time.  An update computes the target of the last *)
(* completed bar, reads the positions, orders the difference symbol by     *)
(* symbol, and only then writes down what it did.                          *)
(*                                                                         *)
(* Time is counted in ticks, BarTicks to a bar; sizes are whole units.  A  *)
(* bar's row of the signal is open until the bar is over, as its candle    *)
(* is.  Mids, margin, funding and leverage decide whether an order is sent *)
(* or refused, which the model leaves open.                                *)
(***************************************************************************)
EXTENDS Integers

CONSTANTS
  Procs,
  Symbols,
  Targets,  \* sizes a signal may ask for
  MinSize,  \* units of min_order_usd
  BarTicks, \* ticks of a bar
  MaxTime,  \* bound on the clock
  Interval, \* AUTO_RECONCILE_MIN_INTERVAL_SECONDS, in ticks
  Prompt,   \* a trigger takes no longer than a bar
  Faults    \* what may go wrong besides a refused or partial order

\* "crash"     the process dies or an order raises, between any two steps
\* "liquidate" the venue, or a person, closes a position
\* "read"      get_user_state fails, which is taken for no positions
FaultKinds == {"crash", "liquidate", "read"}

ASSUME PerpsAssumption ==
  /\ Targets \subseteq Int
  /\ MinSize \in Nat \ {0} /\ BarTicks \in Nat \ {0}
  /\ MaxTime \in Nat /\ Interval \in Nat /\ Prompt \in BOOLEAN
  /\ Faults \subseteq FaultKinds

Times == 0 .. MaxTime

BarOf(t) == t \div BarTicks

Bars == 0 .. BarOf(MaxTime)

Row == [Symbols -> Targets]

Positions == [Symbols -> Int]

Flat == [s \in Symbols |-> 0]

Never == -1

\* What a process orders, and what the snapshots keep of it.
Intent == [sym : Symbols, buy : BOOLEAN]

\* last_auto_reconcile_at, and the positions of the last trigger.
State == [mark : Times \cup {Never}, positions : Positions]

NewState == [mark |-> Never, positions |-> Flat]

Steps == {"idle", "trigger", "fetch", "decide", "orders", "snapshot", "throttle",
          "reconcile", "close", "closing"}

\* trigger_t, the row decide was given, the positions it read, the symbols left
\* to order, the intents so far, and the symbols liquidated since the reading.
Process == [pc : Steps, t : Times, want : Positions, seen : Positions,
            todo : SUBSET Symbols, intents : SUBSET Intent, moved : SUBSET Symbols]

Idle == [pc |-> "idle", t |-> 0, want |-> Flat, seen |-> Flat, todo |-> {},
         intents |-> {}, moved |-> {}]

VARIABLES
  now,      \* the clock
  rows,     \* the signal of each bar, the bar in progress included
  pos,      \* positions at the venue
  disk,     \* state.json
  data,     \* each process's copy of it
  files,    \* intents in the snapshots of each bar
  proc,     \* each process's control state
  fills,    \* the venue's record of what triggers bought and sold, by bar
  died,     \* bars during which a trigger died
  ran       \* when the last automatic reconcile began

vars == <<now, rows, pos, disk, data, files, proc, fills, died, ran>>

history == <<fills, died, ran>>

Init ==
  /\ now = 0
  /\ rows \in [Bars -> Row] /\ \A b \in Bars \ {0} : rows[b] = rows[0]
  /\ pos = Flat
  /\ disk = NewState
  /\ data = [p \in Procs |-> NewState]
  /\ files = [b \in Bars |-> {}]
  /\ proc = [p \in Procs |-> Idle]
  /\ fills = [b \in Bars |-> {}]
  /\ died = {}
  /\ ran = Never

-----------------------------------------------------------------------------
At(p, step) == proc[p].pc = step

Goto(p, step) == proc' = [proc EXCEPT ![p].pc = step]

Ends(p) == proc' = [proc EXCEPT ![p] = Idle]

Least(a, b) == IF a < b THEN a ELSE b

Size(n) == IF n < 0 THEN -n ELSE n

Sign(n) == IF n < 0 THEN -1 ELSE IF n = 0 THEN 0 ELSE 1

\* The strategy is constructed: the store loads the file once.
Start(p, step) ==
  /\ At(p, "idle")
  /\ Goto(p, step)
  /\ data' = [data EXCEPT ![p] = disk]
  /\ UNCHANGED <<now, rows, pos, disk, files, history>>

\* StateStore.set and update write the whole copy.
Persist(p, state) ==
  /\ data' = [data EXCEPT ![p] = state]
  /\ disk' = state

-----------------------------------------------------------------------------
(* update: _run_trigger *)

StartUpdate(p) == Start(p, "trigger")

\* The risk limits stop an update before it does anything.
Halted(p) ==
  /\ At(p, "trigger")
  /\ Ends(p)
  /\ UNCHANGED <<now, rows, pos, disk, data, files, history>>

Begin(p) ==
  /\ At(p, "trigger")
  /\ proc' = [proc EXCEPT ![p].pc = "fetch", ![p].t = now]
  /\ UNCHANGED <<now, rows, pos, disk, data, files, history>>

\* drop_incomplete_bars as of t keeps the bars that close by then, which are
\* labelled by their open: the bar that holds t is dropped, and this one is last.
LastCompleted(t) == BarOf(t) - 1

NoCompletedBar(p) ==
  /\ At(p, "fetch") /\ LastCompleted(proc[p].t) < 0
  /\ Ends(p)
  /\ UNCHANGED <<now, rows, pos, disk, data, files, history>>

\* The last row that is left is the signal at trigger_t.
Fetch(p) ==
  /\ At(p, "fetch") /\ LastCompleted(proc[p].t) >= 0
  /\ proc' = [proc EXCEPT ![p].pc = "decide", ![p].want = rows[LastCompleted(proc[p].t)]]
  /\ UNCHANGED <<now, rows, pos, disk, data, files, history>>

\* What get_positions returns.
Read == {pos} \cup (IF "read" \in Faults THEN {Flat} ELSE {})

\* Differences worth an order; a symbol without a mid is worth nothing.
Worth(want, seen) == {s \in Symbols : Size(want[s] - seen[s]) >= MinSize}

\* Mutated form of Decide: the positions are those the state file shows.
DecideFromState(p) ==
  /\ At(p, "decide")
  /\ \E quoted \in SUBSET Symbols :
       proc' = [proc EXCEPT ![p].pc = "orders", ![p].seen = data[p].positions,
                            ![p].todo = quoted \cap Worth(proc[p].want, data[p].positions)]
  /\ UNCHANGED <<now, rows, pos, disk, data, files, history>>

Decide(p) ==
  /\ At(p, "decide")
  /\ \E seen \in Read, quoted \in SUBSET Symbols :
       proc' = [proc EXCEPT ![p].pc = "orders", ![p].seen = seen,
                            ![p].todo = quoted \cap Worth(proc[p].want, seen)]
  /\ UNCHANGED <<now, rows, pos, disk, data, files, history>>

Diff(p, s) == proc[p].want[s] - proc[p].seen[s]

\* Mutated form of ReduceOnly: no order is reduce-only.
ReduceOnlyNot(p, s) == FALSE

ReduceOnly(p, s) ==
  /\ Sign(proc[p].seen[s]) = -Sign(Diff(p, s))
  /\ Size(Diff(p, s)) <= Size(proc[p].seen[s])

\* The most an order fills: reduce-only, what is left of the position.
MayFill(p, s) ==
  CASE ~ReduceOnly(p, s) -> Size(Diff(p, s))
    [] ReduceOnly(p, s) /\ Sign(pos[s]) = -Sign(Diff(p, s)) ->
         Least(Size(Diff(p, s)), Size(pos[s]))
    [] OTHER -> 0

\* An immediate-or-cancel order: refused, or filled in part or whole.
Trade(p, s, n) == pos' = [pos EXCEPT ![s] = @ + n * Sign(Diff(p, s))]

\* The handler records every order it tried, answered ok or not.
PlaceOrder(p, s) ==
  /\ At(p, "orders") /\ s \in proc[p].todo
  /\ LET intent == [sym |-> s, buy |-> Diff(p, s) > 0]
     IN /\ \E n \in 0 .. MayFill(p, s) :
             /\ Trade(p, s, n)
             /\ fills' = IF n = 0 THEN fills
                         ELSE [fills EXCEPT ![BarOf(now)] = @ \cup {intent}]
        /\ proc' = [proc EXCEPT ![p].todo = @ \ {s}, ![p].intents = @ \cup {intent}]
  /\ UNCHANGED <<now, rows, disk, data, files, died, ran>>

\* The positions are read again and the state is saved.
SaveState(p) ==
  /\ At(p, "orders") /\ proc[p].todo = {}
  /\ \E seen \in Read : Persist(p, [data[p] EXCEPT !.positions = seen])
  /\ Goto(p, "snapshot")
  /\ UNCHANGED <<now, rows, pos, files, history>>

\* Mutated form of WriteSnapshot: one file for a bar, not for a trigger.
WriteSnapshotOfBar(p) ==
  /\ At(p, "snapshot")
  /\ files' = [files EXCEPT ![BarOf(proc[p].t)] = proc[p].intents]
  /\ Goto(p, "throttle")
  /\ UNCHANGED <<now, rows, pos, disk, data, history>>

\* The file is named by trigger_t, to the second; load_snapshot_at unites those
\* of a bar.
WriteSnapshot(p) ==
  /\ At(p, "snapshot")
  /\ files' = [files EXCEPT ![BarOf(proc[p].t)] = @ \cup proc[p].intents]
  /\ Goto(p, "throttle")
  /\ UNCHANGED <<now, rows, pos, disk, data, history>>

-----------------------------------------------------------------------------
(* update: _maybe_auto_reconcile *)

Recent(p) == data[p].mark # Never /\ now - data[p].mark < Interval

Throttled(p) ==
  /\ At(p, "throttle") /\ Recent(p)
  /\ Ends(p)
  /\ UNCHANGED <<now, rows, pos, disk, data, files, history>>

\* Mutated form of MarkReconcile: the time is kept for the next saved state.
MarkReconcileUnsaved(p) ==
  /\ At(p, "throttle") /\ ~Recent(p)
  /\ data' = [data EXCEPT ![p].mark = now]
  /\ ran' = now
  /\ Goto(p, "reconcile")
  /\ UNCHANGED <<now, rows, pos, disk, files, fills, died>>

\* Mutated form of MarkReconcile: what is kept is when the next one is due.
MarkReconcileNext(p) ==
  /\ At(p, "throttle") /\ ~Recent(p)
  /\ Persist(p, [data[p] EXCEPT !.mark = now + Interval])
  /\ ran' = now
  /\ Goto(p, "reconcile")
  /\ UNCHANGED <<now, rows, pos, files, fills, died>>

\* The time is saved before the reconcile that it throttles.
MarkReconcile(p) ==
  /\ At(p, "throttle") /\ ~Recent(p)
  /\ Persist(p, [data[p] EXCEPT !.mark = now])
  /\ ran' = now
  /\ Goto(p, "reconcile")
  /\ UNCHANGED <<now, rows, pos, files, fills, died>>

\* It reads, reports and may fail.
Reconcile(p) ==
  /\ At(p, "reconcile")
  /\ Ends(p)
  /\ UNCHANGED <<now, rows, pos, disk, data, files, history>>

-----------------------------------------------------------------------------
(* withdraw *)

StartWithdraw(p) == Start(p, "close")

\* Every position is to be closed, whatever its size.
ReadToClose(p) ==
  /\ At(p, "close")
  /\ \E seen \in Read :
       proc' = [proc EXCEPT ![p].pc = "closing", ![p].seen = seen,
                            ![p].todo = {s \in Symbols : seen[s] # 0}]
  /\ UNCHANGED <<now, rows, pos, disk, data, files, history>>

Close(p, s) ==
  /\ At(p, "closing") /\ s \in proc[p].todo
  /\ \E n \in 0 .. MayFill(p, s) : Trade(p, s, n)
  /\ proc' = [proc EXCEPT ![p].todo = @ \ {s}]
  /\ UNCHANGED <<now, rows, disk, data, files, history>>

\* The margin is withdrawn, or the venue refuses.
WithdrawEnds(p) ==
  /\ At(p, "closing") /\ proc[p].todo = {}
  /\ Ends(p)
  /\ UNCHANGED <<now, rows, pos, disk, data, files, history>>

-----------------------------------------------------------------------------
(* The clock, the venue and the operating system *)

Triggered(p) == proc[p].pc \in {"fetch", "decide", "orders", "snapshot"}

\* The candle in progress moves, and with it the last row of the signal.
Tick ==
  /\ now < MaxTime
  /\ \A p \in Procs : Prompt /\ Triggered(p) => now < proc[p].t + BarTicks
  /\ now' = now + 1
  /\ \E r \in Row : rows' = [rows EXCEPT ![BarOf(now + 1)] = r]
  /\ UNCHANGED <<pos, disk, data, files, proc, history>>

Liquidate(s) ==
  /\ "liquidate" \in Faults /\ pos[s] # 0
  /\ pos' = [pos EXCEPT ![s] = 0]
  /\ proc' = [p \in Procs |-> IF At(p, "orders") \/ At(p, "closing")
                              THEN [proc[p] EXCEPT !.moved = @ \cup {s}] ELSE proc[p]]
  /\ UNCHANGED <<now, rows, disk, data, files, history>>

Crash(p) ==
  /\ "crash" \in Faults /\ ~At(p, "idle")
  /\ Ends(p)
  /\ died' = IF At(p, "orders") \/ At(p, "snapshot")
             THEN died \cup (BarOf(proc[p].t) .. BarOf(now)) ELSE died
  /\ UNCHANGED <<now, rows, pos, disk, data, files, fills, ran>>

-----------------------------------------------------------------------------
Update(p) ==
  \/ StartUpdate(p) \/ Halted(p) \/ Begin(p)
  \/ NoCompletedBar(p) \/ Fetch(p) \/ Decide(p)
  \/ \E s \in Symbols : PlaceOrder(p, s)
  \/ SaveState(p) \/ WriteSnapshot(p)
  \/ Throttled(p) \/ MarkReconcile(p) \/ Reconcile(p)

Withdraw(p) ==
  \/ StartWithdraw(p) \/ ReadToClose(p) \/ WithdrawEnds(p)
  \/ \E s \in Symbols : Close(p, s)

Next ==
  \/ \E p \in Procs : Update(p) \/ Withdraw(p) \/ Crash(p)
  \/ \E s \in Symbols : Liquidate(s)
  \/ Tick

Spec == Init /\ [][Next]_vars

-----------------------------------------------------------------------------
(* Properties *)

\* The clock, the venue, the files and the processes hold what their types
\* allow.
TypeOK ==
  /\ now \in Times /\ rows \in [Bars -> Row] /\ pos \in Positions
  /\ disk \in State /\ data \in [Procs -> State]
  /\ files \in [Bars -> SUBSET Intent] /\ fills \in [Bars -> SUBSET Intent]
  /\ proc \in [Procs -> Process]
  /\ died \in SUBSET Bars /\ ran \in Times \cup {Never}

\* In this step p orders s.
Ordered(p, s) ==
  /\ s \in proc[p].todo
  /\ proc'[p] = [proc[p] EXCEPT !.todo = @ \ {s}, !.intents = proc'[p].intents]

Between(a, b, c) == b \in a .. c \/ b \in c .. a

\* An update only moves a position toward the target of the last bar that was
\* over when it began, and never past it, whatever candle is in progress and
\* wherever the updates before it died; a liquidation it cannot have seen aside.
TowardTarget ==
  [][\A p \in Procs, s \in Symbols :
       Ordered(p, s) /\ At(p, "orders") /\ s \notin proc[p].moved
       => Between(pos[s], pos'[s], rows[LastCompleted(proc[p].t)][s])]_vars

\* An order never opens or grows a position on the side its process does not
\* want, though the position it was to reduce has gone since it was read.
OpensOnlyItsSide ==
  [][\A p \in Procs, s \in Symbols :
       /\ Ordered(p, s) /\ pos'[s] # 0
       /\ (Sign(pos'[s]) # Sign(pos[s]) \/ Size(pos'[s]) > Size(pos[s]))
       => Sign(pos'[s]) = Sign(proc[p].want[s])]_vars

\* What the venue filled is among the intents the reconciler finds for that bar,
\* or for the one before if the trigger began in it; unless a trigger died.
FillsAreExplained ==
  (\A p \in Procs : At(p, "idle")) =>
    \A b \in Bars \ died :
      fills[b] \subseteq files[b] \cup (IF b = 0 THEN {} ELSE files[b - 1])

\* Automatic reconciles begin at least the interval apart, also when the process
\* dies in one.
ReconcileThrottled ==
  [][ran' # ran /\ ran # Never => now - ran >= Interval]_vars
=============================================================================
