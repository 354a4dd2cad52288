--------------------------- MODULE FundingHarvester ---------------------------
(***************************************************************************)
(* The funding-rate harvester (paths/funding-rate-harvester/scripts): pairs *)
(* of a spot long and a perpetual short, opened, watched and closed by     *)
(* short-lived processes, the operator's commands and the update that the  *)
(* runner schedules.  A process loads the whole position book once,        *)
(* changes its copy, trades, and writes the whole copy back at the points  *)
(* the code chose; the venues remember what was traded whatever becomes of *)
(* the process.                                                            *)
(*                                                                         *)
(* Quantities are whole units.  A deposit trades Full units on each leg    *)
(* and a reduction trades half of what is there.  Prices, carry, limits    *)
(* and the idempotency keys only decide whether a step happens, which the  *)
(* model leaves open.  Mode is live and every command is confirmed.        *)
(***************************************************************************)
EXTENDS Integers, FiniteSets, FiniteSetsExt, FillerContract

CONSTANTS
  Procs,      \* processes that share the state file
  Symbols, NoSymbol,
  BrapTokens, PendlePts, HlSpots, \* symbols each spot leg supports
  RateMarkets, \* symbols with a Boros market
  Full,       \* units one deposit trades on each leg
  FillerMost, \* units the paired filler may trade instead: see FillerContract
  Unrelated,  \* units of each spot token the wallet held all along
  RateLock,   \* rate_lock.enabled of the configuration
  Faults      \* what may go wrong besides a refused order

\* brap_token stands for etherfi and ethena, both BRAP swaps.
SpotLegs == {"brap_token", "pendle_pt", "hl_spot"}

Supports(l, s) ==
  \/ l = "brap_token" /\ s \in BrapTokens
  \/ l = "pendle_pt" /\ s \in PendlePts
  \/ l = "hl_spot" /\ s \in HlSpots

\* "crash"    the process dies or an exception ends it, between any two steps
\* "read"     a balance read of a spot leg fails
\* "partial"  an immediate-or-cancel order fills in part and is reported ok
\* "rollback" the paired filler does not take back all of a leg it filled alone,
\*            or its look-ups miss a part of what an order filled
FaultKinds == {"crash", "read", "partial", "rollback"}

ASSUME HarvesterAssumption ==
  /\ IsFiniteSet(Symbols) /\ NoSymbol \notin Symbols
  /\ BrapTokens \cup PendlePts \cup HlSpots \cup RateMarkets \subseteq Symbols
  /\ Faults \subseteq FaultKinds
  /\ Full \in Nat \ {0} /\ FillerMost \in Nat /\ Unrelated \in Nat
  /\ RateLock \in BOOLEAN

NoUnits == -1 \* spot_lot.units is None until the open is finalized

Status == {"opening", "half_open", "open", "closing", "impaired"}

NoPair == [status |-> "none", leg |-> "none", lot |-> NoUnits, pre |-> 0,
           value |-> 0, lock |-> FALSE]

\* status, spot_leg, spot_lot.units, pre_spot_units, entry_value_usd, lock
Pair == [status : Status \cup {"none"}, leg : SpotLegs \cup {"none"},
         lot : Nat \cup {NoUnits}, pre : Nat, value : Nat, lock : BOOLEAN]

\* pairs, reference_value_usd and halted
Book == [pairs : [Symbols -> Pair], ref : Nat, halted : BOOLEAN]

EmptyBook == [pairs |-> [s \in Symbols |-> NoPair], ref |-> 0, halted |-> FALSE]

Actions == {"deposit", "quote", "unwind", "rotate", "update", "lock", "unlock",
            "exit", "none"}

Steps == {"idle", "scored", "deposit", "record", "hedge", "spot", "paired",
          "filled", "failed", "next", "unlock", "mark", "sell", "cover",
          "settle", "rails", "trim", "delta", "boros", "lock", "locked",
          "transfer", "finish"}

\* What a process does next, the action it was started for, the symbol it works
\* on, the symbol a rotation moves to, the leg a deposit chose, the symbols
\* still to visit, reduced_syms, and pre_spot_units, filled_spot or close_units.
Process == [pc : Steps, op : Actions, sym : Symbols \cup {NoSymbol},
            dest : Symbols \cup {NoSymbol}, leg : SpotLegs \cup {"none"},
            todo : SUBSET Symbols, reduced : SUBSET Symbols, units : Nat]

Idle == [pc |-> "idle", op |-> "none", sym |-> NoSymbol, dest |-> NoSymbol,
         leg |-> "none", todo |-> {}, reduced |-> {}, units |-> 0]

VARIABLES
  disk,      \* the state file
  mem,       \* each process's copy of it
  short,     \* the venue's short, per symbol
  own,       \* spot units in the wallet that a pair bought
  other,     \* spot units in the wallet that no pair bought
  lockOpen,  \* whether a Boros rate position is open
  proc       \* each process's control state

venue == <<short, own, other, lockOpen>>
vars == <<disk, mem, short, own, other, lockOpen, proc>>

Init ==
  /\ disk = EmptyBook
  /\ mem = [p \in Procs |-> EmptyBook]
  /\ short = [s \in Symbols |-> 0]
  /\ own = [s \in Symbols |-> 0]
  /\ other = [s \in Symbols |-> Unrelated]
  /\ lockOpen = [s \in Symbols |-> FALSE]
  /\ proc = [p \in Procs |-> Idle]

-----------------------------------------------------------------------------
(* The book and the processes *)

Recorded(b) == {s \in Symbols : b.pairs[s].status # "none"}

OpenPairs(b) == {s \in Symbols : b.pairs[s].status = "open"}

PairOf(p) == mem[p].pairs[proc[p].sym]

WithPair(b, s, pair) == [b EXCEPT !.pairs[s] = pair]

\* save_state writes the whole copy: whatever another process saved since this
\* one loaded is gone.
Save(p, b) == mem' = [mem EXCEPT ![p] = b] /\ disk' = b

Keep(p, b) == mem' = [mem EXCEPT ![p] = b] /\ UNCHANGED disk

At(p, step) == proc[p].pc = step

Goto(p, step) == proc' = [proc EXCEPT ![p].pc = step]

\* The process ends and its copy of the book with it.
Ends(p) ==
  /\ proc' = [proc EXCEPT ![p] = Idle]
  /\ mem' = [mem EXCEPT ![p] = EmptyBook]

Exit(p) == Ends(p) /\ UNCHANGED disk

SaveAndExit(p, b) == Ends(p) /\ disk' = b

-----------------------------------------------------------------------------
(* The venues *)

Least(a, b) == IF a < b THEN a ELSE b

Most(a, b) == IF a > b THEN a ELSE b

Half(n) == n \div 2

\* What an order for n units may fill when it is reported as filled; the swaps
\* of the other legs fill whole.
Fill(n) == IF "partial" \in Faults /\ n > 1 THEN 1 .. n ELSE {n}

FillOn(l, n) == IF l = "hl_spot" THEN Fill(n) ELSE {n}

Wallet(s) == own[s] + other[s]

\* A failed Pendle read is logged, skipped and taken for no balance; on the
\* other legs it raises, which ends the process.
MisreadOn(l) == l = "pendle_pt" /\ "read" \in Faults

Balance(s, l) == {Wallet(s)} \cup (IF MisreadOn(l) THEN {0} ELSE {})

\* Units are fungible: those the pairs bought are counted as sold first.
SellUnits(s, n) ==
  /\ own' = [own EXCEPT ![s] = @ - Least(@, n)]
  /\ other' = [other EXCEPT ![s] = @ - (n - Least(own[s], n))]

\* What the paired filler may leave on the venues, and the spot units it reports,
\* whether it returns or raises ...
Fills == FillsUpTo(FillerMost)

\* ... and when it returns: without that fault, the calls that KeepsContract of
\* PairedFillerProofs calls exact.
FillerOutcome == ReturnedFills(FillerMost, "rollback" \notin Faults)

-----------------------------------------------------------------------------
(* Invocations: run() loads the state and dispatches *)

Begin(p, action, step, s, d, todo) ==
  /\ At(p, "idle")
  /\ proc' = [proc EXCEPT ![p] = [Idle EXCEPT !.pc = step, !.op = action,
                                    !.sym = s, !.dest = d, !.todo = todo]]

Load(p) == mem' = [mem EXCEPT ![p] = disk] /\ UNCHANGED disk

StartDeposit(p, s) ==
  /\ Begin(p, "deposit", "deposit", s, NoSymbol, {})
  /\ Load(p)
  /\ UNCHANGED venue

\* quote and discover only read the market, and save their copy of the book.
StartQuote(p) ==
  /\ Begin(p, "quote", "scored", NoSymbol, NoSymbol, {})
  /\ Load(p)
  /\ UNCHANGED venue

\* unwind takes one symbol or every recorded pair.
StartUnwind(p, targets) ==
  /\ targets # {} /\ (targets = Recorded(disk) \/ Cardinality(targets) = 1)
  /\ Begin(p, "unwind", "next", NoSymbol, NoSymbol, targets)
  /\ Load(p)
  /\ UNCHANGED venue

\* rotate: only open pairs are moved, and halted is not looked at.
StartRotate(p, s, d) ==
  /\ s \in OpenPairs(disk)
  /\ Begin(p, "rotate", "scored", NoSymbol, d, {s})
  /\ Load(p)
  /\ UNCHANGED venue

\* update: a halted book is only touched with --resume.
StartUpdate(p, resume) ==
  /\ disk.halted => resume
  /\ Begin(p, "update", "rails", NoSymbol, NoSymbol, Recorded(disk))
  /\ IF resume THEN Save(p, [disk EXCEPT !.halted = FALSE]) ELSE Load(p)
  /\ UNCHANGED venue

StartLock(p, s) ==
  /\ s \in OpenPairs(disk) \cap RateMarkets
  /\ ~disk.pairs[s].lock /\ short[s] > 0
  /\ Begin(p, "lock", "lock", s, NoSymbol, {})
  /\ Load(p)
  /\ UNCHANGED venue

StartUnlock(p, s) ==
  /\ disk.pairs[s].lock
  /\ Begin(p, "unlock", "lock", s, NoSymbol, {})
  /\ Load(p)
  /\ UNCHANGED venue

\* exit refuses to run while any pair is recorded.
StartExit(p) ==
  /\ Recorded(disk) = {}
  /\ Begin(p, "exit", "transfer", NoSymbol, NoSymbol, {})
  /\ Load(p)
  /\ UNCHANGED venue

\* The EMAs are persisted, and the rest of the book with them; no better pair may
\* be found.
SaveScores(p) ==
  /\ At(p, "scored")
  /\ \/ SaveAndExit(p, mem[p])
     \/ proc[p].op = "rotate" /\ Save(p, mem[p]) /\ Goto(p, "next")
  /\ UNCHANGED venue

\* The withdrawal and the transfers went out, or one of them was refused.
FinishExit(p) ==
  /\ At(p, "transfer")
  /\ SaveAndExit(p, mem[p]) \/ Exit(p)
  /\ UNCHANGED venue

\* The process is killed, or an exception nothing catches ends it (a position
\* read that raises): its copy of the book is lost.
Crash(p) ==
  /\ "crash" \in Faults /\ ~At(p, "idle")
  /\ Exit(p)
  /\ UNCHANGED venue

-----------------------------------------------------------------------------
(* deposit *)

\* The deposit is over, done or refused: a command ends, a rotation saves the
\* book and lets the update it belongs to go on.
Continue(p, b) ==
  IF proc[p].op = "update"
  THEN /\ Save(p, b)
       /\ proc' = [proc EXCEPT ![p] = [Idle EXCEPT !.pc = "delta", !.op = "update",
                                         !.todo = Recorded(b),
                                         !.reduced = proc[p].reduced]]
  ELSE SaveAndExit(p, b)

\* Any of the limits, the carry floor, gas, funding or an idempotency key may
\* turn it down; alone, a deposit refused before its quote saves nothing.
DepositRefused(p) ==
  /\ At(p, "deposit")
  /\ \/ proc[p].dest = NoSymbol /\ Exit(p)
     \/ Continue(p, mem[p])
  /\ UNCHANGED venue

\* Mutated form of DepositAccepted: the deposit's own check of the pair is gone.
DepositAcceptedAgain(p, l) ==
  /\ At(p, "deposit")
  /\ Supports(l, proc[p].sym)
  /\ ~mem[p].halted
  /\ disk' = mem[p]
  /\ proc' = [proc EXCEPT ![p].pc = "record", ![p].leg = l]
  /\ UNCHANGED <<mem, venue>>

\* Mutated form of DepositAccepted: only update looks at halted.
DepositAcceptedHalted(p, l) ==
  /\ At(p, "deposit")
  /\ Supports(l, proc[p].sym)
  /\ PairOf(p).status = "none"
  /\ disk' = mem[p]
  /\ proc' = [proc EXCEPT ![p].pc = "record", ![p].leg = l]
  /\ UNCHANGED <<mem, venue>>

\* The quote is fetched and the book saved with its EMA samples.
DepositAccepted(p, l) ==
  /\ At(p, "deposit")
  /\ Supports(l, proc[p].sym)
  /\ ~mem[p].halted
  /\ PairOf(p).status = "none"
  /\ disk' = mem[p]
  /\ proc' = [proc EXCEPT ![p].pc = "record", ![p].leg = l]
  /\ UNCHANGED <<mem, venue>>

\* Mutated form of DepositRecord: the pair is saved when the open is over.
DepositRecordLater(p) ==
  /\ At(p, "record")
  /\ \E n \in Balance(proc[p].sym, proc[p].leg) :
       Keep(p, WithPair(mem[p], proc[p].sym,
                        [NoPair EXCEPT !.status = "opening", !.leg = proc[p].leg,
                                       !.pre = n]))
  /\ Goto(p, IF proc[p].leg = "hl_spot" THEN "paired" ELSE "hedge")
  /\ UNCHANGED venue

\* The balance before the open is read, and the pair recorded before any order.
DepositRecord(p) ==
  /\ At(p, "record")
  /\ \E n \in Balance(proc[p].sym, proc[p].leg) :
       Save(p, WithPair(mem[p], proc[p].sym,
                        [NoPair EXCEPT !.status = "opening", !.leg = proc[p].leg,
                                       !.pre = n]))
  /\ Goto(p, IF proc[p].leg = "hl_spot" THEN "paired" ELSE "hedge")
  /\ UNCHANGED venue

OpenHedge(p) ==
  /\ At(p, "hedge")
  /\ \E n \in Fill(Full) : short' = [short EXCEPT ![proc[p].sym] = @ + n]
  /\ Goto(p, "spot")
  /\ UNCHANGED <<disk, mem, own, other, lockOpen>>

\* The leverage or the first order is refused: no step was ok, so the record is
\* dropped.
OpenRefused(p) ==
  /\ At(p, "hedge") \/ At(p, "paired")
  /\ Continue(p, WithPair(mem[p], proc[p].sym, NoPair))
  /\ UNCHANGED venue

\* The swap reports no units; the fill is the change of the balance.
OpenSpot(p) ==
  /\ At(p, "spot")
  /\ own' = [own EXCEPT ![proc[p].sym] = @ + Full]
  /\ Goto(p, "filled")
  /\ UNCHANGED <<disk, mem, short, other, lockOpen>>

SpotRefused(p) ==
  /\ At(p, "spot")
  /\ Goto(p, "failed")
  /\ UNCHANGED <<disk, mem, venue>>

\* The paired filler's two legs; it may also raise with any of it filled.
OpenPaired(p) ==
  /\ At(p, "paired")
  /\ \E f \in Fills :
       /\ short' = [short EXCEPT ![proc[p].sym] = @ + f.perp]
       /\ own' = [own EXCEPT ![proc[p].sym] = @ + f.spot]
       /\ \/ f \in FillerOutcome
             /\ proc' = [proc EXCEPT ![p].pc = "filled", ![p].units = f.told]
          \/ Goto(p, "failed")
  /\ UNCHANGED <<disk, mem, other, lockOpen>>

\* What this open added to the wallet, as far as the read tells.
Added(p) == {Most(n - PairOf(p).pre, 0) : n \in Balance(proc[p].sym, PairOf(p).leg)}

\* Exposure may be live: the pair stays, flagged, with the lot that filled.  A
\* failed read counts as nothing added.
DepositFailed(p) ==
  /\ At(p, "failed")
  /\ \E n \in Added(p) \cup (IF "read" \in Faults THEN {0} ELSE {}) :
       Continue(p, WithPair(mem[p], proc[p].sym,
                            [PairOf(p) EXCEPT !.status = "half_open", !.lot = n]))
  /\ UNCHANGED venue

\* _lot_from_open prefers the units the open reported to the balance's change.
DepositDone(p) ==
  /\ At(p, "filled")
  /\ \E n \in IF proc[p].units > 0 THEN {proc[p].units} ELSE Added(p) :
       Continue(p, [WithPair(mem[p], proc[p].sym,
                             [PairOf(p) EXCEPT !.status = "open", !.lot = n,
                                               !.value = Full])
                    EXCEPT !.ref = @ + Full])
  /\ UNCHANGED venue

-----------------------------------------------------------------------------
(* _close_pair_full, for unwind, rotate and the negative-carry exit *)

\* The Boros adapter is built for lock and unlock, or when rate_lock is enabled.
Boros(p) == RateLock \/ proc[p].op \in {"lock", "unlock"}

NextClose(p, s) ==
  /\ At(p, "next") /\ s \in proc[p].todo
  /\ mem[p].pairs[s].status # "none"
  /\ proc' = [proc EXCEPT ![p].pc = IF mem[p].pairs[s].lock /\ Boros(p)
                                    THEN "unlock" ELSE "mark",
                          ![p].sym = s, ![p].todo = @ \ {s}]
  /\ UNCHANGED <<disk, mem, venue>>

NothingToClose(p, s) ==
  /\ At(p, "next") /\ s \in proc[p].todo
  /\ mem[p].pairs[s].status = "none"
  /\ Exit(p)
  /\ UNCHANGED venue

\* The recorded lock is not cleared; a failure aborts the close.
UnwindLock(p) ==
  /\ At(p, "unlock")
  /\ \/ /\ lockOpen' = [lockOpen EXCEPT ![proc[p].sym] = FALSE]
        /\ Goto(p, "mark") /\ UNCHANGED <<disk, mem>>
     \/ Exit(p) /\ UNCHANGED lockOpen
  /\ UNCHANGED <<short, own, other>>

\* Mutated form of MarkClosing: the pair is marked when it is closed, not before.
MarkClosingNot(p) ==
  /\ At(p, "mark")
  /\ \E n \in IF PairOf(p).lot # NoUnits THEN {PairOf(p).lot} ELSE Added(p) :
       proc' = [proc EXCEPT ![p].pc = "sell", ![p].units = n]
  /\ UNCHANGED <<disk, mem, venue>>

\* An interrupted open closes what was added to the baseline; the closing mark
\* is saved before either leg is touched.
MarkClosing(p) ==
  /\ At(p, "mark")
  /\ \E n \in IF PairOf(p).lot # NoUnits THEN {PairOf(p).lot} ELSE Added(p) :
       proc' = [proc EXCEPT ![p].pc = "sell", ![p].units = n]
  /\ Save(p, WithPair(mem[p], proc[p].sym, [PairOf(p) EXCEPT !.status = "closing"]))
  /\ UNCHANGED venue

\* Mutated form of SellSpot: the recorded units are sold, held or not.
SellSpotAll(p) ==
  /\ At(p, "sell")
  /\ SellUnits(proc[p].sym, proc[p].units)
  /\ Goto(p, "cover")
  /\ UNCHANGED <<disk, mem, short, lockOpen>>

\* At most what the wallet holds; a leg whose balance reads nothing is reported
\* sold.
SellSpot(p) ==
  /\ At(p, "sell")
  /\ LET n == Least(proc[p].units, Wallet(proc[p].sym))
     IN \E sold \in FillOn(PairOf(p).leg, n) \cup
                    (IF MisreadOn(PairOf(p).leg) THEN {0} ELSE {}) :
          SellUnits(proc[p].sym, sold)
  /\ Goto(p, "cover")
  /\ UNCHANGED <<disk, mem, short, lockOpen>>

\* Mutated form of SellRefused: the hedge is closed whether or not the spot was.
SellRefusedGoesOn(p) ==
  /\ At(p, "sell")
  /\ Goto(p, "cover")
  /\ UNCHANGED <<disk, mem, venue>>

\* The hedge is left open intentionally.
SellRefused(p) ==
  /\ At(p, "sell")
  /\ SaveAndExit(p, mem[p])
  /\ UNCHANGED venue

CoverShort(p) ==
  /\ At(p, "cover")
  /\ \E n \in Fill(short[proc[p].sym]) : short' = [short EXCEPT ![proc[p].sym] = @ - n]
  /\ Goto(p, "settle")
  /\ UNCHANGED <<disk, mem, own, other, lockOpen>>

\* A naked short: the pair is impaired.
CoverRefused(p) ==
  /\ At(p, "cover")
  /\ SaveAndExit(p, WithPair(mem[p], proc[p].sym,
                             [PairOf(p) EXCEPT !.status = "impaired"]))
  /\ UNCHANGED venue

\* Mutated form of Settled: the reference keeps what the pair was entered at.
SettledOnly(p) == WithPair(mem[p], proc[p].sym, NoPair)

Settled(p) ==
  [WithPair(mem[p], proc[p].sym, NoPair)
   EXCEPT !.ref = Most(@ - PairOf(p).value, 0)]

\* The pair leaves the book; then the next target, the deposit of a rotation,
\* or the end of the command.
Settle(p) ==
  /\ At(p, "settle")
  /\ CASE proc[p].dest # NoSymbol ->
            /\ Save(p, Settled(p))
            /\ proc' = [proc EXCEPT ![p].pc = "deposit", ![p].sym = proc[p].dest,
                                    ![p].units = 0]
       [] proc[p].dest = NoSymbol /\ proc[p].todo # {} ->
            Save(p, Settled(p)) /\ Goto(p, "next")
       [] proc[p].dest = NoSymbol /\ proc[p].todo = {} /\ proc[p].op = "update" ->
            Save(p, Settled(p)) /\ Goto(p, "finish")
       [] OTHER -> SaveAndExit(p, Settled(p))
  /\ UNCHANGED venue

-----------------------------------------------------------------------------
(* update *)

\* A pair whose liquidation distance and leverage are fine, or that could be
\* given margin.
RailOk(p, s) ==
  /\ At(p, "rails") /\ s \in proc[p].todo
  /\ proc' = [proc EXCEPT ![p].todo = @ \ {s}]
  /\ UNCHANGED <<disk, mem, venue>>

\* The liquidation guard and the leverage cap may each reduce a pair once.
Guarded(p, s) ==
  /\ At(p, "rails") /\ s \in proc[p].todo /\ short[s] > 0

ReducedBy(p, s) ==
  IF s \in proc[p].reduced THEN {proc[p].todo \ {s}}
  ELSE {proc[p].todo, proc[p].todo \ {s}}

\* An open pair without a lot, or an order that was refused: nothing changed,
\* and the pair still counts as reduced in this cycle.
ReduceRefused(p, s) ==
  /\ Guarded(p, s)
  /\ \E rest \in ReducedBy(p, s) :
       proc' = [proc EXCEPT ![p].todo = rest, ![p].reduced = @ \cup {s}]
  /\ UNCHANGED <<disk, mem, venue>>

\* The hedge first; a pair that is not open is reduced on that side only.
ReduceHedge(p, s) ==
  /\ Guarded(p, s)
  /\ s \in OpenPairs(mem[p]) => mem[p].pairs[s].lot > 0
  /\ \E n \in Fill(Half(short[s])) : short' = [short EXCEPT ![s] = @ - n]
  /\ \E rest \in ReducedBy(p, s) :
       proc' = [proc EXCEPT ![p].pc = IF s \in OpenPairs(mem[p])
                                      THEN "trim" ELSE "rails",
                            ![p].sym = s, ![p].todo = rest,
                            ![p].reduced = @ \cup {s}]
  /\ UNCHANGED <<disk, mem, own, other, lockOpen>>

\* The same fraction of the lot; lot, entry value and reference are scaled in
\* memory, and no save follows.
TrimSpot(p) ==
  /\ At(p, "trim")
  /\ \E n \in Balance(proc[p].sym, PairOf(p).leg) :
       \E sold \in FillOn(PairOf(p).leg, Half(Least(n, PairOf(p).lot))) :
         SellUnits(proc[p].sym, sold)
  /\ Keep(p, [WithPair(mem[p], proc[p].sym,
                       [PairOf(p) EXCEPT !.lot = @ - Half(@),
                                         !.value = @ - Half(@)])
              EXCEPT !.ref = Most(@ - Half(PairOf(p).value), 0)])
  /\ Goto(p, "rails")
  /\ UNCHANGED <<short, lockOpen>>

\* The hedge shrank and the spot did not; the mark is in memory only.
TrimRefused(p) ==
  /\ At(p, "trim") /\ Least(Wallet(proc[p].sym), PairOf(p).lot) > 0
  /\ Keep(p, WithPair(mem[p], proc[p].sym,
                      [PairOf(p) EXCEPT !.status = "impaired"]))
  /\ Goto(p, "rails")
  /\ UNCHANGED venue

RailsDone(p) == At(p, "rails") /\ proc[p].todo = {}

DrawdownHalt(p) ==
  /\ RailsDone(p) /\ Recorded(mem[p]) # {}
  /\ SaveAndExit(p, [mem[p] EXCEPT !.halted = TRUE])
  /\ UNCHANGED venue

\* paused: only the rails ran.
Paused(p) ==
  /\ RailsDone(p)
  /\ SaveAndExit(p, mem[p])
  /\ UNCHANGED venue

NegativeCarryExit(p) ==
  /\ RailsDone(p) /\ Recorded(mem[p]) # {}
  /\ proc' = [proc EXCEPT ![p].pc = "next", ![p].todo = Recorded(mem[p])]
  /\ UNCHANGED <<disk, mem, venue>>

\* One migration per cycle, of an open pair.
Rotate(p, s, d) ==
  /\ RailsDone(p) /\ s \in OpenPairs(mem[p])
  /\ proc' = [proc EXCEPT ![p].pc = "next", ![p].todo = {s}, ![p].dest = d]
  /\ UNCHANGED <<disk, mem, venue>>

StayPut(p) ==
  /\ RailsDone(p)
  /\ proc' = [proc EXCEPT ![p].pc = "delta", ![p].todo = Recorded(mem[p])]
  /\ UNCHANGED <<disk, mem, venue>>

\* Within the band, guarded against churn, refused, or not a pair to balance.
NoRebalance(p, s) ==
  /\ At(p, "delta") /\ s \in proc[p].todo
  /\ proc' = [proc EXCEPT ![p].todo = @ \ {s}]
  /\ UNCHANGED <<disk, mem, venue>>

\* The spot the snapshot shows: the wallet's, capped at the lot if there is one.
Shown(p, s) ==
  LET lot == mem[p].pairs[s].lot
  IN IF lot > 0 THEN Least(lot, Wallet(s)) ELSE Wallet(s)

\* Mutated form of Rebalance: every recorded pair is rebalanced.
RebalanceAny(p, s) ==
  /\ At(p, "delta") /\ s \in proc[p].todo \ proc[p].reduced
  /\ short[s] > 0 /\ Wallet(s) > 0
  /\ \/ /\ Shown(p, s) > short[s]
        /\ \E n \in Fill(Shown(p, s) - short[s]) : short' = [short EXCEPT ![s] = @ + n]
     \/ /\ Shown(p, s) < short[s]
        /\ \E n \in Fill(short[s] - Shown(p, s)) : short' = [short EXCEPT ![s] = @ - n]
  /\ proc' = [proc EXCEPT ![p].todo = @ \ {s}]
  /\ UNCHANGED <<disk, mem, own, other, lockOpen>>

\* The short is brought to the spot the snapshot shows.
Rebalance(p, s) ==
  /\ At(p, "delta") /\ s \in proc[p].todo
  /\ s \in OpenPairs(mem[p]) \ proc[p].reduced
  /\ short[s] > 0 /\ Wallet(s) > 0
  /\ \/ /\ Shown(p, s) > short[s]
        /\ \E n \in Fill(Shown(p, s) - short[s]) : short' = [short EXCEPT ![s] = @ + n]
     \/ /\ Shown(p, s) < short[s]
        /\ \E n \in Fill(short[s] - Shown(p, s)) : short' = [short EXCEPT ![s] = @ - n]
  /\ proc' = [proc EXCEPT ![p].todo = @ \ {s}]
  /\ UNCHANGED <<disk, mem, own, other, lockOpen>>

DeltaDone(p) ==
  /\ At(p, "delta") /\ proc[p].todo = {}
  /\ proc' = [proc EXCEPT ![p].pc = IF RateLock THEN "boros" ELSE "finish",
                          ![p].todo = IF RateLock THEN OpenPairs(mem[p]) \cap RateMarkets ELSE {}]
  /\ UNCHANGED <<disk, mem, venue>>

\* _boros_step opens a lock on an unlocked hedge or unwinds a recorded one; the
\* record is in memory until the final save.
BorosStep(p, s) ==
  /\ At(p, "boros") /\ s \in proc[p].todo /\ short[s] > 0
  /\ LET open == ~mem[p].pairs[s].lock
     IN /\ lockOpen' = [lockOpen EXCEPT ![s] = open]
        /\ Keep(p, WithPair(mem[p], s, [mem[p].pairs[s] EXCEPT !.lock = open]))
  /\ proc' = [proc EXCEPT ![p].todo = @ \ {s}]
  /\ UNCHANGED <<short, own, other>>

NoBorosStep(p, s) ==
  /\ At(p, "boros") /\ s \in proc[p].todo
  /\ proc' = [proc EXCEPT ![p].todo = @ \ {s}]
  /\ UNCHANGED <<disk, mem, venue>>

BorosDone(p) ==
  /\ At(p, "boros") /\ proc[p].todo = {}
  /\ Goto(p, "finish")
  /\ UNCHANGED <<disk, mem, venue>>

FinalSave(p) ==
  /\ At(p, "finish")
  /\ SaveAndExit(p, mem[p])
  /\ UNCHANGED venue

-----------------------------------------------------------------------------
(* lock and unlock *)

LockOrder(p) ==
  /\ At(p, "lock")
  /\ \/ /\ lockOpen' = [lockOpen EXCEPT ![proc[p].sym] = proc[p].op = "lock"]
        /\ Goto(p, "locked") /\ UNCHANGED <<disk, mem>>
     \/ Exit(p) /\ UNCHANGED lockOpen
  /\ UNCHANGED <<short, own, other>>

LockSave(p) ==
  /\ At(p, "locked")
  /\ SaveAndExit(p, WithPair(mem[p], proc[p].sym,
                             [PairOf(p) EXCEPT !.lock = proc[p].op = "lock"]))
  /\ UNCHANGED venue

-----------------------------------------------------------------------------
Start(p) ==
  \/ \E s \in Symbols : StartDeposit(p, s) \/ StartLock(p, s) \/ StartUnlock(p, s)
  \/ \E targets \in SUBSET Symbols : StartUnwind(p, targets)
  \/ \E s, d \in Symbols : StartRotate(p, s, d)
  \/ \E resume \in BOOLEAN : StartUpdate(p, resume)
  \/ StartQuote(p) \/ StartExit(p)

Deposit(p) ==
  \/ DepositRefused(p) \/ DepositRecord(p) \/ DepositFailed(p) \/ DepositDone(p)
  \/ \E l \in SpotLegs : DepositAccepted(p, l)
  \/ OpenHedge(p) \/ OpenRefused(p) \/ OpenSpot(p) \/ SpotRefused(p)
  \/ OpenPaired(p)

Close(p) ==
  \/ \E s \in Symbols : NextClose(p, s) \/ NothingToClose(p, s)
  \/ UnwindLock(p) \/ MarkClosing(p) \/ SellSpot(p) \/ SellRefused(p)
  \/ CoverShort(p) \/ CoverRefused(p) \/ Settle(p)

Update(p) ==
  \/ \E s \in Symbols :
       \/ RailOk(p, s) \/ ReduceRefused(p, s) \/ ReduceHedge(p, s)
       \/ NoRebalance(p, s) \/ Rebalance(p, s)
       \/ BorosStep(p, s) \/ NoBorosStep(p, s)
  \/ \E s, d \in Symbols : Rotate(p, s, d)
  \/ TrimSpot(p) \/ TrimRefused(p)
  \/ DrawdownHalt(p) \/ Paused(p) \/ NegativeCarryExit(p) \/ StayPut(p)
  \/ DeltaDone(p) \/ BorosDone(p) \/ FinalSave(p)

Next ==
  \E p \in Procs :
    \/ Start(p) \/ Deposit(p) \/ Close(p) \/ Update(p)
    \/ SaveScores(p) \/ FinishExit(p) \/ LockOrder(p) \/ LockSave(p) \/ Crash(p)

Spec == Init /\ [][Next]_vars

-----------------------------------------------------------------------------
(* Properties *)

\* The book, each process's copy and the venues hold what the code's types
\* allow.
TypeOK ==
  /\ disk \in Book
  /\ mem \in [Procs -> Book]
  /\ short \in [Symbols -> Nat] /\ own \in [Symbols -> Nat]
  /\ other \in [Symbols -> Nat]
  /\ lockOpen \in [Symbols -> BOOLEAN]
  /\ proc \in [Procs -> Process]

\* Whatever a pair holds on a venue, the state file has a record from which
\* unwind can close it, whenever the process died.
ExposureIsRecorded ==
  \A s \in Symbols : short[s] > 0 \/ own[s] > 0 => s \in Recorded(disk)

\* A pair recorded as open is never a naked short, and never a naked long
\* unless the paired filler left one.
OpenPairIsHedged ==
  \A s \in OpenPairs(disk) :
    /\ short[s] > 0 => own[s] > 0
    /\ disk.pairs[s].leg # "hl_spot" => short[s] > 0 /\ own[s] > 0

\* The drawdown reference is what the recorded pairs were entered at, also after
\* reductions, rotations and closes that failed half way.
ReferenceMatchesBook ==
  disk.ref = MapThenSumSet(LAMBDA s : disk.pairs[s].value, Symbols)

\* A symbol is never opened a second time while the first open is on a venue.
NeverOpenedTwice ==
  \A s \in Symbols :
    LET most == IF s \in HlSpots THEN Most(Full, FillerMost) ELSE Full
    IN short[s] <= most /\ own[s] <= most

\* Closing takes the hedge off last: the short is gone only after the spot is.
HedgeOutlivesSpot ==
  [][\A s \in Symbols : short[s] > 0 /\ short'[s] = 0 => own[s] = 0]_vars

\* A pair the book does not show as healthy is never grown: until unwind takes
\* it off, whichever command touches it only takes exposure away.
RecoveryOnlyShrinks ==
  [][\A s \in Symbols : disk.pairs[s].status \in {"half_open", "closing", "impaired"} =>
       short'[s] <= short[s] /\ own'[s] <= own[s]]_vars

\* While the book is halted nothing is bought or sold short, whichever command,
\* rotation or update asks for it.
HaltedOpensNothing ==
  [][\A s \in Symbols : short'[s] > short[s] \/ own'[s] > own[s] => ~disk.halted]_vars

\* Closing, reducing and recovering a pair sell nothing the wallet held before.
LotIsolation == \A s \in Symbols : other[s] = Unrelated

\* exit sends the capital away only when nothing of it is left on a venue.
ExitIsSettled ==
  \A p \in Procs : At(p, "transfer") =>
    \A s \in Symbols : short[s] = 0 /\ own[s] = 0 /\ ~lockOpen[s]
=============================================================================
