----------------------- MODULE FundingHarvesterProofs -----------------------
(***************************************************************************)
(* Proofs about the funding-rate harvester.  The types hold for any number *)
(* of processes and any faults.  The safety of the open and the close is   *)
(* that of one process at a time which may die between any two steps:      *)
(* commands that overlap overwrite each other's book, and TLC shows what   *)
(* a failed read, a partial fill or a missing rollback leaves behind.      *)
(*                                                                         *)
(* The invariant says what a record of the book promises about the venues  *)
(* (Fits), that the process's copy promises the same until it is saved     *)
(* (Agree), and what each step of an open or a close has already achieved  *)
(* (Stage).  What only restrains a process, the halt and the states that   *)
(* may not grow, needs far less (Guards), and no assumption on the faults. *)
(* The drawdown reference needs nothing: each book balances on its own,    *)
(* since a process only ever writes a whole one (Balanced).  And a process *)
(* that reaches its save knows its lots exactly (HeldInv).                 *)
(***************************************************************************)
EXTENDS FundingHarvester, FiniteSetTheorems, TLAPS

\* The steps that work on one symbol.
Working == {"deposit", "record", "hedge", "spot", "paired", "filled", "failed",
            "unlock", "mark", "sell", "cover", "settle", "trim", "lock", "locked"}

SymInv == \A p \in Procs : proc[p].pc \in Working => proc[p].sym \in Symbols

TypesInv == TypeOK /\ SymInv

\* A step of the process p.
Step(p) ==
  \/ Start(p) \/ Deposit(p) \/ Close(p) \/ Update(p)
  \/ SaveScores(p) \/ FinishExit(p) \/ LockOrder(p) \/ LockSave(p) \/ Crash(p)

-----------------------------------------------------------------------------
\* Commands do not overlap.
OneProcess == \A p, q \in Procs : p = q

\* What one open trades on a leg at most.
Limit(s) == IF s \in HlSpots THEN Most(Full, FillerMost) ELSE Full

\* What a record says of the symbol's short, of the spot units it bought and of
\* the units the wallet held beside them.
Fits(pair, s, sh, ow, ot) ==
  /\ pair.status = "none" => sh = 0 /\ ow = 0
  /\ pair.status # "none" =>
       /\ Supports(pair.leg, s)
       /\ pair.lot = NoUnits => pair.pre = ot
       /\ pair.lot # NoUnits => ow <= pair.lot /\ pair.lot <= Limit(s)
  /\ pair.status = "open" =>
       /\ pair.lot # NoUnits
       /\ pair.lot = 0 => sh = 0
       /\ Unrelated = 0 => /\ sh > 0 => ow > 0
                           /\ pair.leg # "hl_spot" => sh > 0 /\ ow > 0

FitsAll(b, sh, ow, ot) == \A s \in Symbols : Fits(b.pairs[s], s, sh[s], ow[s], ot[s])

BookFits(b) == FitsAll(b, short, own, other)

\* How a process's copy may differ from the file.
Agree(b, d) ==
  /\ b.halted = d.halted
  /\ \A s \in Symbols :
       /\ b.pairs[s].status = "none" <=> d.pairs[s].status = "none"
       /\ b.pairs[s].status = "open" => d.pairs[s].status = "open"
       /\ b.pairs[s].lot = NoUnits <=> d.pairs[s].lot = NoUnits

\* The steps at which the copy has just been loaded or saved.
Synced == {"scored", "deposit", "record", "hedge", "spot", "paired", "filled",
           "failed", "sell", "cover", "settle", "transfer", "lock", "locked"}

\* What the process r has achieved on its symbol, whose record in its copy is
\* pair: the steps of the open, then those of the close.
Stage(r, pair, halted, sh, ow) ==
  /\ r.op = "update" => ~halted
  /\ r.pc \in {"rails", "trim", "delta", "boros", "finish"} => r.op = "update"
  /\ r.pc \in {"deposit", "record", "hedge", "spot", "paired"} => r.units = 0
  /\ r.pc \in {"record", "hedge", "spot", "paired"} => ~halted
  /\ r.pc = "record" => pair.status = "none" /\ Supports(r.leg, r.sym)
  /\ r.pc \in {"hedge", "spot", "paired", "filled", "failed"} =>
       pair.status = "opening" /\ pair.lot = NoUnits
  /\ r.pc \in {"hedge", "spot"} => pair.leg # "hl_spot"
  /\ r.pc = "paired" => pair.leg = "hl_spot"
  /\ r.pc \in {"hedge", "paired"} => sh = 0 /\ ow = 0
  /\ r.pc = "spot" => sh = Full /\ ow = 0
  /\ r.pc = "filled" =>
       /\ r.units \in {0, ow}
       /\ sh > 0 => ow > 0
       /\ pair.leg # "hl_spot" => sh > 0 /\ ow > 0
  /\ r.pc \in {"unlock", "mark"} => pair.status # "none"
  /\ r.pc \in {"sell", "cover", "settle"} => pair.status = "closing"
  /\ r.pc = "sell" => ow <= r.units /\ (pair.lot = NoUnits => r.units = ow)
  /\ r.pc \in {"cover", "settle"} => ow = 0
  /\ r.pc = "settle" => sh = 0
  /\ r.pc = "trim" => pair.status = "open" /\ pair.lot > 0

VenueInv ==
  \A s \in Symbols :
    short[s] <= Limit(s) /\ own[s] <= Limit(s) /\ other[s] <= Unrelated

CopyInv ==
  \A p \in Procs : ~At(p, "idle") =>
    /\ BookFits(mem[p]) /\ Agree(mem[p], disk)
    /\ proc[p].pc \in Synced => mem[p] = disk

StageOf(p) ==
  Stage(proc[p], PairOf(p), disk.halted, short[proc[p].sym], own[proc[p].sym])

StageInv == \A p \in Procs : ~At(p, "idle") => StageOf(p)

SafeInv == BookFits(disk) /\ VenueInv /\ CopyInv /\ StageInv

-----------------------------------------------------------------------------
(* Types *)

\* What halving a quantity gives.
LEMMA HalfOf ==
  ASSUME NEW n \in Int
  PROVE  /\ Half(n) \in Int /\ n - Half(n) \in Int
         /\ n \in Nat => Half(n) \in Nat /\ Half(n) <= n /\ n - Half(n) \in Nat
         /\ n > 0 => Half(n) < n
         /\ n = -1 => n - Half(n) = 0
BY DEF Half

\* A book with one record changed is a book, and differs in that record only.
LEMMA WithPairIsBook ==
  ASSUME NEW b \in Book, NEW s \in Symbols, NEW pair \in Pair
  PROVE  /\ WithPair(b, s, pair) \in Book
         /\ WithPair(b, s, pair).pairs = [b.pairs EXCEPT ![s] = pair]
         /\ WithPair(b, s, pair).ref = b.ref
         /\ WithPair(b, s, pair).halted = b.halted
BY DEF WithPair, Book

\* The record of no pair, the empty book and the idle process are well typed.
LEMMA EmptyTypes == NoPair \in Pair /\ EmptyBook \in Book /\ Idle \in Process
BY DEF NoPair, Pair, EmptyBook, Book, Idle, Process, Steps, Actions, NoUnits, SpotLegs, Status

\* Everything is well typed at the start.
LEMMA InitTypes == Init => TypesInv
BY EmptyTypes, HarvesterAssumption
DEF Init, TypesInv, TypeOK, SymInv, Working, Idle

\* The changes the code makes to a record leave it well typed.
LEMMA PairChanges ==
  ASSUME NEW pair \in Pair
  PROVE  /\ \A st \in Status : [pair EXCEPT !.status = st] \in Pair
         /\ \A st \in Status, n \in Nat : [pair EXCEPT !.status = st, !.lot = n] \in Pair
         /\ \A n, v \in Nat : [pair EXCEPT !.status = "open", !.lot = n, !.value = v] \in Pair
         /\ \A k \in BOOLEAN : [pair EXCEPT !.lock = k] \in Pair
         /\ [pair EXCEPT !.lot = @ - Half(@), !.value = @ - Half(@)] \in Pair
         /\ \A l \in SpotLegs \cup {"none"}, n \in Nat :
              [NoPair EXCEPT !.status = "opening", !.leg = l, !.pre = n] \in Pair
<1>1. /\ \A st \in Status : [pair EXCEPT !.status = st] \in Pair
      /\ \A st \in Status, n \in Nat : [pair EXCEPT !.status = st, !.lot = n] \in Pair
      /\ \A k \in BOOLEAN : [pair EXCEPT !.lock = k] \in Pair
  BY Zenon DEF Pair
<1>2. \A n, v \in Nat : [pair EXCEPT !.status = "open", !.lot = n, !.value = v] \in Pair
  BY DEF Pair, Status
<1>3. pair.lot - Half(pair.lot) \in Nat /\ pair.value - Half(pair.value) \in Nat
  <2>1. pair.lot \in Int /\ (pair.lot \in Nat \/ pair.lot = -1) /\ pair.value \in Nat
    BY DEF Pair, NoUnits
  <2>2. \A n \in Int : n \in Nat \/ n = -1 => n - Half(n) \in Nat
    BY DEF Half
  <2>3. pair.value \in Int
    BY <2>1
  <2> QED
    BY ONLY <2>1, <2>2, <2>3, Zenon
<1>4. [pair EXCEPT !.lot = @ - Half(@), !.value = @ - Half(@)] \in Pair
  BY <1>3 DEF Pair
<1>5. \A l \in SpotLegs \cup {"none"}, n \in Nat :
        [NoPair EXCEPT !.status = "opening", !.leg = l, !.pre = n] \in Pair
  BY EmptyTypes DEF Pair, Status
<1> QED
  BY <1>1, <1>2, <1>4, <1>5, Zenon

\* What a process reads of a wallet is a quantity.
LEMMA ReadTypes ==
  ASSUME TypesInv, NEW p \in Procs, proc[p].sym \in Symbols
  PROVE  /\ PairOf(p) \in Pair
         /\ Wallet(proc[p].sym) \in Nat
         /\ \A l \in SpotLegs \cup {"none"} : \A n \in Balance(proc[p].sym, l) : n \in Nat
         /\ \A n \in Added(p) : n \in Nat
<1>1. PairOf(p) \in Pair
  BY DEF TypesInv, TypeOK, PairOf, Book
<1>2. Wallet(proc[p].sym) \in Nat
  BY DEF TypesInv, TypeOK, Wallet
<1> QED
  BY <1>1, <1>2 DEF Balance, Added, Most, Pair

\* Every step leaves the file and the copies well typed.
LEMMA StepBookTypes ==
  ASSUME TypesInv, NEW p \in Procs, Step(p)
  PROVE  disk' \in Book /\ mem' \in [Procs -> Book]
<1> DEFINE Booked == disk' \in Book /\ mem' \in [Procs -> Book]
<1>0. /\ mem \in [Procs -> Book] /\ mem[p] \in Book /\ disk \in Book
      /\ proc[p].pc \in Working => proc[p].sym \in Symbols
      /\ proc[p] \in Process
  BY DEF TypesInv, TypeOK, SymInv
<1>1. ASSUME NEW b \in Book, Save(p, b) \/ Keep(p, b) \/ SaveAndExit(p, b) \/ Continue(p, b)
      PROVE  Booked
  BY <1>0, <1>1, EmptyTypes DEF Save, Keep, SaveAndExit, Continue, Ends
<1>2. ASSUME Exit(p) \/ Load(p) \/ UNCHANGED <<disk, mem>> PROVE Booked
  BY <1>0, <1>2, EmptyTypes DEF Exit, Load, Ends
<1>3. /\ \A n \in Nat, b \in Book : [b EXCEPT !.ref = n] \in Book
      /\ \A h \in BOOLEAN, b \in Book : [b EXCEPT !.halted = h] \in Book
      /\ \A b \in Book : b.ref \in Nat
  BY DEF Book
<1>4. \A b \in Book, s \in Symbols, pair \in Pair : WithPair(b, s, pair) \in Book
  BY WithPairIsBook
<1> HIDE DEF Booked
<1> USE <1>0, <1>1, <1>2 DEF At
<1>5. ASSUME Start(p) PROVE Booked
  BY <1>5, <1>3
  DEF Start, StartDeposit, StartLock, StartUnlock, StartUnwind, StartRotate, StartUpdate,
      StartQuote, StartExit
<1>6. ASSUME Deposit(p) PROVE Booked
  <2>1. CASE \/ OpenHedge(p) \/ OpenSpot(p) \/ SpotRefused(p) \/ OpenPaired(p)
             \/ DepositRefused(p)
    BY <2>1 DEF OpenHedge, OpenSpot, SpotRefused, OpenPaired, DepositRefused
  <2>6. ASSUME NEW l \in SpotLegs, DepositAccepted(p, l) PROVE Booked
    BY <2>6 DEF DepositAccepted, Booked
  <2>2. CASE DepositRecord(p)
    <3>1. proc[p].sym \in Symbols /\ proc[p].leg \in SpotLegs \cup {"none"}
      BY <2>2 DEF DepositRecord, Working, Process
    <3>2. PICK n \in Balance(proc[p].sym, proc[p].leg) :
            Save(p, WithPair(mem[p], proc[p].sym,
                             [NoPair EXCEPT !.status = "opening", !.leg = proc[p].leg,
                                            !.pre = n]))
      BY <2>2, Zenon DEF DepositRecord
    <3>3. n \in Nat
      BY <3>1, <3>2, ReadTypes
    <3>4. [NoPair EXCEPT !.status = "opening", !.leg = proc[p].leg, !.pre = n] \in Pair
      BY <3>1, <3>3, EmptyTypes, PairChanges, Zenon
    <3> QED
      BY <3>1, <3>2, <3>4, <1>4
  <2>3. CASE DepositFailed(p)
    <3>1. proc[p].sym \in Symbols
      BY <2>3 DEF DepositFailed, Working
    <3>2. PICK n \in Added(p) \cup {0} :
            Continue(p, WithPair(mem[p], proc[p].sym,
                                 [PairOf(p) EXCEPT !.status = "half_open", !.lot = n]))
      BY <2>3, Zenon DEF DepositFailed
    <3>3. [PairOf(p) EXCEPT !.status = "half_open", !.lot = n] \in Pair
      BY <3>1, <3>2, ReadTypes, PairChanges, Zenon DEF Status
    <3> QED
      BY <3>1, <3>2, <3>3, <1>4
  <2>4. CASE DepositDone(p)
    <3>1. proc[p].sym \in Symbols /\ proc[p].units \in Nat
      BY <2>4 DEF DepositDone, Working, Process
    <3>2. PICK n \in IF proc[p].units > 0 THEN {proc[p].units} ELSE Added(p) :
            Continue(p, [WithPair(mem[p], proc[p].sym,
                                  [PairOf(p) EXCEPT !.status = "open", !.lot = n,
                                                    !.value = Full])
                         EXCEPT !.ref = @ + Full])
      BY <2>4, Zenon DEF DepositDone
    <3>3. n \in Nat
      BY <3>1, <3>2, ReadTypes
    <3> DEFINE pair == [PairOf(p) EXCEPT !.status = "open", !.lot = n, !.value = Full]
               b == WithPair(mem[p], proc[p].sym, pair)
    <3>4. pair \in Pair
      BY <3>1, <3>3, ReadTypes, PairChanges, HarvesterAssumption, Zenon
    <3>5. b \in Book
      BY <3>1, <3>4, <1>4
    <3> HIDE DEF b
    <3>6. [b EXCEPT !.ref = @ + Full] \in Book
      BY <3>5, HarvesterAssumption, <1>3
    <3> QED
      BY <3>2, <3>6 DEF b
  <2>5. CASE OpenRefused(p)
    BY <2>5, <1>4, EmptyTypes DEF OpenRefused, Working
  <2> QED
    BY <1>6, <2>1, <2>2, <2>3, <2>4, <2>5, <2>6 DEF Deposit
<1>7. ASSUME Close(p) PROVE Booked
  <2>1. CASE \/ \E s \in Symbols : NextClose(p, s) \/ NothingToClose(p, s)
             \/ UnwindLock(p) \/ SellSpot(p) \/ SellRefused(p) \/ CoverShort(p)
    BY <2>1, Zenon DEF NextClose, NothingToClose, UnwindLock, SellSpot, SellRefused, CoverShort
  <2>2. CASE MarkClosing(p) \/ CoverRefused(p)
    <3>1. proc[p].sym \in Symbols
      BY <2>2 DEF MarkClosing, CoverRefused, Working
    <3>2. PICK st \in Status :
            \/ Save(p, WithPair(mem[p], proc[p].sym, [PairOf(p) EXCEPT !.status = st]))
            \/ SaveAndExit(p, WithPair(mem[p], proc[p].sym, [PairOf(p) EXCEPT !.status = st]))
      BY <2>2 DEF MarkClosing, CoverRefused, Status
    <3>3. [PairOf(p) EXCEPT !.status = st] \in Pair
      BY <3>1, ReadTypes, PairChanges, Zenon
    <3> QED
      BY <3>1, <3>2, <3>3, <1>4
  <2>3. CASE Settle(p)
    <3>1. proc[p].sym \in Symbols
      BY <2>3 DEF Settle, Working
    <3> DEFINE b == WithPair(mem[p], proc[p].sym, NoPair)
    <3>2. b \in Book /\ PairOf(p).value \in Nat
      BY <3>1, <1>4, EmptyTypes, ReadTypes DEF Pair
    <3> HIDE DEF b
    <3>3. [b EXCEPT !.ref = Most(@ - PairOf(p).value, 0)] \in Book
      BY <3>2, <1>3 DEF Most
    <3>4. Settled(p) \in Book
      BY <3>3 DEF Settled, b
    <3> QED
      BY <2>3, <3>4 DEF Settle
  <2> QED
    BY <1>7, <2>1, <2>2, <2>3 DEF Close
<1>8. ASSUME Update(p) PROVE Booked
  <2>1. CASE \/ \E s \in Symbols : \/ RailOk(p, s) \/ ReduceRefused(p, s) \/ ReduceHedge(p, s)
                                   \/ NoRebalance(p, s) \/ Rebalance(p, s)
                                   \/ NoBorosStep(p, s)
             \/ \E s, d \in Symbols : Rotate(p, s, d)
             \/ Paused(p) \/ NegativeCarryExit(p) \/ StayPut(p)
             \/ DeltaDone(p) \/ BorosDone(p) \/ FinalSave(p)
    BY <2>1, Zenon
    DEF RailOk, ReduceRefused, ReduceHedge, NoRebalance, Rebalance, NoBorosStep, Rotate,
        Paused, NegativeCarryExit, StayPut, DeltaDone, BorosDone, FinalSave
  <2>2. ASSUME NEW s \in Symbols, BorosStep(p, s) PROVE Booked
    <3>1. PICK k \in BOOLEAN :
            Keep(p, WithPair(mem[p], s, [mem[p].pairs[s] EXCEPT !.lock = k]))
      BY <2>2 DEF BorosStep
    <3>2. [mem[p].pairs[s] EXCEPT !.lock = k] \in Pair
      BY PairChanges, Zenon DEF Book
    <3> QED
      BY <3>1, <3>2, <1>4
  <2>3. CASE TrimSpot(p)
    <3>1. proc[p].sym \in Symbols
      BY <2>3 DEF TrimSpot, Working
    <3> DEFINE pair == [PairOf(p) EXCEPT !.lot = @ - Half(@), !.value = @ - Half(@)]
               b == WithPair(mem[p], proc[p].sym, pair)
    <3>2. pair \in Pair /\ PairOf(p).value \in Nat
      BY <3>1, ReadTypes, PairChanges, Zenon DEF Pair
    <3>3. b \in Book /\ Half(PairOf(p).value) \in Nat
      BY <3>1, <3>2, <1>4, HalfOf
    <3>4. Keep(p, [b EXCEPT !.ref = Most(@ - Half(PairOf(p).value), 0)])
      BY <2>3 DEF TrimSpot
    <3> HIDE DEF b
    <3>5. [b EXCEPT !.ref = Most(@ - Half(PairOf(p).value), 0)] \in Book
      BY <3>3, <1>3 DEF Most
    <3> QED
      BY <3>4, <3>5
  <2>4. CASE TrimRefused(p)
    <3>1. proc[p].sym \in Symbols
      BY <2>4 DEF TrimRefused, Working
    <3>2. [PairOf(p) EXCEPT !.status = "impaired"] \in Pair
      BY <3>1, ReadTypes, PairChanges, Zenon DEF Status
    <3> QED
      BY <2>4, <3>1, <3>2, <1>4 DEF TrimRefused
  <2>5. CASE DrawdownHalt(p)
    BY <2>5, <1>3 DEF DrawdownHalt
  <2> QED
    BY <1>8, <2>1, <2>2, <2>3, <2>4, <2>5 DEF Update
<1>9. ASSUME SaveScores(p) \/ FinishExit(p) \/ LockOrder(p) \/ Crash(p) PROVE Booked
  BY <1>9 DEF SaveScores, FinishExit, LockOrder, Crash
<1>10. ASSUME LockSave(p) PROVE Booked
  <2>1. proc[p].sym \in Symbols
    BY <1>10 DEF LockSave, Working
  <2>2. [PairOf(p) EXCEPT !.lock = proc[p].op = "lock"] \in Pair
    BY <2>1, ReadTypes, PairChanges, Zenon
  <2> QED
    BY <1>10, <2>1, <2>2, <1>4 DEF LockSave
<1> QED
  BY <1>5, <1>6, <1>7, <1>8, <1>9, <1>10 DEF Step, Booked

\* Every step leaves the control state well typed, and a process that works on
\* a symbol has one.
LEMMA StepProcTypes ==
  ASSUME TypesInv, NEW p \in Procs, Step(p)
  PROVE  proc' \in [Procs -> Process] /\ SymInv'
<1> DEFINE Typed == proc' \in [Procs -> Process] /\ SymInv'
<1>types. /\ proc \in [Procs -> Process] /\ proc[p] \in Process /\ mem[p] \in Book /\ disk \in Book
          /\ \A b \in Book : Recorded(b) \in SUBSET Symbols
          /\ Recorded(disk) \in SUBSET Symbols /\ OpenPairs(disk) \in SUBSET Symbols
          /\ Recorded(mem[p]) \in SUBSET Symbols /\ OpenPairs(mem[p]) \in SUBSET Symbols
          /\ \A s \in Symbols : {s} \in SUBSET Symbols
          /\ \A q \in Procs : proc[q].pc \in Working => proc[q].sym \in Symbols
  BY DEF TypesInv, TypeOK, Recorded, OpenPairs, Book, SymInv
<1>pair. proc[p].pc \in Working => PairOf(p) \in Pair
  BY <1>types DEF Book, PairOf
<1>any. \A r \in Process :
          (r.pc \in Working => r.sym \in Symbols) /\ proc' = [proc EXCEPT ![p] = r] => Typed
  BY <1>types DEF SymInv
<1>idle. ASSUME proc' = [proc EXCEPT ![p] = Idle] PROVE Typed
  BY <1>any, <1>idle, EmptyTypes DEF Idle, Working
<1>added. proc[p].pc \in Working => \A n \in Added(p) : n \in Nat
  BY <1>types, <1>pair DEF Added, Most, Balance, Wallet, TypesInv, TypeOK, Pair
<1> HIDE DEF Typed
<1>continued. ASSUME NEW b, Continue(p, b) PROVE Typed
  <2> DEFINE r == [Idle EXCEPT !.pc = "delta", !.op = "update", !.todo = Recorded(b),
                               !.reduced = proc[p].reduced]
  <2>1. proc' = [proc EXCEPT ![p] = r] \/ proc' = [proc EXCEPT ![p] = Idle]
    BY <1>continued DEF Continue, SaveAndExit, Ends
  <2>2. Recorded(b) \in SUBSET Symbols /\ proc[p].reduced \in SUBSET Symbols
    BY <1>types DEF Recorded, Process
  <2>3. r \in Process
    BY <2>2, EmptyTypes DEF Process, Steps, Actions
  <2>4. r.pc \notin Working
    BY DEF Idle, Working
  <2> HIDE DEF r
  <2> QED
    BY ONLY <1>any, <1>idle, <2>1, <2>3, <2>4
<1> USE <1>types, <1>any, EmptyTypes
    DEF Begin, At, Goto, Exit, SaveAndExit, Ends, Process, Steps, Actions, Working, Idle
<1>1. ASSUME NEW s \in Symbols, StartDeposit(p, s) PROVE Typed
  BY <1>1 DEF StartDeposit
<1>2. ASSUME NEW s \in Symbols, StartLock(p, s) PROVE Typed
  BY <1>2 DEF StartLock
<1>3. ASSUME NEW s \in Symbols, StartUnlock(p, s) PROVE Typed
  BY <1>3, Zenon DEF StartUnlock
<1>4. ASSUME NEW targets \in SUBSET Symbols, StartUnwind(p, targets) PROVE Typed
  BY <1>4, Zenon DEF StartUnwind
<1>5. ASSUME NEW s \in Symbols, NEW d \in Symbols, StartRotate(p, s, d) PROVE Typed
  BY <1>5, Zenon DEF StartRotate
<1>6. ASSUME NEW resume \in BOOLEAN, StartUpdate(p, resume) PROVE Typed
  BY <1>6, Zenon DEF StartUpdate
<1>7. ASSUME StartQuote(p) PROVE Typed
  BY <1>7, Zenon DEF StartQuote
<1>8. ASSUME StartExit(p) PROVE Typed
  BY <1>8, Zenon DEF StartExit
<1>9. ASSUME DepositRefused(p) PROVE Typed
  BY <1>9, <1>continued DEF DepositRefused
<1>10. ASSUME DepositRecord(p) PROVE Typed
  BY <1>10 DEF DepositRecord
<1>11. ASSUME DepositFailed(p) PROVE Typed
  BY <1>11, <1>continued DEF DepositFailed
<1>12. ASSUME DepositDone(p) PROVE Typed
  BY <1>12, <1>continued DEF DepositDone
<1>13. ASSUME NEW l \in SpotLegs, DepositAccepted(p, l) PROVE Typed
  <2> DEFINE r == [proc[p] EXCEPT !.pc = "record", !.leg = l]
  <2>1. proc' = [proc EXCEPT ![p] = r]
    BY <1>13 DEF DepositAccepted
  <2>2. r \in Process /\ (r.pc \in Working => r.sym \in Symbols)
    BY <1>13 DEF DepositAccepted
  <2> HIDE DEF r
  <2> QED
    BY ONLY <1>any, <2>1, <2>2
<1>14. ASSUME OpenHedge(p) PROVE Typed
  BY <1>14 DEF OpenHedge
<1>15. ASSUME OpenRefused(p) PROVE Typed
  BY <1>15, <1>continued DEF OpenRefused
<1>16. ASSUME OpenSpot(p) PROVE Typed
  BY <1>16 DEF OpenSpot
<1>17. ASSUME SpotRefused(p) PROVE Typed
  BY <1>17 DEF SpotRefused
<1>18. ASSUME OpenPaired(p) PROVE Typed
  BY <1>18 DEF OpenPaired
<1>19. ASSUME NEW s \in Symbols, NextClose(p, s) PROVE Typed
  BY <1>19 DEF NextClose
<1>20. ASSUME NEW s \in Symbols, NothingToClose(p, s) PROVE Typed
  BY <1>20 DEF NothingToClose
<1>21. ASSUME UnwindLock(p) PROVE Typed
  BY <1>21 DEF UnwindLock
<1>22. ASSUME MarkClosing(p) PROVE Typed
  <2>1. PICK n \in IF PairOf(p).lot # NoUnits THEN {PairOf(p).lot} ELSE Added(p) :
          proc' = [proc EXCEPT ![p].pc = "sell", ![p].units = n]
    BY ONLY <1>22 DEF MarkClosing
  <2>2. n \in Nat
    BY <1>22, <1>pair, <1>added, <2>1 DEF MarkClosing, Pair
  <2> DEFINE r == [proc[p] EXCEPT !.pc = "sell", !.units = n]
  <2>3. proc' = [proc EXCEPT ![p] = r]
    BY ONLY <1>types, <2>1
  <2>4. r \in Process /\ (r.pc \in Working => r.sym \in Symbols)
    BY <1>22, <2>2 DEF MarkClosing
  <2> HIDE DEF r
  <2> QED
    BY ONLY <1>any, <2>3, <2>4
<1>23. ASSUME SellSpot(p) PROVE Typed
  BY <1>23 DEF SellSpot
<1>24. ASSUME SellRefused(p) PROVE Typed
  BY <1>24 DEF SellRefused
<1>25. ASSUME CoverShort(p) PROVE Typed
  BY <1>25 DEF CoverShort
<1>26. ASSUME CoverRefused(p) PROVE Typed
  BY <1>26 DEF CoverRefused
<1>27. ASSUME Settle(p) PROVE Typed
  BY <1>27 DEF Settle
<1>28. ASSUME NEW s \in Symbols, RailOk(p, s) PROVE Typed
  BY <1>28 DEF RailOk
<1>29. ASSUME NEW s \in Symbols, ReduceRefused(p, s) PROVE Typed
  <2>1. PICK rest \in ReducedBy(p, s) :
          proc' = [proc EXCEPT ![p].todo = rest, ![p].reduced = @ \cup {s}]
    BY ONLY <1>29 DEF ReduceRefused
  <2>2. rest \in SUBSET Symbols
    BY DEF ReducedBy
  <2> DEFINE r == [proc[p] EXCEPT !.todo = rest, !.reduced = @ \cup {s}]
  <2>4. proc' = [proc EXCEPT ![p] = r]
    BY ONLY <1>types, <2>1
  <2>3. r \in Process /\ (r.pc \in Working => r.sym \in Symbols)
    BY <1>29, <2>2 DEF ReduceRefused, Guarded
  <2> HIDE DEF r
  <2> QED
    BY ONLY <1>any, <2>4, <2>3
<1>30. ASSUME NEW s \in Symbols, ReduceHedge(p, s) PROVE Typed
  <2>1. PICK rest \in ReducedBy(p, s) :
          proc' = [proc EXCEPT ![p].pc = IF s \in OpenPairs(mem[p]) THEN "trim" ELSE "rails",
                                    ![p].sym = s, ![p].todo = rest, ![p].reduced = @ \cup {s}]
    BY ONLY <1>30, Zenon DEF ReduceHedge
  <2>2. rest \in SUBSET Symbols
    BY DEF ReducedBy
  <2> DEFINE r == [proc[p] EXCEPT !.pc = IF s \in OpenPairs(mem[p]) THEN "trim" ELSE "rails",
                                    !.sym = s, !.todo = rest, !.reduced = @ \cup {s}]
  <2>4. proc' = [proc EXCEPT ![p] = r]
    BY ONLY <1>types, <2>1
  <2>3. r \in Process /\ (r.pc \in Working => r.sym \in Symbols)
    BY <1>30, <2>2 DEF ReduceHedge, Guarded
  <2> HIDE DEF r
  <2> QED
    BY ONLY <1>any, <2>4, <2>3
<1>31. ASSUME NEW s \in Symbols, NoRebalance(p, s) PROVE Typed
  BY <1>31 DEF NoRebalance
<1>32. ASSUME NEW s \in Symbols, Rebalance(p, s) PROVE Typed
  BY <1>32 DEF Rebalance
<1>33. ASSUME NEW s \in Symbols, BorosStep(p, s) PROVE Typed
  BY <1>33 DEF BorosStep
<1>34. ASSUME NEW s \in Symbols, NoBorosStep(p, s) PROVE Typed
  BY <1>34 DEF NoBorosStep
<1>35. ASSUME NEW s \in Symbols, NEW d \in Symbols, Rotate(p, s, d) PROVE Typed
  <2> DEFINE r == [proc[p] EXCEPT !.pc = "next", !.todo = {s}, !.dest = d]
  <2>1. proc' = [proc EXCEPT ![p] = r]
    BY <1>35 DEF Rotate
  <2>2. r \in Process /\ (r.pc \in Working => r.sym \in Symbols)
    BY <1>35 DEF Rotate
  <2> HIDE DEF r
  <2> QED
    BY ONLY <1>any, <2>1, <2>2
<1>36. ASSUME TrimSpot(p) PROVE Typed
  BY <1>36 DEF TrimSpot
<1>37. ASSUME TrimRefused(p) PROVE Typed
  BY <1>37 DEF TrimRefused
<1>38. ASSUME DrawdownHalt(p) PROVE Typed
  BY <1>38 DEF DrawdownHalt
<1>39. ASSUME Paused(p) PROVE Typed
  BY <1>39 DEF Paused
<1>40. ASSUME NegativeCarryExit(p) PROVE Typed
  <2> DEFINE r == [proc[p] EXCEPT !.pc = "next", !.todo = Recorded(mem[p])]
  <2>1. proc' = [proc EXCEPT ![p] = r]
    BY <1>40 DEF NegativeCarryExit
  <2>2. r \in Process /\ (r.pc \in Working => r.sym \in Symbols)
    BY <1>40 DEF NegativeCarryExit
  <2> HIDE DEF r
  <2> QED
    BY ONLY <1>any, <2>1, <2>2
<1>41. ASSUME StayPut(p) PROVE Typed
  <2> DEFINE r == [proc[p] EXCEPT !.pc = "delta", !.todo = Recorded(mem[p])]
  <2>1. proc' = [proc EXCEPT ![p] = r]
    BY <1>41 DEF StayPut
  <2>2. r \in Process /\ (r.pc \in Working => r.sym \in Symbols)
    BY <1>41 DEF StayPut
  <2> HIDE DEF r
  <2> QED
    BY ONLY <1>any, <2>1, <2>2
<1>42. ASSUME DeltaDone(p) PROVE Typed
  <2> DEFINE r == [proc[p] EXCEPT !.pc = IF RateLock THEN "boros" ELSE "finish",
                              !.todo = IF RateLock THEN OpenPairs(mem[p]) \cap RateMarkets ELSE {}]
  <2>1. proc' = [proc EXCEPT ![p] = r]
    BY <1>42 DEF DeltaDone
  <2>2. r \in Process /\ (r.pc \in Working => r.sym \in Symbols)
    BY <1>42 DEF DeltaDone
  <2> HIDE DEF r
  <2> QED
    BY ONLY <1>any, <2>1, <2>2
<1>43. ASSUME BorosDone(p) PROVE Typed
  BY <1>43 DEF BorosDone
<1>44. ASSUME FinalSave(p) PROVE Typed
  BY <1>44 DEF FinalSave
<1>45. ASSUME SaveScores(p) PROVE Typed
  BY <1>45 DEF SaveScores
<1>46. ASSUME FinishExit(p) PROVE Typed
  BY <1>46 DEF FinishExit
<1>47. ASSUME LockOrder(p) PROVE Typed
  BY <1>47 DEF LockOrder
<1>48. ASSUME LockSave(p) PROVE Typed
  BY <1>48 DEF LockSave
<1>49. ASSUME Crash(p) PROVE Typed
  BY <1>49 DEF Crash
<1> QED
  BY <1>1, <1>2, <1>3, <1>4, <1>5, <1>6, <1>7, <1>8, <1>9, <1>10, <1>11, <1>12,
     <1>13, <1>14, <1>15, <1>16, <1>17, <1>18, <1>19, <1>20, <1>21, <1>22, <1>23, <1>24,
     <1>25, <1>26, <1>27, <1>28, <1>29, <1>30, <1>31, <1>32, <1>33, <1>34, <1>35, <1>36,
     <1>37, <1>38, <1>39, <1>40, <1>41, <1>42, <1>43, <1>44, <1>45, <1>46, <1>47, <1>48,
     <1>49
  DEF Typed, Step, Start, Deposit, Close, Update

\* Selling at most what the wallet holds leaves quantities.
LEMMA SellTypes ==
  ASSUME TypesInv, NEW s \in Symbols, NEW n \in Int, n <= Wallet(s), SellUnits(s, n)
  PROVE  own' \in [Symbols -> Nat] /\ other' \in [Symbols -> Nat]
BY DEF SellUnits, Wallet, Least, TypesInv, TypeOK

\* Every step leaves quantities on the venues.
LEMMA StepVenueTypes ==
  ASSUME TypesInv, NEW p \in Procs, Step(p)
  PROVE  /\ short' \in [Symbols -> Nat] /\ own' \in [Symbols -> Nat]
         /\ other' \in [Symbols -> Nat] /\ lockOpen' \in [Symbols -> BOOLEAN]
<1> DEFINE Traded == /\ short' \in [Symbols -> Nat] /\ own' \in [Symbols -> Nat]
                     /\ other' \in [Symbols -> Nat] /\ lockOpen' \in [Symbols -> BOOLEAN]
<1>0. /\ short \in [Symbols -> Nat] /\ own \in [Symbols -> Nat]
      /\ other \in [Symbols -> Nat] /\ lockOpen \in [Symbols -> BOOLEAN]
      /\ proc[p].pc \in Working => proc[p].sym \in Symbols
      /\ proc[p] \in Process /\ mem[p] \in Book
      /\ Full \in Nat /\ Full > 0 /\ FillerMost \in Nat
  BY HarvesterAssumption DEF TypesInv, TypeOK, SymInv
<1> USE <1>0 DEF At, venue
<1>1. ASSUME UNCHANGED venue PROVE Traded
  BY <1>1
<1>2. ASSUME NEW s \in Symbols, NEW n \in Nat, NEW m \in Nat, m <= short[s],
             \/ short' = [short EXCEPT ![s] = @ + n]
             \/ short' = [short EXCEPT ![s] = @ - m],
             UNCHANGED <<own, other, lockOpen>>
      PROVE  Traded
  BY <1>2
<1>3. \A n \in Nat : \A m \in Fill(n) : m \in Nat /\ m <= n
  BY DEF Fill
<1>4. \A n \in Nat, l \in SpotLegs \cup {"none"} : \A m \in FillOn(l, n) : m \in Nat /\ m <= n
  BY <1>3 DEF FillOn
<1>10. \A n \in Int : \A l, m : m \in FillOn(l, n) => m \in Int /\ m <= n
  BY DEF Fill, FillOn
<1>5. ASSUME Start(p) PROVE Traded
  BY <1>5
  DEF Start, StartDeposit, StartLock, StartUnlock, StartUnwind, StartRotate, StartUpdate,
      StartQuote, StartExit
<1>6. ASSUME Deposit(p) PROVE Traded
  <2>1. CASE \/ SpotRefused(p) \/ DepositRefused(p) \/ \E l \in SpotLegs : DepositAccepted(p, l)
             \/ DepositRecord(p) \/ DepositFailed(p) \/ DepositDone(p) \/ OpenRefused(p)
    BY <2>1, Zenon
    DEF SpotRefused, DepositRefused, DepositAccepted, DepositRecord, DepositFailed,
        DepositDone, OpenRefused
  <2>2. CASE OpenHedge(p)
    BY <2>2, <1>3 DEF OpenHedge, Working
  <2>3. CASE OpenSpot(p)
    BY <2>3 DEF OpenSpot, Working
  <2>4. CASE OpenPaired(p)
    BY <2>4 DEF OpenPaired, Working, Fills, FillsUpTo
  <2> QED
    BY <1>6, <2>1, <2>2, <2>3, <2>4 DEF Deposit
<1>7. ASSUME Close(p) PROVE Traded
  <2>1. CASE \/ \E s \in Symbols : NextClose(p, s) \/ NothingToClose(p, s)
             \/ MarkClosing(p) \/ SellRefused(p) \/ CoverRefused(p) \/ Settle(p)
    BY <2>1, Zenon DEF NextClose, NothingToClose, MarkClosing, SellRefused, CoverRefused, Settle
  <2>2. CASE UnwindLock(p)
    BY <2>2 DEF UnwindLock
  <2>3. CASE SellSpot(p)
    <3>1. proc[p].sym \in Symbols /\ proc[p].units \in Nat
      BY <2>3 DEF SellSpot, Working, Process
    <3> DEFINE n == Least(proc[p].units, Wallet(proc[p].sym))
    <3>2. Wallet(proc[p].sym) \in Nat /\ PairOf(p).leg \in SpotLegs \cup {"none"}
      BY <3>1, ReadTypes DEF Pair
    <3>3. n \in Nat /\ n <= Wallet(proc[p].sym)
      BY <3>1, <3>2 DEF Least
    <3> HIDE DEF n
    <3>4. PICK sold \in FillOn(PairOf(p).leg, n) \cup {0} : SellUnits(proc[p].sym, sold)
      BY <2>3 DEF SellSpot, n
    <3>5. sold \in Nat /\ sold <= Wallet(proc[p].sym)
      BY <3>2, <3>3, <3>4, <1>4
    <3> QED
      BY <2>3, <3>1, <3>4, <3>5, SellTypes DEF SellSpot
  <2>4. CASE CoverShort(p)
    BY <2>4, <1>3 DEF CoverShort, Working
  <2> QED
    BY <1>7, <2>1, <2>2, <2>3, <2>4 DEF Close
<1>8. ASSUME Update(p) PROVE Traded
  <2>1. CASE \/ \E s \in Symbols : \/ RailOk(p, s) \/ ReduceRefused(p, s)
                                   \/ NoRebalance(p, s) \/ NoBorosStep(p, s)
             \/ \E s, d \in Symbols : Rotate(p, s, d)
             \/ Paused(p) \/ NegativeCarryExit(p) \/ StayPut(p) \/ TrimRefused(p)
             \/ DeltaDone(p) \/ BorosDone(p) \/ FinalSave(p) \/ DrawdownHalt(p)
    BY <2>1, Zenon
    DEF RailOk, ReduceRefused, NoRebalance, NoBorosStep, Rotate, Paused, NegativeCarryExit,
        StayPut, DeltaDone, BorosDone, FinalSave, TrimRefused, DrawdownHalt
  <2>2. ASSUME NEW s \in Symbols, BorosStep(p, s) PROVE Traded
    BY <2>2 DEF BorosStep
  <2>3. ASSUME NEW s \in Symbols, ReduceHedge(p, s) PROVE Traded
    <3>1. Half(short[s]) \in Nat /\ Half(short[s]) <= short[s]
      BY HalfOf
    <3>2. PICK n \in Fill(Half(short[s])) : short' = [short EXCEPT ![s] = @ - n]
      BY <2>3 DEF ReduceHedge
    <3>3. n \in Nat /\ n <= short[s]
      BY <3>1, <3>2, <1>3
    <3> QED
      BY <2>3, <3>2, <3>3 DEF ReduceHedge
  <2>4. ASSUME NEW s \in Symbols, Rebalance(p, s) PROVE Traded
    <3>1. Shown(p, s) \in Nat
      <4>1. mem[p].pairs[s].lot \in Nat \cup {NoUnits} /\ Wallet(s) \in Nat
        BY DEF Book, Pair, Wallet
      <4> QED
        BY <4>1 DEF Shown, Least, NoUnits
    <3>2. PICK n \in Nat :
            \/ short' = [short EXCEPT ![s] = @ + n]
            \/ short' = [short EXCEPT ![s] = @ - n] /\ n <= short[s]
      <4>1. CASE Shown(p, s) > short[s]
        BY <2>4, <3>1, <4>1, <1>3 DEF Rebalance
      <4>2. CASE Shown(p, s) < short[s]
        <5>1. short[s] - Shown(p, s) \in Nat /\ short[s] - Shown(p, s) <= short[s]
          BY <3>1, <4>2
        <5>2. PICK m \in Fill(short[s] - Shown(p, s)) : short' = [short EXCEPT ![s] = @ - m]
          BY <2>4, <3>1, <4>2 DEF Rebalance
        <5>3. m \in Nat /\ m <= short[s]
          BY <5>1, <5>2, <1>3
        <5> QED
          BY <5>2, <5>3
      <4> QED
        BY <2>4, <4>1, <4>2 DEF Rebalance
    <3> QED
      BY <2>4, <3>2 DEF Rebalance
  <2>5. CASE TrimSpot(p)
    <3>1. proc[p].sym \in Symbols
      BY <2>5 DEF TrimSpot, Working
    <3>2. PICK n \in Balance(proc[p].sym, PairOf(p).leg) :
            \E sold \in FillOn(PairOf(p).leg, Half(Least(n, PairOf(p).lot))) :
              SellUnits(proc[p].sym, sold)
      BY <2>5 DEF TrimSpot
    <3>3. n \in Nat /\ n <= Wallet(proc[p].sym) /\ PairOf(p).lot \in Nat \cup {NoUnits}
      BY <3>1, <3>2, ReadTypes DEF Balance, Pair
    <3> DEFINE half == Half(Least(n, PairOf(p).lot))
    <3>4. half \in Int /\ half <= n
      BY <3>3, HalfOf DEF Least, NoUnits, Half
    <3> HIDE DEF half
    <3>5. PICK sold : sold \in FillOn(PairOf(p).leg, half) /\ SellUnits(proc[p].sym, sold)
      BY <3>2 DEF half
    <3>6. sold \in Int /\ sold <= half
      BY <3>4, <3>5, <1>10
    <3>7. sold <= Wallet(proc[p].sym)
      BY <3>1, <3>3, <3>4, <3>6, ReadTypes
    <3> QED
      BY <2>5, <3>1, <3>5, <3>6, <3>7, SellTypes DEF TrimSpot
  <2> QED
    BY <1>8, <2>1, <2>2, <2>3, <2>4, <2>5 DEF Update
<1>9. ASSUME SaveScores(p) \/ FinishExit(p) \/ LockOrder(p) \/ LockSave(p) \/ Crash(p)
      PROVE  Traded
  BY <1>9 DEF SaveScores, FinishExit, LockOrder, LockSave, Crash
<1> QED
  BY <1>5, <1>6, <1>7, <1>8, <1>9 DEF Step

\* The types are inductive.
LEMMA StepTypes == TypesInv /\ [Next]_vars => TypesInv'
<1>1. ASSUME TypesInv, NEW p \in Procs, Step(p) PROVE TypesInv'
  BY <1>1, StepProcTypes, StepBookTypes, StepVenueTypes DEF TypesInv, TypeOK
<1>2. ASSUME TypesInv, UNCHANGED vars PROVE TypesInv'
  BY <1>2 DEF TypesInv, TypeOK, SymInv, vars
<1> QED
  BY <1>1, <1>2 DEF Next, Step

\* The types, for any number of processes and whatever fails.
THEOREM TypeTheorem == Spec => []TypeOK
<1>1. TypesInv => TypeOK
  BY DEF TypesInv
<1> QED
  BY <1>1, InitTypes, StepTypes, PTL DEF Spec

-----------------------------------------------------------------------------
(* One process that may die *)

\* A book with one record changed fits when the new record does.
LEMMA ChangeFits ==
  ASSUME NEW b \in Book, NEW s \in Symbols, NEW pair \in Pair, NEW sh, NEW ow, NEW ot,
         FitsAll(b, sh, ow, ot), Fits(pair, s, sh[s], ow[s], ot[s])
  PROVE  FitsAll(WithPair(b, s, pair), sh, ow, ot)
<1>1. b.pairs \in [Symbols -> Pair]
  BY DEF Book
<1> DEFINE c == WithPair(b, s, pair)
<1>2. c.pairs = [b.pairs EXCEPT ![s] = pair]
  BY WithPairIsBook
<1> HIDE DEF c
<1>3. \A x \in Symbols : c.pairs[x] = IF x = s THEN pair ELSE b.pairs[x]
  BY <1>1, <1>2
<1>4. FitsAll(c, sh, ow, ot)
  BY <1>3 DEF FitsAll
<1> QED
  BY <1>4 DEF c

\* A book fits the venues after a trade in one symbol when that symbol's record
\* does.
LEMMA TradeFits ==
  ASSUME NEW b, NEW s \in Symbols, FitsAll(b, short, own, other),
         \A x \in Symbols \ {s} :
           short'[x] = short[x] /\ own'[x] = own[x] /\ other'[x] = other[x],
         Fits(b.pairs[s], s, short'[s], own'[s], other'[s])
  PROVE  FitsAll(b, short', own', other')
BY DEF FitsAll

\* What the orders and reads give when nothing fails.
LEMMA NoFaults ==
  ASSUME Faults \subseteq {"crash"}
  PROVE  /\ \A n \in Nat : Fill(n) = {n}
         /\ \A l, n : FillOn(l, n) = {n} \/ n \notin Nat
         /\ \A l : ~MisreadOn(l)
         /\ \A s, l : Balance(s, l) = {Wallet(s)}
         /\ \A f \in FillerOutcome : f.told = f.spot /\ (f.spot = 0 => f.perp = 0)
BY DEF Fill, FillOn, MisreadOn, Balance, FillerOutcome, ReturnedFills

\* The invariant holds at the start.
LEMMA InitSafe == Init => SafeInv
<1> SUFFICES ASSUME Init PROVE SafeInv
  OBVIOUS
<1>1. BookFits(disk)
  BY DEF Init, BookFits, FitsAll, Fits, EmptyBook, NoPair
<1>2. VenueInv
  BY HarvesterAssumption DEF Init, VenueInv, Limit, Most
<1>3. CopyInv /\ StageInv
  BY DEF Init, CopyInv, StageInv, At, Idle
<1> QED
  BY <1>1, <1>2, <1>3 DEF SafeInv

\* What the invariant asks of a process that has ended.
LEMMA SafeWhenIdle ==
  ASSUME OneProcess, NEW p \in Procs, proc'[p].pc = "idle",
         FitsAll(disk', short', own', other'), VenueInv'
  PROVE  SafeInv'
BY DEF OneProcess, SafeInv, BookFits, CopyInv, StageInv, At

\* What the invariant asks of a process that goes on.
LEMMA SafeWhenBusy ==
  ASSUME OneProcess, NEW p \in Procs, VenueInv',
         FitsAll(disk', short', own', other'), FitsAll(mem'[p], short', own', other'),
         Agree(mem'[p], disk'), proc'[p].pc \in Synced => mem'[p] = disk', StageOf(p)'
  PROVE  SafeInv'
<1>1. \A q \in Procs : q = p
  BY DEF OneProcess
<1> QED
  BY <1>1 DEF SafeInv, BookFits, CopyInv, StageInv

\* A book agrees with itself.
LEMMA AgreeSelf == ASSUME NEW b PROVE Agree(b, b)
BY DEF Agree

\* What is known of a process that works.
LEMMA Inside ==
  ASSUME TypesInv, SafeInv, NEW p \in Procs
  PROVE  /\ proc \in [Procs -> Process] /\ proc[p] \in Process
         /\ mem \in [Procs -> Book] /\ mem[p] \in Book /\ disk \in Book
         /\ proc[p].pc \in Working => proc[p].sym \in Symbols /\ PairOf(p) \in Pair
         /\ FitsAll(disk, short, own, other) /\ VenueInv
         /\ ~At(p, "idle") => /\ FitsAll(mem[p], short, own, other)
                              /\ Agree(mem[p], disk)
                              /\ proc[p].pc \in Synced => mem[p] = disk
                              /\ StageOf(p)
<1>1. /\ proc \in [Procs -> Process] /\ mem \in [Procs -> Book] /\ disk \in Book
      /\ proc[p].pc \in Working => proc[p].sym \in Symbols
  BY DEF TypesInv, TypeOK, SymInv
<1>2. proc[p].pc \in Working => PairOf(p) \in Pair
  BY <1>1 DEF PairOf, Book
<1> QED
  BY <1>1, <1>2 DEF SafeInv, BookFits, CopyInv, StageInv

\* How a process starts.
LEMMA StartBegins ==
  ASSUME TypesInv, NEW p \in Procs, Start(p)
  PROVE  /\ proc'[p].pc \in {"deposit", "scored", "next", "rails", "lock", "transfer"}
         /\ proc'[p].units = 0
         /\ proc'[p].op = "update" => ~disk'.halted
         /\ proc'[p].pc = "rails" => proc'[p].op = "update"
         /\ mem'[p] = disk'
<1>4. /\ proc \in [Procs -> Process] /\ mem \in [Procs -> Book] /\ disk \in Book
  BY DEF TypesInv, TypeOK
<1> USE <1>4
<1> DEFINE Begun == /\ proc'[p].pc \in {"deposit", "scored", "next", "rails", "lock", "transfer"}
                    /\ proc'[p].units = 0
                    /\ proc'[p].op = "update" => ~disk'.halted
                    /\ proc'[p].pc = "rails" => proc'[p].op = "update"
<1>1. ASSUME NEW step \in {"deposit", "scored", "next", "lock", "transfer"},
             NEW action \in Actions \ {"update"}, NEW x, NEW d, NEW todo,
             Begin(p, action, step, x, d, todo)
      PROVE  Begun
  BY <1>1 DEF Begin, Idle
<1>2. ASSUME NEW resume \in BOOLEAN, StartUpdate(p, resume) PROVE Begun
  BY <1>2 DEF StartUpdate, Load, Save, Book, Begin, Idle
<1> HIDE DEF Begun
<1>3. Begun
  <2>1. ASSUME NEW s \in Symbols, StartDeposit(p, s) PROVE Begun
    BY <2>1, <1>1 DEF StartDeposit, Actions
  <2>2. ASSUME NEW s \in Symbols, StartLock(p, s) PROVE Begun
    BY <2>2, <1>1 DEF StartLock, Actions
  <2>3. ASSUME NEW s \in Symbols, StartUnlock(p, s) PROVE Begun
    BY <2>3, <1>1 DEF StartUnlock, Actions
  <2>4. ASSUME NEW s \in Symbols, NEW d \in Symbols, StartRotate(p, s, d) PROVE Begun
    BY <2>4, <1>1 DEF StartRotate, Actions
  <2>5. ASSUME NEW targets \in SUBSET Symbols, StartUnwind(p, targets) PROVE Begun
    BY <2>5, <1>1 DEF StartUnwind, Actions
  <2>6. CASE StartQuote(p)
    BY <2>6, <1>1 DEF StartQuote, Actions
  <2>7. CASE StartExit(p)
    BY <2>7, <1>1 DEF StartExit, Actions
  <2> QED
    BY <1>2, <2>1, <2>2, <2>3, <2>4, <2>5, <2>6, <2>7 DEF Start
<1>5. mem'[p] = disk'
  BY DEF Start, StartDeposit, StartLock, StartUnlock, StartUnwind, StartRotate, StartUpdate,
         StartQuote, StartExit, Load, Save
<1> QED
  BY <1>3, <1>5 DEF Begun

\* Starting a process keeps the invariant.
LEMMA StartSafe ==
  ASSUME OneProcess, TypesInv, SafeInv, NEW p \in Procs, Start(p)
  PROVE  SafeInv'
<1> USE Inside
<1>1. UNCHANGED <<short, own, other>> /\ VenueInv' /\ mem'[p] = disk'
  BY DEF Start, StartDeposit, StartLock, StartUnlock, StartUnwind, StartRotate, StartUpdate,
         StartQuote, StartExit, Load, Save, venue, VenueInv
<1>2. disk'.pairs = disk.pairs
  BY DEF Start, StartDeposit, StartLock, StartUnlock, StartUnwind, StartRotate, StartUpdate,
         StartQuote, StartExit, Load, Save, Book
<1>3. FitsAll(disk', short', own', other')
  BY <1>1, <1>2 DEF FitsAll
<1>4. StageOf(p)'
  BY StartBegins DEF StageOf, Stage
<1> QED
  BY <1>1, <1>3, <1>4, SafeWhenBusy, AgreeSelf

\* The steps of the small commands keep the invariant.
LEMMA RestSafe ==
  ASSUME OneProcess, TypesInv, SafeInv, NEW p \in Procs,
         SaveScores(p) \/ FinishExit(p) \/ LockOrder(p) \/ LockSave(p) \/ Crash(p)
  PROVE  SafeInv'
<1> USE Inside
<1>1. UNCHANGED <<short, own, other>> /\ VenueInv'
  BY DEF SaveScores, FinishExit, LockOrder, LockSave, Crash, venue, VenueInv
<1>2. ASSUME Exit(p) \/ SaveAndExit(p, mem[p]), ~At(p, "idle") PROVE SafeInv'
  <2>1. proc'[p].pc = "idle" /\ (disk' = disk \/ disk' = mem[p])
    BY <1>2 DEF Exit, SaveAndExit, Ends, Idle
  <2>2. FitsAll(disk', short', own', other')
    BY <1>1, <1>2, <2>1
  <2> QED
    BY <1>1, <2>1, <2>2, SafeWhenIdle
<1>3. ASSUME SaveScores(p), Goto(p, "next") PROVE SafeInv'
  <2>1. /\ mem'[p] = mem[p] /\ disk' = mem[p] /\ proc'[p].pc = "next"
        /\ proc'[p].op = proc[p].op /\ StageOf(p) /\ mem[p] = disk
    BY <1>3 DEF SaveScores, Goto, Save, At, Synced, SaveAndExit, Ends, Idle
  <2>2. StageOf(p)'
    BY <2>1 DEF StageOf, Stage
  <2> QED
    BY <1>1, <2>1, <2>2, SafeWhenBusy, AgreeSelf
<1>4. ASSUME LockOrder(p), Goto(p, "locked"), UNCHANGED <<disk, mem>> PROVE SafeInv'
  <2>1. /\ mem'[p] = mem[p] /\ disk' = disk /\ proc'[p].pc = "locked"
        /\ proc'[p].op = proc[p].op /\ StageOf(p) /\ mem[p] = disk
    BY <1>4 DEF LockOrder, Goto, At, Synced
  <2>2. StageOf(p)'
    BY <2>1 DEF StageOf, Stage
  <2> QED
    BY <1>1, <2>1, <2>2, SafeWhenBusy, AgreeSelf
<1>5. CASE LockSave(p)
  <2>1. proc[p].pc = "locked" /\ proc[p].sym \in Symbols
    BY <1>5 DEF LockSave, At, Working
  <2> DEFINE k == proc[p].op = "lock"
             pair == [PairOf(p) EXCEPT !.lock = k]
             b == WithPair(mem[p], proc[p].sym, pair)
  <2>2. pair \in Pair
    BY <2>1, PairChanges, Zenon DEF Working
  <2>3. \A sh, ow, ot : Fits(PairOf(p), proc[p].sym, sh, ow, ot) =>
                          Fits(pair, proc[p].sym, sh, ow, ot)
    BY <2>1 DEF Fits, Pair, Working
  <2>4. Fits(PairOf(p), proc[p].sym, short[proc[p].sym], own[proc[p].sym], other[proc[p].sym])
    BY <2>1 DEF FitsAll, PairOf, At
  <2>5. FitsAll(b, short, own, other)
    BY <2>1, <2>2, <2>3, <2>4, ChangeFits DEF At
  <2>6. disk' = b /\ proc'[p].pc = "idle"
    BY <1>5 DEF LockSave, SaveAndExit, Ends, Idle
  <2> HIDE DEF b
  <2> QED
    BY <1>1, <2>5, <2>6, SafeWhenIdle
<1> QED
  BY <1>2, <1>3, <1>4, <1>5 DEF SaveScores, FinishExit, LockOrder, Crash, At

\* The end of a deposit, alone or inside an update, keeps the invariant when the
\* book it saves fits.
LEMMA ContinueSafe ==
  ASSUME OneProcess, TypesInv, SafeInv, NEW p \in Procs, ~At(p, "idle"),
         NEW b, Continue(p, b), FitsAll(b, short', own', other'), VenueInv',
         b.halted = disk.halted
  PROVE  SafeInv'
<1>1. CASE proc[p].op = "update"
  <2>1. /\ mem'[p] = b /\ disk' = b /\ proc'[p].pc = "delta" /\ proc'[p].op = "update"
    BY <1>1, Inside DEF Continue, Save, Idle
  <2>2. ~disk.halted
    BY <1>1, Inside DEF StageOf, Stage
  <2>3. StageOf(p)'
    BY <2>1, <2>2 DEF StageOf, Stage
  <2> QED
    BY <2>1, <2>3, SafeWhenBusy, AgreeSelf DEF Synced
<1>2. CASE proc[p].op # "update"
  <2>1. disk' = b /\ proc'[p].pc = "idle"
    BY <1>2, Inside DEF Continue, SaveAndExit, Ends, Idle
  <2> QED
    BY <2>1, SafeWhenIdle
<1> QED
  BY <1>1, <1>2

\* A step of a deposit keeps the invariant.
LEMMA DepositSafe ==
  ASSUME OneProcess, Faults \subseteq {"crash"}, TypesInv, SafeInv, NEW p \in Procs, Deposit(p)
  PROVE  SafeInv'
<1> DEFINE s == proc[p].sym
           Opens == {"deposit", "record", "hedge", "spot", "paired", "filled", "failed"}
<1>1. proc[p].pc \in Opens
  BY Zenon DEF Deposit, DepositRefused, DepositRecord, DepositFailed, DepositDone, DepositAccepted,
         OpenHedge, OpenRefused, OpenSpot, SpotRefused, OpenPaired, At
<1>2. /\ s \in Symbols /\ PairOf(p) \in Pair /\ mem[p] = disk /\ ~At(p, "idle") /\ StageOf(p)
      /\ PairOf(p) = disk.pairs[s] /\ disk \in Book /\ FitsAll(disk, short, own, other)
      /\ proc[p] \in Process /\ proc \in [Procs -> Process] /\ mem \in [Procs -> Book]
      /\ Fits(PairOf(p), s, short[s], own[s], other[s]) /\ VenueInv
  BY <1>1, Inside DEF Working, Synced, At, PairOf, FitsAll
<1>3. /\ short \in [Symbols -> Nat] /\ own \in [Symbols -> Nat] /\ other \in [Symbols -> Nat]
      /\ Full \in Nat /\ Full > 0 /\ FillerMost \in Nat /\ Unrelated \in Nat
  BY HarvesterAssumption DEF TypesInv, TypeOK
<1>4. Full <= Limit(s) /\ (s \in HlSpots => FillerMost <= Limit(s)) /\ Limit(s) \in Nat
  BY <1>3 DEF Limit, Most
<1>5. UNCHANGED venue => VenueInv' /\ UNCHANGED <<short, own, other>>
  BY <1>2 DEF venue, VenueInv
<1> HIDE DEF s
<1> USE <1>2, <1>3
<1>6. CASE DepositRefused(p)
  BY <1>5, <1>6, ContinueSafe, SafeWhenIdle DEF DepositRefused, Exit, Ends, Idle
<1>7. ASSUME NEW l \in SpotLegs, DepositAccepted(p, l) PROVE SafeInv'
  <2>1. /\ mem'[p] = disk /\ disk' = disk /\ proc'[p].pc = "record" /\ proc'[p].leg = l
        /\ proc'[p].sym = s /\ proc'[p].units = 0 /\ proc'[p].op = proc[p].op
        /\ Supports(l, s) /\ ~disk.halted /\ PairOf(p).status = "none"
    BY <1>7 DEF DepositAccepted, At, StageOf, Stage, s, Process
  <2>2. StageOf(p)'
    BY <2>1 DEF StageOf, Stage, PairOf
  <2> QED
    BY <1>5, <1>7, <2>1, <2>2, SafeWhenBusy, AgreeSelf DEF DepositAccepted
<1>8. CASE DepositRecord(p)
  <2>1. /\ PairOf(p).status = "none" /\ Supports(proc[p].leg, s) /\ proc[p].units = 0
        /\ ~disk.halted /\ proc[p].leg \in SpotLegs
    BY <1>8 DEF DepositRecord, At, StageOf, Stage, s, Supports, SpotLegs
  <2>2. short[s] = 0 /\ own[s] = 0 /\ Wallet(s) = other[s]
    BY <2>1 DEF Fits, Wallet
  <2> DEFINE pair == [NoPair EXCEPT !.status = "opening", !.leg = proc[p].leg, !.pre = Wallet(s)]
             b == WithPair(mem[p], s, pair)
  <2>3. /\ pair \in Pair /\ pair.status = "opening" /\ pair.lot = NoUnits
        /\ pair.leg = proc[p].leg /\ pair.pre = other[s]
    <3>1. Wallet(s) \in Nat
      BY <2>2
    <3>2. pair \in Pair
      BY <2>1, <3>1, EmptyTypes, PairChanges, Zenon
    <3> QED
      BY <2>2, <3>2 DEF NoPair
  <2> HIDE DEF pair
  <2>4. Fits(pair, s, short[s], own[s], other[s])
    BY <2>1, <2>3 DEF Fits
  <2>5. /\ b.halted = disk.halted /\ FitsAll(b, short, own, other)
        /\ b.pairs[s] = pair
    <3>1. b.halted = mem[p].halted /\ b.pairs = [mem[p].pairs EXCEPT ![s] = pair]
      BY <2>3, WithPairIsBook
    <3>2. FitsAll(b, short, own, other)
      BY <2>3, <2>4, ChangeFits
    <3> HIDE DEF b
    <3> QED
      BY <3>1, <3>2 DEF Book
  <2>6. Save(p, b) /\ Goto(p, IF proc[p].leg = "hl_spot" THEN "paired" ELSE "hedge")
    <3>1. PICK n \in Balance(s, proc[p].leg) :
            Save(p, WithPair(mem[p], s, [NoPair EXCEPT !.status = "opening",
                                                       !.leg = proc[p].leg, !.pre = n]))
      BY <1>8, Zenon DEF DepositRecord, s
    <3>2. n = Wallet(s)
      BY <3>1, NoFaults
    <3> QED
      BY <1>8, <3>1, <3>2 DEF DepositRecord, pair
  <2> HIDE DEF b
  <2>7. /\ mem'[p] = b /\ disk' = b /\ proc'[p].op = proc[p].op /\ proc'[p].sym = s
        /\ proc'[p].units = 0 /\ proc'[p].pc = IF proc[p].leg = "hl_spot" THEN "paired" ELSE "hedge"
    BY <2>1, <2>6 DEF Save, Goto, s, Process
  <2>8. UNCHANGED <<short, own, other>>
    BY <1>5, <1>8 DEF DepositRecord
  <2>9. StageOf(p)'
    BY <2>1, <2>2, <2>3, <2>5, <2>7, <2>8 DEF StageOf, Stage, PairOf
  <2> QED
    BY <1>5, <1>8, <2>5, <2>7, <2>8, <2>9, SafeWhenBusy, AgreeSelf DEF DepositRecord
<1>9. CASE OpenHedge(p)
  <2>1. /\ PairOf(p).status = "opening" /\ PairOf(p).lot = NoUnits /\ PairOf(p).leg # "hl_spot"
        /\ short[s] = 0 /\ own[s] = 0 /\ proc[p].units = 0 /\ ~disk.halted
    BY <1>9 DEF OpenHedge, At, StageOf, Stage, s
  <2>2. /\ short' = [short EXCEPT ![s] = Full] /\ UNCHANGED <<disk, mem, own, other>>
        /\ proc'[p].pc = "spot" /\ proc'[p].sym = s /\ proc'[p].units = 0
        /\ proc'[p].op = proc[p].op
    <3>1. PICK n \in Fill(Full) : short' = [short EXCEPT ![s] = @ + n]
      BY <1>9 DEF OpenHedge, s
    <3>2. n = Full
      BY <3>1, NoFaults
    <3>3. short' = [short EXCEPT ![s] = Full]
      BY <2>1, <3>1, <3>2
    <3> QED
      BY <1>9, <2>1, <3>3 DEF OpenHedge, Goto, s, Process
  <2>3. FitsAll(disk, short', own', other')
    <3>1. Fits(PairOf(p), s, Full, own[s], other[s])
      BY <2>1 DEF Fits
    <3> QED
      BY <2>2, <3>1, TradeFits, Zenon
  <2>4. VenueInv'
    BY <2>2, <1>4 DEF VenueInv
  <2>5. StageOf(p)'
    BY <2>1, <2>2 DEF StageOf, Stage, PairOf
  <2> QED
    BY <2>2, <2>3, <2>4, <2>5, SafeWhenBusy, AgreeSelf
<1>10. CASE OpenRefused(p)
  <2>1. PairOf(p).status = "opening" /\ short[s] = 0 /\ own[s] = 0
    BY <1>10 DEF OpenRefused, At, StageOf, Stage, s
  <2> DEFINE b == WithPair(mem[p], s, NoPair)
  <2>2. Fits(NoPair, s, short[s], own[s], other[s])
    BY <2>1 DEF Fits, NoPair
  <2>3. b.halted = disk.halted /\ FitsAll(b, short, own, other)
    BY <2>2, WithPairIsBook, EmptyTypes, ChangeFits
  <2>4. Continue(p, b)
    BY <1>10 DEF OpenRefused, s
  <2> HIDE DEF b
  <2> QED
    BY <1>5, <1>10, <2>3, <2>4, ContinueSafe DEF OpenRefused
<1>11. CASE OpenSpot(p)
  <2>1. /\ PairOf(p).status = "opening" /\ PairOf(p).lot = NoUnits /\ PairOf(p).leg # "hl_spot"
        /\ short[s] = Full /\ own[s] = 0 /\ proc[p].units = 0
    BY <1>11 DEF OpenSpot, At, StageOf, Stage, s
  <2>2. /\ own' = [own EXCEPT ![s] = Full] /\ UNCHANGED <<disk, mem, short, other>>
        /\ proc'[p].pc = "filled" /\ proc'[p].sym = s /\ proc'[p].units = 0
        /\ proc'[p].op = proc[p].op
    <3>1. own' = [own EXCEPT ![s] = @ + Full]
      BY <1>11 DEF OpenSpot, s
    <3>2. own' = [own EXCEPT ![s] = Full]
      BY <2>1, <3>1
    <3> QED
      BY <1>11, <2>1, <3>2 DEF OpenSpot, Goto, s, Process
  <2>3. FitsAll(disk, short', own', other')
    <3>1. Fits(PairOf(p), s, short[s], Full, other[s])
      BY <2>1 DEF Fits
    <3> QED
      BY <2>2, <3>1, TradeFits, Zenon
  <2>4. VenueInv'
    BY <2>2, <1>4 DEF VenueInv
  <2>5. StageOf(p)'
    BY <2>1, <2>2 DEF StageOf, Stage, PairOf
  <2> QED
    BY <2>2, <2>3, <2>4, <2>5, SafeWhenBusy, AgreeSelf
<1>12. CASE SpotRefused(p)
  <2>1. /\ PairOf(p).status = "opening" /\ PairOf(p).lot = NoUnits
        /\ proc'[p].pc = "failed" /\ proc'[p].sym = s /\ proc'[p].op = proc[p].op
        /\ UNCHANGED <<disk, mem, short, own, other>>
    BY <1>12 DEF SpotRefused, Goto, At, StageOf, Stage, s, Process, venue
  <2>2. StageOf(p)'
    BY <2>1 DEF StageOf, Stage, PairOf
  <2> QED
    BY <1>5, <1>12, <2>1, <2>2, SafeWhenBusy, AgreeSelf DEF SpotRefused
<1>13. CASE OpenPaired(p)
  <2>1. /\ PairOf(p).status = "opening" /\ PairOf(p).lot = NoUnits /\ PairOf(p).leg = "hl_spot"
        /\ short[s] = 0 /\ own[s] = 0 /\ proc[p].units = 0
    BY <1>13 DEF OpenPaired, At, StageOf, Stage, s
  <2>2. s \in HlSpots
    BY <2>1 DEF Fits, Supports
  <2>3. PICK f \in Fills :
          /\ short' = [short EXCEPT ![s] = f.perp] /\ own' = [own EXCEPT ![s] = f.spot]
          /\ \/ f \in FillerOutcome
                /\ proc' = [proc EXCEPT ![p].pc = "filled", ![p].units = f.told]
             \/ Goto(p, "failed")
    <3>1. PICK f \in Fills :
            /\ short' = [short EXCEPT ![s] = @ + f.perp] /\ own' = [own EXCEPT ![s] = @ + f.spot]
            /\ \/ f \in FillerOutcome
                  /\ proc' = [proc EXCEPT ![p].pc = "filled", ![p].units = f.told]
               \/ Goto(p, "failed")
      BY <1>13 DEF OpenPaired, s
    <3>2. f.perp \in Nat /\ f.spot \in Nat
      BY DEF Fills, FillsUpTo
    <3>3. short' = [short EXCEPT ![s] = f.perp] /\ own' = [own EXCEPT ![s] = f.spot]
      <4>1. short[s] + f.perp = f.perp /\ own[s] + f.spot = f.spot
        BY <2>1, <3>2
      <4> QED
        BY ONLY <3>1, <4>1
    <3> QED
      BY <3>1, <3>3
  <2>4. f.perp \in 0 .. FillerMost /\ f.spot \in 0 .. FillerMost /\ UNCHANGED <<disk, mem, other>>
    BY <1>13, <2>3 DEF OpenPaired, Fills, FillsUpTo
  <2>5. FitsAll(disk, short', own', other')
    <3>1. Fits(PairOf(p), s, f.perp, f.spot, other[s])
      BY <2>1 DEF Fits
    <3> QED
      BY <2>3, <2>4, <3>1, TradeFits
  <2>6. VenueInv'
    BY <2>2, <2>3, <2>4, <1>4 DEF VenueInv
  <2>7. short'[s] = f.perp /\ own'[s] = f.spot
    BY <2>3
  <2>8. CASE f \in FillerOutcome /\ proc' = [proc EXCEPT ![p].pc = "filled", ![p].units = f.told]
    <3>1. f.told = f.spot /\ (f.spot = 0 => f.perp = 0)
      BY <2>8, NoFaults
    <3>2. /\ proc'[p].pc = "filled" /\ proc'[p].units = f.told /\ proc'[p].sym = s
          /\ proc'[p].op = proc[p].op
      BY <2>8 DEF s, Process
    <3>3. StageOf(p)'
      BY <2>1, <2>4, <2>7, <3>1, <3>2 DEF StageOf, Stage, PairOf
    <3> QED
      BY <2>4, <2>5, <2>6, <3>3, SafeWhenBusy, AgreeSelf
  <2>9. CASE Goto(p, "failed")
    <3>1. proc'[p].pc = "failed" /\ proc'[p].sym = s /\ proc'[p].op = proc[p].op
      BY <2>9 DEF Goto, s, Process
    <3>2. StageOf(p)'
      BY <2>1, <2>4, <3>1 DEF StageOf, Stage, PairOf
    <3> QED
      BY <2>4, <2>5, <2>6, <3>2, SafeWhenBusy, AgreeSelf
  <2> QED
    BY <2>3, <2>8, <2>9
<1>14. PairOf(p).status = "opening" /\ PairOf(p).lot = NoUnits =>
         Added(p) = {own[s]} /\ own[s] <= Limit(s)
  <2> SUFFICES ASSUME PairOf(p).status = "opening", PairOf(p).lot = NoUnits
               PROVE  Added(p) = {own[s]} /\ own[s] <= Limit(s)
    OBVIOUS
  <2>1. PairOf(p).pre = other[s]
    BY DEF Fits
  <2>2. Most(Wallet(s) - PairOf(p).pre, 0) = own[s]
    BY <2>1 DEF Wallet, Most
  <2>3. Balance(s, PairOf(p).leg) = {Wallet(s)}
    BY NoFaults
  <2> QED
    BY <2>2, <2>3 DEF Added, VenueInv, s
<1>15. CASE DepositFailed(p)
  <2>1. PairOf(p).status = "opening" /\ PairOf(p).lot = NoUnits
    BY <1>15 DEF DepositFailed, At, StageOf, Stage
  <2> DEFINE pair == [PairOf(p) EXCEPT !.status = "half_open", !.lot = own[s]]
             b == WithPair(mem[p], s, pair)
  <2>2. /\ pair \in Pair /\ pair.status = "half_open" /\ pair.lot = own[s]
        /\ pair.leg = PairOf(p).leg
    <3>1. pair \in Pair
      BY PairChanges, Zenon DEF Status
    <3> QED
      BY <3>1 DEF Pair
  <2> HIDE DEF pair
  <2>3. Fits(pair, s, short[s], own[s], other[s])
    BY <2>1, <2>2, <1>14 DEF Fits, NoUnits
  <2>4. b.halted = disk.halted /\ FitsAll(b, short, own, other)
    BY <2>2, <2>3, WithPairIsBook, ChangeFits
  <2>5. Continue(p, b)
    BY <1>15, <2>1, <1>14 DEF DepositFailed, s, pair
  <2> HIDE DEF b
  <2> QED
    BY <1>5, <1>15, <2>4, <2>5, ContinueSafe DEF DepositFailed
<1>16. CASE DepositDone(p)
  <2>1. /\ PairOf(p).status = "opening" /\ PairOf(p).lot = NoUnits
        /\ proc[p].units \in {0, own[s]} /\ (short[s] > 0 => own[s] > 0)
        /\ PairOf(p).leg # "hl_spot" => short[s] > 0 /\ own[s] > 0
    BY <1>16 DEF DepositDone, At, StageOf, Stage, s
  <2> DEFINE pair == [PairOf(p) EXCEPT !.status = "open", !.lot = own[s], !.value = Full]
             c == WithPair(mem[p], s, pair)
             b == [c EXCEPT !.ref = @ + Full]
  <2>2. /\ pair \in Pair /\ pair.status = "open" /\ pair.lot = own[s] /\ pair.leg = PairOf(p).leg
    <3>1. pair \in Pair
      BY PairChanges, Zenon
    <3> QED
      BY <3>1 DEF Pair
  <2> HIDE DEF pair
  <2>3. Fits(pair, s, short[s], own[s], other[s])
    BY <2>1, <2>2, <1>14 DEF Fits, NoUnits
  <2>4. c \in Book /\ c.halted = disk.halted /\ FitsAll(c, short, own, other)
    BY <2>2, <2>3, WithPairIsBook, ChangeFits, Zenon
  <2>5. Continue(p, b)
    <3>1. PICK n \in IF proc[p].units > 0 THEN {proc[p].units} ELSE Added(p) :
            Continue(p, [WithPair(mem[p], s,
                                  [PairOf(p) EXCEPT !.status = "open", !.lot = n, !.value = Full])
                         EXCEPT !.ref = @ + Full])
      BY <1>16, Zenon DEF DepositDone, s
    <3>2. n = own[s]
      BY <2>1, <3>1, <1>14
    <3> QED
      BY <3>1, <3>2 DEF pair
  <2> HIDE DEF c
  <2>6. b.halted = disk.halted /\ FitsAll(b, short, own, other)
    BY <2>4 DEF Book, FitsAll
  <2> HIDE DEF b
  <2> QED
    BY <1>5, <1>16, <2>5, <2>6, ContinueSafe DEF DepositDone
<1> QED
  BY <1>6, <1>7, <1>8, <1>9, <1>10, <1>11, <1>12, <1>13, <1>15, <1>16 DEF Deposit

\* A step of a close keeps the invariant.
LEMMA CloseSafe ==
  ASSUME OneProcess, Faults \subseteq {"crash"}, TypesInv, SafeInv, NEW p \in Procs, Close(p)
  PROVE  SafeInv'
<1> DEFINE s == proc[p].sym
           Closes == {"next", "unlock", "mark", "sell", "cover", "settle"}
<1>1. proc[p].pc \in Closes
  BY Zenon DEF Close, NextClose, NothingToClose, UnwindLock, MarkClosing, SellSpot, SellRefused,
         CoverShort, CoverRefused, Settle, At
<1>2. /\ proc[p].pc # "next" => /\ s \in Symbols /\ PairOf(p) \in Pair
                                /\ PairOf(p) = mem[p].pairs[s]
                                /\ Fits(PairOf(p), s, short[s], own[s], other[s])
      /\ proc[p].pc \in {"sell", "cover", "settle"} => mem[p] = disk
      /\ disk \in Book /\ mem[p] \in Book /\ mem[p].halted = disk.halted
      /\ ~At(p, "idle") /\ StageOf(p) /\ VenueInv /\ Agree(mem[p], disk)
      /\ FitsAll(disk, short, own, other) /\ FitsAll(mem[p], short, own, other)
      /\ proc[p] \in Process /\ proc \in [Procs -> Process] /\ mem \in [Procs -> Book]
  BY <1>1, Inside DEF Working, Synced, At, PairOf, FitsAll, Agree
<1>3. /\ short \in [Symbols -> Nat] /\ own \in [Symbols -> Nat] /\ other \in [Symbols -> Nat]
  BY DEF TypesInv, TypeOK
<1>4. UNCHANGED venue => VenueInv' /\ UNCHANGED <<short, own, other>>
  BY <1>2 DEF venue, VenueInv
<1> HIDE DEF s
<1> USE <1>2, <1>3
<1>5. ASSUME Exit(p), UNCHANGED <<short, own, other>> PROVE SafeInv'
  BY <1>5, SafeWhenIdle DEF Exit, Ends, Idle, VenueInv
<1>6. ASSUME NEW x \in Symbols, NextClose(p, x) PROVE SafeInv'
  <2>1. /\ proc'[p].pc \in {"unlock", "mark"} /\ proc'[p].sym = x /\ proc'[p].op = proc[p].op
        /\ UNCHANGED <<disk, mem, short, own, other>> /\ mem[p].pairs[x].status # "none"
    BY <1>6 DEF NextClose, Process, venue
  <2>2. StageOf(p)'
    BY <2>1 DEF StageOf, Stage, PairOf
  <2>3. Agree(mem'[p], disk')
    BY <2>1
  <2> QED
    BY <1>4, <1>6, <2>1, <2>2, <2>3, SafeWhenBusy DEF NextClose, Synced
<1>7. ASSUME NEW x \in Symbols, NothingToClose(p, x) PROVE SafeInv'
  BY <1>4, <1>5, <1>7 DEF NothingToClose
<1>8. CASE UnwindLock(p)
  <2>1. CASE Goto(p, "mark") /\ UNCHANGED <<disk, mem>>
    <3>1. /\ proc'[p].pc = "mark" /\ proc'[p].sym = s /\ proc'[p].op = proc[p].op
          /\ UNCHANGED <<disk, mem, short, own, other>> /\ PairOf(p).status # "none"
      BY <1>8, <2>1 DEF UnwindLock, Goto, Process, s, At, StageOf, Stage
    <3>2. StageOf(p)'
      BY <3>1 DEF StageOf, Stage, PairOf, s
    <3>3. VenueInv' /\ Agree(mem'[p], disk')
      BY <3>1 DEF VenueInv
    <3> QED
      BY <3>1, <3>2, <3>3, SafeWhenBusy DEF Synced
  <2> QED
    BY <1>5, <1>8, <2>1 DEF UnwindLock
<1>9. CASE MarkClosing(p)
  <2>1. proc[p].pc = "mark" /\ PairOf(p).status # "none"
    BY <1>9 DEF MarkClosing, At, StageOf, Stage
  <2> DEFINE pair == [PairOf(p) EXCEPT !.status = "closing"]
             b == WithPair(mem[p], s, pair)
  <2>2. /\ pair \in Pair /\ pair.status = "closing" /\ pair.lot = PairOf(p).lot
        /\ pair.leg = PairOf(p).leg /\ pair.pre = PairOf(p).pre
    <3>1. pair \in Pair
      BY <2>1, PairChanges, Zenon DEF Status
    <3> QED
      BY <2>1, <3>1 DEF Pair
  <2>3. PICK n \in IF PairOf(p).lot # NoUnits THEN {PairOf(p).lot} ELSE Added(p) :
          proc' = [proc EXCEPT ![p].pc = "sell", ![p].units = n]
    BY <1>9, Zenon DEF MarkClosing
  <2>4. own[s] <= n /\ (PairOf(p).lot = NoUnits => n = own[s])
    <3>1. CASE PairOf(p).lot = NoUnits
      <4>1. PairOf(p).pre = other[s]
        BY <2>1, <3>1 DEF Fits
      <4>2. Most(Wallet(s) - PairOf(p).pre, 0) = own[s]
        BY <2>1, <4>1 DEF Wallet, Most
      <4>3. Balance(s, PairOf(p).leg) = {Wallet(s)}
        BY NoFaults
      <4> QED
        BY <2>1, <2>3, <3>1, <4>2, <4>3 DEF Added, s
    <3>2. CASE PairOf(p).lot # NoUnits
      BY <2>1, <2>3, <3>2 DEF Fits
    <3> QED
      BY <3>1, <3>2
  <2> HIDE DEF pair
  <2>5. Fits(pair, s, short[s], own[s], other[s])
    BY <2>1, <2>2 DEF Fits
  <2>6. b.halted = disk.halted /\ FitsAll(b, short, own, other) /\ b.pairs[s] = pair
    <3>1. b.halted = mem[p].halted /\ b.pairs = [mem[p].pairs EXCEPT ![s] = pair]
      BY <2>1, <2>2, WithPairIsBook
    <3>2. FitsAll(b, short, own, other)
      BY <2>1, <2>2, <2>5, ChangeFits
    <3> HIDE DEF b
    <3> QED
      BY <2>1, <3>1, <3>2 DEF Book
  <2>7. Save(p, b)
    BY <1>9 DEF MarkClosing, s, pair
  <2> HIDE DEF b
  <2>8. /\ mem'[p] = b /\ disk' = b /\ proc'[p].pc = "sell" /\ proc'[p].units = n
        /\ proc'[p].sym = s /\ proc'[p].op = proc[p].op
    BY <2>3, <2>7 DEF Save, s, Process
  <2>9. UNCHANGED <<short, own, other>>
    BY <1>4, <1>9 DEF MarkClosing
  <2>10. StageOf(p)'
    BY <2>2, <2>4, <2>6, <2>8, <2>9 DEF StageOf, Stage, PairOf
  <2> QED
    BY <1>4, <1>9, <2>6, <2>8, <2>9, <2>10, SafeWhenBusy, AgreeSelf DEF MarkClosing
<1>10. CASE SellSpot(p)
  <2>1. /\ proc[p].pc = "sell" /\ PairOf(p).status = "closing" /\ own[s] <= proc[p].units
        /\ PairOf(p).lot = NoUnits => proc[p].units = own[s]
    BY <1>10 DEF SellSpot, At, StageOf, Stage, s
  <2> DEFINE n == Least(proc[p].units, Wallet(s))
  <2>2. /\ n \in Nat /\ own[s] <= n /\ n <= Wallet(s) /\ (PairOf(p).lot = NoUnits => n = own[s])
    BY <2>1 DEF Least, Wallet, Process
  <2> HIDE DEF n
  <2>3. SellUnits(s, n) /\ UNCHANGED <<disk, mem, short>>
    <3>1. FillOn(PairOf(p).leg, n) = {n} /\ ~MisreadOn(PairOf(p).leg)
      BY <2>2, NoFaults
    <3>2. \E sold \in FillOn(PairOf(p).leg, n) \cup
                      (IF MisreadOn(PairOf(p).leg) THEN {0} ELSE {}) : SellUnits(s, sold)
      BY <1>10 DEF SellSpot, n, s
    <3> QED
      BY <1>10, <3>1, <3>2 DEF SellSpot
  <2>4. /\ own' = [own EXCEPT ![s] = 0] /\ other' = [other EXCEPT ![s] = @ - (n - own[s])]
    <3>1. Least(own[s], n) = own[s]
      BY <2>1, <2>2 DEF Least
    <3>2. own[s] - own[s] = 0
      BY <2>1
    <3> QED
      BY ONLY <2>3, <3>1, <3>2 DEF SellUnits
  <2>5. /\ own'[s] = 0 /\ other'[s] = other[s] - (n - own[s])
        /\ \A x \in Symbols \ {s} : own'[x] = own[x] /\ other'[x] = other[x]
    BY <2>1, <2>4
  <2>6. FitsAll(disk, short', own', other')
    <3>1. Fits(PairOf(p), s, short'[s], own'[s], other'[s])
      BY <2>1, <2>2, <2>3, <2>5 DEF Fits, NoUnits, Pair
    <3> QED
      BY <2>1, <2>3, <2>5, <3>1, TradeFits
  <2>7. VenueInv'
    <3>1. \A x \in Symbols : own'[x] <= own[x] /\ other'[x] <= other[x]
      BY <2>1, <2>2, <2>5
    <3>2. \A x \in Symbols : own'[x] \in Nat /\ other'[x] \in Int /\ Limit(x) \in Nat
      BY <2>1, <2>2, <2>5, HarvesterAssumption DEF Limit, Most
    <3> QED
      BY <2>3, <3>1, <3>2, HarvesterAssumption DEF VenueInv
  <2>8. proc'[p].pc = "cover" /\ proc'[p].sym = s /\ proc'[p].op = proc[p].op
    BY <1>10 DEF SellSpot, Goto, s, Process
  <2>9. StageOf(p)'
    BY <2>1, <2>3, <2>5, <2>8 DEF StageOf, Stage, PairOf, s
  <2> QED
    BY <2>1, <2>3, <2>6, <2>7, <2>9, SafeWhenBusy, AgreeSelf
<1>11. CASE SellRefused(p)
  <2>1. disk' = mem[p] /\ proc'[p].pc = "idle"
    BY <1>11 DEF SellRefused, SaveAndExit, Ends, Idle
  <2> QED
    BY <1>4, <1>11, <2>1, SafeWhenIdle DEF SellRefused
<1>12. CASE CoverShort(p)
  <2>1. proc[p].pc = "cover" /\ PairOf(p).status = "closing" /\ own[s] = 0
    BY <1>12 DEF CoverShort, At, StageOf, Stage, s
  <2>2. short' = [short EXCEPT ![s] = 0] /\ UNCHANGED <<disk, mem, own, other>>
    <3>1. PICK n \in Fill(short[s]) : short' = [short EXCEPT ![s] = @ - n]
      BY <1>12 DEF CoverShort, s
    <3>2. n = short[s]
      BY <2>1, <3>1, NoFaults
    <3>3. short[s] - n = 0
      BY <2>1, <3>2
    <3>4. short' = [short EXCEPT ![s] = 0]
      BY ONLY <3>1, <3>3
    <3> QED
      BY <1>12, <3>4 DEF CoverShort
  <2>3. FitsAll(disk, short', own', other')
    <3>1. Fits(PairOf(p), s, 0, own[s], other[s])
      BY <2>1 DEF Fits
    <3> QED
      BY <2>1, <2>2, <3>1, TradeFits
  <2>4. VenueInv'
    BY <2>1, <2>2, HarvesterAssumption DEF VenueInv, Limit, Most
  <2>5. proc'[p].pc = "settle" /\ proc'[p].sym = s /\ proc'[p].op = proc[p].op
    BY <1>12 DEF CoverShort, Goto, s, Process
  <2>6. StageOf(p)'
    BY <2>1, <2>2, <2>5 DEF StageOf, Stage, PairOf, s
  <2> QED
    BY <2>1, <2>2, <2>3, <2>4, <2>6, SafeWhenBusy, AgreeSelf
<1>13. CASE CoverRefused(p)
  <2>1. proc[p].pc = "cover" /\ PairOf(p).status = "closing"
    BY <1>13 DEF CoverRefused, At, StageOf, Stage
  <2> DEFINE pair == [PairOf(p) EXCEPT !.status = "impaired"]
             b == WithPair(mem[p], s, pair)
  <2>2. /\ pair \in Pair /\ pair.status = "impaired" /\ pair.lot = PairOf(p).lot
        /\ pair.leg = PairOf(p).leg /\ pair.pre = PairOf(p).pre
    <3>1. pair \in Pair
      BY <2>1, PairChanges, Zenon DEF Status
    <3> QED
      BY <2>1, <3>1 DEF Pair
  <2> HIDE DEF pair
  <2>3. Fits(pair, s, short[s], own[s], other[s])
    BY <2>1, <2>2 DEF Fits
  <2>4. FitsAll(b, short, own, other)
    BY <2>1, <2>2, <2>3, ChangeFits
  <2>5. disk' = b /\ proc'[p].pc = "idle"
    BY <1>13 DEF CoverRefused, SaveAndExit, Ends, Idle, s, pair
  <2> HIDE DEF b
  <2> QED
    BY <1>4, <1>13, <2>4, <2>5, SafeWhenIdle DEF CoverRefused
<1>14. CASE Settle(p)
  <2>1. proc[p].pc = "settle" /\ own[s] = 0 /\ short[s] = 0
    BY <1>14 DEF Settle, At, StageOf, Stage, s
  <2> DEFINE c == WithPair(mem[p], s, NoPair)
             b == Settled(p)
  <2>2. Fits(NoPair, s, short[s], own[s], other[s])
    BY <2>1 DEF Fits, NoPair
  <2>3. c \in Book /\ c.halted = disk.halted /\ FitsAll(c, short, own, other)
    <3>1. s \in Symbols /\ NoPair \in Pair
      BY <2>1, EmptyTypes
    <3>2. c \in Book /\ c.halted = mem[p].halted
      BY <3>1, WithPairIsBook
    <3>3. FitsAll(c, short, own, other)
      BY <2>2, <3>1, ChangeFits
    <3> QED
      BY <3>2, <3>3
  <2>4. b = [c EXCEPT !.ref = Most(@ - PairOf(p).value, 0)]
    BY DEF Settled, s
  <2> HIDE DEF c, b
  <2>5. b.halted = disk.halted /\ FitsAll(b, short, own, other)
    BY <2>3, <2>4 DEF Book, FitsAll
  <2>6. UNCHANGED <<short, own, other>> /\ VenueInv'
    BY <1>4, <1>14 DEF Settle
  <2>7. \/ disk' = b /\ proc'[p].pc = "idle"
        \/ /\ disk' = b /\ mem'[p] = b /\ proc'[p].op = proc[p].op
           /\ \/ proc'[p].pc = "deposit" /\ proc'[p].units = 0
              \/ proc'[p].pc = "next"
              \/ proc'[p].pc = "finish" /\ proc[p].op = "update"
    BY <1>14 DEF Settle, Save, SaveAndExit, Ends, Idle, Goto, b, Process
  <2>8. ASSUME proc'[p].pc # "idle" PROVE SafeInv'
    <3>1. StageOf(p)'
      BY <2>5, <2>7, <2>8 DEF StageOf, Stage
    <3> QED
      BY <2>5, <2>6, <2>7, <2>8, <3>1, SafeWhenBusy, AgreeSelf
  <2> QED
    BY <2>5, <2>6, <2>7, <2>8, SafeWhenIdle
<1> QED
  BY <1>6, <1>7, <1>8, <1>9, <1>10, <1>11, <1>12, <1>13, <1>14 DEF Close

\* What a reduction of the spot leaves: never more than the reduced lot, and
\* some of what there was.
LEMMA TrimBounds ==
  ASSUME NEW ow \in Nat, NEW ot \in Nat, NEW lot \in Nat, lot > 0, ow <= lot,
         NEW sold, sold = Half(Least(ow + ot, lot)),
         NEW ow2, ow2 = ow - Least(ow, sold),
         NEW ot2, ot2 = ot - (sold - Least(ow, sold))
  PROVE  /\ ow2 \in Nat /\ ow2 <= ow /\ ow2 <= lot - Half(lot)
         /\ ot2 \in Nat /\ ot2 <= ot
         /\ ot = 0 /\ ow > 0 => ow2 > 0
<1>1. sold \in Nat /\ 2 * sold <= ow + ot /\ 2 * sold <= lot /\ 2 * sold + 1 >= Least(ow + ot, lot)
  BY DEF Half, Least
<1>2. lot - Half(lot) \in Nat /\ 2 * (lot - Half(lot)) >= lot /\ 2 * Half(lot) + 1 >= lot
      /\ 2 * Half(lot) <= lot
  BY DEF Half
<1>3. ow2 \in Nat /\ ow2 <= ow /\ ot2 \in Nat /\ ot2 <= ot
  BY <1>1 DEF Least
<1>4. ot = 0 /\ ow > 0 => ow2 > 0
  BY <1>1 DEF Least
<1>5. ow2 <= lot - Half(lot)
  <2>1. CASE lot <= ow + ot
    <3>1. sold = Half(lot)
      BY <2>1 DEF Least
    <3> QED
      BY <1>1, <1>2, <3>1 DEF Least
  <2>2. CASE lot > ow + ot
    BY <1>1, <1>2, <2>2 DEF Least
  <2> QED
    BY <2>1, <2>2
<1> QED
  BY <1>3, <1>4, <1>5

\* A step of an update keeps the invariant.
LEMMA UpdateSafe ==
  ASSUME OneProcess, Faults \subseteq {"crash"}, TypesInv, SafeInv, NEW p \in Procs, Update(p)
  PROVE  SafeInv'
<1> DEFINE Rails == {"rails", "trim", "delta", "boros", "finish"}
<1>1. proc[p].pc \in Rails
  BY Zenon DEF Update, RailOk, ReduceRefused, ReduceHedge, NoRebalance, Rebalance, BorosStep,
         NoBorosStep, Rotate, TrimSpot, TrimRefused, DrawdownHalt, Paused, NegativeCarryExit,
         StayPut, DeltaDone, BorosDone, FinalSave, Guarded, RailsDone, At
<1>2. /\ disk \in Book /\ mem[p] \in Book /\ mem[p].halted = disk.halted /\ ~disk.halted
      /\ ~At(p, "idle") /\ StageOf(p) /\ VenueInv /\ Agree(mem[p], disk)
      /\ FitsAll(disk, short, own, other) /\ FitsAll(mem[p], short, own, other)
      /\ proc[p] \in Process /\ proc \in [Procs -> Process] /\ mem \in [Procs -> Book]
      /\ proc[p].op = "update"
  <2>1. proc[p].op = "update"
    BY <1>1, Inside DEF At, StageOf, Stage
  <2> QED
    BY <1>1, <2>1, Inside DEF At, Agree, StageOf, Stage
<1>3. /\ short \in [Symbols -> Nat] /\ own \in [Symbols -> Nat] /\ other \in [Symbols -> Nat]
      /\ \A x \in Symbols : Limit(x) \in Nat
      /\ Unrelated \in Nat
  BY HarvesterAssumption DEF TypesInv, TypeOK, Limit, Most
<1>4. UNCHANGED venue => VenueInv' /\ UNCHANGED <<short, own, other>>
  BY <1>2 DEF venue, VenueInv
<1>5. \A x \in Symbols : /\ Fits(disk.pairs[x], x, short[x], own[x], other[x])
                         /\ Fits(mem[p].pairs[x], x, short[x], own[x], other[x])
                         /\ mem[p].pairs[x] \in Pair /\ disk.pairs[x] \in Pair
  BY <1>2 DEF FitsAll, Book
<1> USE <1>2, <1>3
<1>6. ASSUME proc'[p].pc \in Rails \cup {"next"}, proc'[p].pc # "trim",
             proc'[p].op = "update", VenueInv', disk' = disk,
             Agree(mem'[p], disk), FitsAll(disk, short', own', other'),
             FitsAll(mem'[p], short', own', other')
      PROVE  SafeInv'
  <2>1. StageOf(p)'
    BY <1>6 DEF StageOf, Stage
  <2> QED
    BY <1>6, <2>1, SafeWhenBusy DEF Synced
<1>7. CASE \/ \E x \in Symbols : \/ RailOk(p, x) \/ ReduceRefused(p, x)
                                 \/ NoRebalance(p, x) \/ NoBorosStep(p, x)
           \/ \E x, d \in Symbols : Rotate(p, x, d)
           \/ NegativeCarryExit(p) \/ StayPut(p) \/ DeltaDone(p) \/ BorosDone(p)
  <2>1. UNCHANGED <<disk, mem, venue>>
    BY <1>7, Zenon
    DEF RailOk, ReduceRefused, NoRebalance, NoBorosStep, Rotate, NegativeCarryExit, StayPut,
        DeltaDone, BorosDone
  <2> DEFINE Moved == /\ proc'[p].pc \in Rails \cup {"next"}
                      /\ proc'[p].pc # "trim" /\ proc'[p].op = "update"
  <2>2. ASSUME NEW x \in Symbols, ReduceRefused(p, x) PROVE Moved
    <3>1. PICK rest \in ReducedBy(p, x) :
            proc' = [proc EXCEPT ![p].todo = rest, ![p].reduced = @ \cup {x}]
      BY <2>2, Zenon DEF ReduceRefused
    <3> QED
      BY <2>2, <3>1 DEF ReduceRefused, Guarded, At, Process
  <2>3. ASSUME NEW x \in Symbols, RailOk(p, x) \/ NoRebalance(p, x) \/ NoBorosStep(p, x)
        PROVE  Moved
    BY <2>3 DEF RailOk, NoRebalance, NoBorosStep, At, Process
  <2>4. ASSUME NEW x \in Symbols, NEW d \in Symbols, Rotate(p, x, d) PROVE Moved
    BY <2>4 DEF Rotate, Process
  <2>5. ASSUME NegativeCarryExit(p) PROVE Moved
    BY <2>5 DEF NegativeCarryExit, Process
  <2>6. ASSUME StayPut(p) PROVE Moved
    BY <2>6 DEF StayPut, Process
  <2>8. ASSUME DeltaDone(p) PROVE Moved
    BY <2>8 DEF DeltaDone, Process
  <2>9. ASSUME BorosDone(p) PROVE Moved
    BY <2>9 DEF BorosDone, Goto, Process
  <2> HIDE DEF Moved
  <2>7. Moved
    BY ONLY <1>7, <2>2, <2>3, <2>4, <2>5, <2>6, <2>8, <2>9
  <2> QED
    BY <1>4, <1>6, <2>1, <2>7 DEF Moved
<1>8. CASE Paused(p) \/ FinalSave(p) \/ DrawdownHalt(p)
  <2>1. /\ disk' = mem[p] \/ disk' = [mem[p] EXCEPT !.halted = TRUE]
        /\ proc'[p].pc = "idle" /\ UNCHANGED venue
    BY <1>8 DEF Paused, FinalSave, DrawdownHalt, SaveAndExit, Ends, Idle
  <2>2. FitsAll(disk', short, own, other)
    BY <2>1 DEF Book, FitsAll
  <2> QED
    BY <1>4, <2>1, <2>2, SafeWhenIdle
<1>9. ASSUME NEW x \in Symbols, NEW sh \in Nat, 0 < sh, sh <= Limit(x), short[x] > 0,
             short' = [short EXCEPT ![x] = sh], UNCHANGED <<disk, mem, own, other>>
      PROVE  VenueInv' /\ FitsAll(disk, short', own', other') /\ FitsAll(mem[p], short', own', other')
  <2>1. VenueInv'
    BY <1>9 DEF VenueInv
  <2>2. Fits(disk.pairs[x], x, sh, own[x], other[x]) /\ Fits(mem[p].pairs[x], x, sh, own[x], other[x])
    <3>1. ASSUME NEW pair, Fits(pair, x, short[x], own[x], other[x])
          PROVE  Fits(pair, x, sh, own[x], other[x])
      BY <1>9, <3>1 DEF Fits
    <3> QED
      BY <1>5, <3>1
  <2>3. FitsAll(disk, short', own', other')
    BY <1>9, <2>2, TradeFits
  <2>4. FitsAll(mem[p], short', own', other')
    BY <1>9, <2>2, TradeFits
  <2> QED
    BY <2>1, <2>3, <2>4
<1>10. ASSUME NEW x \in Symbols, ReduceHedge(p, x) PROVE SafeInv'
  <2>1. /\ short[x] > 0 /\ Half(short[x]) \in Nat /\ Half(short[x]) < short[x]
    BY <1>10, HalfOf DEF ReduceHedge, Guarded
  <2> DEFINE sh == short[x] - Half(short[x])
  <2>2. sh \in Nat /\ 0 < sh /\ sh <= Limit(x)
    BY <2>1 DEF VenueInv
  <2>3. short' = [short EXCEPT ![x] = sh] /\ UNCHANGED <<disk, mem, own, other>>
    <3>1. PICK n \in Fill(Half(short[x])) : short' = [short EXCEPT ![x] = @ - n]
      BY <1>10 DEF ReduceHedge
    <3>2. n = Half(short[x])
      BY <2>1, <3>1, NoFaults
    <3> QED
      BY <1>10, <3>1, <3>2 DEF ReduceHedge
  <2> HIDE DEF sh
  <2>4. VenueInv' /\ FitsAll(disk, short', own', other') /\ FitsAll(mem[p], short', own', other')
    BY <1>9, <2>1, <2>2, <2>3
  <2>5. /\ proc'[p].pc = IF x \in OpenPairs(mem[p]) THEN "trim" ELSE "rails"
        /\ proc'[p].sym = x /\ proc'[p].op = "update"
    <3>1. PICK rest \in ReducedBy(p, x) :
            proc' = [proc EXCEPT ![p].pc = IF x \in OpenPairs(mem[p]) THEN "trim" ELSE "rails",
                                 ![p].sym = x, ![p].todo = rest, ![p].reduced = @ \cup {x}]
      BY <1>10, Zenon DEF ReduceHedge
    <3> QED
      BY <3>1 DEF Process
  <2>6. CASE x \in OpenPairs(mem[p])
    <3>1. mem[p].pairs[x].status = "open" /\ mem[p].pairs[x].lot > 0
      BY <1>10, <2>6 DEF ReduceHedge, OpenPairs
    <3>2. StageOf(p)'
      BY <2>3, <2>5, <2>6, <3>1 DEF StageOf, Stage, PairOf
    <3> QED
      BY <2>3, <2>4, <2>5, <2>6, <3>2, SafeWhenBusy DEF Synced
  <2>7. CASE x \notin OpenPairs(mem[p])
    BY <1>6, <2>3, <2>4, <2>5, <2>7
  <2> QED
    BY <2>6, <2>7
<1>11. ASSUME NEW x \in Symbols, Rebalance(p, x) PROVE SafeInv'
  <2>1. mem[p].pairs[x].status = "open" /\ short[x] > 0 /\ Wallet(x) > 0
    BY <1>11 DEF Rebalance, OpenPairs
  <2>2. mem[p].pairs[x].lot > 0 /\ mem[p].pairs[x].lot <= Limit(x) /\ mem[p].pairs[x].lot \in Nat
    BY <1>5, <2>1 DEF Fits, Pair
  <2>3. Shown(p, x) \in Nat /\ 0 < Shown(p, x) /\ Shown(p, x) <= Limit(x)
    BY <2>1, <2>2 DEF Shown, Least, Wallet
  <2>4. short' = [short EXCEPT ![x] = Shown(p, x)]
    <3>1. CASE Shown(p, x) > short[x]
      <4>1. Shown(p, x) - short[x] \in Nat
        BY <2>3, <3>1
      <4>2. PICK n \in Fill(Shown(p, x) - short[x]) : short' = [short EXCEPT ![x] = @ + n]
        BY <1>11, <2>3, <3>1 DEF Rebalance
      <4>3. short[x] + n = Shown(p, x)
        BY <2>3, <4>1, <4>2, NoFaults
      <4> QED
        BY ONLY <4>2, <4>3
    <3>2. CASE Shown(p, x) < short[x]
      <4>1. short[x] - Shown(p, x) \in Nat
        BY <2>3, <3>2
      <4>2. PICK n \in Fill(short[x] - Shown(p, x)) : short' = [short EXCEPT ![x] = @ - n]
        BY <1>11, <2>3, <3>2 DEF Rebalance
      <4>3. short[x] - n = Shown(p, x)
        BY <2>3, <4>1, <4>2, NoFaults
      <4> QED
        BY ONLY <4>2, <4>3
    <3> QED
      BY <1>11, <3>1, <3>2 DEF Rebalance
  <2>5. UNCHANGED <<disk, mem, own, other>>
    BY <1>11 DEF Rebalance
  <2>6. VenueInv' /\ FitsAll(disk, short', own', other') /\ FitsAll(mem[p], short', own', other')
    BY <1>9, <2>1, <2>3, <2>4, <2>5
  <2>7. proc'[p].pc = "delta" /\ proc'[p].op = "update"
    BY <1>11 DEF Rebalance, At, Process
  <2> QED
    BY <1>6, <2>5, <2>6, <2>7
<1>12. ASSUME NEW x \in Symbols, NEW pair \in Pair,
              mem'[p] = WithPair(mem[p], x, pair), disk' = disk, UNCHANGED <<short, own, other>>,
              Fits(pair, x, short[x], own[x], other[x]),
              pair.status = "none" <=> mem[p].pairs[x].status = "none",
              pair.status = "open" => mem[p].pairs[x].status = "open",
              pair.lot = mem[p].pairs[x].lot,
              proc'[p].pc \in {"rails", "boros"}, proc'[p].op = "update"
       PROVE  SafeInv'
  <2>1. FitsAll(mem'[p], short', own', other') /\ VenueInv'
    BY <1>12, ChangeFits DEF VenueInv
  <2>2. Agree(mem'[p], disk)
    <3>1. mem'[p].halted = mem[p].halted /\ mem'[p].pairs = [mem[p].pairs EXCEPT ![x] = pair]
      BY <1>12, WithPairIsBook
    <3>2. \A y \in Symbols : mem'[p].pairs[y] = IF y = x THEN pair ELSE mem[p].pairs[y]
      BY <3>1 DEF Book
    <3> QED
      BY <1>12, <3>1, <3>2 DEF Agree
  <2> QED
    BY <1>6, <1>12, <2>1, <2>2
<1>13. ASSUME NEW x \in Symbols, BorosStep(p, x) PROVE SafeInv'
  <2> DEFINE open == ~mem[p].pairs[x].lock
             pair == [mem[p].pairs[x] EXCEPT !.lock = open]
  <2>1. /\ pair \in Pair /\ pair.status = mem[p].pairs[x].status /\ pair.lot = mem[p].pairs[x].lot
        /\ pair.leg = mem[p].pairs[x].leg /\ pair.pre = mem[p].pairs[x].pre
    <3>1. pair \in Pair
      BY <1>5, PairChanges, Zenon
    <3> QED
      BY <1>5, <3>1 DEF Pair
  <2>2. Keep(p, WithPair(mem[p], x, pair)) /\ UNCHANGED <<short, own, other>>
    BY <1>13 DEF BorosStep
  <2> HIDE DEF pair
  <2>3. Fits(pair, x, short[x], own[x], other[x])
    BY <1>5, <2>1 DEF Fits
  <2>4. proc'[p].pc = "boros" /\ proc'[p].op = "update"
    BY <1>13 DEF BorosStep, At, Process
  <2> QED
    BY <1>12, <2>1, <2>2, <2>3, <2>4 DEF Keep
<1>14. CASE TrimRefused(p)
  <2>1. /\ proc[p].pc = "trim" /\ proc[p].sym \in Symbols /\ PairOf(p) = mem[p].pairs[proc[p].sym]
        /\ PairOf(p).status = "open"
    BY <1>14, Inside, Zenon DEF TrimRefused, At, StageOf, Stage, PairOf, Working
  <2> DEFINE x == proc[p].sym
             pair == [PairOf(p) EXCEPT !.status = "impaired"]
  <2>2. /\ pair \in Pair /\ pair.status = "impaired" /\ pair.lot = mem[p].pairs[x].lot
        /\ pair.leg = mem[p].pairs[x].leg /\ pair.pre = mem[p].pairs[x].pre
    <3>1. pair \in Pair
      BY <1>5, <2>1, PairChanges, Zenon DEF Status
    <3> QED
      BY <1>5, <2>1, <3>1 DEF Pair
  <2>3. Keep(p, WithPair(mem[p], x, pair)) /\ UNCHANGED venue /\ proc'[p].pc = "rails"
        /\ proc'[p].op = "update"
    BY <1>14 DEF TrimRefused, Goto, Process
  <2> HIDE DEF pair
  <2>4. Fits(pair, x, short[x], own[x], other[x])
    BY <1>5, <2>1, <2>2 DEF Fits
  <2> QED
    BY <1>12, <2>1, <2>2, <2>3, <2>4 DEF Keep, venue
<1>15. CASE TrimSpot(p)
  <2>1. /\ proc[p].pc = "trim" /\ proc[p].sym \in Symbols /\ PairOf(p) = mem[p].pairs[proc[p].sym]
        /\ PairOf(p).status = "open" /\ PairOf(p).lot > 0 /\ PairOf(p) \in Pair
    BY <1>15, Inside, Zenon DEF TrimSpot, At, StageOf, Stage, PairOf, Working
  <2> DEFINE x == proc[p].sym
             lot == PairOf(p).lot
             sold == Half(Least(own[x] + other[x], lot))
             ow == own[x] - Least(own[x], sold)
             ot == other[x] - (sold - Least(own[x], sold))
             pair == [PairOf(p) EXCEPT !.lot = @ - Half(@), !.value = @ - Half(@)]
             c == WithPair(mem[p], x, pair)
             b == [c EXCEPT !.ref = Most(@ - Half(PairOf(p).value), 0)]
  <2> HIDE DEF x
  <2>2. /\ x \in Symbols /\ lot \in Nat /\ lot > 0 /\ own[x] <= lot /\ lot <= Limit(x)
        /\ Supports(PairOf(p).leg, x)
        /\ Unrelated = 0 => (short[x] > 0 => own[x] > 0)
                            /\ (PairOf(p).leg # "hl_spot" => short[x] > 0 /\ own[x] > 0)
    BY <1>5, <2>1 DEF Fits, Pair, NoUnits, x
  <2>3. /\ ow \in Nat /\ ow <= own[x] /\ ow <= lot - Half(lot)
        /\ ot \in Nat /\ ot <= other[x]
        /\ other[x] = 0 /\ own[x] > 0 => ow > 0
    <3>1. own[x] \in Nat /\ other[x] \in Nat
      BY <2>2
    <3>2. sold = Half(Least(own[x] + other[x], lot))
      OBVIOUS
    <3>3. ow = own[x] - Least(own[x], sold) /\ ot = other[x] - (sold - Least(own[x], sold))
      OBVIOUS
    <3>4. lot \in Nat /\ lot > 0 /\ own[x] <= lot
      BY <2>2
    <3> HIDE DEF lot, sold, ow, ot
    <3>5. \A ow1, ot1, lot1 \in Nat : lot1 > 0 /\ ow1 <= lot1 =>
            \A sold1 : sold1 = Half(Least(ow1 + ot1, lot1)) =>
              \A ow2, ot2 : ow2 = ow1 - Least(ow1, sold1) /\ ot2 = ot1 - (sold1 - Least(ow1, sold1)) =>
                /\ ow2 \in Nat /\ ow2 <= ow1 /\ ow2 <= lot1 - Half(lot1)
                /\ ot2 \in Nat /\ ot2 <= ot1
                /\ ot1 = 0 /\ ow1 > 0 => ow2 > 0
      BY TrimBounds
    <3> HIDE DEF Rails, pair, c, b
    <3>6. \A sold1 : sold1 = Half(Least(own[x] + other[x], lot)) =>
            \A ow2, ot2 : ow2 = own[x] - Least(own[x], sold1)
                          /\ ot2 = other[x] - (sold1 - Least(own[x], sold1)) =>
              /\ ow2 \in Nat /\ ow2 <= own[x] /\ ow2 <= lot - Half(lot)
              /\ ot2 \in Nat /\ ot2 <= other[x]
              /\ other[x] = 0 /\ own[x] > 0 => ow2 > 0
      BY ONLY <3>1, <3>4, <3>5, Zenon
    <3> QED
      BY ONLY <3>2, <3>3, <3>6, Zenon
  <2>4. lot - Half(lot) \in Nat /\ lot - Half(lot) > 0 /\ lot - Half(lot) <= lot
    <3>1. lot \in Nat /\ lot > 0
      BY <2>2
    <3> HIDE DEF lot
    <3> QED
      BY ONLY <3>1 DEF Half
  <2>5. Unrelated = 0 => other[x] = 0
    BY <2>2 DEF VenueInv
  <2>6. /\ own' = [own EXCEPT ![x] = ow] /\ other' = [other EXCEPT ![x] = ot]
        /\ UNCHANGED <<short, disk>> /\ Keep(p, b)
    <3>1. PICK n \in Balance(x, PairOf(p).leg) :
            \E m \in FillOn(PairOf(p).leg, Half(Least(n, lot))) : SellUnits(x, m)
      BY <1>15 DEF TrimSpot, x
    <3>2. n = own[x] + other[x]
      BY <3>1, NoFaults DEF Wallet
    <3>3. sold \in Nat
      <4>1. Least(own[x] + other[x], lot) \in Nat
        BY <2>2 DEF Least
      <4> QED
        BY ONLY <4>1 DEF Half
    <3>4. SellUnits(x, sold)
      BY <3>1, <3>2, <3>3, NoFaults
    <3>5. own' = [own EXCEPT ![x] = ow] /\ other' = [other EXCEPT ![x] = ot]
      BY ONLY <3>4 DEF SellUnits
    <3> QED
      BY <1>15, <3>5 DEF TrimSpot, Keep, x
  <2>7. /\ pair \in Pair /\ pair.status = "open" /\ pair.lot = lot - Half(lot)
        /\ pair.leg = PairOf(p).leg
    <3>1. pair \in Pair
      BY <2>1, PairChanges, Zenon
    <3> QED
      BY <2>1, <3>1, Zenon DEF Pair
  <2> HIDE DEF sold, ow, ot, pair
  <2>8. /\ own'[x] = ow /\ other'[x] = ot /\ short'[x] = short[x]
        /\ \A y \in Symbols \ {x} :
             short'[y] = short[y] /\ own'[y] = own[y] /\ other'[y] = other[y]
    BY <2>2, <2>6
  <2>9. VenueInv'
    BY <2>2, <2>3, <2>8 DEF VenueInv
  <2>10. FitsAll(disk, short', own', other')
    <3>1. disk.pairs[x].status = "open" /\ disk.pairs[x].lot \in Nat \cup {NoUnits}
      BY <1>5, <2>1, <2>2 DEF Agree, Pair, x
    <3>2. Fits(disk.pairs[x], x, short[x], own[x], other[x])
      BY <1>5, <2>2
    <3>3. Fits(disk.pairs[x], x, short[x], ow, ot)
      BY <2>2, <2>3, <2>5, <3>1, <3>2 DEF Fits, NoUnits
    <3> QED
      BY <2>2, <2>8, <3>3, TradeFits
  <2>11. FitsAll(mem'[p], short', own', other') /\ Agree(mem'[p], disk)
    <3>1. Fits(pair, x, short[x], ow, ot)
      BY <2>2, <2>3, <2>4, <2>5, <2>7 DEF Fits, NoUnits
    <3>2. c.halted = mem[p].halted /\ c.pairs = [mem[p].pairs EXCEPT ![x] = pair] /\ c \in Book
      BY <2>2, <2>7, WithPairIsBook
    <3> HIDE DEF c
    <3>3. b.halted = mem[p].halted /\ b.pairs = c.pairs
      BY <3>2 DEF Book
    <3> HIDE DEF b
    <3>4. mem'[p] = b
      BY <2>6 DEF Keep
    <3>5. \A y \in Symbols : mem'[p].pairs[y] = IF y = x THEN pair ELSE mem[p].pairs[y]
      BY <2>2, <3>2, <3>3, <3>4 DEF Book
    <3>6. FitsAll(mem'[p], short', own', other')
      <4> SUFFICES ASSUME NEW y \in Symbols
                   PROVE  Fits(mem'[p].pairs[y], y, short'[y], own'[y], other'[y])
        BY DEF FitsAll
      <4>1. CASE y = x
        BY <2>8, <3>1, <3>5, <4>1
      <4>2. CASE y # x
        BY <1>5, <2>8, <3>5, <4>2
      <4> QED
        BY <4>1, <4>2
    <3>7. Agree(mem'[p], disk)
      <4>1. lot # NoUnits /\ pair.lot # NoUnits
        BY <2>2, <2>4, <2>7 DEF NoUnits
      <4> QED
        BY <2>1, <2>7, <3>3, <3>4, <3>5, <4>1 DEF Agree, x
    <3> QED
      BY <3>6, <3>7
  <2>12. proc'[p].pc = "rails" /\ proc'[p].op = "update"
    BY <1>15 DEF TrimSpot, Goto, Process
  <2> QED
    BY <1>6, <2>6, <2>9, <2>10, <2>11, <2>12
<1> QED
  BY <1>7, <1>8, <1>10, <1>11, <1>13, <1>14, <1>15 DEF Update

\* Every step keeps the invariant.
LEMMA StepSafe ==
  ASSUME OneProcess, Faults \subseteq {"crash"}, TypesInv, SafeInv, [Next]_vars
  PROVE  SafeInv'
<1>1. ASSUME NEW p \in Procs, Step(p) PROVE SafeInv'
  BY <1>1, StartSafe, DepositSafe, CloseSafe, UpdateSafe, RestSafe DEF Step
<1>2. CASE UNCHANGED vars
  BY <1>2 DEF vars, SafeInv, BookFits, FitsAll, VenueInv, CopyInv, StageInv, StageOf, PairOf, At
<1> QED
  BY <1>1, <1>2 DEF Next, Step

\* Whatever a pair holds on a venue is recorded in the file, wherever the one
\* process died.
THEOREM ExposureTheorem ==
  ASSUME OneProcess, Faults \subseteq {"crash"}
  PROVE  Spec => []ExposureIsRecorded
<1> DEFINE IInv == TypesInv /\ SafeInv
<1>1. Init => IInv
  BY InitTypes, InitSafe
<1>2. IInv /\ [Next]_vars => IInv'
  BY OneProcess, Faults \subseteq {"crash"}, StepTypes, StepSafe
<1>3. IInv => ExposureIsRecorded
  BY DEF TypesInv, TypeOK, SafeInv, BookFits, FitsAll, Fits, ExposureIsRecorded, Recorded
<1> HIDE DEF IInv
<1> QED
  BY <1>1, <1>2, <1>3, PTL DEF Spec

\* No symbol is opened a second time while its first open is on a venue.
THEOREM OpenedOnceTheorem ==
  ASSUME OneProcess, Faults \subseteq {"crash"}
  PROVE  Spec => []NeverOpenedTwice
<1> DEFINE IInv == TypesInv /\ SafeInv
<1>1. Init => IInv
  BY InitTypes, InitSafe
<1>2. IInv /\ [Next]_vars => IInv'
  BY OneProcess, Faults \subseteq {"crash"}, StepTypes, StepSafe
<1>3. IInv => NeverOpenedTwice
  BY DEF SafeInv, VenueInv, Limit, NeverOpenedTwice
<1> HIDE DEF IInv
<1> QED
  BY <1>1, <1>2, <1>3, PTL DEF Spec

\* A pair recorded as open is hedged, as long as the wallet holds no other units
\* of the token that a reduction could take for the pair's.
THEOREM HedgedTheorem ==
  ASSUME OneProcess, Faults \subseteq {"crash"}, Unrelated = 0
  PROVE  Spec => []OpenPairIsHedged
<1> DEFINE IInv == TypesInv /\ SafeInv
<1>1. Init => IInv
  BY InitTypes, InitSafe
<1>2. IInv /\ [Next]_vars => IInv'
  BY OneProcess, Faults \subseteq {"crash"}, StepTypes, StepSafe
<1>3. IInv => OpenPairIsHedged
  BY Unrelated = 0 DEF SafeInv, BookFits, FitsAll, Fits, OpenPairIsHedged, OpenPairs
<1> HIDE DEF IInv
<1> QED
  BY <1>1, <1>2, <1>3, PTL DEF Spec

-----------------------------------------------------------------------------
(* Hedged beside units that no pair bought *)

\* The processes neither die nor end by a rate position that would not unwind.
Undisturbed == OneProcess /\ Faults = {} /\ ~RateLock

\* An open pair holds exactly its lot, and a swapped spot leg has its hedge.
HeldAt(pair, sh, ow) ==
  pair.status = "open" => /\ ow = pair.lot
                          /\ pair.leg # "hl_spot" => sh > 0 /\ ow > 0

HeldAll(b, sh, ow) == \A s \in Symbols : HeldAt(b.pairs[s], sh[s], ow[s])

\* OpenPairIsHedged, of any book.
Hedged(b, sh, ow) ==
  \A s \in OpenPairs(b) :
    /\ sh[s] > 0 => ow[s] > 0
    /\ b.pairs[s].leg # "hl_spot" => sh[s] > 0 /\ ow[s] > 0

\* A close that starts from a copy not saved yet closes pairs which that copy
\* records, and so comes to a save.
CloseSaves(r, b, d) ==
  /\ r.pc # "unlock"
  /\ r.pc \in {"next", "mark", "sell", "cover", "settle"} => r.op \notin {"lock", "unlock"}
  /\ r.pc = "next" => b = d \/ r.todo \subseteq Recorded(b)

\* The copy of a process knows the lots exactly; so does the file when none runs.
HeldInv ==
  /\ Hedged(disk, short, own)
  /\ \A p \in Procs :
       IF At(p, "idle") THEN HeldAll(disk, short, own)
       ELSE HeldAll(mem[p], short, own) /\ CloseSaves(proc[p], mem[p], disk)

\* A book with one record changed differs in that record only, whatever it is.
LEMMA WithPairOnly ==
  ASSUME NEW b \in Book, NEW s \in Symbols, NEW pair
  PROVE  /\ WithPair(b, s, pair).pairs[s] = pair
         /\ \A x \in Symbols \ {s} : WithPair(b, s, pair).pairs[x] = b.pairs[x]
BY DEF WithPair, Book

\* A book that fits the venues and knows its lots is hedged.
LEMMA HeldIsHedged ==
  ASSUME NEW b \in Book, NEW sh \in [Symbols -> Nat], NEW ow \in [Symbols -> Nat], NEW ot,
         FitsAll(b, sh, ow, ot), HeldAll(b, sh, ow)
  PROVE  Hedged(b, sh, ow)
<1> SUFFICES ASSUME NEW s \in OpenPairs(b)
             PROVE  /\ sh[s] > 0 => ow[s] > 0
                    /\ b.pairs[s].leg # "hl_spot" => sh[s] > 0 /\ ow[s] > 0
  BY DEF Hedged
<1>1. /\ s \in Symbols /\ b.pairs[s].status = "open"
      /\ HeldAt(b.pairs[s], sh[s], ow[s]) /\ Fits(b.pairs[s], s, sh[s], ow[s], ot[s])
  BY DEF OpenPairs, HeldAll, FitsAll
<1>2. sh[s] \in Nat /\ ow[s] \in Nat
  BY <1>1
<1> QED
  BY <1>1, <1>2 DEF HeldAt, Fits

\* What the invariant asks of a process that has ended.
LEMMA HeldWhenIdle ==
  ASSUME OneProcess, TypesInv', SafeInv', NEW p \in Procs, proc'[p].pc = "idle",
         HeldAll(disk', short', own')
  PROVE  HeldInv'
<1>1. Hedged(disk', short', own')
  BY HeldIsHedged DEF TypesInv, TypeOK, SafeInv, BookFits
<1> QED
  BY <1>1 DEF OneProcess, HeldInv, At

\* What it asks of a process that goes on.
LEMMA HeldWhenBusy ==
  ASSUME OneProcess, NEW p \in Procs, proc'[p].pc # "idle",
         Hedged(disk', short', own'), HeldAll(mem'[p], short', own'),
         CloseSaves(proc'[p], mem'[p], disk')
  PROVE  HeldInv'
BY DEF OneProcess, HeldInv, At

\* What it asks of a process that has just saved.
LEMMA HeldWhenSaved ==
  ASSUME OneProcess, TypesInv', SafeInv', NEW p \in Procs, mem'[p] = disk',
         HeldAll(disk', short', own'), CloseSaves(proc'[p], mem'[p], disk')
  PROVE  HeldInv'
<1>1. Hedged(disk', short', own')
  BY HeldIsHedged DEF TypesInv, TypeOK, SafeInv, BookFits
<1> QED
  BY <1>1 DEF OneProcess, HeldInv, At

\* What is known of a process, at work or not.
LEMMA HeldInside ==
  ASSUME HeldInv, NEW p \in Procs
  PROVE  /\ Hedged(disk, short, own)
         /\ At(p, "idle") => HeldAll(disk, short, own)
         /\ ~At(p, "idle") => /\ HeldAll(mem[p], short, own)
                              /\ CloseSaves(proc[p], mem[p], disk)
BY DEF HeldInv

\* The end of a deposit.
LEMMA ContinueHeld ==
  ASSUME OneProcess, TypesInv, TypesInv', SafeInv', NEW p \in Procs, NEW b, Continue(p, b),
         HeldAll(b, short', own')
  PROVE  HeldInv'
<1>0. proc \in [Procs -> Process] /\ mem \in [Procs -> Book]
  BY DEF TypesInv, TypeOK
<1>1. CASE proc[p].op = "update"
  <2>1. mem'[p] = b /\ disk' = b /\ proc'[p].pc = "delta"
    BY <1>0, <1>1 DEF Continue, Save, Idle
  <2> QED
    BY <2>1, HeldWhenSaved DEF CloseSaves
<1>2. CASE proc[p].op # "update"
  <2>1. disk' = b /\ proc'[p].pc = "idle"
    BY <1>0, <1>2 DEF Continue, SaveAndExit, Ends, Idle
  <2> QED
    BY <2>1, HeldWhenIdle
<1> QED
  BY <1>1, <1>2

\* Starting a process.
LEMMA StartHeld ==
  ASSUME Undisturbed, TypesInv, SafeInv, HeldInv, TypesInv', SafeInv',
         NEW p \in Procs, Start(p)
  PROVE  HeldInv'
<1>1. /\ mem'[p] = disk' /\ proc'[p].pc \in {"deposit", "scored", "next", "rails", "lock", "transfer"}
      /\ proc \in [Procs -> Process] /\ disk \in Book
  BY StartBegins DEF TypesInv, TypeOK
<1> USE <1>1
<1> DEFINE Begun == proc'[p].pc = "next" => proc'[p].op \notin {"lock", "unlock"}
<1>2. ASSUME NEW step, NEW action, step = "next" => action \notin {"lock", "unlock"},
             NEW x, NEW d, NEW todo, Begin(p, action, step, x, d, todo)
      PROVE  Begun
  BY <1>2 DEF Begin, Idle
<1>3. At(p, "idle")
  BY DEF Start, StartDeposit, StartLock, StartUnlock, StartUnwind, StartRotate, StartUpdate,
         StartQuote, StartExit, Begin
<1> HIDE DEF Begun
<1>4. Begun
  <2>1. ASSUME NEW s \in Symbols, StartDeposit(p, s) PROVE Begun
    BY <2>1, <1>2 DEF StartDeposit
  <2>2. ASSUME NEW s \in Symbols, StartLock(p, s) PROVE Begun
    BY <2>2, <1>2 DEF StartLock
  <2>3. ASSUME NEW s \in Symbols, StartUnlock(p, s) PROVE Begun
    BY <2>3, <1>2 DEF StartUnlock
  <2>4. ASSUME NEW s \in Symbols, NEW d \in Symbols, StartRotate(p, s, d) PROVE Begun
    BY <2>4, <1>2 DEF StartRotate
  <2>5. ASSUME NEW targets \in SUBSET Symbols, StartUnwind(p, targets) PROVE Begun
    BY <2>5, <1>2 DEF StartUnwind
  <2>6. ASSUME NEW resume \in BOOLEAN, StartUpdate(p, resume) PROVE Begun
    BY <2>6, <1>2 DEF StartUpdate
  <2>7. CASE StartQuote(p) \/ StartExit(p)
    BY <2>7, <1>2 DEF StartQuote, StartExit
  <2> QED
    BY <2>1, <2>2, <2>3, <2>4, <2>5, <2>6, <2>7 DEF Start
<1>5. disk'.pairs = disk.pairs /\ UNCHANGED <<short, own>>
  BY DEF Start, StartDeposit, StartLock, StartUnlock, StartUnwind, StartRotate, StartUpdate,
         StartQuote, StartExit, Load, Save, Book, venue
<1>6. HeldAll(disk', short', own')
  BY <1>3, <1>5, HeldInside DEF HeldAll
<1> QED
  BY <1>4, <1>6, HeldWhenSaved DEF CloseSaves, Begun, Undisturbed

\* The small commands.
LEMMA RestHeld ==
  ASSUME Undisturbed, TypesInv, SafeInv, HeldInv, TypesInv', SafeInv', NEW p \in Procs,
         SaveScores(p) \/ FinishExit(p) \/ LockOrder(p) \/ LockSave(p) \/ Crash(p)
  PROVE  HeldInv'
<1>1. proc[p].pc \in {"scored", "transfer", "lock", "locked"}
  BY DEF SaveScores, FinishExit, LockOrder, LockSave, Crash, At, Undisturbed
<1>2. /\ mem[p] = disk /\ disk \in Book /\ HeldAll(disk, short, own)
      /\ proc \in [Procs -> Process] /\ mem \in [Procs -> Book] /\ proc[p] \in Process
      /\ proc[p].pc \in Working => proc[p].sym \in Symbols
  BY <1>1, Inside, HeldInside DEF At, Synced
<1>3. UNCHANGED <<short, own>>
  BY DEF SaveScores, FinishExit, LockOrder, LockSave, Crash, venue
<1> USE <1>2, <1>3 DEF Undisturbed
<1>4. ASSUME Exit(p) \/ SaveAndExit(p, mem[p]) PROVE HeldInv'
  BY <1>4, HeldWhenIdle DEF Exit, SaveAndExit, Ends, Idle
<1>5. ASSUME Goto(p, "next") \/ Goto(p, "locked"), disk' = disk, mem'[p] = mem[p],
             proc[p].op \notin {"lock", "unlock"} \/ Goto(p, "locked")
      PROVE  HeldInv'
  <2>1. /\ mem'[p] = disk' /\ HeldAll(disk', short', own') /\ proc'[p].op = proc[p].op
        /\ proc'[p].pc \in {"next", "locked"}
        /\ proc'[p].pc = "next" => proc[p].op \notin {"lock", "unlock"}
    BY <1>5 DEF Goto, Process
  <2>2. CloseSaves(proc'[p], mem'[p], disk')
    BY <2>1 DEF CloseSaves
  <2> QED
    BY <2>1, <2>2, HeldWhenSaved
<1>6. CASE SaveScores(p)
  BY <1>4, <1>5, <1>6 DEF SaveScores, Save
<1>7. CASE LockOrder(p)
  BY <1>4, <1>5, <1>7 DEF LockOrder
<1>8. CASE LockSave(p)
  <2> DEFINE s == proc[p].sym
             k == proc[p].op = "lock"
             pair == [PairOf(p) EXCEPT !.lock = k]
             b == WithPair(mem[p], s, pair)
  <2>1. s \in Symbols /\ PairOf(p) \in Pair /\ PairOf(p) = mem[p].pairs[s]
    BY <1>8, Inside DEF LockSave, At, Working, PairOf
  <2>2. pair.status = PairOf(p).status /\ pair.lot = PairOf(p).lot /\ pair.leg = PairOf(p).leg
    BY <2>1 DEF Pair
  <2>0. mem[p] \in Book
    BY <1>2
  <2>3. b.pairs[s] = pair /\ \A x \in Symbols \ {s} : b.pairs[x] = mem[p].pairs[x]
    BY ONLY <2>0, <2>1, WithPairOnly
  <2>4. disk' = b /\ proc'[p].pc = "idle"
    BY <1>8 DEF LockSave, SaveAndExit, Ends, Idle
  <2> HIDE DEF b, pair
  <2>5. HeldAt(pair, short[s], own[s])
    BY <2>1, <2>2 DEF HeldAll, HeldAt
  <2>6. HeldAll(b, short, own)
    BY <2>1, <2>3, <2>5 DEF HeldAll
  <2> QED
    BY <2>4, <2>6, HeldWhenIdle
<1> QED
  BY <1>4, <1>6, <1>7, <1>8 DEF FinishExit, Crash

\* A step of a deposit.
LEMMA DepositHeld ==
  ASSUME Undisturbed, TypesInv, SafeInv, HeldInv, TypesInv', SafeInv',
         NEW p \in Procs, Deposit(p)
  PROVE  HeldInv'
<1> DEFINE s == proc[p].sym
           Opens == {"deposit", "record", "hedge", "spot", "paired", "filled", "failed"}
<1>1. proc[p].pc \in Opens
  BY Zenon DEF Deposit, DepositRefused, DepositRecord, DepositFailed, DepositDone, DepositAccepted,
         OpenHedge, OpenRefused, OpenSpot, SpotRefused, OpenPaired, At
<1>2. /\ s \in Symbols /\ PairOf(p) \in Pair /\ mem[p] = disk /\ StageOf(p)
      /\ PairOf(p) = mem[p].pairs[s] /\ mem[p] \in Book /\ HeldAll(mem[p], short, own)
      /\ proc[p] \in Process /\ proc \in [Procs -> Process] /\ mem \in [Procs -> Book]
      /\ Fits(PairOf(p), s, short[s], own[s], other[s])
  BY <1>1, Inside, HeldInside DEF Working, Synced, At, PairOf, FitsAll
<1>3. /\ short \in [Symbols -> Nat] /\ own \in [Symbols -> Nat] /\ other \in [Symbols -> Nat]
  BY DEF TypesInv, TypeOK
<1>4. UNCHANGED venue => UNCHANGED <<short, own>>
  BY DEF venue
<1> HIDE DEF s
<1> USE <1>2, <1>3 DEF Undisturbed
<1>5. ASSUME NEW pair, pair.status # "open" \/ HeldAt(pair, short[s], own[s])
      PROVE  HeldAll(WithPair(mem[p], s, pair), short, own)
  <2> DEFINE b == WithPair(mem[p], s, pair)
  <2>1. b.pairs[s] = pair /\ \A x \in Symbols \ {s} : b.pairs[x] = mem[p].pairs[x]
    BY ONLY <1>2, WithPairOnly
  <2> HIDE DEF b
  <2>2. HeldAt(b.pairs[s], short[s], own[s])
    BY <1>5, <2>1 DEF HeldAt
  <2>3. HeldAll(b, short, own)
    BY <2>1, <2>2 DEF HeldAll
  <2> QED
    BY <2>3 DEF b
<1>6. ASSUME UNCHANGED <<disk, mem>>, PairOf(p).status # "open" \/ UNCHANGED <<short, own>>,
             \A x \in Symbols \ {s} : short'[x] = short[x] /\ own'[x] = own[x],
             proc'[p].pc \in {"record", "hedge", "spot", "paired", "filled", "failed"}
      PROVE  HeldInv'
  <2>1. HeldAt(disk.pairs[s], short'[s], own'[s])
    BY <1>6 DEF HeldAt, HeldAll
  <2>2. HeldAll(disk', short', own')
    BY <1>6, <2>1 DEF HeldAll
  <2> QED
    BY <1>6, <2>2, HeldWhenSaved DEF CloseSaves
<1>7. CASE DepositRefused(p)
  BY <1>4, <1>7, ContinueHeld, HeldWhenIdle DEF DepositRefused, Exit, Ends, Idle
<1>8. ASSUME NEW l \in SpotLegs, DepositAccepted(p, l) PROVE HeldInv'
  BY <1>4, <1>6, <1>8 DEF DepositAccepted
<1>9. CASE DepositRecord(p)
  <2>1. PICK n \in Balance(s, proc[p].leg) :
          Save(p, WithPair(mem[p], s, [NoPair EXCEPT !.status = "opening",
                                                     !.leg = proc[p].leg, !.pre = n]))
    BY <1>9, Zenon DEF DepositRecord, s
  <2> DEFINE pair == [NoPair EXCEPT !.status = "opening", !.leg = proc[p].leg, !.pre = n]
             b == WithPair(mem[p], s, pair)
  <2>2. pair.status = "opening"
    BY DEF NoPair
  <2>3. mem'[p] = b /\ disk' = b
    BY <2>1 DEF Save
  <2> HIDE DEF pair
  <2>4. HeldAll(b, short, own)
    BY <1>5, <2>2
  <2> HIDE DEF b
  <2>5. proc'[p].pc \in {"paired", "hedge"} /\ UNCHANGED <<short, own>>
    BY <1>4, <1>9 DEF DepositRecord, Goto
  <2> QED
    BY <2>3, <2>4, <2>5, HeldWhenSaved DEF CloseSaves
<1>10. CASE OpenHedge(p)
  <2>1. PairOf(p).status = "opening" /\ UNCHANGED <<disk, mem, own>> /\ proc'[p].pc = "spot"
    BY <1>10 DEF OpenHedge, At, StageOf, Stage, Goto
  <2>2. PICK n : short' = [short EXCEPT ![s] = @ + n]
    BY <1>10 DEF OpenHedge, s
  <2> QED
    BY <1>6, <2>1, <2>2
<1>11. CASE OpenRefused(p)
  <2>1. HeldAll(WithPair(mem[p], s, NoPair), short, own)
    BY <1>5 DEF NoPair
  <2> QED
    BY <1>4, <1>11, <2>1, ContinueHeld DEF OpenRefused, s
<1>12. CASE OpenSpot(p)
  <2>1. PairOf(p).status = "opening" /\ UNCHANGED <<disk, mem, short>> /\ proc'[p].pc = "filled"
    BY <1>12 DEF OpenSpot, At, StageOf, Stage, Goto
  <2>2. own' = [own EXCEPT ![s] = @ + Full]
    BY <1>12 DEF OpenSpot, s
  <2> QED
    BY <1>6, <2>1, <2>2
<1>13. CASE SpotRefused(p)
  BY <1>4, <1>6, <1>13 DEF SpotRefused, Goto
<1>14. CASE OpenPaired(p)
  <2>1. PairOf(p).status = "opening" /\ UNCHANGED <<disk, mem>>
    BY <1>14 DEF OpenPaired, At, StageOf, Stage
  <2>2. PICK f \in Fills :
          /\ short' = [short EXCEPT ![s] = @ + f.perp] /\ own' = [own EXCEPT ![s] = @ + f.spot]
          /\ \/ proc' = [proc EXCEPT ![p].pc = "filled", ![p].units = f.told]
             \/ Goto(p, "failed")
    BY <1>14 DEF OpenPaired, s
  <2>3. proc'[p].pc \in {"filled", "failed"}
    BY <2>2 DEF Goto, Process
  <2> QED
    BY <1>6, <2>1, <2>2, <2>3
<1>15. CASE DepositFailed(p)
  <2>1. PICK n : Continue(p, WithPair(mem[p], s, [PairOf(p) EXCEPT !.status = "half_open", !.lot = n]))
    BY <1>15, Zenon DEF DepositFailed, s
  <2> DEFINE pair == [PairOf(p) EXCEPT !.status = "half_open", !.lot = n]
             b == WithPair(mem[p], s, pair)
  <2>2. pair.status = "half_open"
    BY DEF Pair
  <2>3. Continue(p, b)
    BY <2>1
  <2> HIDE DEF pair
  <2>4. HeldAll(b, short, own)
    BY <1>5, <2>2
  <2> HIDE DEF b
  <2>5. UNCHANGED <<short, own>>
    BY <1>4, <1>15 DEF DepositFailed
  <2> QED
    BY <2>3, <2>4, <2>5, ContinueHeld
<1>16. CASE DepositDone(p)
  <2>1. /\ PairOf(p).status = "opening" /\ PairOf(p).lot = NoUnits
        /\ proc[p].units \in {0, own[s]}
        /\ PairOf(p).leg # "hl_spot" => short[s] > 0 /\ own[s] > 0
    BY <1>16 DEF DepositDone, At, StageOf, Stage, s
  <2>2. Added(p) = {own[s]}
    <3>1. PairOf(p).pre = other[s]
      BY <2>1 DEF Fits
    <3>2. Most(Wallet(s) - PairOf(p).pre, 0) = own[s]
      BY <3>1 DEF Wallet, Most
    <3>3. Balance(s, PairOf(p).leg) = {Wallet(s)}
      BY NoFaults
    <3> QED
      BY <3>2, <3>3 DEF Added, s
  <2> DEFINE pair == [PairOf(p) EXCEPT !.status = "open", !.lot = own[s], !.value = Full]
             c == WithPair(mem[p], s, pair)
             b == [c EXCEPT !.ref = @ + Full]
  <2>3. pair.status = "open" /\ pair.lot = own[s] /\ pair.leg = PairOf(p).leg /\ pair \in Pair
    <3>1. pair \in Pair
      BY HarvesterAssumption, PairChanges, Zenon
    <3> QED
      BY <3>1 DEF Pair
  <2>4. Continue(p, b)
    <3>1. PICK n \in IF proc[p].units > 0 THEN {proc[p].units} ELSE Added(p) :
            Continue(p, [WithPair(mem[p], s,
                                  [PairOf(p) EXCEPT !.status = "open", !.lot = n, !.value = Full])
                         EXCEPT !.ref = @ + Full])
      BY <1>16, Zenon DEF DepositDone, s
    <3>2. n = own[s]
      BY <2>1, <2>2, <3>1
    <3> QED
      BY <3>1, <3>2
  <2> HIDE DEF pair
  <2>5. HeldAll(c, short, own) /\ c \in Book
    BY <1>5, <2>1, <2>3, WithPairIsBook DEF HeldAt
  <2> HIDE DEF c
  <2>6. HeldAll(b, short, own)
    BY <2>5 DEF HeldAll, Book
  <2> HIDE DEF b
  <2>7. UNCHANGED <<short, own>>
    BY <1>4, <1>16 DEF DepositDone
  <2> QED
    BY <2>4, <2>6, <2>7, ContinueHeld
<1> QED
  BY <1>7, <1>8, <1>9, <1>10, <1>11, <1>12, <1>13, <1>14, <1>15, <1>16 DEF Deposit

\* A step of a close.
LEMMA CloseHeld ==
  ASSUME Undisturbed, TypesInv, SafeInv, HeldInv, TypesInv', SafeInv',
         NEW p \in Procs, Close(p)
  PROVE  HeldInv'
<1> DEFINE s == proc[p].sym
           Closes == {"next", "unlock", "mark", "sell", "cover", "settle"}
<1>1. proc[p].pc \in Closes
  BY Zenon DEF Close, NextClose, NothingToClose, UnwindLock, MarkClosing, SellSpot, SellRefused,
         CoverShort, CoverRefused, Settle, At
<1>2. /\ proc[p].pc # "next" => /\ s \in Symbols /\ PairOf(p) \in Pair
                                /\ PairOf(p) = mem[p].pairs[s]
      /\ proc[p].pc \in {"sell", "cover", "settle"} => mem[p] = disk /\ PairOf(p).status = "closing"
      /\ disk \in Book /\ mem[p] \in Book /\ Hedged(disk, short, own)
      /\ HeldAll(mem[p], short, own) /\ CloseSaves(proc[p], mem[p], disk)
      /\ proc[p] \in Process /\ proc \in [Procs -> Process] /\ mem \in [Procs -> Book]
  BY <1>1, Inside, HeldInside DEF Working, Synced, At, PairOf, StageOf, Stage
<1>3. proc[p].pc # "unlock" /\ proc[p].op \notin {"lock", "unlock"}
  BY <1>1, <1>2 DEF CloseSaves
<1>4. UNCHANGED venue => UNCHANGED <<short, own>>
  BY DEF venue
<1>5. short \in [Symbols -> Nat] /\ own \in [Symbols -> Nat]
  BY DEF TypesInv, TypeOK
<1> HIDE DEF s
<1> USE <1>2, <1>3, <1>5 DEF Undisturbed
<1>6. ASSUME s \in Symbols, NEW pair, pair.status # "open"
      PROVE  HeldAll(WithPair(mem[p], s, pair), short, own)
  <2> DEFINE b == WithPair(mem[p], s, pair)
  <2>1. b.pairs[s] = pair /\ \A x \in Symbols \ {s} : b.pairs[x] = mem[p].pairs[x]
    BY ONLY <1>2, <1>6, WithPairOnly
  <2> HIDE DEF b
  <2>2. HeldAt(b.pairs[s], short[s], own[s])
    BY <1>6, <2>1 DEF HeldAt
  <2>3. HeldAll(b, short, own)
    BY <2>1, <2>2 DEF HeldAll
  <2> QED
    BY <2>3 DEF b
<1>7. ASSUME NEW x \in Symbols, NextClose(p, x) PROVE HeldInv'
  <2>1. /\ proc'[p].pc = "mark" /\ proc'[p].op = proc[p].op
        /\ UNCHANGED <<disk, mem, short, own>>
    BY <1>4, <1>7 DEF NextClose, Boros, Process
  <2> QED
    BY <2>1, HeldWhenBusy DEF CloseSaves
<1>8. ASSUME NEW x \in Symbols, NothingToClose(p, x) PROVE HeldInv'
  <2>1. mem[p] = disk
    BY <1>8 DEF NothingToClose, At, CloseSaves, Recorded
  <2> QED
    BY <1>4, <1>8, <2>1, HeldWhenIdle DEF NothingToClose, Exit, Ends, Idle
<1>9. CASE UnwindLock(p)
  BY <1>9 DEF UnwindLock, At
<1>10. CASE MarkClosing(p)
  <2>1. PICK n : proc' = [proc EXCEPT ![p].pc = "sell", ![p].units = n]
    BY <1>10, Zenon DEF MarkClosing
  <2> DEFINE pair == [PairOf(p) EXCEPT !.status = "closing"]
             b == WithPair(mem[p], s, pair)
  <2>2. s \in Symbols /\ pair.status = "closing"
    BY <1>10 DEF MarkClosing, At, Pair
  <2>3. mem'[p] = b /\ disk' = b
    BY <1>10 DEF MarkClosing, Save, s
  <2> HIDE DEF pair
  <2>4. HeldAll(b, short, own)
    BY <1>6, <2>2
  <2> HIDE DEF b
  <2>5. UNCHANGED <<short, own>>
    BY <1>4, <1>10 DEF MarkClosing
  <2>6. proc'[p].pc = "sell" /\ proc'[p].op = proc[p].op
    BY <2>1 DEF Process
  <2> QED
    BY <2>3, <2>4, <2>5, <2>6, HeldWhenSaved DEF CloseSaves
<1>11. ASSUME proc[p].pc \in {"sell", "cover"}, UNCHANGED <<disk, mem>>,
              \A x \in Symbols \ {s} : short'[x] = short[x] /\ own'[x] = own[x],
              Goto(p, "cover") \/ Goto(p, "settle")
       PROVE  HeldInv'
  <2>1. HeldAt(disk.pairs[s], short'[s], own'[s])
    BY <1>11 DEF HeldAt
  <2>2. HeldAll(disk', short', own')
    BY <1>11, <2>1 DEF HeldAll
  <2>3. proc'[p].pc \in {"cover", "settle"} /\ proc'[p].op = proc[p].op
    BY <1>11 DEF Goto, Process
  <2> QED
    BY <1>11, <2>2, <2>3, HeldWhenSaved DEF CloseSaves
<1>12. CASE SellSpot(p)
  <2>1. PICK n : SellUnits(s, n)
    BY <1>12 DEF SellSpot, s
  <2>2. PICK m : own' = [own EXCEPT ![s] = m]
    BY <2>1 DEF SellUnits
  <2>3. \A x \in Symbols \ {s} : own'[x] = own[x]
    BY <2>2
  <2>4. proc[p].pc = "sell" /\ UNCHANGED <<disk, mem, short>> /\ Goto(p, "cover")
    BY <1>12 DEF SellSpot, At
  <2> QED
    BY <1>11, <2>3, <2>4
<1>13. CASE SellRefused(p)
  BY <1>4, <1>13, HeldWhenIdle DEF SellRefused, SaveAndExit, Ends, Idle
<1>14. CASE CoverShort(p)
  <2>1. PICK n : short' = [short EXCEPT ![s] = @ - n]
    BY <1>14 DEF CoverShort, s
  <2>2. \A x \in Symbols \ {s} : short'[x] = short[x]
    BY <2>1
  <2>3. proc[p].pc = "cover" /\ UNCHANGED <<disk, mem, own>> /\ Goto(p, "settle")
    BY <1>14 DEF CoverShort, At
  <2> QED
    BY <1>11, <2>2, <2>3
<1>15. CASE CoverRefused(p)
  <2> DEFINE pair == [PairOf(p) EXCEPT !.status = "impaired"]
             b == WithPair(mem[p], s, pair)
  <2>1. s \in Symbols /\ pair.status = "impaired"
    BY <1>15 DEF CoverRefused, At, Pair
  <2>2. disk' = b /\ proc'[p].pc = "idle"
    BY <1>15 DEF CoverRefused, SaveAndExit, Ends, Idle, s
  <2> HIDE DEF pair
  <2>3. HeldAll(b, short, own)
    BY <1>6, <2>1
  <2> HIDE DEF b
  <2> QED
    BY <1>4, <1>15, <2>2, <2>3, HeldWhenIdle DEF CoverRefused
<1>16. CASE Settle(p)
  <2> DEFINE c == WithPair(mem[p], s, NoPair)
             b == Settled(p)
  <2>1. s \in Symbols /\ NoPair \in Pair /\ NoPair.status # "open"
    BY <1>16, EmptyTypes DEF Settle, At, NoPair
  <2>2. HeldAll(c, short, own) /\ c \in Book
    BY <1>6, <2>1, WithPairIsBook
  <2>3. b = [c EXCEPT !.ref = Most(@ - PairOf(p).value, 0)]
    BY DEF Settled, s
  <2> HIDE DEF c, b
  <2>4. HeldAll(b, short, own)
    BY <2>2, <2>3 DEF HeldAll, Book
  <2>5. \/ disk' = b /\ proc'[p].pc = "idle"
        \/ /\ disk' = b /\ mem'[p] = b /\ proc'[p].op = proc[p].op
           /\ proc'[p].pc \in {"deposit", "next", "finish"}
    BY <1>16 DEF Settle, Save, SaveAndExit, Ends, Idle, Goto, b, Process
  <2>6. UNCHANGED <<short, own>>
    BY <1>4, <1>16 DEF Settle
  <2> QED
    BY <2>4, <2>5, <2>6, HeldWhenIdle, HeldWhenSaved DEF CloseSaves
<1> QED
  BY <1>7, <1>8, <1>9, <1>10, <1>12, <1>13, <1>14, <1>15, <1>16 DEF Close

\* A step of an update.
LEMMA UpdateHeld ==
  ASSUME Undisturbed, TypesInv, SafeInv, HeldInv, TypesInv', SafeInv',
         NEW p \in Procs, Update(p)
  PROVE  HeldInv'
<1> DEFINE Rails == {"rails", "trim", "delta", "boros", "finish"}
<1>1. proc[p].pc \in Rails
  BY Zenon DEF Update, RailOk, ReduceRefused, ReduceHedge, NoRebalance, Rebalance, BorosStep,
         NoBorosStep, Rotate, TrimSpot, TrimRefused, DrawdownHalt, Paused, NegativeCarryExit,
         StayPut, DeltaDone, BorosDone, FinalSave, Guarded, RailsDone, At
<1>2. /\ disk \in Book /\ mem[p] \in Book /\ Agree(mem[p], disk) /\ StageOf(p)
      /\ Hedged(disk, short, own) /\ HeldAll(mem[p], short, own)
      /\ proc[p] \in Process /\ proc \in [Procs -> Process] /\ mem \in [Procs -> Book]
      /\ proc[p].op = "update"
      /\ FitsAll(disk, short, own, other) /\ FitsAll(mem[p], short, own, other)
  BY <1>1, Inside, HeldInside DEF At, StageOf, Stage
<1>3. short \in [Symbols -> Nat] /\ own \in [Symbols -> Nat] /\ other \in [Symbols -> Nat]
  BY DEF TypesInv, TypeOK
<1>4. UNCHANGED venue => UNCHANGED <<short, own>>
  BY DEF venue
<1> USE <1>2, <1>3 DEF Undisturbed
<1>5. ASSUME proc'[p].pc \in Rails \cup {"next"}, proc'[p].op = "update",
             proc'[p].pc = "next" => mem'[p] = mem[p] /\ proc'[p].todo \subseteq Recorded(mem[p]),
             Hedged(disk', short', own'), HeldAll(mem'[p], short', own')
      PROVE  HeldInv'
  BY <1>5, HeldWhenBusy DEF CloseSaves
<1>6. CASE \/ \E x \in Symbols : \/ RailOk(p, x) \/ ReduceRefused(p, x)
                                 \/ NoRebalance(p, x) \/ NoBorosStep(p, x)
           \/ \E x, d \in Symbols : Rotate(p, x, d)
           \/ NegativeCarryExit(p) \/ StayPut(p) \/ DeltaDone(p) \/ BorosDone(p)
  <2>1. UNCHANGED <<disk, mem, venue>>
    BY <1>6, Zenon
    DEF RailOk, ReduceRefused, NoRebalance, NoBorosStep, Rotate, NegativeCarryExit, StayPut,
        DeltaDone, BorosDone
  <2> DEFINE Moved == /\ proc'[p].pc \in Rails \cup {"next"} /\ proc'[p].op = "update"
                      /\ proc'[p].pc = "next" => proc'[p].todo \subseteq Recorded(mem[p])
  <2>2. ASSUME NEW x \in Symbols, ReduceRefused(p, x) PROVE Moved
    <3>1. PICK rest \in ReducedBy(p, x) :
            proc' = [proc EXCEPT ![p].todo = rest, ![p].reduced = @ \cup {x}]
      BY <2>2, Zenon DEF ReduceRefused
    <3> QED
      BY <2>2, <3>1 DEF ReduceRefused, Guarded, At, Process
  <2>3. ASSUME NEW x \in Symbols, RailOk(p, x) \/ NoRebalance(p, x) \/ NoBorosStep(p, x)
        PROVE  Moved
    BY <2>3 DEF RailOk, NoRebalance, NoBorosStep, At, Process
  <2>4. ASSUME NEW x \in Symbols, NEW d \in Symbols, Rotate(p, x, d) PROVE Moved
    BY <2>4 DEF Rotate, Process, OpenPairs, Recorded
  <2>5. ASSUME NegativeCarryExit(p) PROVE Moved
    BY <2>5 DEF NegativeCarryExit, Process
  <2>6. ASSUME StayPut(p) PROVE Moved
    BY <2>6 DEF StayPut, Process
  <2>7. ASSUME DeltaDone(p) PROVE Moved
    BY <2>7 DEF DeltaDone, Process
  <2>8. ASSUME BorosDone(p) PROVE Moved
    BY <2>8 DEF BorosDone, Goto, Process
  <2> HIDE DEF Moved
  <2>9. Moved
    BY ONLY <1>6, <2>2, <2>3, <2>4, <2>5, <2>6, <2>7, <2>8
  <2> QED
    BY <1>4, <1>5, <2>1, <2>9 DEF Moved
<1>7. CASE Paused(p) \/ FinalSave(p) \/ DrawdownHalt(p)
  <2>1. /\ disk' = mem[p] \/ disk' = [mem[p] EXCEPT !.halted = TRUE]
        /\ proc'[p].pc = "idle" /\ UNCHANGED venue
    BY <1>7 DEF Paused, FinalSave, DrawdownHalt, SaveAndExit, Ends, Idle
  <2>2. HeldAll(disk', short, own)
    BY <2>1 DEF Book, HeldAll
  <2> QED
    BY <1>4, <2>1, <2>2, HeldWhenIdle
<1>8. ASSUME NEW x \in Symbols, NEW sh \in Nat, 0 < sh, short[x] > 0,
             short' = [short EXCEPT ![x] = sh], UNCHANGED <<disk, mem, own>>
      PROVE  Hedged(disk', short', own') /\ HeldAll(mem'[p], short', own')
  <2>1. \A y \in Symbols : short'[y] > 0 <=> short[y] > 0
    BY <1>8
  <2>2. Hedged(disk', short', own')
    BY <1>8, <2>1 DEF Hedged, OpenPairs
  <2>3. HeldAll(mem'[p], short', own')
    BY <1>8, <2>1 DEF HeldAll, HeldAt
  <2> QED
    BY <2>2, <2>3
<1>9. ASSUME NEW x \in Symbols, ReduceHedge(p, x) PROVE HeldInv'
  <2>1. short[x] > 0 /\ Half(short[x]) \in Nat /\ Half(short[x]) < short[x]
    BY <1>9, HalfOf DEF ReduceHedge, Guarded
  <2> DEFINE sh == short[x] - Half(short[x])
  <2>2. sh \in Nat /\ 0 < sh
    BY <2>1
  <2>3. short' = [short EXCEPT ![x] = sh] /\ UNCHANGED <<disk, mem, own>>
    <3>1. PICK n \in Fill(Half(short[x])) : short' = [short EXCEPT ![x] = @ - n]
      BY <1>9 DEF ReduceHedge
    <3>2. n = Half(short[x])
      BY <2>1, <3>1, NoFaults
    <3> QED
      BY <1>9, <3>1, <3>2 DEF ReduceHedge
  <2> HIDE DEF sh
  <2>4. Hedged(disk', short', own') /\ HeldAll(mem'[p], short', own')
    BY <1>8, <2>1, <2>2, <2>3
  <2>5. proc'[p].pc \in {"trim", "rails"} /\ proc'[p].op = "update"
    <3>1. PICK rest \in ReducedBy(p, x) :
            proc' = [proc EXCEPT ![p].pc = IF x \in OpenPairs(mem[p]) THEN "trim" ELSE "rails",
                                 ![p].sym = x, ![p].todo = rest, ![p].reduced = @ \cup {x}]
      BY <1>9, Zenon DEF ReduceHedge
    <3> QED
      BY <3>1 DEF Process
  <2> QED
    BY <1>5, <2>4, <2>5
<1>10. ASSUME NEW x \in Symbols, Rebalance(p, x) PROVE HeldInv'
  <2>1. /\ mem[p].pairs[x].status = "open" /\ short[x] > 0 /\ Wallet(x) > 0
        /\ UNCHANGED <<disk, mem, own>>
    BY <1>10 DEF Rebalance, OpenPairs
  <2>2. Shown(p, x) \in Nat /\ 0 < Shown(p, x)
    <3>1. mem[p].pairs[x].lot \in Nat \cup {NoUnits} /\ Wallet(x) \in Nat
      BY DEF Book, Pair, Wallet
    <3> QED
      BY <2>1, <3>1 DEF Shown, Least, NoUnits
  <2>3. short' = [short EXCEPT ![x] = Shown(p, x)]
    <3>1. CASE Shown(p, x) > short[x]
      <4>1. Shown(p, x) - short[x] \in Nat
        BY <2>2, <3>1
      <4>2. PICK n \in Fill(Shown(p, x) - short[x]) : short' = [short EXCEPT ![x] = @ + n]
        BY <1>10, <2>2, <3>1 DEF Rebalance
      <4>3. short[x] + n = Shown(p, x)
        BY <2>2, <4>1, <4>2, NoFaults
      <4> QED
        BY ONLY <4>2, <4>3
    <3>2. CASE Shown(p, x) < short[x]
      <4>1. short[x] - Shown(p, x) \in Nat
        BY <2>2, <3>2
      <4>2. PICK n \in Fill(short[x] - Shown(p, x)) : short' = [short EXCEPT ![x] = @ - n]
        BY <1>10, <2>2, <3>2 DEF Rebalance
      <4>3. short[x] - n = Shown(p, x)
        BY <2>2, <4>1, <4>2, NoFaults
      <4> QED
        BY ONLY <4>2, <4>3
    <3> QED
      BY <1>10, <3>1, <3>2 DEF Rebalance
  <2>4. Hedged(disk', short', own') /\ HeldAll(mem'[p], short', own')
    BY <1>8, <2>1, <2>2, <2>3
  <2>5. proc'[p].pc = "delta" /\ proc'[p].op = "update"
    BY <1>10 DEF Rebalance, At, Process
  <2> QED
    BY <1>5, <2>4, <2>5
<1>11. ASSUME NEW x \in Symbols, NEW pair, mem'[p] = WithPair(mem[p], x, pair),
              pair.status # "open" \/ HeldAt(pair, short[x], own[x]),
              UNCHANGED <<disk, short, own>>,
              proc'[p].pc \in {"rails", "boros"}, proc'[p].op = "update"
       PROVE  HeldInv'
  <2>1. /\ mem'[p].pairs[x] = pair
        /\ \A y \in Symbols \ {x} : mem'[p].pairs[y] = mem[p].pairs[y]
    BY <1>11, WithPairOnly
  <2>2. HeldAt(mem'[p].pairs[x], short'[x], own'[x])
    BY <1>11, <2>1 DEF HeldAt
  <2>3. HeldAll(mem'[p], short', own')
    BY <1>11, <2>1, <2>2 DEF HeldAll
  <2> QED
    BY <1>5, <1>11, <2>3
<1>12. ASSUME NEW x \in Symbols, BorosStep(p, x) PROVE HeldInv'
  <2> DEFINE open == ~mem[p].pairs[x].lock
             pair == [mem[p].pairs[x] EXCEPT !.lock = open]
  <2>1. /\ pair.status = mem[p].pairs[x].status /\ pair.lot = mem[p].pairs[x].lot
        /\ pair.leg = mem[p].pairs[x].leg
    BY DEF Book, Pair
  <2>2. mem'[p] = WithPair(mem[p], x, pair) /\ UNCHANGED <<disk, short, own>>
    BY <1>12 DEF BorosStep, Keep
  <2> HIDE DEF pair
  <2>3. HeldAt(pair, short[x], own[x])
    BY <2>1 DEF HeldAt, HeldAll
  <2>4. proc'[p].pc = "boros" /\ proc'[p].op = "update"
    BY <1>12 DEF BorosStep, At, Process
  <2> QED
    BY <1>11, <2>2, <2>3, <2>4
<1>13. CASE TrimRefused(p)
  <2>1. /\ proc[p].sym \in Symbols /\ PairOf(p) = mem[p].pairs[proc[p].sym] /\ PairOf(p) \in Pair
    BY <1>13, Inside, Zenon DEF TrimRefused, At, PairOf, Working
  <2> DEFINE x == proc[p].sym
             pair == [PairOf(p) EXCEPT !.status = "impaired"]
  <2>2. pair.status = "impaired"
    BY <2>1 DEF Pair
  <2>3. mem'[p] = WithPair(mem[p], x, pair) /\ UNCHANGED <<disk, short, own>>
        /\ proc'[p].pc = "rails" /\ proc'[p].op = "update"
    BY <1>4, <1>13 DEF TrimRefused, Keep, Goto, Process
  <2> HIDE DEF pair
  <2> QED
    BY <1>11, <2>1, <2>2, <2>3
<1>14. CASE TrimSpot(p)
  <2>1. /\ proc[p].sym \in Symbols /\ PairOf(p) = mem[p].pairs[proc[p].sym]
        /\ PairOf(p).status = "open" /\ PairOf(p).lot > 0 /\ PairOf(p) \in Pair
    BY <1>14, Inside, Zenon DEF TrimSpot, At, StageOf, Stage, PairOf, Working
  <2> DEFINE x == proc[p].sym
             lot == PairOf(p).lot
             kept == lot - Half(lot)
             pair == [PairOf(p) EXCEPT !.lot = @ - Half(@), !.value = @ - Half(@)]
             c == WithPair(mem[p], x, pair)
             b == [c EXCEPT !.ref = Most(@ - Half(PairOf(p).value), 0)]
  <2> HIDE DEF x
  <2>2. /\ x \in Symbols /\ lot \in Nat /\ lot > 0 /\ own[x] = lot
        /\ PairOf(p).leg # "hl_spot" => short[x] > 0
    BY <2>1 DEF HeldAll, HeldAt, Pair, NoUnits, x
  <2>3. /\ Half(lot) \in Nat /\ Half(lot) <= lot /\ kept \in Nat /\ kept > 0
    BY <2>2 DEF Half
  <2>4. own' = [own EXCEPT ![x] = kept] /\ UNCHANGED <<disk, short>> /\ Keep(p, b)
    <3>1. PICK n \in Balance(x, PairOf(p).leg) :
            \E m \in FillOn(PairOf(p).leg, Half(Least(n, lot))) : SellUnits(x, m)
      BY <1>14 DEF TrimSpot, x
    <3>2. n = own[x] + other[x]
      BY <3>1, NoFaults DEF Wallet
    <3>3. Least(n, lot) = lot
      BY <2>2, <3>2 DEF Least
    <3>4. SellUnits(x, Half(lot))
      BY <2>3, <3>1, <3>3, NoFaults
    <3>5. Least(own[x], Half(lot)) = Half(lot)
      BY <2>2, <2>3 DEF Least
    <3>6. own' = [own EXCEPT ![x] = kept]
      BY <2>2, <3>4, <3>5 DEF SellUnits
    <3> QED
      BY <1>14, <3>6 DEF TrimSpot, Keep, x
  <2>5. pair.status = "open" /\ pair.lot = kept /\ pair.leg = PairOf(p).leg /\ pair \in Pair
    <3>1. pair \in Pair
      BY <2>1, PairChanges, Zenon
    <3> QED
      BY <2>1, <3>1, Zenon DEF Pair
  <2> HIDE DEF lot, kept, pair
  <2>6. own'[x] = kept /\ \A y \in Symbols \ {x} : own'[y] = own[y]
    BY <2>2, <2>4
  <2>7. /\ c \in Book /\ c.pairs[x] = pair
        /\ \A y \in Symbols \ {x} : c.pairs[y] = mem[p].pairs[y]
    <3>1. c \in Book
      BY <2>2, <2>5, WithPairIsBook
    <3> QED
      BY ONLY <1>2, <2>2, <3>1, WithPairOnly
  <2> HIDE DEF c
  <2>8. b.pairs = c.pairs
    BY <2>7 DEF Book
  <2> HIDE DEF b
  <2>9. mem'[p] = b
    BY <2>4 DEF Keep
  <2>10. HeldAt(b.pairs[x], short'[x], own'[x])
    BY <2>2, <2>3, <2>4, <2>5, <2>6, <2>7, <2>8 DEF HeldAt
  <2>11. HeldAll(mem'[p], short', own')
    BY <2>4, <2>6, <2>7, <2>8, <2>9, <2>10 DEF HeldAll
  <2>12. Hedged(disk', short', own')
    BY <2>2, <2>3, <2>4, <2>6 DEF Hedged, OpenPairs
  <2>13. proc'[p].pc = "rails" /\ proc'[p].op = "update"
    BY <1>14 DEF TrimSpot, Goto, Process
  <2> QED
    BY <1>5, <2>11, <2>12, <2>13
<1> QED
  BY <1>6, <1>7, <1>9, <1>10, <1>12, <1>13, <1>14 DEF Update

\* Every step keeps the invariant.
LEMMA StepHeld ==
  ASSUME Undisturbed, TypesInv, SafeInv, HeldInv, TypesInv', SafeInv', [Next]_vars
  PROVE  HeldInv'
<1>1. ASSUME NEW p \in Procs, Step(p) PROVE HeldInv'
  BY <1>1, StartHeld, DepositHeld, CloseHeld, UpdateHeld, RestHeld DEF Step
<1>2. CASE UNCHANGED vars
  BY <1>2 DEF vars, HeldInv, Hedged, OpenPairs, HeldAll, HeldAt, CloseSaves, Recorded, At
<1> QED
  BY <1>1, <1>2 DEF Next, Step

\* A pair recorded as open is hedged also beside units of the token that no pair
\* bought, as long as every update reaches its save: then a reduction sells by the
\* lot it has just scaled, and the units beside it stay.
THEOREM HedgedBesideOthers ==
  ASSUME Undisturbed
  PROVE  Spec => []OpenPairIsHedged
<1> DEFINE IInv == TypesInv /\ SafeInv /\ HeldInv
<1>0. OneProcess /\ Faults \subseteq {"crash"}
  BY Undisturbed DEF Undisturbed
<1>1. Init => IInv
  <2>1. Init => HeldInv
    BY DEF Init, HeldInv, Hedged, OpenPairs, HeldAll, HeldAt, EmptyBook, NoPair, At, Idle
  <2> QED
    BY <2>1, InitTypes, InitSafe
<1>2. IInv /\ [Next]_vars => IInv'
  BY <1>0, Undisturbed, StepTypes, StepSafe, StepHeld
<1>3. IInv => OpenPairIsHedged
  BY DEF HeldInv, Hedged, OpenPairIsHedged
<1> HIDE DEF IInv
<1> QED
  BY <1>1, <1>2, <1>3, PTL DEF Spec

-----------------------------------------------------------------------------
(* Who trades *)

\* The steps that add to a position.
LEMMA WhoGrows ==
  ASSUME TypesInv, NEW p \in Procs, Step(p), At(p, "trim") => PairOf(p).lot > 0,
         NEW s \in Symbols, short'[s] > short[s] \/ own'[s] > own[s]
  PROVE  \/ s = proc[p].sym /\ (OpenHedge(p) \/ OpenSpot(p) \/ OpenPaired(p))
         \/ Rebalance(p, s)
<1>1. /\ short \in [Symbols -> Nat] /\ own \in [Symbols -> Nat] /\ other \in [Symbols -> Nat]
      /\ proc[p].pc \in Working => proc[p].sym \in Symbols
      /\ proc[p] \in Process /\ mem[p] \in Book
  BY DEF TypesInv, TypeOK, SymInv
<1>2. ~UNCHANGED <<short, own>>
  BY <1>1
<1>3. /\ \A n \in Nat : \A m \in Fill(n) : m \in Nat
      /\ \A n \in Nat : \A l : \A m \in FillOn(l, n) : m \in Nat
  BY DEF Fill, FillOn
<1>4. ASSUME NEW x \in Symbols, NEW n \in Nat, SellUnits(x, n), UNCHANGED short PROVE FALSE
  BY <1>1, <1>4 DEF SellUnits, Least
<1>5. ASSUME NEW x \in Symbols, NEW n \in Nat, short' = [short EXCEPT ![x] = @ - n],
             UNCHANGED own
      PROVE  FALSE
  BY <1>1, <1>5
<1>6. ~(Start(p) \/ SaveScores(p) \/ FinishExit(p) \/ LockOrder(p) \/ LockSave(p) \/ Crash(p))
  BY <1>2
  DEF Start, StartDeposit, StartLock, StartUnlock, StartUnwind, StartRotate, StartUpdate,
      StartQuote, StartExit, SaveScores, FinishExit, LockOrder, LockSave, Crash, venue
<1>7. CASE Deposit(p)
  <2>1. OpenHedge(p) \/ OpenSpot(p) \/ OpenPaired(p)
    BY <1>2, <1>7, Zenon
    DEF Deposit, DepositRefused, DepositAccepted, DepositRecord, DepositFailed, DepositDone,
        OpenRefused, SpotRefused, venue
  <2>2. proc[p].sym \in Symbols
    BY <1>1, <2>1 DEF OpenHedge, OpenSpot, OpenPaired, At, Working
  <2>3. s = proc[p].sym
    BY <1>1, <2>1, <2>2 DEF OpenHedge, OpenSpot, OpenPaired
  <2> QED
    BY <2>1, <2>3
<1>8. CASE Close(p)
  <2>1. SellSpot(p) \/ CoverShort(p)
    BY <1>2, <1>8, Zenon
    DEF Close, NextClose, NothingToClose, UnwindLock, MarkClosing, SellRefused, CoverRefused,
        Settle, venue
  <2>2. proc[p].sym \in Symbols /\ proc[p].units \in Nat
    BY <1>1, <2>1 DEF SellSpot, CoverShort, At, Working, Process
  <2>3. CASE SellSpot(p)
    <3> DEFINE n == Least(proc[p].units, Wallet(proc[p].sym))
    <3>1. n \in Nat
      BY <1>1, <2>2 DEF Least, Wallet
    <3> HIDE DEF n
    <3>2. PICK sold \in FillOn(PairOf(p).leg, n) \cup {0} : SellUnits(proc[p].sym, sold)
      BY <2>3 DEF SellSpot, n
    <3>3. sold \in Nat
      BY <1>3, <3>1, <3>2
    <3> QED
      BY <1>4, <2>2, <2>3, <3>2, <3>3 DEF SellSpot
  <2>4. CASE CoverShort(p)
    <3>1. PICK n \in Fill(short[proc[p].sym]) : short' = [short EXCEPT ![proc[p].sym] = @ - n]
      BY <2>4 DEF CoverShort
    <3>2. n \in Nat
      BY <1>1, <1>3, <2>2, <3>1
    <3> QED
      BY <1>5, <2>2, <2>4, <3>1, <3>2 DEF CoverShort
  <2> QED
    BY <2>1, <2>3, <2>4
<1>9. CASE Update(p)
  <2>1. \/ \E x \in Symbols : ReduceHedge(p, x) \/ Rebalance(p, x)
        \/ TrimSpot(p)
    BY <1>2, <1>9, Zenon
    DEF Update, RailOk, ReduceRefused, NoRebalance, BorosStep, NoBorosStep, Rotate, TrimRefused,
        DrawdownHalt, Paused, NegativeCarryExit, StayPut, DeltaDone, BorosDone, FinalSave, venue
  <2>2. ASSUME NEW x \in Symbols, ReduceHedge(p, x) PROVE FALSE
    <3>1. PICK n \in Fill(Half(short[x])) : short' = [short EXCEPT ![x] = @ - n]
      BY <2>2 DEF ReduceHedge
    <3>2. n \in Nat
      <4>1. Half(short[x]) \in Nat
        BY <1>1, HalfOf
      <4> QED
        BY <1>3, <3>1, <4>1
    <3> QED
      BY <1>5, <2>2, <3>1, <3>2 DEF ReduceHedge
  <2>3. ASSUME NEW x \in Symbols, Rebalance(p, x) PROVE x = s
    BY <1>1, <2>3 DEF Rebalance
  <2>4. CASE TrimSpot(p)
    <3>1. proc[p].sym \in Symbols /\ PairOf(p).lot > 0
      BY <1>1, <2>4 DEF TrimSpot, At, Working
    <3>2. PairOf(p).lot \in Nat
      <4>1. PairOf(p) \in Pair
        BY <3>1, ReadTypes
      <4> QED
        BY <3>1, <4>1 DEF Pair, NoUnits
    <3>3. PICK n \in Balance(proc[p].sym, PairOf(p).leg) :
            \E sold \in FillOn(PairOf(p).leg, Half(Least(n, PairOf(p).lot))) :
              SellUnits(proc[p].sym, sold)
      BY <2>4 DEF TrimSpot
    <3>4. n \in Nat
      <4>1. PairOf(p).leg \in SpotLegs \cup {"none"}
        BY <3>1, ReadTypes DEF Pair
      <4> QED
        BY <3>1, <3>3, <4>1, ReadTypes
    <3>5. Half(Least(n, PairOf(p).lot)) \in Nat
      BY <3>2, <3>4 DEF Half, Least
    <3> QED
      BY <1>3, <1>4, <2>4, <3>1, <3>3, <3>5 DEF TrimSpot
  <2> QED
    BY <2>1, <2>2, <2>3, <2>4
<1> QED
  BY <1>6, <1>7, <1>8, <1>9 DEF Step

\* Only the cover of a close takes a short to nothing.
LEMMA WhoCovers ==
  ASSUME TypesInv, NEW p \in Procs, Step(p), NEW s \in Symbols, short[s] > 0, short'[s] = 0
  PROVE  CoverShort(p) /\ s = proc[p].sym
<1>1. /\ short \in [Symbols -> Nat] /\ own \in [Symbols -> Nat] /\ other \in [Symbols -> Nat]
      /\ proc[p].pc \in Working => proc[p].sym \in Symbols
      /\ proc[p] \in Process /\ mem[p] \in Book /\ Full \in Nat /\ FillerMost \in Nat
  BY HarvesterAssumption DEF TypesInv, TypeOK, SymInv
<1>2. ~UNCHANGED short
  BY <1>1
<1>3. \A n \in Nat : \A m \in Fill(n) : m \in Nat /\ m <= n
  BY DEF Fill
<1>4. ASSUME NEW x \in Symbols, NEW n \in Nat, short' = [short EXCEPT ![x] = @ + n] PROVE FALSE
  BY <1>1, <1>4
<1>5. ~(Start(p) \/ SaveScores(p) \/ FinishExit(p) \/ LockOrder(p) \/ LockSave(p) \/ Crash(p))
  BY <1>2
  DEF Start, StartDeposit, StartLock, StartUnlock, StartUnwind, StartRotate, StartUpdate,
      StartQuote, StartExit, SaveScores, FinishExit, LockOrder, LockSave, Crash, venue
<1>6. ASSUME Deposit(p) PROVE FALSE
  <2>1. OpenHedge(p) \/ OpenPaired(p)
    BY <1>2, <1>6, Zenon
    DEF Deposit, DepositRefused, DepositAccepted, DepositRecord, DepositFailed, DepositDone,
        OpenRefused, OpenSpot, SpotRefused, venue
  <2>2. proc[p].sym \in Symbols
    BY <1>1, <2>1 DEF OpenHedge, OpenPaired, At, Working
  <2>3. CASE OpenHedge(p)
    BY <1>1, <1>3, <1>4, <2>2, <2>3 DEF OpenHedge
  <2>4. CASE OpenPaired(p)
    BY <1>1, <1>4, <2>2, <2>4 DEF OpenPaired, Fills, FillsUpTo
  <2> QED
    BY <2>1, <2>3, <2>4
<1>7. CASE Close(p)
  <2>1. CoverShort(p)
    BY <1>2, <1>7, Zenon
    DEF Close, NextClose, NothingToClose, UnwindLock, MarkClosing, SellSpot, SellRefused,
        CoverRefused, Settle, venue
  <2>2. proc[p].sym \in Symbols
    BY <1>1, <2>1 DEF CoverShort, At, Working
  <2>3. PICK n \in Fill(short[proc[p].sym]) : short' = [short EXCEPT ![proc[p].sym] = @ - n]
    BY <2>1 DEF CoverShort
  <2>4. short'[s] = short[s] \/ s = proc[p].sym
    BY <1>1, <2>2, <2>3
  <2> QED
    BY <1>1, <2>1, <2>4
<1>8. ASSUME Update(p) PROVE FALSE
  <2>1. \E x \in Symbols : ReduceHedge(p, x) \/ Rebalance(p, x)
    BY <1>2, <1>8, Zenon
    DEF Update, RailOk, ReduceRefused, NoRebalance, BorosStep, NoBorosStep, Rotate, TrimSpot,
        TrimRefused, DrawdownHalt, Paused, NegativeCarryExit, StayPut, DeltaDone, BorosDone,
        FinalSave, venue
  <2>2. ASSUME NEW x \in Symbols, ReduceHedge(p, x) PROVE FALSE
    <3>1. PICK n \in Fill(Half(short[x])) : short' = [short EXCEPT ![x] = @ - n]
      BY <2>2 DEF ReduceHedge
    <3>2. Half(short[x]) \in Nat /\ (short[x] > 0 => Half(short[x]) < short[x])
      BY <1>1, HalfOf
    <3>3. n \in Nat /\ n <= Half(short[x])
      BY <1>3, <3>1, <3>2
    <3> QED
      BY <1>1, <3>1, <3>2, <3>3
  <2>3. ASSUME NEW x \in Symbols, Rebalance(p, x) PROVE FALSE
    <3>1. Shown(p, x) \in Nat /\ Shown(p, x) > 0
      <4>1. mem[p].pairs[x].lot \in Nat \cup {NoUnits} /\ Wallet(x) \in Nat
        BY <1>1 DEF Book, Pair, Wallet
      <4> QED
        BY <2>3, <4>1 DEF Rebalance, Shown, Least, NoUnits
    <3>2. CASE Shown(p, x) > short[x]
      BY <1>1, <1>3, <1>4, <2>3, <3>1, <3>2 DEF Rebalance
    <3>3. CASE Shown(p, x) < short[x]
      <4>1. short[x] - Shown(p, x) \in Nat
        BY <1>1, <3>1, <3>3
      <4>2. PICK n \in Fill(short[x] - Shown(p, x)) : short' = [short EXCEPT ![x] = @ - n]
        BY <1>1, <2>3, <3>1, <3>3 DEF Rebalance
      <4>3. n \in Nat /\ n <= short[x] - Shown(p, x)
        BY <1>3, <4>1, <4>2
      <4> QED
        BY <1>1, <3>1, <4>2, <4>3
    <3> QED
      BY <2>3, <3>2, <3>3 DEF Rebalance
  <2> QED
    BY <2>1, <2>2, <2>3
<1> QED
  BY <1>5, <1>6, <1>7, <1>8 DEF Step

\* The hedge of a symbol is taken off only when none of its spot is left.
THEOREM LastOffTheorem ==
  ASSUME OneProcess, Faults \subseteq {"crash"}
  PROVE  Spec => HedgeOutlivesSpot
<1> DEFINE IInv == TypesInv /\ SafeInv
           Last == \A s \in Symbols : short[s] > 0 /\ short'[s] = 0 => own[s] = 0
<1>1. Init => IInv
  BY InitTypes, InitSafe
<1>2. IInv /\ [Next]_vars => IInv'
  BY OneProcess, Faults \subseteq {"crash"}, StepTypes, StepSafe
<1>3. IInv /\ [Next]_vars => [Last]_vars
  <2> SUFFICES ASSUME IInv, NEW p \in Procs, Step(p), NEW s \in Symbols,
                      short[s] > 0, short'[s] = 0
               PROVE  own[s] = 0
    BY DEF Next, Step
  <2>1. CoverShort(p) /\ s = proc[p].sym
    BY WhoCovers
  <2> QED
    BY <2>1 DEF SafeInv, StageInv, StageOf, Stage, CoverShort, At
<1> HIDE DEF IInv, Last
<1>4. Spec => [][Last]_vars
  BY <1>1, <1>2, <1>3, PTL DEF Spec
<1> QED
  BY <1>4 DEF HedgeOutlivesSpot, Last

-----------------------------------------------------------------------------
(* What allows a process to add to a position, whatever fails *)

\* What the process r knows of the file d when its copy is m.
Guards(r, m, d) ==
  /\ m.halted = d.halted
  /\ \A s \in Symbols : m.pairs[s].status = "open" => d.pairs[s].status = "open"
  /\ r.op = "update" => ~d.halted
  /\ r.pc \in {"rails", "trim", "delta", "boros", "finish"} => r.op = "update"
  /\ r.pc \in {"record", "hedge", "spot", "paired"} => ~d.halted
  /\ r.pc \in {"hedge", "spot", "paired"} => d.pairs[r.sym].status = "opening"
  /\ r.pc = "trim" => m.pairs[r.sym].lot > 0

GuardInv == \A p \in Procs : ~At(p, "idle") => Guards(proc[p], mem[p], disk)

\* Every step keeps what a process knows of the file.
LEMMA StepGuards ==
  ASSUME OneProcess, TypesInv, GuardInv, NEW p \in Procs, Step(p)
  PROVE  GuardInv'
<1> DEFINE Rails == {"rails", "trim", "delta", "boros", "finish"}
           Grows == {"record", "hedge", "spot", "paired", "trim"}
           r == proc'[p]
<1>1. /\ proc \in [Procs -> Process] /\ mem \in [Procs -> Book] /\ disk \in Book
      /\ proc[p] \in Process /\ mem[p] \in Book
      /\ proc[p].pc \in Working => proc[p].sym \in Symbols
  BY DEF TypesInv, TypeOK, SymInv
<1>2. ~At(p, "idle") => Guards(proc[p], mem[p], disk)
  BY DEF GuardInv
<1>3. r.pc = "idle" \/ Guards(r, mem'[p], disk') => GuardInv'
  BY DEF OneProcess, GuardInv, At
<1>4. ASSUME Exit(p) \/ \E b : SaveAndExit(p, b) PROVE GuardInv'
  BY <1>1, <1>3, <1>4 DEF Exit, SaveAndExit, Ends, Idle
<1>5. ASSUME NEW b, mem'[p] = b, disk' = b, b.halted = disk.halted, ~At(p, "idle"),
             r.op = proc[p].op, r.pc \notin Grows, r.pc \in Rails => r.op = "update"
      PROVE  GuardInv'
  BY <1>2, <1>3, <1>5 DEF Guards
<1>6. ASSUME disk' = disk, mem'[p].halted = mem[p].halted, ~At(p, "idle"),
             \A s \in Symbols : mem'[p].pairs[s].status = "open" => mem[p].pairs[s].status = "open",
             r.op = proc[p].op, r.pc \notin Grows, r.pc \in Rails => r.op = "update"
      PROVE  GuardInv'
  BY <1>2, <1>3, <1>6 DEF Guards
<1>7. ASSUME NEW b, Continue(p, b), b.halted = disk.halted, ~At(p, "idle") PROVE GuardInv'
  <2>1. CASE proc[p].op = "update"
    <3>1. mem'[p] = b /\ disk' = b /\ r.pc = "delta" /\ r.op = "update"
      BY <1>1, <1>7, <2>1 DEF Continue, Save, Idle
    <3> QED
      BY <1>5, <1>7, <2>1, <3>1
  <2> QED
    BY <1>4, <1>7, <2>1 DEF Continue
<1>8. \A x, pair : /\ WithPair(mem[p], x, pair).halted = mem[p].halted
                  /\ WithPair(mem[p], x, pair).pairs = [mem[p].pairs EXCEPT ![x] = pair]
  BY <1>1 DEF WithPair, Book
<1>9. CASE Start(p)
  BY <1>3, <1>9, StartBegins DEF Guards
<1>10. CASE SaveScores(p) \/ FinishExit(p) \/ LockOrder(p) \/ LockSave(p) \/ Crash(p)
  <2>1. ASSUME SaveScores(p), Save(p, mem[p]), Goto(p, "next") PROVE GuardInv'
    BY <1>1, <1>2, <1>5, <2>1 DEF SaveScores, Save, Goto, At, Guards, Process
  <2>2. ASSUME LockOrder(p), Goto(p, "locked"), UNCHANGED <<disk, mem>> PROVE GuardInv'
    BY <1>1, <1>6, <2>2 DEF LockOrder, Goto, At, Process
  <2> QED
    BY <1>4, <1>10, <2>1, <2>2 DEF SaveScores, FinishExit, LockOrder, LockSave, Crash
<1>11. CASE Deposit(p)
  <2>1. proc[p].pc \in Working /\ ~At(p, "idle") /\ Guards(proc[p], mem[p], disk)
    BY <1>2, <1>11, Zenon
    DEF Deposit, DepositRefused, DepositRecord, DepositFailed, DepositDone, DepositAccepted,
        OpenHedge, OpenRefused, OpenSpot, SpotRefused, OpenPaired, At, Working
  <2>2. proc[p].sym \in Symbols /\ mem[p].halted = disk.halted
    BY <1>1, <2>1 DEF Guards
  <2>3. CASE DepositRefused(p)
    BY <1>4, <1>7, <2>1, <2>2, <2>3 DEF DepositRefused
  <2>4. CASE OpenRefused(p)
    <3>1. WithPair(mem[p], proc[p].sym, NoPair).halted = mem[p].halted
      BY <1>8
    <3> QED
      BY <1>7, <2>1, <2>2, <2>4, <3>1 DEF OpenRefused
  <2>5. ASSUME NEW l \in SpotLegs, DepositAccepted(p, l) PROVE GuardInv'
    <3>1. /\ mem'[p] = mem[p] /\ disk' = mem[p] /\ r.pc = "record" /\ r.op = proc[p].op
          /\ ~mem[p].halted
      BY <1>1, <2>5 DEF DepositAccepted, Process
    <3> QED
      BY <1>3, <3>1 DEF Guards
  <2>6. CASE DepositRecord(p)
    <3>1. PICK n \in Balance(proc[p].sym, proc[p].leg) :
            Save(p, WithPair(mem[p], proc[p].sym,
                             [NoPair EXCEPT !.status = "opening", !.leg = proc[p].leg,
                                            !.pre = n]))
      BY <2>6, Zenon DEF DepositRecord
    <3> DEFINE pair == [NoPair EXCEPT !.status = "opening", !.leg = proc[p].leg, !.pre = n]
               b == WithPair(mem[p], proc[p].sym, pair)
    <3>2. pair.status = "opening"
      BY DEF NoPair
    <3> HIDE DEF pair
    <3>3. b.halted = disk.halted /\ b.pairs[proc[p].sym].status = "opening"
      <4>1. b.halted = mem[p].halted /\ b.pairs = [mem[p].pairs EXCEPT ![proc[p].sym] = pair]
        BY <1>8
      <4> HIDE DEF b
      <4> QED
        BY <1>1, <2>2, <3>2, <4>1 DEF Book
    <3>4. mem'[p] = b /\ disk' = b
      BY <1>1, <3>1 DEF Save, pair
    <3> HIDE DEF b
    <3>5. r.pc \in {"hedge", "paired"} /\ r.op = proc[p].op /\ r.sym = proc[p].sym
      BY <1>1, <2>6 DEF DepositRecord, Goto, Process
    <3>6. proc[p].pc = "record"
      BY <2>6 DEF DepositRecord, At
    <3> QED
      BY <1>3, <2>1, <3>3, <3>4, <3>5, <3>6 DEF Guards
  <2>7. CASE OpenHedge(p)
    <3>1. /\ proc[p].pc = "hedge" /\ r.pc = "spot" /\ r.op = proc[p].op /\ r.sym = proc[p].sym
          /\ mem'[p] = mem[p] /\ disk' = disk
      BY <1>1, <2>7 DEF OpenHedge, Goto, At, Process
    <3> QED
      BY <1>3, <2>1, <3>1 DEF Guards
  <2>8. CASE OpenSpot(p) \/ SpotRefused(p) \/ OpenPaired(p)
    <3>1. CASE OpenSpot(p) \/ SpotRefused(p)
      BY <1>1, <1>6, <2>1, <3>1 DEF OpenSpot, SpotRefused, Goto, Process
    <3>2. CASE OpenPaired(p)
      <4>1. \/ \E n : proc' = [proc EXCEPT ![p].pc = "filled", ![p].units = n]
            \/ Goto(p, "failed")
        BY <3>2 DEF OpenPaired
      <4>2. r.pc \in {"filled", "failed"} /\ r.op = proc[p].op
        BY <1>1, <4>1 DEF Goto, Process
      <4> QED
        BY <1>6, <2>1, <3>2, <4>2 DEF OpenPaired
    <3> QED
      BY <2>8, <3>1, <3>2
  <2>9. CASE DepositFailed(p)
    <3>1. PICK pair : Continue(p, WithPair(mem[p], proc[p].sym, pair))
      BY <2>9 DEF DepositFailed
    <3>2. WithPair(mem[p], proc[p].sym, pair).halted = mem[p].halted
      BY <1>8
    <3> QED
      BY <1>7, <2>1, <2>2, <3>1, <3>2
  <2>10. CASE DepositDone(p)
    <3>1. PICK pair : Continue(p, [WithPair(mem[p], proc[p].sym, pair) EXCEPT !.ref = @ + Full])
      BY <2>10 DEF DepositDone
    <3>2. [WithPair(mem[p], proc[p].sym, pair) EXCEPT !.ref = @ + Full].halted = mem[p].halted
      BY <1>1 DEF WithPair, Book
    <3> QED
      BY <1>7, <2>1, <2>2, <3>1, <3>2
  <2> QED
    BY <1>11, <2>3, <2>4, <2>5, <2>6, <2>7, <2>8, <2>9, <2>10 DEF Deposit
<1>12. CASE Close(p)
  <2>1. ~At(p, "idle") /\ mem[p].halted = disk.halted
    BY <1>2, <1>12, Zenon
    DEF Close, NextClose, NothingToClose, UnwindLock, MarkClosing, SellSpot, SellRefused,
        CoverShort, CoverRefused, Settle, At, Guards
  <2>2. ASSUME NEW x \in Symbols, NextClose(p, x) PROVE GuardInv'
    <3>1. r.pc \in {"unlock", "mark"} /\ r.op = proc[p].op /\ UNCHANGED <<disk, mem>>
      BY <1>1, <2>2 DEF NextClose, Process
    <3> QED
      BY <1>6, <2>1, <3>1
  <2>3. CASE \/ \E x \in Symbols : NothingToClose(p, x)
             \/ SellRefused(p) \/ CoverRefused(p)
    BY <1>4, <2>3 DEF NothingToClose, SellRefused, CoverRefused
  <2>4. CASE UnwindLock(p)
    <3>1. CASE Goto(p, "mark") /\ UNCHANGED <<disk, mem>>
      BY <1>1, <1>6, <2>1, <3>1 DEF Goto, Process
    <3> QED
      BY <1>4, <2>4, <3>1 DEF UnwindLock
  <2>5. CASE MarkClosing(p)
    <3> DEFINE b == WithPair(mem[p], proc[p].sym, [PairOf(p) EXCEPT !.status = "closing"])
    <3>1. Save(p, b) /\ b.halted = mem[p].halted
      BY <1>8, <2>5 DEF MarkClosing
    <3> HIDE DEF b
    <3>2. r.pc = "sell" /\ r.op = proc[p].op
      BY <1>1, <2>5 DEF MarkClosing, Process
    <3>3. mem'[p] = b /\ disk' = b
      BY <1>1, <3>1 DEF Save
    <3> QED
      BY <1>5, <2>1, <3>1, <3>2, <3>3
  <2>6. CASE SellSpot(p) \/ CoverShort(p)
    <3>1. r.pc \in {"cover", "settle"} /\ r.op = proc[p].op /\ UNCHANGED <<disk, mem>>
      BY <1>1, <2>6 DEF SellSpot, CoverShort, Goto, Process
    <3> QED
      BY <1>6, <2>1, <3>1
  <2>7. CASE Settle(p)
    <3>1. Settled(p).halted = mem[p].halted
      BY <1>1 DEF Settled, WithPair, Book
    <3>2. CASE SaveAndExit(p, Settled(p))
      BY <1>4, <3>2
    <3>3. CASE ~SaveAndExit(p, Settled(p))
      <4>1. Save(p, Settled(p)) /\ r.op = proc[p].op /\ r.pc \in {"deposit", "next", "finish"}
            /\ (r.pc = "finish" => r.op = "update")
        BY <1>1, <2>7, <3>3 DEF Settle, Goto, Process
      <4>2. mem'[p] = Settled(p) /\ disk' = Settled(p)
        BY <1>1, <4>1 DEF Save
      <4> QED
        BY <1>5, <2>1, <3>1, <4>1, <4>2
    <3> QED
      BY <3>2, <3>3
  <2> QED
    BY <1>12, <2>2, <2>3, <2>4, <2>5, <2>6, <2>7 DEF Close
<1>13. CASE Update(p)
  <2>1. ~At(p, "idle") /\ proc[p].pc \in Rails /\ Guards(proc[p], mem[p], disk)
    BY <1>2, <1>13, Zenon
    DEF Update, RailOk, ReduceRefused, ReduceHedge, NoRebalance, Rebalance, BorosStep,
        NoBorosStep, Rotate, TrimSpot, TrimRefused, DrawdownHalt, Paused, NegativeCarryExit,
        StayPut, DeltaDone, BorosDone, FinalSave, Guarded, RailsDone, At
  <2>2. proc[p].op = "update" /\ mem[p].halted = disk.halted
    BY <2>1 DEF Guards
  <2>3. CASE DrawdownHalt(p) \/ Paused(p) \/ FinalSave(p)
    BY <1>4, <2>3 DEF DrawdownHalt, Paused, FinalSave
  <2> DEFINE Moved == /\ disk' = disk /\ mem' = mem /\ r.op = "update"
                      /\ r.pc \in (Rails \cup {"next"}) \ {"trim"}
  <2>4. ASSUME Moved PROVE GuardInv'
    BY <1>6, <2>1, <2>2, <2>4
  <2> HIDE DEF Moved
  <2>5. ASSUME NEW x \in Symbols, RailOk(p, x) \/ NoRebalance(p, x) \/ NoBorosStep(p, x)
        PROVE  Moved
    BY <1>1, <2>2, <2>5 DEF RailOk, NoRebalance, NoBorosStep, At, Process, Moved
  <2>6. ASSUME NEW x \in Symbols, ReduceRefused(p, x) PROVE Moved
    <3>1. PICK rest \in ReducedBy(p, x) :
            proc' = [proc EXCEPT ![p].todo = rest, ![p].reduced = @ \cup {x}]
      BY <2>6 DEF ReduceRefused
    <3> QED
      BY <1>1, <2>2, <2>6, <3>1 DEF ReduceRefused, Guarded, At, Process, Moved
  <2>7. ASSUME NEW x \in Symbols, Rebalance(p, x) PROVE Moved
    BY <1>1, <2>2, <2>7 DEF Rebalance, At, Process, Moved
  <2>8. ASSUME NEW x \in Symbols, NEW d \in Symbols, Rotate(p, x, d) PROVE Moved
    BY <1>1, <2>2, <2>8 DEF Rotate, Process, Moved
  <2>9. CASE NegativeCarryExit(p)
    BY <1>1, <2>2, <2>4, <2>9 DEF NegativeCarryExit, Process, Moved
  <2>10. CASE StayPut(p)
    BY <1>1, <2>2, <2>4, <2>10 DEF StayPut, Process, Moved
  <2>11. CASE DeltaDone(p)
    BY <1>1, <2>2, <2>4, <2>11 DEF DeltaDone, Process, Moved
  <2>12. CASE BorosDone(p)
    BY <1>1, <2>2, <2>4, <2>12 DEF BorosDone, Goto, Process, Moved
  <2>13. ASSUME NEW x \in Symbols, ReduceHedge(p, x) PROVE GuardInv'
    <3>1. /\ r.pc = IF x \in OpenPairs(mem[p]) THEN "trim" ELSE "rails"
          /\ r.sym = x /\ r.op = "update"
      <4>1. PICK rest \in ReducedBy(p, x) :
              proc' = [proc EXCEPT ![p].pc = IF x \in OpenPairs(mem[p]) THEN "trim" ELSE "rails",
                                   ![p].sym = x, ![p].todo = rest, ![p].reduced = @ \cup {x}]
        BY <2>13, Zenon DEF ReduceHedge
      <4> QED
        BY <1>1, <2>2, <4>1 DEF Process
    <3>2. UNCHANGED <<disk, mem>> /\ (x \in OpenPairs(mem[p]) => mem[p].pairs[x].lot > 0)
      BY <2>13 DEF ReduceHedge
    <3> QED
      BY <1>3, <2>1, <2>2, <3>1, <3>2 DEF Guards
  <2>14. ASSUME NEW x \in Symbols, NEW pair, NEW b, Keep(p, b), b.halted = mem[p].halted,
                b.pairs = [mem[p].pairs EXCEPT ![x] = pair],
                pair.status = "open" => mem[p].pairs[x].status = "open",
                r.pc \in {"rails", "boros"}, r.op = "update"
         PROVE  GuardInv'
    <3>1. mem'[p] = b /\ disk' = disk
      BY <1>1, <2>14 DEF Keep
    <3>2. \A y \in Symbols : b.pairs[y] = IF y = x THEN pair ELSE mem[p].pairs[y]
      BY <1>1, <2>14 DEF Book
    <3> QED
      BY <1>6, <2>1, <2>2, <2>14, <3>1, <3>2
  <2>15. ASSUME NEW x \in Symbols, BorosStep(p, x) PROVE GuardInv'
    <3> DEFINE pair == [mem[p].pairs[x] EXCEPT !.lock = ~mem[p].pairs[x].lock]
               b == WithPair(mem[p], x, pair)
    <3>1. pair.status = mem[p].pairs[x].status
      BY <1>1 DEF Book, Pair
    <3>2. Keep(p, b) /\ r.pc = "boros" /\ r.op = "update"
      BY <1>1, <2>2, <2>15 DEF BorosStep, At, Process
    <3> HIDE DEF pair
    <3>3. b.halted = mem[p].halted /\ b.pairs = [mem[p].pairs EXCEPT ![x] = pair]
      BY <1>1, <1>8
    <3> HIDE DEF b
    <3> QED
      BY <2>14, <3>1, <3>2, <3>3
  <2>16. CASE TrimRefused(p) \/ TrimSpot(p)
    <3>1. proc[p].sym \in Symbols /\ PairOf(p) \in Pair /\ PairOf(p) = mem[p].pairs[proc[p].sym]
      BY <1>1, <2>16, ReadTypes, Zenon DEF TrimRefused, TrimSpot, At, Working, PairOf
    <3>2. r.pc = "rails" /\ r.op = "update"
      BY <1>1, <2>2, <2>16 DEF TrimRefused, TrimSpot, Goto, Process
    <3>3. CASE TrimRefused(p)
      <4> DEFINE pair == [PairOf(p) EXCEPT !.status = "impaired"]
                 b == WithPair(mem[p], proc[p].sym, pair)
      <4>1. pair.status = "impaired" /\ Keep(p, b)
        BY <3>1, <3>3 DEF TrimRefused, Pair
      <4> HIDE DEF pair
      <4>2. b.halted = mem[p].halted /\ b.pairs = [mem[p].pairs EXCEPT ![proc[p].sym] = pair]
        BY <1>8
      <4> HIDE DEF b
      <4> QED
        BY <2>14, <3>1, <3>2, <4>1, <4>2
    <3>4. CASE TrimSpot(p)
      <4> DEFINE pair == [PairOf(p) EXCEPT !.lot = @ - Half(@), !.value = @ - Half(@)]
                 c == WithPair(mem[p], proc[p].sym, pair)
                 b == [c EXCEPT !.ref = Most(@ - Half(PairOf(p).value), 0)]
      <4>1. pair.status = PairOf(p).status /\ Keep(p, b)
        BY <3>1, <3>4, Zenon DEF TrimSpot, Pair
      <4> HIDE DEF pair
      <4>2. c.halted = mem[p].halted /\ c.pairs = [mem[p].pairs EXCEPT ![proc[p].sym] = pair]
        BY <1>8
      <4>3. b.halted = c.halted /\ b.pairs = c.pairs
        OBVIOUS
      <4> HIDE DEF b, c
      <4> QED
        BY <2>14, <3>1, <3>2, <4>1, <4>2, <4>3
    <3> QED
      BY <2>16, <3>3, <3>4
  <2> QED
    BY <1>13, <2>3, <2>4, <2>5, <2>6, <2>7, <2>8, <2>9, <2>10, <2>11, <2>12, <2>13, <2>15, <2>16
    DEF Update
<1> QED
  BY <1>9, <1>10, <1>11, <1>12, <1>13 DEF Step

\* The guards of a step hold when the process was well guarded before.
LEMMA GuardsInductive == OneProcess /\ TypesInv /\ GuardInv /\ [Next]_vars => GuardInv'
<1>1. CASE UNCHANGED vars
  BY <1>1 DEF vars, GuardInv, At
<1> QED
  BY <1>1, StepGuards DEF Next, Step

\* What a growing position says of the file, whatever fails.
LEMMA GrowthIsGuarded ==
  ASSUME TypesInv, GuardInv, NEW p \in Procs, Step(p), NEW s \in Symbols,
         short'[s] > short[s] \/ own'[s] > own[s]
  PROVE  disk.pairs[s].status \in {"opening", "open"} /\ ~disk.halted
<1>1. ~At(p, "idle") => Guards(proc[p], mem[p], disk)
  BY DEF GuardInv
<1>2. At(p, "trim") => PairOf(p).lot > 0
  BY <1>1 DEF Guards, At, PairOf
<1>3. CASE s = proc[p].sym /\ (OpenHedge(p) \/ OpenSpot(p) \/ OpenPaired(p))
  BY <1>1, <1>3 DEF OpenHedge, OpenSpot, OpenPaired, At, Guards
<1>4. CASE Rebalance(p, s)
  BY <1>1, <1>4 DEF Rebalance, OpenPairs, At, Guards
<1> QED
  BY <1>2, <1>3, <1>4, WhoGrows

\* A pair the book does not show as healthy is never grown, whatever fails: one
\* process at a time.
THEOREM RecoveryTheorem ==
  ASSUME OneProcess
  PROVE  Spec => RecoveryOnlyShrinks
<1> DEFINE IInv == TypesInv /\ GuardInv
           Shrinks == \A s \in Symbols :
                        disk.pairs[s].status \in {"half_open", "closing", "impaired"} =>
                          short'[s] <= short[s] /\ own'[s] <= own[s]
<1>1. Init => IInv
  BY InitTypes DEF Init, GuardInv, At, Idle
<1>2. IInv /\ [Next]_vars => IInv'
  BY OneProcess, StepTypes, GuardsInductive
<1>3. IInv /\ [Next]_vars => [Shrinks]_vars
  <2> SUFFICES ASSUME IInv, NEW p \in Procs, Step(p), NEW s \in Symbols,
                      disk.pairs[s].status \in {"half_open", "closing", "impaired"}
               PROVE  short'[s] <= short[s] /\ own'[s] <= own[s]
    BY DEF Next, Step
  <2>1. ~(short'[s] > short[s] \/ own'[s] > own[s])
    BY GrowthIsGuarded
  <2> QED
    BY <2>1, StepTypes, StepVenueTypes DEF TypesInv, TypeOK
<1> HIDE DEF IInv, Shrinks
<1>4. Spec => [][Shrinks]_vars
  BY <1>1, <1>2, <1>3, PTL DEF Spec
<1> QED
  BY <1>4 DEF RecoveryOnlyShrinks, Shrinks

\* While the book is halted nothing is bought or sold short, whatever fails: one
\* process at a time.
THEOREM HaltedTheorem ==
  ASSUME OneProcess
  PROVE  Spec => HaltedOpensNothing
<1> DEFINE IInv == TypesInv /\ GuardInv
           Stays == \A s \in Symbols :
                      short'[s] > short[s] \/ own'[s] > own[s] => ~disk.halted
<1>1. Init => IInv
  BY InitTypes DEF Init, GuardInv, At, Idle
<1>2. IInv /\ [Next]_vars => IInv'
  BY OneProcess, StepTypes, GuardsInductive
<1>3. IInv /\ [Next]_vars => [Stays]_vars
  BY GrowthIsGuarded DEF Next, Step
<1> HIDE DEF IInv, Stays
<1>4. Spec => [][Stays]_vars
  BY <1>1, <1>2, <1>3, PTL DEF Spec
<1> QED
  BY <1>4 DEF HaltedOpensNothing, Stays

-----------------------------------------------------------------------------
(* The drawdown reference is a sum over the symbols.  The library's          *)
(* inductions over finite sets take an operator, so the facts about the sum  *)
(* come from a smallest counterexample instead (WFMin).                      *)

\* The element a sum takes next.
Pick(T) == CHOOSE x \in T : TRUE

\* The values of the symbols of S, summed.
Total(pairs, S) == MapThenSumSet(LAMBDA s : pairs[s].value, S)

\* f solves the recursive definition of the sum on the subsets of S.
IsSum(f, pairs, S) ==
  f = [T \in SUBSET S |-> IF T = {} THEN 0
                          ELSE pairs[Pick(T)].value + f[T \ {Pick(T)}]]

\* A nonempty family of subsets of a finite set has a smallest member.
LEMMA Smallest ==
  ASSUME NEW S, IsFiniteSet(S), NEW F, F \subseteq SUBSET S, F # {}
  PROVE  \E T \in F : \A U \in F : U \subseteq T => U = T
<1>1. IsWellFoundedOn(StrictSubsetOrdering(S), FiniteSubsetsOf(S))
  BY FS_StrictSubsetOrderingWellFounded
<1>2. FiniteSubsetsOf(S) = SUBSET S
  BY FS_FiniteSubsetsOfFinite
<1>3. \E T \in F : \A U \in F : <<U, T>> \notin StrictSubsetOrdering(S)
  BY <1>1, <1>2, WFMin, Zenon
<1>4. PICK T \in F : \A U \in F : <<U, T>> \notin StrictSubsetOrdering(S)
  BY <1>3
<1>5. ASSUME NEW U \in F, U \subseteq T
      PROVE  U = T
  <2>1. <<U, T>> \notin StrictSubsetOrdering(S)
    BY <1>4
  <2> QED BY <1>5, <2>1 DEF StrictSubsetOrdering
<1> QED BY <1>5

\* The element the sum takes next is one of the set.
LEMMA PickIn == ASSUME NEW T, T # {} PROVE Pick(T) \in T
BY DEF Pick

\* A sum is what the function of its recursive definition yields for the set.
LEMMA TotalIsSum ==
  ASSUME NEW S, NEW pairs
  PROVE  Total(pairs, S) = (CHOOSE f : IsSum(f, pairs, S))[S]
BY DEF Total, IsSum, Pick, MapThenSumSet, MapThenFoldSet

\* Such a function adds the chosen element to the sum of the rest.
LEMMA SumUnfolds ==
  ASSUME NEW S, NEW pairs, NEW f, IsSum(f, pairs, S), NEW T \in SUBSET S
  PROVE  f[T] = IF T = {} THEN 0 ELSE pairs[Pick(T)].value + f[T \ {Pick(T)}]
BY DEF IsSum

\* Two such functions agree wherever both are defined: the smallest set on which
\* they differ would have a smaller one.
LEMMA SumsAgree ==
  ASSUME NEW S, NEW R, NEW pairs, IsFiniteSet(S),
         NEW f, IsSum(f, pairs, S), NEW g, IsSum(g, pairs, R),
         NEW T \in (SUBSET S) \cap (SUBSET R)
  PROVE  f[T] = g[T]
<1> DEFINE Bad == {U \in (SUBSET S) \cap (SUBSET R) : f[U] # g[U]}
<1>1. SUFFICES ASSUME Bad # {} PROVE FALSE
  OBVIOUS
<1>2. PICK U \in Bad : \A V \in Bad : V \subseteq U => V = U
  <2>1. Bad \subseteq SUBSET S
    OBVIOUS
  <2> HIDE DEF Bad
  <2> QED BY <1>1, <2>1, Smallest
<1>3. U \in SUBSET S /\ U \in SUBSET R /\ f[U] # g[U]
  OBVIOUS
<1>4. U # {}
  BY <1>3, SumUnfolds
<1>5. Pick(U) \in U
  BY <1>4, PickIn
<1>6. f[U \ {Pick(U)}] = g[U \ {Pick(U)}]
  <2>1. U \ {Pick(U)} \in (SUBSET S) \cap (SUBSET R)
    BY <1>3
  <2>2. U \ {Pick(U)} \subseteq U /\ U \ {Pick(U)} # U
    BY <1>5
  <2>3. U \ {Pick(U)} \notin Bad
    BY <2>2, <1>2
  <2> QED BY <2>1, <2>3
<1>7. f[U] = pairs[Pick(U)].value + f[U \ {Pick(U)}]
  BY <1>3, <1>4, SumUnfolds
<1>8. g[U] = pairs[Pick(U)].value + g[U \ {Pick(U)}]
  BY <1>3, <1>4, SumUnfolds
<1> QED BY <1>3, <1>6, <1>7, <1>8

\* Such a function exists for every finite set: if it did not for some smallest
\* set, it could be put together from those of its subsets.
LEMMA SumExists ==
  ASSUME NEW S, NEW pairs, IsFiniteSet(S)
  PROVE  \E f : IsSum(f, pairs, S)
<1> DEFINE Bad == {T \in SUBSET S : ~ \E f : IsSum(f, pairs, T)}
<1>1. SUFFICES ASSUME Bad # {} PROVE FALSE
  OBVIOUS
<1>2. PICK T \in Bad : \A U \in Bad : U \subseteq T => U = T
  <2>1. Bad \subseteq SUBSET S
    OBVIOUS
  <2> HIDE DEF Bad
  <2> QED BY <1>1, <2>1, Smallest
<1>3. T \in SUBSET S /\ ~ \E f : IsSum(f, pairs, T)
  OBVIOUS
<1>4. ASSUME NEW U \in SUBSET T, U # T
      PROVE  IsSum(CHOOSE f : IsSum(f, pairs, U), pairs, U)
  <2>1. U \in SUBSET S
    BY <1>3
  <2>2. U \notin Bad
    BY <1>2, <1>4
  <2>3. \E f : IsSum(f, pairs, U)
    BY <2>1, <2>2
  <2> QED BY <2>3
<1> HIDE DEF Bad
<1> DEFINE Of(U) == (CHOOSE f : IsSum(f, pairs, U))[U]
           g == [U \in SUBSET T |-> IF U = {} THEN 0
                                    ELSE pairs[Pick(U)].value + Of(U \ {Pick(U)})]
<1>5. ASSUME NEW U \in SUBSET T, U # T
      PROVE  g[U] = Of(U)
  <2> DEFINE f == CHOOSE k : IsSum(k, pairs, U)
             V == U \ {Pick(U)}
             h == CHOOSE k : IsSum(k, pairs, V)
  <2>1. IsSum(f, pairs, U)
    BY <1>4, <1>5
  <2>2. CASE U = {}
    <3>1. f[U] = 0
      <4> HIDE DEF f
      <4> QED BY <2>1, <2>2, SumUnfolds
    <3> QED BY <3>1, <2>2
  <2>3. CASE U # {}
    <3>1. Pick(U) \in U
      BY <2>3, PickIn
    <3>2. V \in SUBSET T /\ V # T /\ V \in SUBSET U
      BY <3>1
    <3>3. IsSum(h, pairs, V)
      BY <3>2, <1>4
    <3>4. f[V] = h[V]
      <4>1. IsFiniteSet(U)
        BY <1>3, FS_Subset
      <4>2. V \in (SUBSET U) \cap (SUBSET V)
        BY <3>2
      <4> HIDE DEF f, h, V
      <4> QED BY <2>1, <3>3, <4>1, <4>2, SumsAgree
    <3>5. f[U] = pairs[Pick(U)].value + f[V]
      <4> HIDE DEF f
      <4> QED BY <2>1, <2>3, SumUnfolds
    <3> QED BY <3>4, <3>5, <2>3
  <2> QED BY <2>2, <2>3
<1>6. IsSum(g, pairs, T)
  <2>1. ASSUME NEW U \in SUBSET T, U # {}
        PROVE  Of(U \ {Pick(U)}) = g[U \ {Pick(U)}]
    <3>1. Pick(U) \in U
      BY <2>1, PickIn
    <3>2. U \ {Pick(U)} \in SUBSET T /\ U \ {Pick(U)} # T
      BY <3>1
    <3> QED BY <3>2, <1>5
  <2>2. g = [U \in SUBSET T |-> IF U = {} THEN 0
                                ELSE pairs[Pick(U)].value + g[U \ {Pick(U)}]]
    <3>1. \A U \in SUBSET T : (IF U = {} THEN 0 ELSE pairs[Pick(U)].value + Of(U \ {Pick(U)}))
                 = (IF U = {} THEN 0 ELSE pairs[Pick(U)].value + g[U \ {Pick(U)}])
      <4> HIDE DEF Of, g
      <4> QED BY <2>1
    <3> HIDE DEF Of
    <3> QED BY <3>1, Zenon
  <2> QED BY <2>2 DEF IsSum
<1> QED BY <1>3, <1>6

\* The sum of nothing is zero, and any other adds the chosen element to the sum of
\* the rest.
LEMMA TotalUnfolds ==
  ASSUME NEW S, NEW pairs, IsFiniteSet(S)
  PROVE  /\ Total(pairs, {}) = 0
         /\ S # {} => /\ Pick(S) \in S
                      /\ Total(pairs, S) = pairs[Pick(S)].value
                                           + Total(pairs, S \ {Pick(S)})
<1> DEFINE Chosen(T) == CHOOSE f : IsSum(f, pairs, T)
           R == S \ {Pick(S)}
<1>1. ASSUME NEW T \in SUBSET S
      PROVE  IsSum(Chosen(T), pairs, T) /\ IsFiniteSet(T)
  <2>1. IsFiniteSet(T)
    BY FS_Subset
  <2>2. \E f : IsSum(f, pairs, T)
    BY <2>1, SumExists
  <2> QED BY <2>1, <2>2
<1>2. \A T : Total(pairs, T) = Chosen(T)[T]
  BY TotalIsSum
<1>3. {} \in SUBSET S /\ S \in SUBSET S /\ R \in SUBSET S
  OBVIOUS
<1> HIDE DEF Chosen, R
<1>4. Total(pairs, {}) = 0
  BY <1>1, <1>2, <1>3, SumUnfolds
<1>5. ASSUME S # {}
      PROVE  Total(pairs, S) = pairs[Pick(S)].value + Total(pairs, R)
  <2>1. Chosen(S)[S] = pairs[Pick(S)].value + Chosen(S)[R]
    <3>1. IsSum(Chosen(S), pairs, S)
      BY <1>1, <1>3
    <3> QED BY <1>3, <1>5, <3>1, SumUnfolds DEF R
  <2>2. Chosen(S)[R] = Chosen(R)[R]
    <3>1. R \in (SUBSET S) \cap (SUBSET R)
      BY <1>3
    <3>2. IsSum(Chosen(S), pairs, S) /\ IsSum(Chosen(R), pairs, R) /\ IsFiniteSet(S)
      BY <1>1, <1>3
    <3> QED BY <3>1, <3>2, SumsAgree
  <2> QED BY <1>2, <2>1, <2>2
<1> QED BY <1>4, <1>5, PickIn DEF R

\* A sum of values is a natural number.
LEMMA TotalNat ==
  ASSUME NEW S, NEW pairs, IsFiniteSet(S), \A s \in S : pairs[s].value \in Nat
  PROVE  Total(pairs, S) \in Nat
<1> DEFINE Bad == {T \in SUBSET S : Total(pairs, T) \notin Nat}
<1>1. SUFFICES ASSUME Bad # {} PROVE FALSE
  OBVIOUS
<1>2. PICK T \in Bad : \A U \in Bad : U \subseteq T => U = T
  <2>1. Bad \subseteq SUBSET S
    OBVIOUS
  <2> HIDE DEF Bad
  <2> QED BY <1>1, <2>1, Smallest
<1>3. T \in SUBSET S /\ Total(pairs, T) \notin Nat /\ IsFiniteSet(T)
  BY FS_Subset
<1>4. /\ T # {} /\ Pick(T) \in T
      /\ Total(pairs, T) = pairs[Pick(T)].value + Total(pairs, T \ {Pick(T)})
  <2>1. Total(pairs, {}) = 0
    BY FS_EmptySet, TotalUnfolds
  <2>2. T # {}
    BY <1>3, <2>1
  <2> HIDE DEF Bad
  <2> QED BY <1>3, <2>2, TotalUnfolds
<1> DEFINE R == T \ {Pick(T)}
<1>5. Total(pairs, R) \in Nat
  <2>1. R \in SUBSET S /\ R \subseteq T /\ R # T
    BY <1>3, <1>4
  <2> HIDE DEF R
  <2> QED BY <1>2, <2>1
<1> QED BY <1>3, <1>4, <1>5

\* A sum of zeros is zero.
LEMMA TotalZero ==
  ASSUME NEW S, NEW pairs, IsFiniteSet(S), \A s \in S : pairs[s].value = 0
  PROVE  Total(pairs, S) = 0
<1> DEFINE Bad == {T \in SUBSET S : Total(pairs, T) # 0}
<1>1. SUFFICES ASSUME Bad # {} PROVE FALSE
  OBVIOUS
<1>2. PICK T \in Bad : \A U \in Bad : U \subseteq T => U = T
  <2>1. Bad \subseteq SUBSET S
    OBVIOUS
  <2> HIDE DEF Bad
  <2> QED BY <1>1, <2>1, Smallest
<1>3. T \in SUBSET S /\ Total(pairs, T) # 0 /\ IsFiniteSet(T)
  BY FS_Subset
<1>4. /\ T # {} /\ Pick(T) \in T
      /\ Total(pairs, T) = pairs[Pick(T)].value + Total(pairs, T \ {Pick(T)})
  <2>1. Total(pairs, {}) = 0
    BY FS_EmptySet, TotalUnfolds
  <2>2. T # {}
    BY <1>3, <2>1
  <2> HIDE DEF Bad
  <2> QED BY <1>3, <2>2, TotalUnfolds
<1> DEFINE R == T \ {Pick(T)}
<1>5. Total(pairs, R) = 0
  <2>1. R \in SUBSET S /\ R \subseteq T /\ R # T
    BY <1>3, <1>4
  <2> HIDE DEF R
  <2> QED BY <1>2, <2>1
<1> QED BY <1>3, <1>4, <1>5

\* Two books that differ in the value of one symbol differ by as much in their sum.
LEMMA TotalChanges ==
  ASSUME NEW S, NEW a, NEW b, NEW x \in S, IsFiniteSet(S),
         \A s \in S : a[s].value \in Nat /\ b[s].value \in Nat,
         \A s \in S \ {x} : a[s].value = b[s].value
  PROVE  Total(a, S) + b[x].value = Total(b, S) + a[x].value
<1> DEFINE Holds(T) == IF x \in T
                       THEN Total(a, T) + b[x].value = Total(b, T) + a[x].value
                       ELSE Total(a, T) = Total(b, T)
           Bad == {T \in SUBSET S : ~Holds(T)}
<1>1. SUFFICES ASSUME Bad # {} PROVE FALSE
  <2>1. S \in SUBSET S /\ (Holds(S) => Total(a, S) + b[x].value = Total(b, S) + a[x].value)
    OBVIOUS
  <2> HIDE DEF Holds
  <2> QED BY <2>1
<1>2. PICK T \in Bad : \A U \in Bad : U \subseteq T => U = T
  <2>1. Bad \subseteq SUBSET S
    OBVIOUS
  <2> HIDE DEF Bad
  <2> QED BY <1>1, <2>1, Smallest
<1>3. T \in SUBSET S /\ ~Holds(T) /\ IsFiniteSet(T)
  <2>1. T \in SUBSET S /\ ~Holds(T)
    <3> HIDE DEF Holds
    <3> QED OBVIOUS
  <2> HIDE DEF Bad, Holds
  <2> QED BY <2>1, FS_Subset
<1> DEFINE y == Pick(T)
           R == T \ {y}
<1>4. T # {}
  BY <1>3, TotalUnfolds
<1>5. /\ y \in T
      /\ Total(a, T) = a[y].value + Total(a, R)
      /\ Total(b, T) = b[y].value + Total(b, R)
  BY <1>3, <1>4, TotalUnfolds
<1>6. Holds(R)
  <2>1. R \in SUBSET S /\ R \subseteq T /\ R # T
    BY <1>3, <1>5
  <2> HIDE DEF Holds, R
  <2> QED BY <1>2, <2>1
<1>7. Total(a, R) \in Nat /\ Total(b, R) \in Nat
  <2>1. R \in SUBSET S /\ IsFiniteSet(R)
    BY <1>3, FS_Subset
  <2> HIDE DEF R
  <2> QED BY <2>1, TotalNat
<1>8. y \in S /\ y \in T
  BY <1>3, <1>5
<1> HIDE DEF y
<1>9. CASE y = x
  BY <1>3, <1>5, <1>6, <1>7, <1>8, <1>9
<1>10. CASE y # x
  BY <1>3, <1>5, <1>6, <1>7, <1>8, <1>10
<1> QED BY <1>9, <1>10

\* No value is larger than the sum.
LEMMA TotalCovers ==
  ASSUME NEW S, NEW pairs, NEW x \in S, IsFiniteSet(S),
         \A s \in S : pairs[s].value \in Nat
  PROVE  pairs[x].value <= Total(pairs, S)
<1> DEFINE rest == [s \in S |-> [value |-> IF s = x THEN 0 ELSE pairs[s].value]]
<1>1. /\ rest[x].value = 0
      /\ \A s \in S : rest[s].value \in Nat
      /\ \A s \in S \ {x} : rest[s].value = pairs[s].value
  OBVIOUS
<1> HIDE DEF rest
<1>2. Total(pairs, S) \in Nat /\ Total(rest, S) \in Nat
  BY <1>1, TotalNat
<1>3. Total(pairs, S) + rest[x].value = Total(rest, S) + pairs[x].value
  BY <1>1, TotalChanges
<1> QED BY <1>1, <1>2, <1>3

\* A book whose reference is the sum of its values; a pair that is not open yet
\* counts for nothing.
Balanced(b) ==
  /\ b.ref = Total(b.pairs, Symbols)
  /\ \A s \in Symbols : b.pairs[s].status \in {"none", "opening"} => b.pairs[s].value = 0

Opening == {"hedge", "spot", "paired", "filled", "failed"}

\* What an open knows of the record it works on.
Fresh(r, pair) ==
  /\ r.pc = "record" => pair.status = "none"
  /\ r.pc \in Opening => pair.status = "opening"

BalanceInv ==
  /\ Balanced(disk)
  /\ \A p \in Procs : Balanced(mem[p]) /\ Fresh(proc[p], PairOf(p))

\* The empty book is balanced.
LEMMA EmptyBalanced == Balanced(EmptyBook)
<1>1. \A s \in Symbols : EmptyBook.pairs[s].value = 0
  BY DEF EmptyBook, NoPair
<1>2. Total(EmptyBook.pairs, Symbols) = 0
  BY <1>1, TotalZero, HarvesterAssumption
<1>3. EmptyBook.ref = 0
  BY DEF EmptyBook
<1> QED
  BY <1>1, <1>2, <1>3 DEF Balanced

\* A value that changes with the reference leaves the book balanced.
LEMMA ChangeBalances ==
  ASSUME NEW b \in Book, Balanced(b), NEW x \in Symbols, NEW pair \in Pair,
         pair.status \in {"none", "opening"} => pair.value = 0,
         NEW c, c.pairs = [b.pairs EXCEPT ![x] = pair], c.ref \in Nat,
         c.ref + b.pairs[x].value = b.ref + pair.value
  PROVE  Balanced(c)
<1>1. /\ \A s \in Symbols : b.pairs[s] \in Pair
      /\ \A s \in Symbols : c.pairs[s] = IF s = x THEN pair ELSE b.pairs[s]
      /\ \A q \in Pair : q.value \in Nat
  BY DEF Book, Pair
<1>2. /\ \A s \in Symbols : c.pairs[s].value \in Nat /\ b.pairs[s].value \in Nat
      /\ \A s \in Symbols \ {x} : c.pairs[s].value = b.pairs[s].value
      /\ c.pairs[x].value = pair.value
  BY <1>1
<1>3. Total(c.pairs, Symbols) \in Nat /\ Total(b.pairs, Symbols) \in Nat
  BY <1>2, TotalNat, HarvesterAssumption
<1>4. Total(c.pairs, Symbols) + b.pairs[x].value = Total(b.pairs, Symbols) + pair.value
  <2> DEFINE u == c.pairs
             v == b.pairs
  <2>1. /\ \A s \in Symbols : u[s].value \in Nat /\ v[s].value \in Nat
        /\ \A s \in Symbols \ {x} : u[s].value = v[s].value
    BY <1>2
  <2> HIDE DEF u, v
  <2>2. Total(u, Symbols) + v[x].value = Total(v, Symbols) + u[x].value
    BY <2>1, TotalChanges, HarvesterAssumption
  <2> QED
    BY <1>2, <2>2 DEF u, v
<1>5. b.ref = Total(b.pairs, Symbols)
  BY DEF Balanced
<1>6. c.ref = Total(c.pairs, Symbols)
  BY <1>2, <1>3, <1>4, <1>5
<1> QED
  BY <1>1, <1>6 DEF Balanced

\* A record whose value stays leaves the book balanced.
LEMMA SameValueBalances ==
  ASSUME NEW b \in Book, Balanced(b), NEW x \in Symbols, NEW pair \in Pair,
         pair.status \in {"none", "opening"} => pair.value = 0,
         pair.value = b.pairs[x].value
  PROVE  Balanced(WithPair(b, x, pair))
<1> DEFINE c == WithPair(b, x, pair)
<1>1. c.ref \in Nat /\ c.ref = b.ref /\ c.pairs = [b.pairs EXCEPT ![x] = pair]
  BY WithPairIsBook DEF Book
<1> HIDE DEF c
<1>2. c.ref + b.pairs[x].value = b.ref + pair.value
  BY <1>1
<1>3. Balanced(c)
  BY <1>1, <1>2, ChangeBalances
<1> QED
  BY <1>3 DEF c

\* The reference covers each value.
LEMMA RefCovers ==
  ASSUME NEW b \in Book, Balanced(b), NEW x \in Symbols
  PROVE  b.pairs[x].value \in Nat /\ b.pairs[x].value <= b.ref
<1>1. \A s \in Symbols : b.pairs[s].value \in Nat
  BY DEF Book, Pair
<1> QED
  BY <1>1, TotalCovers, HarvesterAssumption DEF Balanced

\* Every step leaves the file and the copy of the process that takes it balanced,
\* and the other copies alone.
LEMMA StepBooksBalanced ==
  ASSUME TypesInv, BalanceInv, NEW p \in Procs, Step(p)
  PROVE  /\ Balanced(disk') /\ Balanced(mem'[p])
         /\ \A q \in Procs \ {p} : mem'[q] = mem[q]
<1> DEFINE Kept == /\ Balanced(disk') /\ Balanced(mem'[p])
                   /\ \A q \in Procs \ {p} : mem'[q] = mem[q]
<1>0. /\ mem \in [Procs -> Book] /\ mem[p] \in Book /\ disk \in Book
      /\ proc[p].pc \in Working => proc[p].sym \in Symbols
      /\ Balanced(disk) /\ Balanced(mem[p])
  BY DEF TypesInv, TypeOK, SymInv, BalanceInv
<1>1. ASSUME NEW b, Balanced(b),
             Save(p, b) \/ Keep(p, b) \/ SaveAndExit(p, b) \/ Continue(p, b)
      PROVE  Kept
  BY <1>0, <1>1, EmptyBalanced DEF Save, Keep, SaveAndExit, Continue, Ends
<1>2. ASSUME Exit(p) \/ Load(p) \/ UNCHANGED <<disk, mem>> PROVE Kept
  BY <1>0, <1>2, EmptyBalanced DEF Exit, Load, Ends
<1>3. /\ \A h \in BOOLEAN : Balanced([disk EXCEPT !.halted = h])
      /\ Balanced([mem[p] EXCEPT !.halted = TRUE])
  BY <1>0 DEF Balanced, Book
<1>4. proc[p].sym \in Symbols =>
        PairOf(p) \in Pair /\ PairOf(p) = mem[p].pairs[proc[p].sym]
  BY ReadTypes DEF PairOf
<1>5. /\ \A s \in Symbols : mem[p].pairs[s] \in Pair /\ mem[p].pairs[s].value \in Nat
      /\ \A s \in Symbols : mem[p].pairs[s].status \in {"none", "opening"} =>
                              mem[p].pairs[s].value = 0
      /\ mem[p].ref \in Nat
  BY <1>0 DEF Book, Pair, Balanced
<1> SUFFICES Kept
  OBVIOUS
<1> HIDE DEF Kept
<1>6. ASSUME NEW x \in Symbols, NEW pair \in Pair,
             pair.status \in {"none", "opening"} => pair.value = 0,
             pair.value = mem[p].pairs[x].value,
             LET b == WithPair(mem[p], x, pair)
             IN  Save(p, b) \/ Keep(p, b) \/ SaveAndExit(p, b) \/ Continue(p, b)
      PROVE  Kept
  <2>1. Balanced(WithPair(mem[p], x, pair))
    BY <1>0, <1>6, SameValueBalances
  <2> QED
    BY <1>1, <1>6, <2>1
<1>7. CASE Start(p)
  BY <1>1, <1>2, <1>3, <1>7
  DEF Start, StartDeposit, StartLock, StartUnlock, StartUnwind, StartRotate, StartUpdate,
      StartQuote, StartExit
<1>8. CASE Deposit(p)
  <2>1. CASE OpenHedge(p) \/ OpenSpot(p) \/ SpotRefused(p) \/ OpenPaired(p)
    BY <1>2, <2>1 DEF OpenHedge, OpenSpot, SpotRefused, OpenPaired
  <2>2. CASE DepositRefused(p)
    BY <1>0, <1>1, <1>2, <2>2 DEF DepositRefused
  <2>3. ASSUME NEW l \in SpotLegs, DepositAccepted(p, l) PROVE Kept
    BY <1>0, <2>3 DEF DepositAccepted, Kept
  <2>4. CASE DepositRecord(p)
    <3>1. /\ proc[p].sym \in Symbols /\ proc[p].leg \in SpotLegs \cup {"none"}
          /\ PairOf(p).status = "none"
      BY <1>0, <2>4 DEF DepositRecord, At, Working, Process, TypesInv, TypeOK, BalanceInv, Fresh
    <3>2. PICK n \in Balance(proc[p].sym, proc[p].leg) :
            Save(p, WithPair(mem[p], proc[p].sym,
                             [NoPair EXCEPT !.status = "opening", !.leg = proc[p].leg,
                                            !.pre = n]))
      BY <2>4, Zenon DEF DepositRecord
    <3>3. n \in Nat
      BY <3>1, <3>2, ReadTypes
    <3> DEFINE pair == [NoPair EXCEPT !.status = "opening", !.leg = proc[p].leg, !.pre = n]
    <3>4. pair \in Pair
      BY <3>1, <3>3, EmptyTypes, PairChanges, Zenon
    <3>5. pair.value = 0
      BY DEF NoPair
    <3>6. mem[p].pairs[proc[p].sym].value = 0
      BY <1>4, <1>5, <3>1
    <3>7. Save(p, WithPair(mem[p], proc[p].sym, pair))
      BY <3>2
    <3> HIDE DEF pair
    <3> QED
      BY <1>6, <3>1, <3>4, <3>5, <3>6, <3>7
  <2>5. ASSUME proc[p].pc \in Opening
        PROVE  /\ proc[p].sym \in Symbols /\ PairOf(p).value = 0 /\ PairOf(p) \in Pair
               /\ PairOf(p).status = "opening"
    <3>1. proc[p].sym \in Symbols
      BY <1>0, <2>5 DEF Opening, Working
    <3>2. PairOf(p).status = "opening"
      BY <2>5 DEF BalanceInv, Fresh
    <3> QED
      BY <1>4, <1>5, <3>1, <3>2
  <2>6. CASE OpenRefused(p)
    <3>1. proc[p].pc \in Opening
      BY <2>6 DEF OpenRefused, At, Opening
    <3>2. NoPair \in Pair /\ NoPair.value = 0
      BY EmptyTypes DEF NoPair
    <3> QED
      BY <1>4, <1>6, <2>5, <2>6, <3>1, <3>2 DEF OpenRefused
  <2>7. CASE DepositFailed(p)
    <3>1. proc[p].pc \in Opening
      BY <2>7 DEF DepositFailed, At, Opening
    <3>2. PICK n \in Added(p) \cup {0} :
            Continue(p, WithPair(mem[p], proc[p].sym,
                                 [PairOf(p) EXCEPT !.status = "half_open", !.lot = n]))
      BY <2>7, Zenon DEF DepositFailed
    <3> DEFINE pair == [PairOf(p) EXCEPT !.status = "half_open", !.lot = n]
    <3>3. pair \in Pair
      BY <2>5, <3>1, <3>2, ReadTypes, PairChanges, Zenon DEF Status
    <3>4. pair.value = PairOf(p).value
      BY <2>5, <3>1 DEF Pair
    <3>5. Continue(p, WithPair(mem[p], proc[p].sym, pair))
      BY <3>2
    <3> HIDE DEF pair
    <3>6. pair.value = 0 /\ mem[p].pairs[proc[p].sym].value = 0 /\ proc[p].sym \in Symbols
      BY <1>4, <2>5, <3>1, <3>4
    <3> QED
      BY <1>6, <3>3, <3>5, <3>6
  <2>8. CASE DepositDone(p)
    <3>1. proc[p].pc \in Opening /\ proc[p].units \in Nat
      BY <2>8 DEF DepositDone, At, Opening, TypesInv, TypeOK, Process
    <3>2. PICK n \in IF proc[p].units > 0 THEN {proc[p].units} ELSE Added(p) :
            Continue(p, [WithPair(mem[p], proc[p].sym,
                                  [PairOf(p) EXCEPT !.status = "open", !.lot = n,
                                                    !.value = Full])
                         EXCEPT !.ref = @ + Full])
      BY <2>8, Zenon DEF DepositDone
    <3>3. n \in Nat
      BY <2>5, <3>1, <3>2, ReadTypes
    <3> DEFINE pair == [PairOf(p) EXCEPT !.status = "open", !.lot = n, !.value = Full]
               b == WithPair(mem[p], proc[p].sym, pair)
               c == [b EXCEPT !.ref = @ + Full]
    <3>4. pair \in Pair
      BY <2>5, <3>1, <3>3, PairChanges, HarvesterAssumption, Zenon
    <3>5. pair.status = "open" /\ pair.value = Full
      BY <2>5, <3>1 DEF Pair
    <3>6. Continue(p, c)
      BY <3>2
    <3> HIDE DEF pair
    <3>7. /\ b \in Book /\ b.ref = mem[p].ref
          /\ b.pairs = [mem[p].pairs EXCEPT ![proc[p].sym] = pair]
      BY <1>0, <2>5, <3>1, <3>4, WithPairIsBook
    <3> HIDE DEF b
    <3>8. c.pairs = b.pairs /\ c.ref = b.ref + Full
      BY <3>7 DEF Book
    <3> HIDE DEF c
    <3>9. /\ c.ref \in Nat /\ proc[p].sym \in Symbols
          /\ c.ref + mem[p].pairs[proc[p].sym].value = mem[p].ref + pair.value
      BY <1>4, <1>5, <2>5, <3>1, <3>5, <3>7, <3>8, HarvesterAssumption
    <3>10. c.pairs = [mem[p].pairs EXCEPT ![proc[p].sym] = pair]
      BY <3>7, <3>8
    <3>11. Balanced(c)
      BY <1>0, <3>4, <3>5, <3>9, <3>10, ChangeBalances
    <3> QED
      BY <1>1, <3>6, <3>11
  <2> QED
    BY <1>8, <2>1, <2>2, <2>3, <2>4, <2>6, <2>7, <2>8 DEF Deposit
<1>9. CASE Close(p)
  <2>1. CASE \/ \E s \in Symbols : NextClose(p, s) \/ NothingToClose(p, s)
             \/ UnwindLock(p) \/ SellSpot(p) \/ CoverShort(p)
    BY <1>2, <2>1, Zenon DEF NextClose, NothingToClose, UnwindLock, SellSpot, CoverShort
  <2>2. CASE SellRefused(p)
    BY <1>0, <1>1, <2>2 DEF SellRefused
  <2>3. CASE MarkClosing(p) \/ CoverRefused(p)
    <3>1. proc[p].sym \in Symbols
      BY <1>0, <2>3 DEF MarkClosing, CoverRefused, At, Working
    <3>2. PICK st \in {"closing", "impaired"} :
            \/ Save(p, WithPair(mem[p], proc[p].sym, [PairOf(p) EXCEPT !.status = st]))
            \/ SaveAndExit(p, WithPair(mem[p], proc[p].sym, [PairOf(p) EXCEPT !.status = st]))
      BY <2>3 DEF MarkClosing, CoverRefused
    <3> DEFINE pair == [PairOf(p) EXCEPT !.status = st]
    <3>3. pair \in Pair
      BY <3>1, <1>4, PairChanges, Zenon DEF Status
    <3>4. pair.status = st /\ pair.value = mem[p].pairs[proc[p].sym].value
      BY <1>4, <3>1 DEF Pair
    <3>5. \/ Save(p, WithPair(mem[p], proc[p].sym, pair))
          \/ SaveAndExit(p, WithPair(mem[p], proc[p].sym, pair))
      BY <3>2
    <3> HIDE DEF pair
    <3> QED
      BY <1>6, <3>1, <3>3, <3>4, <3>5
  <2>4. CASE Settle(p)
    <3>1. proc[p].sym \in Symbols
      BY <1>0, <2>4 DEF Settle, At, Working
    <3> DEFINE b == WithPair(mem[p], proc[p].sym, NoPair)
               c == [b EXCEPT !.ref = Most(@ - PairOf(p).value, 0)]
    <3>2. /\ b \in Book /\ b.ref = mem[p].ref
          /\ b.pairs = [mem[p].pairs EXCEPT ![proc[p].sym] = NoPair]
      BY <1>0, <3>1, EmptyTypes, WithPairIsBook
    <3>3. /\ PairOf(p).value \in Nat /\ PairOf(p).value <= mem[p].ref
          /\ PairOf(p).value = mem[p].pairs[proc[p].sym].value
      BY <1>0, <1>4, <3>1, RefCovers
    <3>4. c = Settled(p)
      BY DEF Settled
    <3> HIDE DEF b
    <3>5. c.pairs = b.pairs /\ c.ref = Most(b.ref - PairOf(p).value, 0)
      BY <3>2 DEF Book
    <3> HIDE DEF c
    <3>6. c.ref \in Nat /\ c.ref + PairOf(p).value = mem[p].ref
      BY <1>5, <3>2, <3>3, <3>5 DEF Most
    <3>7. NoPair \in Pair /\ NoPair.value = 0
      BY EmptyTypes DEF NoPair
    <3>8. /\ c.pairs = [mem[p].pairs EXCEPT ![proc[p].sym] = NoPair]
          /\ c.ref + mem[p].pairs[proc[p].sym].value = mem[p].ref + NoPair.value
      BY <1>5, <3>2, <3>3, <3>5, <3>6, <3>7
    <3>9. Balanced(c)
      BY <1>0, <3>1, <3>6, <3>7, <3>8, ChangeBalances
    <3>10. Save(p, c) \/ SaveAndExit(p, c)
      BY <2>4, <3>4 DEF Settle
    <3> QED
      BY <1>1, <3>9, <3>10
  <2> QED
    BY <1>9, <2>1, <2>2, <2>3, <2>4 DEF Close
<1>10. CASE Update(p)
  <2>1. CASE \/ \E s \in Symbols : \/ RailOk(p, s) \/ ReduceRefused(p, s) \/ ReduceHedge(p, s)
                                   \/ NoRebalance(p, s) \/ Rebalance(p, s)
                                   \/ NoBorosStep(p, s)
             \/ \E s, d \in Symbols : Rotate(p, s, d)
             \/ NegativeCarryExit(p) \/ StayPut(p) \/ DeltaDone(p) \/ BorosDone(p)
    BY <1>2, <2>1, Zenon
    DEF RailOk, ReduceRefused, ReduceHedge, NoRebalance, Rebalance, NoBorosStep, Rotate,
        NegativeCarryExit, StayPut, DeltaDone, BorosDone
  <2>2. CASE DrawdownHalt(p) \/ Paused(p) \/ FinalSave(p)
    BY <1>0, <1>1, <1>3, <2>2 DEF DrawdownHalt, Paused, FinalSave
  <2>3. ASSUME NEW s \in Symbols, BorosStep(p, s) PROVE Kept
    <3>1. PICK k \in BOOLEAN :
            Keep(p, WithPair(mem[p], s, [mem[p].pairs[s] EXCEPT !.lock = k]))
      BY <2>3 DEF BorosStep
    <3> DEFINE pair == [mem[p].pairs[s] EXCEPT !.lock = k]
    <3>2. pair \in Pair
      BY <1>5, PairChanges, Zenon
    <3>3. pair.status = mem[p].pairs[s].status /\ pair.value = mem[p].pairs[s].value
      BY <1>5 DEF Pair
    <3>4. Keep(p, WithPair(mem[p], s, pair))
      BY <3>1
    <3> HIDE DEF pair
    <3> QED
      BY <1>5, <1>6, <3>2, <3>3, <3>4
  <2>4. CASE TrimRefused(p)
    <3>1. proc[p].sym \in Symbols
      BY <1>0, <2>4 DEF TrimRefused, At, Working
    <3> DEFINE pair == [PairOf(p) EXCEPT !.status = "impaired"]
    <3>2. pair \in Pair
      BY <3>1, <1>4, PairChanges, Zenon DEF Status
    <3>3. pair.status = "impaired" /\ pair.value = mem[p].pairs[proc[p].sym].value
      BY <1>4, <3>1 DEF Pair
    <3>4. Keep(p, WithPair(mem[p], proc[p].sym, pair))
      BY <2>4 DEF TrimRefused
    <3> HIDE DEF pair
    <3> QED
      BY <1>6, <3>1, <3>2, <3>3, <3>4
  <2>5. CASE TrimSpot(p)
    <3>1. proc[p].sym \in Symbols
      BY <1>0, <2>5 DEF TrimSpot, At, Working
    <3> DEFINE pair == [PairOf(p) EXCEPT !.lot = @ - Half(@), !.value = @ - Half(@)]
               b == WithPair(mem[p], proc[p].sym, pair)
               c == [b EXCEPT !.ref = Most(@ - Half(PairOf(p).value), 0)]
    <3>2. pair \in Pair
      BY <3>1, <1>4, PairChanges, Zenon
    <3>3. pair.status = PairOf(p).status /\ pair.value = PairOf(p).value - Half(PairOf(p).value)
      BY <1>4, <3>1 DEF Pair
    <3>4. Keep(p, c)
      BY <2>5 DEF TrimSpot
    <3>5. /\ PairOf(p).value \in Nat /\ PairOf(p).value <= mem[p].ref
          /\ PairOf(p).value = mem[p].pairs[proc[p].sym].value
          /\ PairOf(p).status = mem[p].pairs[proc[p].sym].status
      BY <1>0, <1>4, <3>1, RefCovers
    <3>6. /\ Half(PairOf(p).value) \in Nat /\ Half(PairOf(p).value) <= PairOf(p).value
          /\ PairOf(p).value = 0 => Half(PairOf(p).value) = 0
      BY <3>5, HalfOf DEF Half
    <3> HIDE DEF pair
    <3>7. /\ b \in Book /\ b.ref = mem[p].ref
          /\ b.pairs = [mem[p].pairs EXCEPT ![proc[p].sym] = pair]
      BY <1>0, <3>1, <3>2, WithPairIsBook
    <3> HIDE DEF b
    <3>8. c.pairs = b.pairs /\ c.ref = Most(b.ref - Half(PairOf(p).value), 0)
      BY <3>7 DEF Book
    <3> HIDE DEF c
    <3>9. /\ c.ref \in Nat
          /\ c.ref + mem[p].pairs[proc[p].sym].value = mem[p].ref + pair.value
      BY <1>5, <3>3, <3>5, <3>6, <3>7, <3>8 DEF Most
    <3>10. pair.status \in {"none", "opening"} => pair.value = 0
      BY <1>5, <3>1, <3>3, <3>5, <3>6
    <3>11. Balanced(c)
      BY <1>0, <3>1, <3>2, <3>7, <3>8, <3>9, <3>10, ChangeBalances
    <3> QED
      BY <1>1, <3>4, <3>11
  <2> QED
    BY <1>10, <2>1, <2>2, <2>3, <2>4, <2>5 DEF Update
<1>11. CASE SaveScores(p) \/ FinishExit(p) \/ LockOrder(p) \/ Crash(p)
  BY <1>0, <1>1, <1>2, <1>11 DEF SaveScores, FinishExit, LockOrder, Crash
<1>12. CASE LockSave(p)
  <2>1. proc[p].sym \in Symbols
    BY <1>0, <1>12 DEF LockSave, At, Working
  <2> DEFINE pair == [PairOf(p) EXCEPT !.lock = proc[p].op = "lock"]
  <2>2. pair \in Pair
    BY <1>4, <2>1, PairChanges, Zenon
  <2>3. pair.status = PairOf(p).status /\ pair.value = PairOf(p).value
    BY <1>4, <2>1 DEF Pair
  <2>4. SaveAndExit(p, WithPair(mem[p], proc[p].sym, pair))
    BY <1>12 DEF LockSave
  <2> HIDE DEF pair
  <2> QED
    BY <1>4, <1>5, <1>6, <2>1, <2>2, <2>3, <2>4
<1> QED
  BY <1>7, <1>8, <1>9, <1>10, <1>11, <1>12 DEF Step

\* Every step leaves an open with the record it expects, and the other processes
\* alone.
LEMMA StepFresh ==
  ASSUME TypesInv, BalanceInv, NEW p \in Procs, Step(p)
  PROVE  /\ Fresh(proc'[p], PairOf(p)')
         /\ \A q \in Procs \ {p} : proc'[q] = proc[q]
<1> DEFINE r == proc'[p]
           Apart == \A q \in Procs \ {p} : proc'[q] = proc[q]
           Kept == Fresh(proc'[p], PairOf(p)') /\ Apart
<1>1. /\ proc \in [Procs -> Process] /\ mem \in [Procs -> Book]
      /\ proc[p] \in Process /\ mem[p] \in Book
      /\ proc[p].pc \in Working => proc[p].sym \in Symbols
      /\ Fresh(proc[p], PairOf(p))
  BY DEF TypesInv, TypeOK, SymInv, BalanceInv
<1>2. ASSUME Apart, r.pc \notin {"record"} \cup Opening PROVE Kept
  BY <1>2 DEF Fresh
<1>3. ASSUME Apart, r.pc \in Opening, proc[p].pc \in Opening, r.sym = proc[p].sym,
             UNCHANGED mem
      PROVE  Kept
  BY <1>1, <1>3 DEF Fresh, PairOf, Opening
<1> HIDE DEF Apart
<1>4. ASSUME NEW s, proc' = [proc EXCEPT ![p] = s] PROVE Apart /\ r = s
  BY <1>1, <1>4 DEF Apart
<1> SUFFICES Kept
  BY DEF Apart
<1> HIDE DEF Kept
<1>5. ASSUME Ends(p) PROVE Kept
  <2>1. Apart /\ r = Idle
    BY <1>4, <1>5 DEF Ends
  <2> QED
    BY <1>2, <2>1 DEF Idle, Opening
<1>6. ASSUME NEW step \in Steps \ ({"record"} \cup Opening), Goto(p, step) PROVE Kept
  <2>1. Apart /\ r.pc = step
    BY <1>1, <1>6 DEF Goto, Apart, Process
  <2> QED
    BY <1>2, <2>1
<1>7. ASSUME NEW b, Continue(p, b) PROVE Kept
  <2>1. CASE proc[p].op = "update"
    <3>1. Apart /\ r.pc = "delta"
      BY <1>4, <1>7, <2>1 DEF Continue, Idle
    <3> QED
      BY <1>2, <3>1 DEF Opening
  <2> QED
    BY <1>5, <1>7, <2>1 DEF Continue, SaveAndExit
<1>8. CASE Start(p)
  <2>1. r.pc \in {"deposit", "scored", "next", "rails", "lock", "transfer"}
    BY <1>8, StartBegins
  <2>2. Apart
    <3>1. \E s : proc' = [proc EXCEPT ![p] = s]
      BY <1>8
      DEF Start, StartDeposit, StartLock, StartUnlock, StartUnwind, StartRotate, StartUpdate,
          StartQuote, StartExit, Begin
    <3> QED
      BY <1>4, <3>1
  <2> QED
    BY <1>2, <2>1, <2>2 DEF Opening
<1>9. CASE Deposit(p)
  <2>1. CASE DepositRefused(p) \/ OpenRefused(p) \/ DepositFailed(p) \/ DepositDone(p)
    BY <1>5, <1>7, <2>1 DEF DepositRefused, OpenRefused, DepositFailed, DepositDone, Exit
  <2>2. ASSUME NEW l \in SpotLegs, DepositAccepted(p, l) PROVE Kept
    <3>1. /\ Apart /\ r.pc = "record" /\ r.sym = proc[p].sym /\ mem' = mem
          /\ PairOf(p).status = "none"
      BY <1>1, <2>2 DEF DepositAccepted, Process, Apart
    <3>2. PairOf(p)' = PairOf(p)
      BY <3>1 DEF PairOf
    <3> QED
      BY <3>1, <3>2 DEF Fresh, Kept, Opening
  <2>3. CASE DepositRecord(p)
    <3>1. PICK pair : /\ pair.status = "opening"
                      /\ Save(p, WithPair(mem[p], proc[p].sym, pair))
      <4>1. PICK n \in Balance(proc[p].sym, proc[p].leg) :
              Save(p, WithPair(mem[p], proc[p].sym,
                               [NoPair EXCEPT !.status = "opening", !.leg = proc[p].leg,
                                              !.pre = n]))
        BY <2>3, Zenon DEF DepositRecord
      <4>2. [NoPair EXCEPT !.status = "opening", !.leg = proc[p].leg, !.pre = n].status = "opening"
        BY DEF NoPair
      <4> QED
        BY <4>1, <4>2
    <3>2. /\ Apart /\ r.pc \in {"hedge", "paired"} /\ r.sym = proc[p].sym
          /\ proc[p].sym \in Symbols
      BY <1>1, <2>3 DEF DepositRecord, Goto, Process, Apart, At, Working
    <3>3. mem'[p].pairs[proc[p].sym] = pair
      BY <1>1, <3>1, <3>2 DEF Save, WithPair, Book
    <3> QED
      BY <3>1, <3>2, <3>3 DEF Fresh, Kept, PairOf, Opening
  <2>4. CASE OpenHedge(p) \/ OpenSpot(p) \/ SpotRefused(p)
    <3>1. /\ Apart /\ r.pc \in Opening /\ proc[p].pc \in Opening /\ r.sym = proc[p].sym
          /\ UNCHANGED mem
      BY <1>1, <2>4 DEF OpenHedge, OpenSpot, SpotRefused, Goto, At, Process, Apart, Opening
    <3> QED
      BY <1>3, <3>1
  <2>5. CASE OpenPaired(p)
    <3>1. \/ \E n : proc' = [proc EXCEPT ![p].pc = "filled", ![p].units = n]
          \/ Goto(p, "failed")
      BY <2>5 DEF OpenPaired
    <3>2. Apart /\ r.pc \in {"filled", "failed"} /\ r.sym = proc[p].sym
      BY <1>1, <3>1 DEF Goto, Process, Apart
    <3>3. proc[p].pc = "paired" /\ UNCHANGED mem
      BY <2>5 DEF OpenPaired, At
    <3> QED
      BY <1>3, <3>2, <3>3 DEF Opening
  <2> QED
    BY <1>9, <2>1, <2>2, <2>3, <2>4, <2>5 DEF Deposit
<1>10. CASE Close(p)
  <2>1. ASSUME NEW s \in Symbols, NextClose(p, s) PROVE Kept
    <3>1. Apart /\ r.pc \in {"unlock", "mark"}
      BY <1>1, <2>1 DEF NextClose, Process, Apart
    <3> QED
      BY <1>2, <3>1 DEF Opening
  <2>2. CASE \/ \E s \in Symbols : NothingToClose(p, s)
             \/ SellRefused(p) \/ CoverRefused(p)
    BY <1>5, <2>2 DEF NothingToClose, SellRefused, CoverRefused, Exit, SaveAndExit
  <2>3. CASE UnwindLock(p) \/ SellSpot(p) \/ CoverShort(p)
    BY <1>5, <1>6, <2>3 DEF UnwindLock, SellSpot, CoverShort, Exit, Steps, Opening
  <2>4. CASE MarkClosing(p)
    <3>1. Apart /\ r.pc = "sell"
      BY <1>1, <2>4 DEF MarkClosing, Process, Apart
    <3> QED
      BY <1>2, <3>1 DEF Opening
  <2>5. CASE Settle(p)
    <3>1. CASE SaveAndExit(p, Settled(p))
      BY <1>5, <3>1 DEF SaveAndExit
    <3>2. CASE ~SaveAndExit(p, Settled(p))
      <4>1. Apart /\ r.pc \in {"deposit", "next", "finish"}
        BY <1>1, <2>5, <3>2 DEF Settle, Goto, Process, Apart
      <4> QED
        BY <1>2, <4>1 DEF Opening
    <3> QED
      BY <3>1, <3>2
  <2> QED
    BY <1>10, <2>1, <2>2, <2>3, <2>4, <2>5 DEF Close
<1>11. CASE Update(p)
  <2> DEFINE Rails == {"rails", "trim", "delta", "boros", "finish", "next"}
  <2>1. CASE DrawdownHalt(p) \/ Paused(p) \/ FinalSave(p)
    BY <1>5, <2>1 DEF DrawdownHalt, Paused, FinalSave, SaveAndExit
  <2>2. ASSUME Apart, r.pc \in Rails PROVE Kept
    BY <1>2, <2>2 DEF Opening
  <2>3. ASSUME NEW s \in Symbols, RailOk(p, s) \/ NoRebalance(p, s) \/ NoBorosStep(p, s)
        PROVE  Kept
    BY <1>1, <2>2, <2>3 DEF RailOk, NoRebalance, NoBorosStep, At, Process, Apart
  <2>4. ASSUME NEW s \in Symbols, Rebalance(p, s) \/ BorosStep(p, s) PROVE Kept
    <3>1. /\ proc[p].pc \in Rails
          /\ proc' = [proc EXCEPT ![p].todo = @ \ {s}]
      BY <2>4 DEF Rebalance, BorosStep, At
    <3> QED
      BY <1>1, <2>2, <3>1 DEF Process, Apart
  <2>5. ASSUME NEW s \in Symbols, ReduceRefused(p, s) PROVE Kept
    <3>1. PICK rest \in ReducedBy(p, s) :
            proc' = [proc EXCEPT ![p].todo = rest, ![p].reduced = @ \cup {s}]
      BY <2>5 DEF ReduceRefused
    <3>2. proc[p].pc = "rails"
      BY <2>5 DEF ReduceRefused, Guarded, At
    <3> QED
      BY <1>1, <2>2, <3>1, <3>2 DEF Process, Apart
  <2>6. ASSUME NEW s \in Symbols, ReduceHedge(p, s) PROVE Kept
    <3>1. PICK rest \in ReducedBy(p, s) :
            proc' = [proc EXCEPT ![p].pc = IF s \in OpenPairs(mem[p]) THEN "trim" ELSE "rails",
                                 ![p].sym = s, ![p].todo = rest, ![p].reduced = @ \cup {s}]
      BY <2>6, Zenon DEF ReduceHedge
    <3> QED
      BY <1>1, <2>2, <3>1 DEF Process, Apart
  <2>7. ASSUME NEW s \in Symbols, NEW d \in Symbols, Rotate(p, s, d) PROVE Kept
    BY <1>1, <2>2, <2>7 DEF Rotate, Process, Apart
  <2>8. CASE NegativeCarryExit(p)
    BY <1>1, <2>2, <2>8 DEF NegativeCarryExit, Process, Apart
  <2>9. CASE StayPut(p)
    BY <1>1, <2>2, <2>9 DEF StayPut, Process, Apart
  <2>10. CASE DeltaDone(p)
    BY <1>1, <2>2, <2>10 DEF DeltaDone, Process, Apart
  <2>11. CASE TrimSpot(p) \/ TrimRefused(p) \/ BorosDone(p)
    BY <1>6, <2>11 DEF TrimSpot, TrimRefused, BorosDone, Steps, Opening
  <2> QED
    BY <1>11, <2>1, <2>3, <2>4, <2>5, <2>6, <2>7, <2>8, <2>9, <2>10, <2>11 DEF Update
<1>12. CASE SaveScores(p) \/ FinishExit(p) \/ LockOrder(p) \/ LockSave(p) \/ Crash(p)
  BY <1>5, <1>6, <1>12
  DEF SaveScores, FinishExit, LockOrder, LockSave, Crash, Exit, SaveAndExit, Steps, Opening
<1> QED
  BY <1>8, <1>9, <1>10, <1>11, <1>12 DEF Step

\* The balance of the books is inductive.
LEMMA BalanceInductive == TypesInv /\ BalanceInv /\ [Next]_vars => BalanceInv'
<1> SUFFICES ASSUME TypesInv, BalanceInv, [Next]_vars PROVE BalanceInv'
  OBVIOUS
<1>1. CASE UNCHANGED vars
  BY <1>1 DEF vars, BalanceInv, Balanced, PairOf
<1>2. ASSUME NEW p \in Procs, Step(p) PROVE BalanceInv'
  <2>1. /\ Balanced(disk') /\ Balanced(mem'[p])
        /\ \A q \in Procs \ {p} : mem'[q] = mem[q]
    BY <1>2, StepBooksBalanced
  <2>2. /\ Fresh(proc'[p], PairOf(p)')
        /\ \A q \in Procs \ {p} : proc'[q] = proc[q]
    BY <1>2, StepFresh
  <2>3. ASSUME NEW q \in Procs PROVE Balanced(mem'[q]) /\ Fresh(proc'[q], PairOf(q)')
    <3>1. CASE q = p
      BY <2>1, <2>2, <3>1
    <3>2. CASE q # p
      <4>1. mem'[q] = mem[q] /\ proc'[q] = proc[q]
        BY <2>1, <2>2, <3>2
      <4>2. PairOf(q)' = PairOf(q)
        BY <4>1 DEF PairOf
      <4> QED
        BY <4>1, <4>2 DEF BalanceInv
    <3> QED
      BY <3>1, <3>2
  <2> QED
    BY <2>1, <2>3 DEF BalanceInv
<1> QED
  BY <1>1, <1>2 DEF Next, Step

\* The drawdown reference in the file is the sum of what the recorded pairs were
\* entered at: whichever processes overlap, overwrite each other's book or die,
\* and whatever read, fill or rollback fails.
THEOREM ReferenceTheorem == Spec => []ReferenceMatchesBook
<1> DEFINE IInv == TypesInv /\ BalanceInv
<1>1. Init => IInv
  <2> SUFFICES ASSUME Init PROVE BalanceInv
    BY InitTypes
  <2>1. disk = EmptyBook /\ \A p \in Procs : mem[p] = EmptyBook /\ proc[p] = Idle
    BY DEF Init
  <2>2. \A pair : Fresh(Idle, pair)
    BY DEF Fresh, Idle, Opening
  <2> QED
    BY <2>1, <2>2, EmptyBalanced DEF BalanceInv
<1>2. IInv /\ [Next]_vars => IInv'
  BY StepTypes, BalanceInductive
<1>3. IInv => ReferenceMatchesBook
  <2>1. ReferenceMatchesBook <=> disk.ref = Total(disk.pairs, Symbols)
    BY DEF ReferenceMatchesBook, Total
  <2> QED
    BY <2>1 DEF BalanceInv, Balanced
<1> HIDE DEF IInv
<1> QED
  BY <1>1, <1>2, <1>3, PTL DEF Spec
=============================================================================
