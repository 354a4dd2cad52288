--------------------------- MODULE ActivePerpsProofs ---------------------------
(***************************************************************************)
(* Theorems about ActivePerps, for any number of symbols, targets, bars    *)
(* and triggers.                                                           *)
(***************************************************************************)
EXTENDS ActivePerps, TLAPS

\* No two processes of the strategy, as the runner arranges it.
OneProcess == \A p, q \in Procs : p = q

-----------------------------------------------------------------------------
(* Bars *)

\* Bars are numbered from zero and follow the clock.
LEMMA BarOrder ==
  ASSUME NEW a \in Nat, NEW b \in Nat, a <= b
  PROVE  BarOf(a) \in Nat /\ BarOf(a) <= BarOf(b)
  BY PerpsAssumption, SMTT(60) DEF BarOf

\* What takes no longer than a bar ends in the next one.
LEMMA BarLength ==
  ASSUME NEW a \in Nat, NEW b \in Nat, a <= b, b <= a + BarTicks
  PROVE  BarOf(b) <= BarOf(a) + 1
  BY PerpsAssumption, SMTT(60) DEF BarOf

\* A clock within its bound is in one of the bars, and so is the bar before.
LEMMA BarInRange ==
  ASSUME NEW t \in Times
  PROVE  /\ BarOf(t) \in Bars
         /\ LastCompleted(t) >= 0 => LastCompleted(t) \in Bars
<1>1. MaxTime \in Nat /\ t \in Nat /\ t <= MaxTime  BY PerpsAssumption DEF Times
<1>2. BarOf(t) \in Nat /\ BarOf(t) <= BarOf(MaxTime)  BY <1>1, BarOrder
<1>3. BarOf(MaxTime) \in Nat  BY <1>1, BarOrder
<1> QED  BY <1>2, <1>3 DEF Bars, LastCompleted

-----------------------------------------------------------------------------
(* Types *)

\* The first state is typed.
LEMMA InitTypes == Init => TypeOK
  BY PerpsAssumption DEF Init, TypeOK, State, NewState, Never, Process, Idle, Steps,
     Positions, Flat, Times, Row

\* What an update takes from the signal and from the venue are sizes.
LEMMA RowsAreSizes ==
  ASSUME TypeOK, NEW b \in Bars
  PROVE  rows[b] \in Positions
  BY PerpsAssumption DEF TypeOK, Row, Positions

\* No position is a position.
LEMMA FlatIsTyped == Flat \in Positions
  BY DEF Flat, Positions

\* A process's record stays typed.
LEMMA ProcessStep ==
  ASSUME TypeOK, NEW p \in Procs
  PROVE  /\ proc[p] \in Process
         /\ Idle \in Process
         /\ \A step \in Steps : [proc[p] EXCEPT !.pc = step] \in Process
         /\ \A step \in Steps, t \in Times :
              [proc[p] EXCEPT !.pc = step, !.t = t] \in Process
         /\ \A step \in Steps, want \in Positions :
              [proc[p] EXCEPT !.pc = step, !.want = want] \in Process
         /\ \A step \in Steps, seen \in Positions, todo \in SUBSET Symbols :
              [proc[p] EXCEPT !.pc = step, !.seen = seen, !.todo = todo] \in Process
<1>1. proc[p] \in Process  BY DEF TypeOK
<1>2. Idle \in Process  BY PerpsAssumption, FlatIsTyped DEF Process, Idle, Steps, Times
<1>3. \A step \in Steps : [proc[p] EXCEPT !.pc = step] \in Process  BY <1>1 DEF Process
<1>4. \A step \in Steps, t \in Times :
        [proc[p] EXCEPT !.pc = step, !.t = t] \in Process
  BY <1>1 DEF Process
<1>5. \A step \in Steps, want \in Positions :
        [proc[p] EXCEPT !.pc = step, !.want = want] \in Process
  BY <1>1 DEF Process
<1>6. \A step \in Steps, seen \in Positions, todo \in SUBSET Symbols :
        [proc[p] EXCEPT !.pc = step, !.seen = seen, !.todo = todo] \in Process
  BY <1>1 DEF Process
<1> QED  BY <1>1, <1>2, <1>3, <1>4, <1>5, <1>6

\* An order moves a position by whole units, in the direction of the difference
\* and by no more than it.
LEMMA TradeIsTyped ==
  ASSUME TypeOK, NEW p \in Procs, NEW s \in Symbols, NEW n \in 0 .. MayFill(p, s),
         Trade(p, s, n)
  PROVE  /\ pos' \in Positions
         /\ pos'[s] \in Int /\ pos[s] \in Int /\ Diff(p, s) \in Int
         /\ n \in 0 .. Size(Diff(p, s))
         /\ Diff(p, s) >= 0 => pos'[s] = pos[s] + n
         /\ Diff(p, s) < 0 => pos'[s] = pos[s] - n
<1>1. pos \in [Symbols -> Int] /\ proc[p].want[s] \in Int /\ proc[p].seen[s] \in Int
  BY DEF TypeOK, Process, Positions
<1>2. Diff(p, s) \in Int /\ pos[s] \in Int  BY <1>1 DEF Diff
<1>3. Size(Diff(p, s)) \in Nat /\ Size(pos[s]) \in Nat  BY <1>2 DEF Size
<1>4. MayFill(p, s) \in 0 .. Size(Diff(p, s))
  BY <1>3 DEF MayFill, Least
<1>5. n \in Nat /\ n <= Size(Diff(p, s))  BY <1>3, <1>4
<1>6. n * Sign(Diff(p, s)) = IF Diff(p, s) < 0 THEN -n ELSE n
  <2>1. CASE Diff(p, s) < 0
    <3>1. Sign(Diff(p, s)) = -1  BY <2>1 DEF Sign
    <3>2. n * (-1) = -n  BY <1>5
    <3> QED  BY <2>1, <3>1, <3>2
  <2>2. CASE Diff(p, s) = 0
    <3>1. Sign(Diff(p, s)) = 0  BY <2>2 DEF Sign
    <3>2. n = 0  BY <2>2, <1>5 DEF Size
    <3> QED  BY <2>2, <3>1, <3>2
  <2>3. CASE Diff(p, s) > 0
    <3>1. Sign(Diff(p, s)) = 1  BY <2>3, <1>2 DEF Sign
    <3>2. n * 1 = n  BY <1>5
    <3> QED  BY <2>3, <1>2, <3>1, <3>2
  <2> QED  BY <1>2, <2>1, <2>2, <2>3
<1>7. pos' = [pos EXCEPT ![s] = pos[s] + (IF Diff(p, s) < 0 THEN -n ELSE n)]
  BY <1>1, <1>6 DEF Trade
<1> QED  BY <1>1, <1>2, <1>3, <1>5, <1>7 DEF Positions

\* Every step keeps the types.
LEMMA TypesStep ==
  ASSUME TypeOK, [Next]_vars
  PROVE  TypeOK'
<1> USE DEF history
<1>p. \A p \in Procs : /\ proc[p] \in Process /\ Idle \in Process
                       /\ data[p] \in State
                       /\ \A step \in Steps : [proc[p] EXCEPT !.pc = step] \in Process
  BY ProcessStep DEF TypeOK
<1>s. Steps = {"idle", "trigger", "fetch", "decide", "orders", "snapshot", "throttle",
               "reconcile", "close", "closing"}
  BY DEF Steps
<1>1. ASSUME NEW p \in Procs, StartUpdate(p) \/ StartWithdraw(p)
      PROVE  TypeOK'
  BY <1>1, <1>p, <1>s DEF StartUpdate, StartWithdraw, Start, Goto, TypeOK
<1>2. ASSUME NEW p \in Procs, Begin(p)
      PROVE  TypeOK'
  <2>1. [proc[p] EXCEPT !.pc = "fetch", !.t = now] \in Process
    BY <1>s, ProcessStep DEF TypeOK
  <2> QED  BY <1>2, <2>1 DEF Begin, TypeOK
<1>3. ASSUME NEW p \in Procs,
             \/ Halted(p) \/ NoCompletedBar(p) \/ Throttled(p)
             \/ Reconcile(p) \/ WithdrawEnds(p)
      PROVE  TypeOK'
  BY <1>3, <1>p DEF Halted, NoCompletedBar, Throttled, Reconcile, WithdrawEnds, Ends, TypeOK
<1>4. ASSUME NEW p \in Procs, Fetch(p)
      PROVE  TypeOK'
  <2>1. LastCompleted(proc[p].t) \in Bars
    BY <1>4, <1>p, BarInRange DEF Fetch, Process
  <2>2. rows[LastCompleted(proc[p].t)] \in Positions
    BY <2>1, RowsAreSizes
  <2>3. [proc[p] EXCEPT !.pc = "decide", !.want = rows[LastCompleted(proc[p].t)]] \in Process
    BY <2>2, <1>s, ProcessStep
  <2> QED  BY <1>4, <2>3 DEF Fetch, TypeOK
<1>5. ASSUME NEW p \in Procs, Decide(p)
      PROVE  TypeOK'
  <2>1. PICK seen \in Read, quoted \in SUBSET Symbols :
          proc' = [proc EXCEPT ![p].pc = "orders", ![p].seen = seen,
                               ![p].todo = quoted \cap Worth(proc[p].want, seen)]
    BY <1>5 DEF Decide
  <2>2. seen \in Positions  BY FlatIsTyped DEF Read, TypeOK
  <2>3. quoted \cap Worth(proc[p].want, seen) \in SUBSET Symbols  BY DEF Worth
  <2>4. [proc[p] EXCEPT !.pc = "orders", !.seen = seen,
                        !.todo = quoted \cap Worth(proc[p].want, seen)] \in Process
    BY <2>2, <2>3, <1>s, ProcessStep
  <2> QED  BY <1>5, <2>1, <2>4 DEF Decide, TypeOK
<1>6. ASSUME NEW p \in Procs, NEW s \in Symbols, PlaceOrder(p, s)
      PROVE  TypeOK'
  <2> DEFINE intent == [sym |-> s, buy |-> Diff(p, s) > 0]
  <2>1. intent \in Intent  BY DEF Intent
  <2>2. pos' \in Positions  BY <1>6, <1>p, TradeIsTyped DEF PlaceOrder
  <2>3. [proc[p] EXCEPT !.todo = @ \ {s}, !.intents = @ \cup {intent}] \in Process
    BY <1>p, <2>1 DEF Process
  <2>4. proc' \in [Procs -> Process]
    BY <1>6, <2>3 DEF PlaceOrder, TypeOK
  <2>5. fills' \in [Bars -> SUBSET Intent]
    <3>1. \/ fills' = fills
          \/ fills' = [fills EXCEPT ![BarOf(now)] = @ \cup {intent}]
      BY <1>6 DEF PlaceOrder
    <3> QED  BY <2>1, <3>1 DEF TypeOK
  <2> QED  BY <1>6, <2>2, <2>4, <2>5 DEF PlaceOrder, TypeOK
<1>7. ASSUME NEW p \in Procs, SaveState(p)
      PROVE  TypeOK'
  <2>1. PICK seen \in Read : Persist(p, [data[p] EXCEPT !.positions = seen])
    BY <1>7 DEF SaveState
  <2>2. [data[p] EXCEPT !.positions = seen] \in State
    BY <1>p, FlatIsTyped DEF Read, TypeOK, State
  <2> QED  BY <1>7, <2>1, <2>2, <1>p, <1>s DEF SaveState, Persist, Goto, TypeOK
<1>8. ASSUME NEW p \in Procs, WriteSnapshot(p)
      PROVE  TypeOK'
  <2>1. proc[p].intents \in SUBSET Intent  BY <1>p DEF Process
  <2> QED  BY <1>8, <2>1, <1>p, <1>s DEF WriteSnapshot, Goto, TypeOK
<1>9. ASSUME NEW p \in Procs, MarkReconcile(p)
      PROVE  TypeOK'
  <2>1. [data[p] EXCEPT !.mark = now] \in State
    BY <1>p DEF TypeOK, State
  <2> QED  BY <1>9, <2>1, <1>p, <1>s DEF MarkReconcile, Persist, Goto, TypeOK
<1>10. ASSUME NEW p \in Procs, ReadToClose(p)
       PROVE  TypeOK'
  <2>1. PICK seen \in Read :
          proc' = [proc EXCEPT ![p] = [proc[p] EXCEPT !.pc = "closing", !.seen = seen,
                                         !.todo = {s \in Symbols : seen[s] # 0}]]
    BY <1>10 DEF ReadToClose
  <2>2. [proc[p] EXCEPT !.pc = "closing", !.seen = seen,
                        !.todo = {s \in Symbols : seen[s] # 0}] \in Process
    <3>1. seen \in Positions  BY FlatIsTyped DEF Read, TypeOK
    <3>2. {s \in Symbols : seen[s] # 0} \in SUBSET Symbols  OBVIOUS
    <3> QED  BY <3>1, <3>2, <1>s, ProcessStep
  <2> QED  BY <1>10, <2>1, <2>2 DEF ReadToClose, TypeOK
<1>11. ASSUME NEW p \in Procs, NEW s \in Symbols, Close(p, s)
       PROVE  TypeOK'
  <2>1. pos' \in Positions  BY <1>11, TradeIsTyped DEF Close
  <2>2. [proc[p] EXCEPT !.todo = @ \ {s}] \in Process
    BY <1>p DEF Process
  <2> QED  BY <1>11, <2>1, <2>2 DEF Close, TypeOK
<1>12. ASSUME NEW p \in Procs, Crash(p)
       PROVE  TypeOK'
  <2>1. BarOf(proc[p].t) .. BarOf(now) \in SUBSET Bars
    <3>1. BarOf(proc[p].t) \in Bars /\ BarOf(now) \in Bars
      BY <1>p, BarInRange DEF Process, TypeOK
    <3>2. MaxTime \in Nat /\ BarOf(MaxTime) \in Nat  BY PerpsAssumption, BarOrder
    <3> QED  BY <3>1, <3>2 DEF Bars
  <2>2. died' \in SUBSET Bars
    BY <1>12, <2>1 DEF Crash, TypeOK
  <2> QED  BY <1>12, <2>2, <1>p DEF Crash, Ends, TypeOK
<1>13. ASSUME NEW s \in Symbols, Liquidate(s)
       PROVE  TypeOK'
  <2>1. \A p \in Procs : [proc[p] EXCEPT !.moved = @ \cup {s}] \in Process
    BY <1>p DEF Process
  <2>2. proc' \in [Procs -> Process]
    BY <1>13, <2>1, <1>p DEF Liquidate
  <2>3. pos' \in Positions
    BY <1>13 DEF Liquidate, TypeOK, Positions
  <2> QED  BY <1>13, <2>2, <2>3 DEF Liquidate, TypeOK
<1>14. ASSUME Tick
       PROVE  TypeOK'
  <2>1. now' \in Times  BY <1>14, PerpsAssumption DEF Tick, TypeOK, Times
  <2>2. rows' \in [Bars -> Row]  BY <1>14 DEF Tick, TypeOK
  <2> QED  BY <1>14, <2>1, <2>2 DEF Tick, TypeOK
<1>15. ASSUME UNCHANGED vars
       PROVE  TypeOK'
  BY <1>15 DEF vars, TypeOK
<1> QED
  BY <1>1, <1>2, <1>3, <1>4, <1>5, <1>6, <1>7, <1>8, <1>9, <1>10, <1>11, <1>12, <1>13,
     <1>14, <1>15 DEF Next, Update, Withdraw

\* THEOREM: every reachable state is typed, whatever fails.
THEOREM PerpsTypes == Spec => []TypeOK
<1>1. Init => TypeOK  BY InitTypes
<1>2. TypeOK /\ [Next]_vars => TypeOK'  BY TypesStep
<1> QED  BY <1>1, <1>2, PTL DEF Spec

-----------------------------------------------------------------------------
(* Orders *)

\* What is left of a symbol once a process has ordered it: only the step that
\* orders it takes it off the process's list.
LEMMA OrderedByAnOrder ==
  ASSUME TypeOK, [Next]_vars, NEW p \in Procs, NEW s \in Symbols, Ordered(p, s)
  PROVE  /\ PlaceOrder(p, s) \/ Close(p, s)
         /\ At(p, "orders") => PlaceOrder(p, s)
<1>1. proc \in [Procs -> Process] /\ proc[p] \in Process /\ proc[p].pc \in Steps
  BY DEF TypeOK, Process
<1>2. s \in proc[p].todo /\ s \notin proc'[p].todo /\ proc'[p].pc = proc[p].pc
  BY <1>1 DEF Ordered, Process
<1>3. Idle.pc = "idle"  BY DEF Idle
<1>4. proc' # proc  BY <1>2
<1>5. ASSUME NEW q \in Procs, q # p, proc' = [proc EXCEPT ![q] = proc'[q]]
      PROVE  FALSE
  BY <1>1, <1>2, <1>5
<1>6. ASSUME NEW q \in Procs, PlaceOrder(q, s) \/ Close(q, s)
      PROVE  q = p
  BY <1>1, <1>2, <1>6 DEF PlaceOrder, Close
<1>7. ASSUME NEW q \in Procs, NEW r \in Symbols, r # s, PlaceOrder(q, r) \/ Close(q, r)
      PROVE  FALSE
  BY <1>1, <1>2, <1>7 DEF PlaceOrder, Close, Process
<1>8. ASSUME NEW q \in Procs,
             \/ StartUpdate(q) \/ StartWithdraw(q) \/ Begin(q) \/ Fetch(q)
             \/ SaveState(q) \/ WriteSnapshot(q) \/ MarkReconcile(q)
      PROVE  FALSE
  BY <1>1, <1>2, <1>8 DEF StartUpdate, StartWithdraw, Start, Begin, Fetch, SaveState,
     WriteSnapshot, MarkReconcile, Goto, At, Process
<1>9. ASSUME NEW q \in Procs,
             \/ Halted(q) \/ NoCompletedBar(q) \/ Throttled(q)
             \/ Reconcile(q) \/ WithdrawEnds(q) \/ Crash(q)
      PROVE  FALSE
  BY <1>1, <1>2, <1>3, <1>9 DEF Halted, NoCompletedBar, Throttled, Reconcile,
     WithdrawEnds, Crash, Ends, At
<1>10. ASSUME NEW q \in Procs, Decide(q) \/ ReadToClose(q)
       PROVE  FALSE
  <2>1. CASE Decide(q)
    <3>1. q = p  BY <1>1, <1>2, <2>1 DEF Decide
    <3>2. proc[p].pc = "decide" /\ proc'[p].pc = "orders"
      BY <1>1, <2>1, <3>1 DEF Decide, At, Process
    <3> QED  BY <1>2, <3>2
  <2>2. CASE ReadToClose(q)
    <3>1. q = p  BY <1>1, <1>2, <2>2 DEF ReadToClose
    <3>2. proc[p].pc = "close" /\ proc'[p].pc = "closing"
      BY <1>1, <2>2, <3>1 DEF ReadToClose, At, Process
    <3> QED  BY <1>2, <3>2
  <2> QED  BY <1>10, <2>1, <2>2
<1>11. ASSUME NEW r \in Symbols, Liquidate(r)
       PROVE  FALSE
  BY <1>1, <1>2, <1>11 DEF Liquidate, Process
<1>12. ~Tick /\ ~UNCHANGED vars  BY <1>4 DEF Tick, vars
<1>13. PlaceOrder(p, s) \/ Close(p, s)
  BY <1>6, <1>7, <1>8, <1>9, <1>10, <1>11, <1>12 DEF Next, Update, Withdraw
<1>14. At(p, "orders") => ~Close(p, s)  BY DEF Close, At
<1> QED  BY <1>13, <1>14

\* A reduce-only order cannot fill more than what is left to reduce; any other
\* order goes the way of the target.
LEMMA FillsOnItsSide ==
  ASSUME TypeOK, NEW p \in Procs, NEW s \in Symbols, NEW n \in 0 .. MayFill(p, s),
         Trade(p, s, n), pos'[s] # 0,
         Sign(pos'[s]) # Sign(pos[s]) \/ Size(pos'[s]) > Size(pos[s])
  PROVE  Sign(pos'[s]) = Sign(proc[p].want[s])
<1> DEFINE want == proc[p].want[s]
           seen == proc[p].seen[s]
           d == Diff(p, s)
<1>1. want \in Int /\ seen \in Int /\ d = want - seen
  BY DEF TypeOK, Process, Positions, Diff
<1>2. /\ pos[s] \in Int /\ d \in Int /\ pos'[s] \in Int /\ n \in 0 .. Size(d)
      /\ d >= 0 => pos'[s] = pos[s] + n
      /\ d < 0 => pos'[s] = pos[s] - n
  BY TradeIsTyped
<1>3. n \in Nat /\ n <= Size(d)  BY <1>2 DEF Size
<1>4. n # 0
  <2> SUFFICES ASSUME n = 0 PROVE FALSE  OBVIOUS
  <2>1. pos'[s] = pos[s]  BY <1>2
  <2> QED  BY <1>2, <2>1 DEF Size
<1>5. d # 0  BY <1>3, <1>4 DEF Size
<1>6. CASE ~ReduceOnly(p, s)
  <2>1. Sign(seen) # -Sign(d) \/ Size(d) > Size(seen)
    BY <1>1, <1>2, <1>6 DEF ReduceOnly, Size
  <2>2. Sign(want) = Sign(d)  BY <1>1, <1>5, <2>1 DEF Sign, Size
  <2>3. Sign(pos'[s]) = Sign(d)  BY <1>2, <1>3, <1>4, <1>5 DEF Sign, Size
  <2> QED  BY <2>2, <2>3
<1>7. CASE ReduceOnly(p, s)
  <2>1. MayFill(p, s) = IF Sign(pos[s]) = -Sign(d) THEN Least(Size(d), Size(pos[s])) ELSE 0
    BY <1>7 DEF MayFill
  <2>2. Sign(pos[s]) = -Sign(d) /\ n <= Size(pos[s])
    BY <1>2, <1>3, <1>4, <2>1 DEF Least, Size
  <2> QED  BY <1>2, <1>3, <1>4, <1>5, <2>2 DEF Sign, Size
<1> QED  BY <1>6, <1>7

\* THEOREM: no order opens or grows a position on a side its process does not
\* want, for any number of processes and whatever happened since it read.
THEOREM SideTheorem == Spec => OpensOnlyItsSide
<1>1. ASSUME TypeOK, [Next]_vars
      PROVE  \A p \in Procs, s \in Symbols :
               /\ Ordered(p, s) /\ pos'[s] # 0
               /\ (Sign(pos'[s]) # Sign(pos[s]) \/ Size(pos'[s]) > Size(pos[s]))
               => Sign(pos'[s]) = Sign(proc[p].want[s])
  <2> SUFFICES ASSUME NEW p \in Procs, NEW s \in Symbols, Ordered(p, s), pos'[s] # 0,
                      Sign(pos'[s]) # Sign(pos[s]) \/ Size(pos'[s]) > Size(pos[s])
               PROVE  Sign(pos'[s]) = Sign(proc[p].want[s])
    OBVIOUS
  <2>1. PlaceOrder(p, s) \/ Close(p, s)  BY <1>1, OrderedByAnOrder
  <2>2. PICK n \in 0 .. MayFill(p, s) : Trade(p, s, n)  BY <2>1 DEF PlaceOrder, Close
  <2> QED  BY <1>1, <2>2, FillsOnItsSide
<1> QED  BY <1>1, PerpsTypes, PTL DEF Spec, OpensOnlyItsSide

-----------------------------------------------------------------------------
(* The reconcile throttle *)

\* The file holds when the last reconcile began, and so does the copy of a
\* process that has loaded it.
MarkInv ==
  /\ disk.mark = ran
  /\ \A p \in Procs : ~At(p, "idle") => data[p].mark = ran

\* Every step keeps it, when no other process has an older copy to write back.
LEMMA MarkStep ==
  ASSUME OneProcess, TypeOK, MarkInv, [Next]_vars
  PROVE  MarkInv'
<1> USE DEF history, MarkInv, At
<1>0. /\ proc \in [Procs -> Process] /\ data \in [Procs -> State] /\ disk \in State
      /\ ran \in Times \cup {Never}
  BY DEF TypeOK
<1>1. ASSUME NEW p \in Procs, StartUpdate(p) \/ StartWithdraw(p)
      PROVE  MarkInv'
  BY <1>0, <1>1 DEF StartUpdate, StartWithdraw, Start, Goto
<1>2. ASSUME NEW p \in Procs,
             \/ Begin(p) \/ Fetch(p) \/ Decide(p) \/ ReadToClose(p) \/ WriteSnapshot(p)
             \/ (\E s \in Symbols : PlaceOrder(p, s) \/ Close(p, s))
      PROVE  MarkInv'
  <2>1. /\ disk' = disk /\ data' = data /\ ran' = ran
        /\ ~At(p, "idle")
        /\ \A q \in Procs \ {p} : proc'[q] = proc[q]
    BY <1>0, <1>2 DEF Begin, Fetch, Decide, ReadToClose, WriteSnapshot, Goto, PlaceOrder,
       Close
  <2> QED  BY <2>1
<1>3. ASSUME NEW p \in Procs,
             \/ Halted(p) \/ NoCompletedBar(p) \/ Throttled(p)
             \/ Reconcile(p) \/ WithdrawEnds(p) \/ Crash(p)
      PROVE  MarkInv'
  BY <1>0, <1>3 DEF Halted, NoCompletedBar, Throttled, Reconcile,
     WithdrawEnds, Crash, Ends, Idle
<1>4. ASSUME NEW p \in Procs, SaveState(p)
      PROVE  MarkInv'
  <2>1. PICK seen \in Read : Persist(p, [data[p] EXCEPT !.positions = seen])
    BY <1>4 DEF SaveState
  <2>2. disk'.mark = data[p].mark /\ data'[p].mark = data[p].mark /\ ~At(p, "idle")
    BY <1>0, <1>4, <2>1 DEF Persist, SaveState, State
  <2>3. ran' = ran /\ \A q \in Procs \ {p} : proc'[q] = proc[q] /\ data'[q] = data[q]
    BY <1>0, <1>4, <2>1 DEF Persist, SaveState, Goto
  <2> QED  BY <2>2, <2>3
<1>5. ASSUME NEW p \in Procs, MarkReconcile(p)
      PROVE  MarkInv'
  <2>1. disk'.mark = now /\ ran' = now /\ data'[p].mark = now
    BY <1>0, <1>5 DEF MarkReconcile, Persist, State
  <2>2. \A q \in Procs : q = p  BY DEF OneProcess
  <2> QED  BY <2>1, <2>2
<1>6. ASSUME NEW s \in Symbols, Liquidate(s)
      PROVE  MarkInv'
  BY <1>0, <1>6 DEF Liquidate, Process
<1>7. ASSUME Tick \/ UNCHANGED vars
      PROVE  MarkInv'
  BY <1>7 DEF Tick, vars
<1> QED  BY <1>1, <1>2, <1>3, <1>4, <1>5, <1>6, <1>7 DEF Next, Update, Withdraw

\* THEOREM: a process that dies in a reconcile has still counted it.
THEOREM ThrottleTheorem ==
  ASSUME OneProcess
  PROVE  Spec => ReconcileThrottled
<1>1. Init => MarkInv  BY DEF Init, MarkInv, NewState, Idle, At
<1>2. TypeOK /\ MarkInv /\ [Next]_vars => MarkInv'  BY MarkStep
<1>3. ASSUME TypeOK, MarkInv, [Next]_vars
      PROVE  ran' # ran /\ ran # Never => now - ran >= Interval
  <2> SUFFICES ASSUME ran' # ran, ran # Never
               PROVE  now - ran >= Interval
    OBVIOUS
  <2>1. PICK p \in Procs : MarkReconcile(p)
    BY <1>3 DEF Next, Update, Withdraw, vars, history, StartUpdate, StartWithdraw, Start,
       Halted, Begin, NoCompletedBar, Fetch, Decide, PlaceOrder, SaveState, WriteSnapshot,
       Throttled, Reconcile, ReadToClose, WithdrawEnds, Close, Crash, Liquidate, Tick
  <2>2. data[p].mark = ran  BY <1>3, <2>1 DEF MarkReconcile, MarkInv, At
  <2>3. now \in Int /\ ran \in Int /\ Interval \in Int
    BY <1>3, PerpsAssumption DEF TypeOK, Times, Never
  <2> QED  BY <2>1, <2>2, <2>3 DEF MarkReconcile, Recent
<1> QED  BY <1>1, <1>2, <1>3, PerpsTypes, PTL DEF Spec, ReconcileThrottled

-----------------------------------------------------------------------------
(* Triggers and the clock *)

\* The bar a trigger began in is not ahead of the clock, and the clock no more
\* than a bar ahead of it.
Punctual ==
  \A p \in Procs : Triggered(p) =>
    /\ proc[p].t <= now
    /\ Prompt => now <= proc[p].t + BarTicks

\* Every step keeps it.
LEMMA PunctualStep ==
  ASSUME TypeOK, Punctual, [Next]_vars
  PROVE  Punctual'
<1> USE DEF history, Punctual, Triggered, At
<1>0. /\ proc \in [Procs -> Process] /\ now \in Int /\ BarTicks \in Nat
      /\ \A p \in Procs : proc[p].t \in Int
  BY PerpsAssumption DEF TypeOK, Process, Times
<1>1. ASSUME NEW p \in Procs, Begin(p)
      PROVE  Punctual'
  BY <1>0, <1>1 DEF Begin, Process
<1>2. ASSUME NEW p \in Procs,
             \/ StartUpdate(p) \/ StartWithdraw(p) \/ MarkReconcile(p)
             \/ Fetch(p) \/ SaveState(p) \/ WriteSnapshot(p)
      PROVE  Punctual'
  <2>1. /\ now' = now
        /\ \A q \in Procs \ {p} : proc'[q] = proc[q]
        /\ Triggered(p)' => Triggered(p) /\ proc'[p].t = proc[p].t
    BY <1>0, <1>2 DEF StartUpdate, StartWithdraw, Start, MarkReconcile, Fetch,
       SaveState, WriteSnapshot, Goto, Process
  <2> QED  BY <2>1
<1>3. ASSUME NEW p \in Procs,
             \/ Halted(p) \/ NoCompletedBar(p) \/ Throttled(p)
             \/ Reconcile(p) \/ WithdrawEnds(p) \/ Crash(p)
      PROVE  Punctual'
  BY <1>0, <1>3 DEF Halted, NoCompletedBar, Throttled, Reconcile,
     WithdrawEnds, Crash, Ends, Idle
<1>4. ASSUME NEW p \in Procs,
             \/ Decide(p) \/ ReadToClose(p)
             \/ (\E s \in Symbols : PlaceOrder(p, s) \/ Close(p, s))
      PROVE  Punctual'
  <2>1. now' = now /\ \A q \in Procs \ {p} : proc'[q] = proc[q]
    BY <1>0, <1>4 DEF Decide, ReadToClose, PlaceOrder, Close
  <2>2. CASE Decide(p)
    <3>1. Triggered(p) /\ proc'[p].t = proc[p].t  BY <1>0, <2>2 DEF Decide, Process
    <3> QED  BY <2>1, <3>1
  <2>3. CASE ReadToClose(p)
    <3>1. ~Triggered(p)'  BY <1>0, <2>3 DEF ReadToClose, Process
    <3> QED  BY <2>1, <3>1
  <2>4. ASSUME NEW s \in Symbols, PlaceOrder(p, s) \/ Close(p, s)
        PROVE  Punctual'
    <3>1. proc'[p].pc = proc[p].pc /\ proc'[p].t = proc[p].t
      BY <1>0, <2>4 DEF PlaceOrder, Close, Process
    <3> QED  BY <2>1, <3>1
  <2> QED  BY <1>4, <2>2, <2>3, <2>4
<1>5. ASSUME NEW s \in Symbols, Liquidate(s)
      PROVE  Punctual'
  <2>1. \A p \in Procs : proc'[p].pc = proc[p].pc /\ proc'[p].t = proc[p].t
    BY <1>0, <1>5 DEF Liquidate, Process
  <2> QED  BY <1>5, <2>1 DEF Liquidate
<1>6. ASSUME Tick
      PROVE  Punctual'
  BY <1>0, <1>6 DEF Tick
<1>7. ASSUME UNCHANGED vars
      PROVE  Punctual'
  BY <1>7 DEF vars
<1> QED  BY <1>1, <1>2, <1>3, <1>4, <1>5, <1>6, <1>7 DEF Next, Update, Withdraw

-----------------------------------------------------------------------------
(* The target of an order *)

\* An update that orders wants the row of the bar before its own, and what it
\* has yet to order is still as it read it.
AimInv ==
  \A p \in Procs :
    /\ At(p, "decide") \/ At(p, "orders") =>
         /\ LastCompleted(proc[p].t) >= 0
         /\ proc[p].want = rows[LastCompleted(proc[p].t)]
    /\ At(p, "orders") =>
         \A s \in proc[p].todo \ proc[p].moved : proc[p].seen[s] = pos[s]

\* Every step keeps it, when nobody else trades and positions can be read.
LEMMA AimStep ==
  ASSUME OneProcess, "read" \notin Faults, TypeOK, Punctual, AimInv, [Next]_vars
  PROVE  AimInv'
<1> USE DEF history, AimInv, At
<1>0. /\ proc \in [Procs -> Process] /\ pos \in Positions /\ rows \in [Bars -> Row]
      /\ \A p, q \in Procs : p = q
  BY DEF TypeOK, OneProcess
<1>1. ASSUME NEW p \in Procs, Fetch(p)
      PROVE  AimInv'
  BY <1>0, <1>1 DEF Fetch, Process
<1>2. ASSUME NEW p \in Procs, Decide(p)
      PROVE  AimInv'
  <2>1. Read = {pos}  BY DEF Read
  <2>2. proc'[p].want = proc[p].want /\ proc'[p].t = proc[p].t /\ proc'[p].seen = pos
    BY <1>0, <1>2, <2>1 DEF Decide, Process
  <2>3. At(p, "decide") /\ rows' = rows /\ pos' = pos  BY <1>2 DEF Decide
  <2> QED  BY <1>0, <2>2, <2>3 DEF LastCompleted
<1>3. ASSUME NEW p \in Procs, NEW s \in Symbols, PlaceOrder(p, s)
      PROVE  AimInv'
  <2>1. PICK n \in 0 .. MayFill(p, s) : Trade(p, s, n)  BY <1>3 DEF PlaceOrder
  <2>2. \A r \in Symbols \ {s} : pos'[r] = pos[r]  BY <1>0, <2>1 DEF Trade, Positions
  <2>3. /\ proc'[p].pc = proc[p].pc /\ proc'[p].t = proc[p].t
        /\ proc'[p].want = proc[p].want /\ proc'[p].seen = proc[p].seen
        /\ proc'[p].todo = proc[p].todo \ {s} /\ proc'[p].moved = proc[p].moved
    BY <1>0, <1>3 DEF PlaceOrder, Process
  <2>4. proc[p].todo \subseteq Symbols  BY <1>0 DEF Process
  <2>5. rows' = rows  BY <1>3 DEF PlaceOrder
  <2> QED  BY <1>0, <2>2, <2>3, <2>4, <2>5 DEF LastCompleted
<1>4. ASSUME NEW p \in Procs,
             \/ StartUpdate(p) \/ StartWithdraw(p) \/ Begin(p)
             \/ SaveState(p) \/ WriteSnapshot(p) \/ MarkReconcile(p)
      PROVE  AimInv'
  <2>1. proc'[p].pc \in {"trigger", "close", "fetch", "snapshot", "throttle", "reconcile"}
    BY <1>0, <1>4 DEF StartUpdate, StartWithdraw, Start, Begin, SaveState, WriteSnapshot,
       MarkReconcile, Goto, Process
  <2> QED  BY <1>0, <2>1
<1>5. ASSUME NEW p \in Procs,
             \/ Halted(p) \/ NoCompletedBar(p) \/ Throttled(p)
             \/ Reconcile(p) \/ WithdrawEnds(p) \/ Crash(p)
      PROVE  AimInv'
  <2>1. proc'[p].pc = "idle"
    BY <1>0, <1>5 DEF Halted, NoCompletedBar, Throttled, Reconcile,
       WithdrawEnds, Crash, Ends, Idle
  <2> QED  BY <1>0, <2>1
<1>6. ASSUME NEW p \in Procs, ReadToClose(p) \/ \E s \in Symbols : Close(p, s)
      PROVE  AimInv'
  <2>1. proc'[p].pc = "closing"
    <3>1. CASE ReadToClose(p)  BY <1>0, <3>1 DEF ReadToClose, Process
    <3>2. CASE \E s \in Symbols : Close(p, s)  BY <1>0, <3>2 DEF Close, Process
    <3> QED  BY <1>6, <3>1, <3>2
  <2> QED  BY <1>0, <2>1
<1>7. ASSUME NEW s \in Symbols, Liquidate(s)
      PROVE  AimInv'
  <2>1. \A p \in Procs :
          /\ proc'[p].pc = proc[p].pc /\ proc'[p].t = proc[p].t
          /\ proc'[p].want = proc[p].want /\ proc'[p].seen = proc[p].seen
          /\ proc'[p].todo = proc[p].todo
          /\ At(p, "orders") => proc'[p].moved = proc[p].moved \cup {s}
    BY <1>0, <1>7 DEF Liquidate, Process
  <2>2. rows' = rows /\ \A r \in Symbols \ {s} : pos'[r] = pos[r]
    BY <1>0, <1>7 DEF Liquidate, Positions
  <2>3. \A p \in Procs : proc[p].todo \subseteq Symbols  BY <1>0 DEF Process
  <2> QED  BY <2>1, <2>2, <2>3 DEF LastCompleted
<1>8. ASSUME Tick
      PROVE  AimInv'
  <2> SUFFICES ASSUME NEW p \in Procs, At(p, "decide") \/ At(p, "orders")
               PROVE  rows'[LastCompleted(proc[p].t)] = rows[LastCompleted(proc[p].t)]
    BY <1>8 DEF Tick
  <2>1. proc[p].t \in Times /\ now \in Times /\ proc[p].t <= now
    BY DEF TypeOK, Process, Punctual, Triggered
  <2>2. proc[p].t \in Nat /\ now + 1 \in Nat /\ proc[p].t <= now + 1  BY <2>1 DEF Times
  <2>3. BarOf(proc[p].t) \in Nat /\ BarOf(proc[p].t) <= BarOf(now + 1)
    BY <2>2, BarOrder
  <2>4. BarOf(now + 1) \in Nat  BY <2>2, BarOrder
  <2>5. LastCompleted(proc[p].t) # BarOf(now + 1)  BY <2>3, <2>4 DEF LastCompleted
  <2>6. LastCompleted(proc[p].t) \in Bars  BY <2>1, BarInRange
  <2> QED  BY <1>0, <1>8, <2>5, <2>6 DEF Tick
<1>9. ASSUME UNCHANGED vars
      PROVE  AimInv'
  BY <1>9 DEF vars, LastCompleted
<1> QED
  BY <1>1, <1>2, <1>3, <1>4, <1>5, <1>6, <1>7, <1>8, <1>9 DEF Next, Update, Withdraw

\* THEOREM: while one process at a time trades and positions can be read, an
\* update moves each position toward the last closed bar's target and not past
\* it, however many updates died half way.
THEOREM TowardTargetTheorem ==
  ASSUME OneProcess, "read" \notin Faults
  PROVE  Spec => TowardTarget
<1>1. Init => Punctual /\ AimInv  BY DEF Init, Punctual, AimInv, Triggered, At, Idle
<1>2. TypeOK /\ Punctual /\ [Next]_vars => Punctual'  BY PunctualStep
<1>3. TypeOK /\ Punctual /\ AimInv /\ [Next]_vars => AimInv'  BY AimStep
<1>4. ASSUME TypeOK, AimInv, [Next]_vars
      PROVE  \A p \in Procs, s \in Symbols :
               Ordered(p, s) /\ At(p, "orders") /\ s \notin proc[p].moved
               => Between(pos[s], pos'[s], rows[LastCompleted(proc[p].t)][s])
  <2> SUFFICES ASSUME NEW p \in Procs, NEW s \in Symbols,
                      Ordered(p, s), At(p, "orders"), s \notin proc[p].moved
               PROVE  Between(pos[s], pos'[s], rows[LastCompleted(proc[p].t)][s])
    OBVIOUS
  <2>1. PlaceOrder(p, s)  BY <1>4, OrderedByAnOrder
  <2>2. PICK n \in 0 .. MayFill(p, s) : Trade(p, s, n)  BY <2>1 DEF PlaceOrder
  <2>3. /\ pos'[s] \in Int /\ pos[s] \in Int /\ Diff(p, s) \in Int
        /\ n \in 0 .. Size(Diff(p, s))
        /\ Diff(p, s) >= 0 => pos'[s] = pos[s] + n
        /\ Diff(p, s) < 0 => pos'[s] = pos[s] - n
    BY <1>4, <2>2, TradeIsTyped
  <2>4. proc[p].seen[s] = pos[s] /\ proc[p].want = rows[LastCompleted(proc[p].t)]
    BY <1>4, <2>1 DEF AimInv, PlaceOrder
  <2>5. proc[p].want[s] \in Int /\ Diff(p, s) = proc[p].want[s] - pos[s]
    BY <1>4, <2>4 DEF TypeOK, Process, Positions, Diff
  <2> QED  BY <2>3, <2>4, <2>5 DEF Between, Size
<1> QED  BY <1>1, <1>2, <1>3, <1>4, PerpsTypes, PTL DEF Spec, TowardTarget

-----------------------------------------------------------------------------
(* What the snapshots explain *)

\* The reconciler finds the intent in the snapshots of the bar or of the one
\* before.
Found(b, f) == f \in files[b] \/ (b # 0 /\ f \in files[b - 1])

\* A trigger that has yet to write its snapshot holds the intent.
Pending(b, f) ==
  \E p \in Procs : /\ At(p, "orders") \/ At(p, "snapshot")
                   /\ f \in proc[p].intents
                   /\ b \in BarOf(proc[p].t) .. BarOf(now)

FillsInv == \A b \in Bars \ died : \A f \in fills[b] : Found(b, f) \/ Pending(b, f)

\* A step that keeps the record of fills keeps it, if whoever holds an intent
\* goes on holding it and no snapshot loses one.
LEMMA FillsKept ==
  ASSUME TypeOK, FillsInv, fills' = fills, died \subseteq died',
         \A b \in Bars : files[b] \subseteq files'[b],
         \A b \in Bars \ died' : \A f : Pending(b, f) => Found(b, f)' \/ Pending(b, f)'
  PROVE  FillsInv'
<1> SUFFICES ASSUME NEW b \in Bars \ died', NEW f \in fills[b]
             PROVE  Found(b, f)' \/ Pending(b, f)'
  BY DEF FillsInv
<1>1. Found(b, f) \/ Pending(b, f)  BY DEF FillsInv
<1>2. b # 0 => b - 1 \in Bars
  <2>1. MaxTime \in Nat /\ BarOf(MaxTime) \in Nat  BY PerpsAssumption, BarOrder
  <2> QED  BY <2>1 DEF Bars
<1>3. Found(b, f) => Found(b, f)'  BY <1>2 DEF Found
<1> QED  BY <1>1, <1>3

\* Every step keeps it, when a trigger ends before the second bar after its own.
LEMMA FillsStep ==
  ASSUME Prompt, TypeOK, Punctual, Punctual', FillsInv, [Next]_vars
  PROVE  FillsInv'
<1> USE DEF history, At
<1>0. /\ proc \in [Procs -> Process] /\ files \in [Bars -> SUBSET Intent]
      /\ fills \in [Bars -> SUBSET Intent] /\ died \in SUBSET Bars
      /\ now \in Times /\ now \in Nat /\ BarOf(now) \in Bars
      /\ \A p \in Procs : proc[p].t \in Nat /\ BarOf(proc[p].t) \in Bars
  <2>1. proc \in [Procs -> Process] /\ now \in Times /\ \A p \in Procs : proc[p].t \in Times
    BY DEF TypeOK, Process
  <2> QED  BY <2>1, BarInRange DEF TypeOK, Times
<1>b. MaxTime \in Nat /\ BarOf(MaxTime) \in Nat /\ Bars \subseteq Nat
  BY PerpsAssumption, BarOrder DEF Bars
<1>1. ASSUME NEW p \in Procs,
             \/ StartUpdate(p) \/ StartWithdraw(p) \/ Begin(p) \/ Fetch(p)
             \/ MarkReconcile(p)
      PROVE  FillsInv'
  <2>1. /\ ~At(p, "orders") /\ ~At(p, "snapshot")
        /\ fills' = fills /\ died' = died /\ files' = files /\ now' = now
        /\ \A q \in Procs \ {p} : proc'[q] = proc[q]
    BY <1>0, <1>1 DEF StartUpdate, StartWithdraw, Start, Begin, Fetch, MarkReconcile, Goto
  <2>2. \A b \in Bars : \A f : Pending(b, f) => Pending(b, f)'  BY <2>1 DEF Pending
  <2> QED  BY <2>1, <2>2, FillsKept
<1>2. ASSUME NEW p \in Procs,
             \/ Halted(p) \/ NoCompletedBar(p) \/ Throttled(p)
             \/ Reconcile(p) \/ WithdrawEnds(p)
      PROVE  FillsInv'
  <2>1. /\ ~At(p, "orders") /\ ~At(p, "snapshot")
        /\ fills' = fills /\ died' = died /\ files' = files /\ now' = now
        /\ \A q \in Procs \ {p} : proc'[q] = proc[q]
    BY <1>0, <1>2 DEF Halted, NoCompletedBar, Throttled, Reconcile, WithdrawEnds, Ends
  <2>2. \A b \in Bars : \A f : Pending(b, f) => Pending(b, f)'  BY <2>1 DEF Pending
  <2> QED  BY <2>1, <2>2, FillsKept
<1>3. ASSUME NEW p \in Procs, Decide(p) \/ ReadToClose(p) \/ \E s \in Symbols : Close(p, s)
      PROVE  FillsInv'
  <2>1. /\ ~At(p, "orders") /\ ~At(p, "snapshot")
        /\ fills' = fills /\ died' = died /\ files' = files /\ now' = now
        /\ \A q \in Procs \ {p} : proc'[q] = proc[q]
    BY <1>0, <1>3 DEF Decide, ReadToClose, Close
  <2>2. \A b \in Bars : \A f : Pending(b, f) => Pending(b, f)'  BY <2>1 DEF Pending
  <2> QED  BY <2>1, <2>2, FillsKept
<1>4. ASSUME NEW p \in Procs, NEW s \in Symbols, PlaceOrder(p, s)
      PROVE  FillsInv'
  <2> DEFINE intent == [sym |-> s, buy |-> Diff(p, s) > 0]
  <2>1. /\ At(p, "orders") /\ died' = died /\ files' = files /\ now' = now
        /\ \A q \in Procs \ {p} : proc'[q] = proc[q]
        /\ proc'[p].pc = "orders" /\ proc'[p].t = proc[p].t
        /\ proc'[p].intents = proc[p].intents \cup {intent}
    BY <1>0, <1>4 DEF PlaceOrder, Process
  <2>2. \A b \in Bars : \A f : Pending(b, f) => Pending(b, f)'  BY <2>1 DEF Pending
  <2>3. \E q \in Procs : /\ proc'[q].pc = "orders" /\ intent \in proc'[q].intents
                         /\ BarOf(now) \in BarOf(proc'[q].t) .. BarOf(now')
    <3>1. proc[p].t <= now  BY <2>1 DEF Punctual, Triggered
    <3>2. BarOf(proc[p].t) <= BarOf(now)  BY <1>0, <3>1, BarOrder
    <3>3. BarOf(proc[p].t) \in Nat /\ BarOf(now) \in Nat  BY <1>0, <1>b
    <3>4. BarOf(now) \in BarOf(proc[p].t) .. BarOf(now)  BY <3>2, <3>3
    <3>5. /\ proc'[p].pc = "orders" /\ intent \in proc'[p].intents
          /\ BarOf(now) \in BarOf(proc'[p].t) .. BarOf(now')
      BY <2>1, <3>4
    <3> QED  BY <3>5
  <2>4. CASE fills' = fills
    BY <2>1, <2>2, <2>4, FillsKept
  <2>5. CASE fills' = [fills EXCEPT ![BarOf(now)] = @ \cup {intent}]
    <3> SUFFICES ASSUME NEW b \in Bars \ died, NEW f \in fills'[b]
                 PROVE  Found(b, f)' \/ Pending(b, f)'
      BY <2>1 DEF FillsInv
    <3>1. f \in fills[b] \/ (b = BarOf(now) /\ f = intent)  BY <1>0, <2>5
    <3>2. CASE f \in fills[b]
      BY <2>1, <2>2, <3>2 DEF FillsInv, Found
    <3>3. CASE b = BarOf(now) /\ f = intent
      BY <2>3, <3>3 DEF Pending
    <3> QED  BY <3>1, <3>2, <3>3
  <2> QED  BY <1>4, <2>4, <2>5 DEF PlaceOrder
<1>5. ASSUME NEW p \in Procs, SaveState(p)
      PROVE  FillsInv'
  <2>1. /\ fills' = fills /\ died' = died /\ files' = files /\ now' = now
        /\ \A q \in Procs \ {p} : proc'[q] = proc[q]
        /\ proc'[p].pc = "snapshot" /\ proc'[p].t = proc[p].t
        /\ proc'[p].intents = proc[p].intents
    BY <1>0, <1>5 DEF SaveState, Goto, Process
  <2>2. \A b \in Bars : \A f : Pending(b, f) => Pending(b, f)'  BY <2>1 DEF Pending
  <2> QED  BY <2>1, <2>2, FillsKept
<1>6. ASSUME NEW p \in Procs, WriteSnapshot(p)
      PROVE  FillsInv'
  <2>1. /\ fills' = fills /\ died' = died /\ now' = now
        /\ files' = [files EXCEPT ![BarOf(proc[p].t)] = @ \cup proc[p].intents]
        /\ \A q \in Procs \ {p} : proc'[q] = proc[q]
        /\ At(p, "snapshot")
    BY <1>0, <1>6 DEF WriteSnapshot, Goto
  <2>2. \A b \in Bars : files[b] \subseteq files'[b]  BY <1>0, <2>1
  <2>3. ASSUME NEW b \in Bars, NEW f, f \in proc[p].intents,
               b \in BarOf(proc[p].t) .. BarOf(now)
        PROVE  Found(b, f)'
    <3>1. proc[p].t <= now /\ now <= proc[p].t + BarTicks
      BY <2>1 DEF Punctual, Triggered
    <3>2. BarOf(now) <= BarOf(proc[p].t) + 1  BY <1>0, <3>1, BarLength
    <3>3. b = BarOf(proc[p].t) \/ (b # 0 /\ b - 1 = BarOf(proc[p].t))
      <4>1. BarOf(proc[p].t) \in Nat /\ BarOf(now) \in Nat  BY <1>0, <1>b
      <4>2. b \in Nat  BY <1>b
      <4> QED  BY <2>3, <3>2, <4>1, <4>2
    <3>4. f \in files'[BarOf(proc[p].t)]  BY <1>0, <2>1, <2>3
    <3> QED  BY <3>3, <3>4 DEF Found
  <2>4. \A b \in Bars : \A f : Pending(b, f) => Found(b, f)' \/ Pending(b, f)'
    BY <2>1, <2>3 DEF Pending
  <2> QED  BY <2>1, <2>2, <2>4, FillsKept
<1>7. ASSUME NEW p \in Procs, Crash(p)
      PROVE  FillsInv'
  <2>1. /\ fills' = fills /\ files' = files /\ now' = now
        /\ \A q \in Procs \ {p} : proc'[q] = proc[q]
        /\ died \subseteq died'
        /\ At(p, "orders") \/ At(p, "snapshot")
           => BarOf(proc[p].t) .. BarOf(now) \subseteq died'
    BY <1>0, <1>7 DEF Crash, Ends
  <2>2. \A b \in Bars \ died' : \A f : Pending(b, f) => Pending(b, f)'
    BY <2>1 DEF Pending
  <2> QED  BY <2>1, <2>2, FillsKept
<1>8. ASSUME NEW s \in Symbols, Liquidate(s)
      PROVE  FillsInv'
  <2>1. /\ fills' = fills /\ died' = died /\ files' = files /\ now' = now
        /\ \A p \in Procs : /\ proc'[p].pc = proc[p].pc /\ proc'[p].t = proc[p].t
                            /\ proc'[p].intents = proc[p].intents
    BY <1>0, <1>8 DEF Liquidate, Process
  <2>2. \A b \in Bars : \A f : Pending(b, f) => Pending(b, f)'  BY <2>1 DEF Pending
  <2> QED  BY <2>1, <2>2, FillsKept
<1>9. ASSUME Tick
      PROVE  FillsInv'
  <2>1. fills' = fills /\ died' = died /\ files' = files /\ proc' = proc /\ now' = now + 1
    BY <1>9 DEF Tick
  <2>2. BarOf(now) <= BarOf(now + 1) /\ BarOf(now + 1) \in Nat  BY <1>0, BarOrder
  <2>3. \A p \in Procs, b \in Bars :
          b \in BarOf(proc[p].t) .. BarOf(now) => b \in BarOf(proc[p].t) .. BarOf(now + 1)
    <3>1. BarOf(now) \in Nat /\ \A p \in Procs : BarOf(proc[p].t) \in Nat  BY <1>0, <1>b
    <3> QED  BY <2>2, <3>1
  <2>4. \A b \in Bars : \A f : Pending(b, f) => Pending(b, f)'  BY <2>1, <2>3 DEF Pending
  <2> QED  BY <2>1, <2>4, FillsKept
<1>10. ASSUME UNCHANGED vars
       PROVE  FillsInv'
  BY <1>10 DEF vars, FillsInv, Found, Pending
<1> QED
  BY <1>1, <1>2, <1>3, <1>4, <1>5, <1>6, <1>7, <1>8, <1>9, <1>10 DEF Next, Update, Withdraw

\* THEOREM: when a trigger takes no longer than a bar, the snapshots explain every
\* fill of a bar in which none died, also those of updates that ran at once.
THEOREM ExplainedTheorem ==
  ASSUME Prompt
  PROVE  Spec => []FillsAreExplained
<1>1. Init => Punctual /\ FillsInv
  BY DEF Init, Punctual, FillsInv, Triggered, At, Idle
<1>2. TypeOK /\ Punctual /\ [Next]_vars => Punctual'  BY PunctualStep
<1>3. TypeOK /\ Punctual /\ Punctual' /\ FillsInv /\ [Next]_vars => FillsInv'  BY FillsStep
<1>4. FillsInv => FillsAreExplained
  BY DEF FillsInv, FillsAreExplained, Found, Pending, At
<1> QED  BY <1>1, <1>2, <1>3, <1>4, PerpsTypes, PTL DEF Spec

=============================================================================
