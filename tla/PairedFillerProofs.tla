-------------------------- MODULE PairedFillerProofs --------------------------
(***************************************************************************)
(* Proofs about PairedFiller, for every size, chunk, minimum and balance.  *)
(* The totals are compared with the venues through the chunk in flight,    *)
(* whose fills are traded and not counted yet, and through what the        *)
(* look-ups missed and a roll back left, which never will be.              *)
(***************************************************************************)
EXTENDS PairedFiller, FillerContract, TLAPS

\* What the venues hold is what is counted, what the look-ups missed, the chunk in
\* flight, and in the end what a roll back left.
Ledger ==
  /\ \A l \in Legs : told[l] <= venue[l]
  /\ pc = "loop" => \A l \in Legs : venue[l] = told[l] + missed[l]
  /\ pc \in {"legs", "confirmed"} =>
       \A l \in Legs : /\ venue[l] = told[l] + missed[l] + fill[l]
                       /\ l \in pending => fill[l] = 0
  /\ pc = "done" => /\ venue["spot"] = told["spot"] + missed["spot"]
                    /\ venue["perp"] = told["perp"] + missed["perp"] + naked
  /\ pc # "done" => naked = 0

\* Neither leg is short of the progress that was counted.
Progress == \A l \in Legs : told[l] + remaining >= Total

SpotFirst == told["spot"] = 0 => told["perp"] = 0

\* The inductive invariant.
IInv == TypeOK /\ DeltaIsImbalance /\ Ledger /\ Progress /\ SpotFirst

-----------------------------------------------------------------------------
\* The sizes the filler computes are numbers, and what an order may fill is a
\* number that is not negative.
LEMMA SizesAreNumbers ==
  ASSUME TypeOK
  PROVE  /\ Left \in Int
         /\ \A n \in Int : MaxSpotUnits(n) \in Int
         /\ NextChunk \in Int /\ RepairSize \in Int
<1> USE FillerAssumption
<1>1. Left \in Int
  BY DEF TypeOK, Left, Legs
<1>2. \A n \in Int : MaxSpotUnits(n) \in Int
  BY <1>1 DEF MaxSpotUnits, Least
<1>3. \A n \in Int : Shrunk(n) \in Int
  BY DEF Shrunk
<1>4. Least(remaining, MaxChunk) \in Int
  BY DEF TypeOK, Least
<1>5. NextChunk \in Int
  BY <1>2, <1>3, <1>4 DEF NextChunk
<1>6. Size(delta) \in Int
  BY DEF TypeOK, Size
<1>7. RepairSize \in Int
  BY <1>2, <1>6 DEF RepairSize, Least
<1> QED
  BY <1>1, <1>2, <1>5, <1>7

\* What an order fills is a number of units.
LEMMA FillsAreNumbers ==
  ASSUME TypeOK, NEW l \in Legs, NEW n \in Int
  PROVE  MayFill(l, n) \subseteq Nat
  BY SizesAreNumbers DEF MayFill, Least

\* A look-up finds nothing more than what was filled, and something of it.
LEMMA FoundIsFilled ==
  ASSUME NEW n \in Nat, NEW c \in Found(n)
  PROVE  c \in Nat /\ c <= n /\ (c = 0 <=> n = 0)
  BY DEF Found

\* What a repair order that filled n, of which c were found, does to the units.
Repaired(l, n, c) ==
  /\ venue' = [venue EXCEPT ![l] = @ + n]
  /\ \/ /\ c = 0 /\ Return
        /\ UNCHANGED <<delta, told, missed>>
     \/ Raise /\ UNCHANGED <<delta, told, missed>>
     \/ /\ c > 0
        /\ told' = [told EXCEPT ![l] = @ + c]
        /\ missed' = [missed EXCEPT ![l] = @ + n - c]
        /\ delta' = IF l = "perp" THEN delta - c ELSE delta + c
        /\ UNCHANGED pc

\* The initial state satisfies the invariant.
LEMMA InitIInv == Init => IInv
  BY FillerAssumption
  DEF Init, IInv, TypeOK, DeltaIsImbalance, Ledger, Progress, SpotFirst,
      Nothing, Legs

\* Every step preserves the invariant.
LEMMA StepIInv ==
  ASSUME IInv, [Next]_vars
  PROVE  IInv'
<1> USE FillerAssumption
<1> USE DEF IInv, TypeOK, DeltaIsImbalance, Ledger, Progress, SpotFirst, Legs,
            Nothing
<1>1. CASE Finish
  BY <1>1 DEF Finish, Return, ledger
<1>2. ASSUME NEW l \in Legs, Repair(l)
      PROVE  IInv'
  <2>p. PICK n \in MayFill(l, RepairSize) : \E c \in Found(n) : Repaired(l, n, c)
    BY <1>2 DEF Repair, Repaired
  <2>1. PICK c \in Found(n) : Repaired(l, n, c)
    BY <2>p
  <2>2. n \in Nat /\ c \in Nat /\ c <= n /\ (c = 0 <=> n = 0)
    <3>1. n \in Nat  BY SizesAreNumbers, FillsAreNumbers
    <3> QED  BY <3>1, FoundIsFilled
  <2>3. /\ pc = "loop" /\ loops' = loops + 1
        /\ l = "perp" => delta > 0
        /\ UNCHANGED <<buying, remaining, chunk, pending, fill, naked>>
    BY <1>2 DEF Repair
  <2> QED
    BY <2>1, <2>2, <2>3 DEF Repaired, Return, Raise
<1>3. CASE SendChunk
  BY <1>3, SizesAreNumbers DEF SendChunk, ledger
<1>4. ASSUME NEW l \in Legs, Answered(l)
      PROVE  IInv'
  <2>1. PICK n \in MayFill(l, chunk) :
          /\ fill' = [fill EXCEPT ![l] = n]
          /\ venue' = [venue EXCEPT ![l] = @ + n]
    BY <1>4 DEF Answered
  <2>2. n \in Nat
    BY FillsAreNumbers
  <2> QED
    BY <1>4, <2>1, <2>2 DEF Answered
<1>5. ASSUME NEW l \in Legs, LegRaises(l) \/ LateFill(l)
      PROVE  IInv'
  <2>1. PICK n \in MayFill(l, chunk) : venue' = [venue EXCEPT ![l] = @ + n]
    BY <1>5 DEF LegRaises, LateFill
  <2>2. n \in Nat
    BY FillsAreNumbers
  <2>3. /\ pc' = "raised" /\ pending' = pending \ {l} /\ pc # "done"
        /\ UNCHANGED <<buying, remaining, delta, loops, chunk, fill, told, missed, naked>>
    BY <1>5 DEF LegRaises, LateFill, Raise
  <2> QED
    BY <2>1, <2>2, <2>3
<1>6. CASE Confirm
  <2>1. PICK s \in Found(fill["spot"]), p \in Found(fill["perp"]) :
          /\ fill' = [fill EXCEPT !["spot"] = s, !["perp"] = p]
          /\ missed' = [missed EXCEPT !["spot"] = @ + fill["spot"] - s,
                                     !["perp"] = @ + fill["perp"] - p]
    BY <1>6 DEF Confirm
  <2>2. s \in Nat /\ s <= fill["spot"] /\ p \in Nat /\ p <= fill["perp"]
    BY FoundIsFilled
  <2>3. /\ pc = "legs" /\ pc' = "confirmed" /\ pending = {}
        /\ UNCHANGED <<buying, remaining, delta, loops, chunk, pending, told, venue, naked>>
    BY <1>6 DEF Confirm
  <2> QED
    BY <2>1, <2>2, <2>3
<1>7. CASE NoProgress
  BY <1>7 DEF NoProgress, Return, ledger
<1>8. CASE RollBackPerp
  <2>1. PICK n \in 0 .. fill["perp"] :
          /\ venue' = [venue EXCEPT !["perp"] = @ - n]
          /\ naked' = naked + fill["perp"] - n
    BY <1>8 DEF RollBackPerp
  <2>2. n \in Nat /\ n <= fill["perp"] /\ n <= venue["perp"]
    BY <1>8, <2>1 DEF RollBackPerp, LonePerp
  <2> QED
    BY <1>8, <2>1, <2>2 DEF RollBackPerp, LonePerp, Return
<1>9. CASE Count
  BY <1>9 DEF Count, Least, Most
<1>10. CASE UNCHANGED vars
  BY <1>10 DEF vars, ledger
<1> QED
  BY <1>1, <1>2, <1>3, <1>4, <1>5, <1>6, <1>7, <1>8, <1>9, <1>10 DEF Next

\* The invariant holds in every reachable state.
LEMMA Invariance == Spec => []IInv
  BY InitIInv, StepIInv, PTL DEF Spec

-----------------------------------------------------------------------------
\* Every variable keeps its type; in particular a roll back never takes more
\* than was traded.
THEOREM FillerTypes == Spec => []TypeOK
<1>1. IInv => TypeOK
  BY DEF IInv
<1> QED
  BY <1>1, Invariance, PTL

\* The imbalance that fill_pair_units repairs is that of the totals it reports.
THEOREM DeltaTheorem == Spec => []DeltaIsImbalance
<1>1. IInv => DeltaIsImbalance
  BY DEF IInv
<1> QED
  BY <1>1, Invariance, PTL

\* When fill_pair_units returns, its totals leave out what the look-ups missed and
\* what a roll back did not take back, and nothing else.
THEOREM TotalsTheorem == Spec => []TotalsAreTraded
<1>1. IInv => TotalsAreTraded
  BY DEF IInv, Ledger, TotalsAreTraded
<1> QED
  BY <1>1, Invariance, PTL

\* When nothing is left to do both legs filled at least what was asked, and the
\* same.
THEOREM CompletionTheorem == Spec => []CompletedIsFilled
<1>1. IInv => CompletedIsFilled
  BY FillerAssumption
  DEF IInv, TypeOK, DeltaIsImbalance, Progress, CompletedIsFilled, Legs
<1> QED
  BY <1>1, Invariance, PTL

-----------------------------------------------------------------------------
(* How far apart the legs may be *)

\* A chunk is no larger than max_chunk_units, and a repair than the imbalance.
LEMMA SizesAreBounded ==
  ASSUME TypeOK
  PROVE  /\ NextChunk <= MaxChunk
         /\ \A l \in Legs, n \in Int : \A m \in MayFill(l, n) : m \in Nat /\ m <= n
         /\ RepairSize <= Size(delta)
<1> USE FillerAssumption
<1>0. remaining \in Nat /\ delta \in Int /\ Left \in Int
  BY SizesAreNumbers DEF TypeOK
<1>1. \A n \in Nat : MaxSpotUnits(n) <= n
  BY <1>0 DEF MaxSpotUnits, Least
<1>2. Least(remaining, MaxChunk) \in Nat /\ Least(remaining, MaxChunk) <= MaxChunk
  BY <1>0 DEF Least
<1>3. \A n \in Nat : Shrunk(n) \in Nat /\ Shrunk(n) <= n
  BY SMTT(60) DEF Shrunk
<1>4. NextChunk <= MaxChunk
  <2> DEFINE whole == Least(remaining, MaxChunk)
             wanted == IF remaining < MaxChunk /\ loops > 0 THEN Shrunk(whole) ELSE whole
  <2>1. wanted \in Nat /\ wanted <= MaxChunk  BY <1>2, <1>3
  <2>2. MaxSpotUnits(wanted) <= wanted /\ MaxSpotUnits(wanted) \in Int
    BY <1>1, <2>1, SizesAreNumbers
  <2>3. NextChunk = IF wanted < MinUnits THEN 0 ELSE MaxSpotUnits(wanted)
    BY DEF NextChunk
  <2> HIDE DEF wanted
  <2> QED  BY <2>1, <2>2, <2>3
<1>5. \A l \in Legs, n \in Int : \A m \in MayFill(l, n) : m \in Nat /\ m <= n
  BY <1>0 DEF MayFill, Least
<1>6. RepairSize <= Size(delta)
  <2>1. Size(delta) \in Nat  BY <1>0 DEF Size
  <2>2. MaxSpotUnits(Size(delta)) <= Size(delta)  BY <1>1, <2>1
  <2> QED  BY <2>1, <2>2 DEF RepairSize, Least
<1> QED  BY <1>4, <1>5, <1>6

\* An order moves its own leg only.
LEMMA OneLegMoves ==
  ASSUME TypeOK, NEW l \in Legs, NEW n \in Nat, venue' = [venue EXCEPT ![l] = @ + n]
  PROVE  /\ venue'["spot"] = IF l = "spot" THEN venue["spot"] + n ELSE venue["spot"]
         /\ venue'["perp"] = IF l = "perp" THEN venue["perp"] + n ELSE venue["perp"]
         /\ l = "spot" \/ l = "perp"
         /\ venue["spot"] \in Nat /\ venue["perp"] \in Nat
  BY DEF TypeOK, Legs

\* Between chunks the counted imbalance is at most one; while one is in flight there
\* is none besides it; and what an exception leaves in flight can only catch up.
ChunkInv ==
  /\ UnpairedIsAChunk
  /\ pc = "loop" => pending = {} /\ Size(delta) <= MaxChunk
  /\ pc \in {"legs", "confirmed"} => /\ delta = 0 /\ chunk \in 0 .. MaxChunk
                                    /\ \A l \in Legs : fill[l] <= chunk
  /\ pc = "confirmed" => pending = {}
  /\ pc = "raised" => \A l \in pending : \A m \in Legs \ {l} :
                        /\ m \notin pending /\ chunk \in 0 .. MaxChunk
                        /\ venue[m] - missed[m] - (venue[l] - missed[l]) \in 0 .. chunk

\* Every step keeps it.
LEMMA ChunkStep ==
  ASSUME IInv, ChunkInv, [Next]_vars
  PROVE  ChunkInv'
<1> USE FillerAssumption
<1> USE DEF ChunkInv, UnpairedIsAChunk, Size, Most
<1>0. /\ pc \in {"loop", "legs", "confirmed", "done", "raised"} /\ delta \in Int
      /\ chunk \in Nat /\ pending \in SUBSET Legs /\ fill \in [Legs -> Nat]
      /\ told \in [Legs -> Nat] /\ venue \in [Legs -> Nat]
      /\ missed \in [Legs -> Nat] /\ delta = told["spot"] - told["perp"]
      /\ pc = "loop" => \A l \in Legs : venue[l] = told[l] + missed[l]
      /\ pc \in {"legs", "confirmed"} =>
           \A l \in Legs : /\ venue[l] = told[l] + missed[l] + fill[l]
                           /\ l \in pending => fill[l] = 0
  BY DEF IInv, TypeOK, DeltaIsImbalance, Ledger
<1>n. /\ venue["spot"] \in Nat /\ venue["perp"] \in Nat
      /\ missed["spot"] \in Nat /\ missed["perp"] \in Nat
      /\ fill["spot"] \in Nat /\ fill["perp"] \in Nat
      /\ MaxChunk \in Nat
  BY <1>0 DEF Legs
<1>f. pc \in {"legs", "confirmed"} =>
        /\ fill["spot"] \in 0 .. chunk /\ fill["perp"] \in 0 .. chunk
        /\ chunk \in Nat /\ chunk <= MaxChunk
        /\ venue["spot"] - venue["perp"]
             = missed["spot"] - missed["perp"] + fill["spot"] - fill["perp"]
        /\ \A l \in pending : fill[l] = 0
  BY <1>0 DEF Legs
<1>1. CASE Finish
  BY <1>0, <1>1 DEF Finish, Return, ledger
<1>2. ASSUME NEW l \in Legs, Repair(l)
      PROVE  ChunkInv'
  <2>p. PICK n \in MayFill(l, RepairSize) : \E c \in Found(n) : Repaired(l, n, c)
    BY <1>2 DEF Repair, Repaired
  <2>1. PICK c \in Found(n) : Repaired(l, n, c)
    BY <2>p
  <2>2. /\ n \in Nat /\ n <= Size(delta)
        /\ c \in Nat /\ c <= n /\ (c = 0 <=> n = 0)
    <3>1. TypeOK /\ RepairSize \in Int  BY SizesAreNumbers DEF IInv
    <3>2. n \in Nat /\ n <= RepairSize  BY <3>1, SizesAreBounded
    <3>3. RepairSize <= Size(delta)  BY <3>1, SizesAreBounded
    <3>4. c \in Nat /\ c <= n /\ (c = 0 <=> n = 0)  BY <3>2, FoundIsFilled
    <3> QED  BY <1>0, <3>1, <3>2, <3>3, <3>4
  <2>3. /\ pc = "loop" /\ pending' = pending
        /\ IF l = "perp" THEN delta > 0 ELSE delta < 0
    BY <1>2 DEF Repair
  <2>4. l = "spot" \/ l = "perp"  BY DEF Legs
  <2>m. /\ venue'["spot"] = IF l = "spot" THEN venue["spot"] + n ELSE venue["spot"]
        /\ venue'["perp"] = IF l = "perp" THEN venue["perp"] + n ELSE venue["perp"]
    BY <2>1, <2>2, OneLegMoves DEF IInv, Repaired
  <2>u. venue["spot"] - venue["perp"] = delta + missed["spot"] - missed["perp"]
    BY <1>0, <2>3 DEF Legs
  <2>d. delta \in Int /\ Size(delta) <= MaxChunk
    BY <1>0, <2>3
  <2>5. CASE missed' = missed /\ pc' # "loop" /\ pc' \in {"done", "raised"}
    <3>1. UnpairedIsAChunk'
      BY <1>n, <2>m, <2>u, <2>d, <2>2, <2>3, <2>4, <2>5
    <3>2. pending' = {}
      BY <2>3
    <3> QED
      BY <2>5, <3>1, <3>2
  <2>6. CASE /\ missed' = [missed EXCEPT ![l] = @ + n - c] /\ pc' = "loop"
             /\ delta' = IF l = "perp" THEN delta - c ELSE delta + c
    <3>1. /\ missed'["spot"] = IF l = "spot" THEN missed["spot"] + n - c ELSE missed["spot"]
          /\ missed'["perp"] = IF l = "perp" THEN missed["perp"] + n - c ELSE missed["perp"]
      BY <1>0, <2>4, <2>6 DEF Legs
    <3>2. Size(delta') <= MaxChunk
      BY <2>d, <2>2, <2>3, <2>4, <2>6
    <3>3. UnpairedIsAChunk'
      <4>1. CASE l = "spot"
        BY <1>n, <2>m, <2>u, <2>d, <2>2, <2>3, <3>1, <4>1
      <4>2. CASE l = "perp"
        BY <1>n, <2>m, <2>u, <2>d, <2>2, <2>3, <3>1, <4>2
      <4> QED
        BY <2>4, <4>1, <4>2
    <3>4. pending' = {}
      BY <2>3
    <3> QED
      BY <2>6, <3>2, <3>3, <3>4
  <2> QED
    BY <2>1, <2>3, <2>5, <2>6 DEF Repaired, Return, Raise
<1>3. CASE SendChunk
  <2>1. NextChunk \in Int /\ NextChunk <= MaxChunk
    BY SizesAreNumbers, SizesAreBounded DEF IInv
  <2> QED
    BY <1>0, <1>3, <2>1 DEF SendChunk, Nothing, ledger
<1>4. ASSUME NEW l \in Legs, Answered(l)
      PROVE  ChunkInv'
  <2>1. PICK n \in MayFill(l, chunk) :
          /\ fill' = [fill EXCEPT ![l] = n]
          /\ venue' = [venue EXCEPT ![l] = @ + n]
    BY <1>4 DEF Answered
  <2>2. n \in Nat /\ n <= chunk
    BY <1>0, SizesAreBounded DEF IInv
  <2>3. /\ pc = "legs" /\ l \in pending
        /\ UNCHANGED <<pc, delta, chunk, missed>>
    BY <1>4 DEF Answered
  <2>m. /\ venue'["spot"] = IF l = "spot" THEN venue["spot"] + n ELSE venue["spot"]
        /\ venue'["perp"] = IF l = "perp" THEN venue["perp"] + n ELSE venue["perp"]
        /\ l = "spot" \/ l = "perp"
    BY <2>1, <2>2, OneLegMoves DEF IInv
  <2>4. UnpairedIsAChunk'
    <3>1. fill[l] = 0  BY <1>f, <2>3
    <3>2. CASE l = "spot"
      BY <1>n, <1>f, <2>m, <2>2, <2>3, <3>1, <3>2
    <3>3. CASE l = "perp"
      BY <1>n, <1>f, <2>m, <2>2, <2>3, <3>1, <3>3
    <3> QED  BY <2>m, <3>2, <3>3
  <2> QED
    BY <1>0, <2>1, <2>2, <2>3, <2>4
<1>5. ASSUME NEW l \in Legs, LegRaises(l) \/ LateFill(l)
      PROVE  ChunkInv'
  <2>1. PICK n \in MayFill(l, chunk) : venue' = [venue EXCEPT ![l] = @ + n]
    BY <1>5 DEF LegRaises, LateFill
  <2>2. n \in Nat /\ n <= chunk
    BY <1>0, SizesAreBounded DEF IInv
  <2>3. /\ pc' = "raised" /\ pending' = pending \ {l} /\ l \in pending
        /\ pc \in {"legs", "raised"} /\ chunk' = chunk /\ missed' = missed
    BY <1>5 DEF LegRaises, LateFill, Raise
  <2>m. /\ venue'["spot"] = IF l = "spot" THEN venue["spot"] + n ELSE venue["spot"]
        /\ venue'["perp"] = IF l = "perp" THEN venue["perp"] + n ELSE venue["perp"]
        /\ l = "spot" \/ l = "perp"
    BY <2>1, <2>2, OneLegMoves DEF IInv
  <2>4. CASE pc = "legs"
    <3>0. fill[l] = 0  BY <1>f, <2>3, <2>4
    <3>1. UnpairedIsAChunk'
      BY <1>n, <1>f, <2>m, <2>2, <2>3, <2>4, <3>0
    <3>2. ASSUME NEW m \in Legs \ {l}, m \in pending
          PROVE  venue'[l] - missed'[l] - (venue'[m] - missed'[m]) \in 0 .. chunk
      <4>1. fill["spot"] = 0 /\ fill["perp"] = 0
        BY <1>f, <2>4, <3>0, <3>2 DEF Legs
      <4>2. venue["spot"] - missed["spot"] = venue["perp"] - missed["perp"]
        BY <1>n, <1>f, <2>4, <4>1
      <4>3. (l = "spot" /\ m = "perp") \/ (l = "perp" /\ m = "spot")
        BY DEF Legs
      <4> QED
        BY <1>n, <1>0, <2>m, <2>2, <2>3, <4>2, <4>3
    <3> QED
      BY <1>0, <1>f, <2>3, <2>4, <3>1, <3>2 DEF Legs
  <2>5. CASE pc = "raised"
    <3>0. PICK m \in Legs : (l = "spot" /\ m = "perp") \/ (l = "perp" /\ m = "spot")
      BY DEF Legs
    <3>1. /\ venue[m] - missed[m] - (venue[l] - missed[l]) \in 0 .. chunk
          /\ m \notin pending /\ chunk \in 0 .. MaxChunk
      BY <2>3, <2>5, <3>0
    <3>2. UnpairedIsAChunk'
      BY <1>n, <2>m, <2>2, <2>3, <3>0, <3>1
    <3>3. pending' = {}
      BY <1>0, <2>3, <3>0, <3>1 DEF Legs
    <3> QED
      BY <2>3, <3>2, <3>3
  <2> QED
    BY <2>3, <2>4, <2>5
<1>6. CASE Confirm
  <2>1. PICK s \in Found(fill["spot"]), p \in Found(fill["perp"]) :
          /\ fill' = [fill EXCEPT !["spot"] = s, !["perp"] = p]
          /\ missed' = [missed EXCEPT !["spot"] = @ + fill["spot"] - s,
                                     !["perp"] = @ + fill["perp"] - p]
    BY <1>6 DEF Confirm
  <2>2. s \in Nat /\ s <= fill["spot"] /\ p \in Nat /\ p <= fill["perp"]
    BY <1>n, FoundIsFilled
  <2>3. /\ pc = "legs" /\ pc' = "confirmed" /\ pending = {}
        /\ UNCHANGED <<delta, chunk, pending, venue>>
    BY <1>6 DEF Confirm
  <2>4. /\ missed'["spot"] = missed["spot"] + fill["spot"] - s
        /\ missed'["perp"] = missed["perp"] + fill["perp"] - p
        /\ fill'["spot"] = s /\ fill'["perp"] = p
    BY <1>0, <2>1 DEF Legs
  <2>5. UnpairedIsAChunk'
    BY <1>n, <1>f, <2>2, <2>3, <2>4
  <2>6. \A l \in Legs : fill'[l] <= chunk
    BY <1>n, <1>f, <2>2, <2>3, <2>4 DEF Legs
  <2> QED
    BY <2>3, <2>5, <2>6
<1>7. CASE NoProgress
  BY <1>0, <1>7 DEF NoProgress, Return, ledger
<1>8. CASE RollBackPerp
  <2>1. PICK n \in 0 .. fill["perp"] : venue' = [venue EXCEPT !["perp"] = @ - n]
    BY <1>8 DEF RollBackPerp
  <2>2. n \in Nat /\ n <= fill["perp"]
    BY <1>n, <2>1
  <2>3. /\ pc = "confirmed" /\ pc' = "done" /\ fill["spot"] = 0 /\ missed' = missed
    BY <1>8 DEF RollBackPerp, LonePerp, Return
  <2>4. venue'["spot"] = venue["spot"] /\ venue'["perp"] = venue["perp"] - n
    BY <1>0, <2>1 DEF Legs
  <2>5. UnpairedIsAChunk'
    BY <1>n, <1>f, <2>2, <2>3, <2>4
  <2> QED
    BY <2>3, <2>5
<1>9. CASE Count
  BY <1>0, <1>9 DEF Count, Legs
<1>10. CASE UNCHANGED vars
  BY <1>10 DEF vars, ledger
<1> QED
  BY <1>1, <1>2, <1>3, <1>4, <1>5, <1>6, <1>7, <1>8, <1>9, <1>10 DEF Next

\* The unpaired exposure is never more than one chunk and what the look-ups missed,
\* for any size, also when an order raises, a roll back fails, and the order left in
\* flight fills.
THEOREM UnpairedTheorem == Spec => []UnpairedIsAChunk
<1>1. Init => ChunkInv
  BY FillerAssumption DEF Init, ChunkInv, UnpairedIsAChunk, Size, Most, Nothing, Legs
<1>2. IInv /\ ChunkInv /\ [Next]_vars => ChunkInv'
  BY ChunkStep
<1>3. ChunkInv => UnpairedIsAChunk
  BY DEF ChunkInv
<1> QED
  BY <1>1, <1>2, <1>3, Invariance, PTL DEF Spec

-----------------------------------------------------------------------------
(* How much a call trades, and the contract its caller relies on *)

\* A loop trades no more than a chunk on either leg, and the order in flight is
\* part of the loop that sent it.
ChunkPerLoop ==
  /\ loops <= MaxLoops
  /\ \A l \in Legs : venue[l] <= MaxChunk * loops
  /\ pc \in {"legs", "raised"} =>
       \A l \in pending : venue[l] + chunk <= MaxChunk * loops

\* Every step keeps it: orders are sent only by a step that counts a loop.
LEMMA LoopStep ==
  ASSUME IInv, ChunkInv, ChunkPerLoop, [Next]_vars
  PROVE  ChunkPerLoop'
<1> DEFINE traded == MaxChunk * loops
<1>0. /\ pc \in {"loop", "legs", "confirmed", "done", "raised"} /\ chunk \in Nat
      /\ loops \in Nat
      /\ pending \in SUBSET Legs /\ fill \in [Legs -> Nat] /\ venue \in [Legs -> Nat]
      /\ delta \in Int /\ MaxChunk \in Nat /\ MaxLoops \in Nat
  BY FillerAssumption DEF IInv, TypeOK
<1>t. /\ traded \in Nat
      /\ loops' = loops => traded' = traded
      /\ loops' = loops + 1 => traded' = traded + MaxChunk
  BY <1>0
<1>i. /\ loops <= MaxLoops
      /\ \A l \in Legs : venue[l] <= traded
      /\ pc \in {"legs", "raised"} => \A l \in pending : venue[l] + chunk <= traded
  BY DEF ChunkPerLoop
<1>g. SUFFICES /\ loops' <= MaxLoops
               /\ \A l \in Legs : venue'[l] <= traded'
               /\ pc' \in {"legs", "raised"} =>
                    \A l \in pending' : venue'[l] + chunk' <= traded'
  BY DEF ChunkPerLoop
<1> HIDE DEF traded
<1>1. CASE Finish
  BY <1>1, <1>t, <1>i DEF Finish, Return, ledger
<1>2. ASSUME NEW l \in Legs, Repair(l)
      PROVE  /\ loops' <= MaxLoops
             /\ \A k \in Legs : venue'[k] <= traded'
             /\ pending' = {}
  <2>1. PICK n \in MayFill(l, RepairSize) : venue' = [venue EXCEPT ![l] = @ + n]
    BY <1>2 DEF Repair
  <2>2. n \in Nat /\ n <= MaxChunk
    <3>1. TypeOK /\ RepairSize \in Int  BY SizesAreNumbers DEF IInv
    <3>2. n \in Nat /\ n <= RepairSize /\ RepairSize <= Size(delta)
      BY <3>1, SizesAreBounded
    <3>3. Size(delta) <= MaxChunk /\ Size(delta) \in Int
      BY <1>0, <1>2 DEF Repair, ChunkInv, Size
    <3> QED  BY <1>0, <3>1, <3>2, <3>3
  <2>3. /\ pc = "loop" /\ loops < MaxLoops /\ loops' = loops + 1 /\ pending' = pending
    BY <1>2 DEF Repair, More
  <2>4. pending = {}  BY <2>3 DEF ChunkInv
  <2>5. \A k \in Legs : venue'[k] <= venue[k] + n /\ venue'[k] \in Nat
    BY <1>0, <2>1, <2>2
  <2> QED
    BY <1>0, <1>t, <1>i, <2>2, <2>3, <2>4, <2>5
<1>3. CASE SendChunk
  <2>1. NextChunk \in Int /\ NextChunk <= MaxChunk
    BY SizesAreNumbers, SizesAreBounded DEF IInv
  <2>2. /\ loops < MaxLoops /\ loops' = loops + 1 /\ chunk' = NextChunk
        /\ venue' = venue /\ pending' = Legs
    BY <1>3 DEF SendChunk, More, ledger
  <2> QED
    BY <1>0, <1>t, <1>i, <2>1, <2>2
<1>4. ASSUME NEW l \in Legs, Answered(l) \/ LegRaises(l) \/ LateFill(l)
      PROVE  /\ loops' <= MaxLoops
             /\ \A k \in Legs : venue'[k] <= traded'
             /\ \A k \in pending' : venue'[k] + chunk' <= traded'
  <2>1. PICK n \in MayFill(l, chunk) : venue' = [venue EXCEPT ![l] = @ + n]
    BY <1>4 DEF Answered, LegRaises, LateFill
  <2>2. n \in Nat /\ n <= chunk
    BY <1>0, SizesAreBounded DEF IInv
  <2>3. /\ pc \in {"legs", "raised"} /\ l \in pending /\ pending' = pending \ {l}
        /\ loops' = loops /\ chunk' = chunk
    BY <1>4 DEF Answered, LegRaises, LateFill
  <2>4. \A k \in Legs : venue'[k] = IF k = l THEN venue[k] + n ELSE venue[k]
    BY <1>0, <2>1
  <2> QED
    BY <1>0, <1>t, <1>i, <2>2, <2>3, <2>4
<1>5. CASE NoProgress \/ Confirm \/ Count
  BY <1>5, <1>t, <1>i DEF NoProgress, Confirm, Count, Return, ledger
<1>6. CASE RollBackPerp
  <2>1. PICK n \in 0 .. fill["perp"] : venue' = [venue EXCEPT !["perp"] = @ - n]
    BY <1>6 DEF RollBackPerp
  <2>2. n \in Nat
    BY <1>0, <2>1 DEF Legs
  <2>3. \A k \in Legs : venue'[k] <= venue[k] /\ venue'[k] \in Int
    BY <1>0, <2>1, <2>2
  <2> QED
    BY <1>0, <1>6, <1>t, <1>i, <2>3 DEF RollBackPerp, Return
<1>7. CASE UNCHANGED vars
  BY <1>7, <1>t, <1>i DEF vars, ledger
<1> QED
  BY <1>1, <1>2, <1>3, <1>4, <1>5, <1>6, <1>7 DEF Next

\* What is always true of the filler.
LEMMA AllInvariants == Spec => [](IInv /\ ChunkInv /\ ChunkPerLoop)
<1>1. Init => ChunkInv /\ ChunkPerLoop
  BY FillerAssumption
  DEF Init, ChunkInv, ChunkPerLoop, UnpairedIsAChunk, Size, Most, Nothing, Legs
<1>2. IInv /\ ChunkInv /\ ChunkPerLoop /\ [Next]_vars => ChunkInv' /\ ChunkPerLoop'
  BY ChunkStep, LoopStep
<1> QED
  BY <1>1, <1>2, Invariance, PTL DEF Spec

\* The units no leg of a call exceeds.
MostTraded == MaxChunk * MaxLoops

\* A call may trade more than it was asked for: progress is counted by the smaller
\* leg.  It never trades more than one chunk in each of its loops, the repairs and
\* the order left in flight by an exception included.
TradesAreBounded == \A l \in Legs : venue[l] <= MostTraded

\* What the invariants say of the sizes, without the loop counter.
LEMMA BoundByLoops ==
  ASSUME IInv, ChunkPerLoop
  PROVE  TradesAreBounded
<1>1. /\ loops \in Nat /\ MaxLoops \in Nat /\ MaxChunk \in Nat /\ loops <= MaxLoops
      /\ venue \in [Legs -> Nat] /\ \A l \in Legs : venue[l] <= MaxChunk * loops
  BY FillerAssumption DEF IInv, TypeOK, ChunkPerLoop
<1>2. PICK spare \in Nat : MaxLoops = loops + spare
  <2>1. MaxLoops - loops \in Nat /\ MaxLoops = loops + (MaxLoops - loops)
    BY <1>1
  <2> QED  BY <2>1
<1>3. MaxChunk * MaxLoops = MaxChunk * loops + MaxChunk * spare
  BY <1>1, <1>2
<1>4. MaxChunk * spare \in Nat /\ MaxChunk * loops \in Nat
  BY <1>1, <1>2
<1>5. ASSUME NEW l \in Legs  PROVE venue[l] <= MaxChunk * MaxLoops
  <2>1. venue[l] \in Nat /\ venue[l] <= MaxChunk * loops
    BY <1>1
  <2> DEFINE a == MaxChunk * loops
             b == MaxChunk * spare
             c == MaxChunk * MaxLoops
  <2>2. a \in Nat /\ b \in Nat /\ c = a + b /\ venue[l] <= a
    BY <1>3, <1>4, <2>1
  <2> HIDE DEF a, b, c
  <2>3. venue[l] <= c
    BY <2>1, <2>2
  <2> QED  BY <2>3 DEF c
<1> QED
  BY <1>5 DEF TradesAreBounded, MostTraded

\* Whatever fills, fails or fills late, no leg trades more than max_chunk_units in
\* each of max_loops loops.
THEOREM BoundTheorem == Spec => []TradesAreBounded
<1>1. IInv /\ ChunkPerLoop => TradesAreBounded
  BY BoundByLoops
<1> QED
  BY <1>1, AllInvariants, PTL

\* What the caller sees of a call: the venues, and the spot units it is told of.
Outcome == [spot |-> venue["spot"], perp |-> venue["perp"], told |-> told["spot"]]

\* The contract of FillerContract, for a call that returned and one that raised.
KeepsContract ==
  /\ pc = "done" =>
       Outcome \in ReturnedFills(MostTraded, missed = Nothing /\ naked = 0)
  /\ pc = "raised" => Outcome \in FillsUpTo(MostTraded)

\* The filler keeps the contract that FundingHarvester takes in its place: with
\* FillerMost at least MostTraded, the Fills of that module hold every outcome of
\* this one, and its FillerOutcome every outcome of a call that returned: with the
\* fault "rollback" all of them, without it those of exact calls.
THEOREM ContractTheorem == Spec => []KeepsContract
<1>1. IInv /\ ChunkPerLoop => KeepsContract
  <2> SUFFICES ASSUME IInv, ChunkPerLoop
               PROVE  KeepsContract
    OBVIOUS
  <2>1. /\ venue["spot"] \in Nat /\ venue["perp"] \in Nat /\ told["spot"] \in Nat
        /\ told["perp"] \in Nat
    BY DEF IInv, TypeOK, Legs
  <2>2. venue["spot"] <= MostTraded /\ venue["perp"] <= MostTraded
    BY BoundByLoops DEF TradesAreBounded, Legs
  <2>3. MostTraded \in Nat
    BY FillerAssumption DEF MostTraded
  <2>4. told["spot"] <= venue["spot"]
    BY DEF IInv, Ledger, Legs
  <2>5. Outcome \in FillsUpTo(MostTraded)
    BY <2>1, <2>2, <2>3, <2>4 DEF Outcome, FillsUpTo
  <2>6. pc = "done" /\ missed = Nothing /\ naked = 0 =>
          told["spot"] = venue["spot"] /\ (venue["spot"] = 0 => venue["perp"] = 0)
    BY <2>1 DEF IInv, Ledger, SpotFirst, Nothing, Legs
  <2> QED
    BY <2>1, <2>4, <2>5, <2>6 DEF KeepsContract, ReturnedFills, Outcome
<1> QED
  BY <1>1, AllInvariants, PTL

-----------------------------------------------------------------------------
(* What a call leaves that its caller is not told of *)

\* Until a spot is counted, the only perp there can be is the first chunk's.
FirstChunk ==
  told["spot"] = 0 =>
    /\ venue["perp"] <= MaxChunk
    /\ pc = "loop" => venue["perp"] = 0
    /\ pc = "legs" => venue["perp"] = fill["perp"]
    /\ pc = "raised" /\ "perp" \in pending => venue["perp"] = 0

\* Every step keeps it.
LEMMA FirstChunkStep ==
  ASSUME IInv, ChunkInv, FirstChunk, [Next]_vars
  PROVE  FirstChunk'
<1> USE FillerAssumption
<1> USE DEF FirstChunk
<1>0. /\ pc \in {"loop", "legs", "confirmed", "done", "raised"} /\ delta \in Int
      /\ chunk \in Nat /\ told["spot"] \in Nat /\ told["perp"] \in Nat
      /\ venue["perp"] \in Nat /\ venue["spot"] \in Nat
      /\ fill["spot"] \in Nat /\ fill["perp"] \in Nat
      /\ told \in [Legs -> Nat] /\ venue \in [Legs -> Nat] /\ fill \in [Legs -> Nat]
      /\ pc = "legs" => /\ chunk <= MaxChunk
                        /\ "perp" \in pending => fill["perp"] = 0
      /\ told["spot"] = 0 => delta = 0
  BY DEF IInv, TypeOK, DeltaIsImbalance, SpotFirst, Ledger, ChunkInv, Legs
<1>1. CASE Finish \/ SendChunk \/ Confirm \/ NoProgress
  BY <1>0, <1>1 DEF Finish, SendChunk, Confirm, NoProgress, Return, Nothing, ledger, Legs
<1>2. ASSUME NEW l \in Legs, Repair(l)
      PROVE  FirstChunk'
  <2>1. delta # 0 /\ told["spot"] > 0
    BY <1>0, <1>2 DEF Repair
  <2>2. told'["spot"] # 0
    <3>p. PICK n \in MayFill(l, RepairSize) : \E c \in Found(n) : Repaired(l, n, c)
      BY <1>2 DEF Repair, Repaired
    <3>1. PICK c \in Found(n) : Repaired(l, n, c)
      BY <3>p
    <3>2. n \in Nat
      BY SizesAreNumbers, FillsAreNumbers DEF IInv
    <3>3. c \in Nat
      BY <3>2, FoundIsFilled
    <3> QED
      BY <1>0, <2>1, <3>1, <3>3 DEF Repaired, Legs
  <2> QED
    BY <2>2
<1>3. ASSUME NEW l \in Legs, Answered(l)
      PROVE  FirstChunk'
  <2>1. PICK n \in MayFill(l, chunk) :
          /\ fill' = [fill EXCEPT ![l] = n]
          /\ venue' = [venue EXCEPT ![l] = @ + n]
    BY <1>3 DEF Answered
  <2>2. n \in Nat /\ n <= chunk
    BY <1>0, SizesAreBounded DEF IInv
  <2>3. pc = "legs" /\ l \in pending /\ UNCHANGED <<pc, told>>
    BY <1>3 DEF Answered
  <2> QED
    BY <1>0, <2>1, <2>2, <2>3 DEF Legs
<1>4. ASSUME NEW l \in Legs, LegRaises(l) \/ LateFill(l)
      PROVE  FirstChunk'
  <2>1. PICK n \in MayFill(l, chunk) : venue' = [venue EXCEPT ![l] = @ + n]
    BY <1>4 DEF LegRaises, LateFill
  <2>2. n \in Nat /\ n <= chunk
    BY <1>0, SizesAreBounded DEF IInv
  <2>3. /\ pc' = "raised" /\ pending' = pending \ {l} /\ l \in pending
        /\ pc \in {"legs", "raised"} /\ told' = told
    BY <1>4 DEF LegRaises, LateFill, Raise
  <2>4. chunk <= MaxChunk
    BY <1>0, <2>3 DEF ChunkInv, Legs
  <2> QED
    BY <1>0, <2>1, <2>2, <2>3, <2>4 DEF Legs
<1>5. CASE RollBackPerp
  BY <1>0, <1>5 DEF RollBackPerp, Return, Legs
<1>6. CASE Count
  BY <1>0, <1>6 DEF Count, Legs
<1>7. CASE UNCHANGED vars
  BY <1>7 DEF vars, ledger
<1> QED
  BY <1>1, <1>2, <1>3, <1>4, <1>5, <1>6, <1>7 DEF Next

\* A caller that is told of no spot has at most one chunk of perp alone, for any
\* size, whatever the roll back, the look-ups, an exception and a late fill did.
THEOREM NakedPerpTheorem == Spec => []NakedPerpIsAChunk
<1>1. Init => FirstChunk
  BY FillerAssumption DEF Init, FirstChunk, Nothing, Legs
<1>2. IInv /\ ChunkInv /\ FirstChunk /\ [Next]_vars => FirstChunk'
  BY FirstChunkStep
<1>3. FirstChunk => NakedPerpIsAChunk
  BY DEF FirstChunk, NakedPerpIsAChunk
<1> QED
  BY <1>1, <1>2, <1>3, AllInvariants, PTL DEF Spec

=============================================================================
