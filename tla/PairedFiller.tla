----------------------------- MODULE PairedFiller -----------------------------
(***************************************************************************)
(* PairedFiller.fill_pair_units (adapters/hyperliquid_adapter): a spot leg *)
(* and a perp leg of the same size are filled chunk by chunk with          *)
(* immediate-or-cancel orders.  Both orders of a chunk are in flight at    *)
(* once; an imbalance they leave is repaired by an order on the leg that   *)
(* is behind.  What an order filled is looked up among the account's fills *)
(* before it is counted, and the look-up may find a part of it.  The       *)
(* caller is told the totals the filler counted; the venues hold what was  *)
(* traded.                                                                 *)
(*                                                                         *)
(* A unit is the common size step of the two assets, and one price stands  *)
(* for all: notionals and order pointers are left out.  An order that      *)
(* fills nothing is answered with an error, and only such an order is;     *)
(* place_market_order reports it as failed and _ioc_leg replaces the       *)
(* answer, so there is never a marginRejected status to see, and the roll  *)
(* back of a spot leg is never reached.                                    *)
(***************************************************************************)
EXTENDS Integers

CONSTANTS
  Total,     \* total_units, rounded down to the step
  MaxChunk,  \* max_chunk_units
  MinUnits,  \* min_units of the venue's minimum notional
  MaxLoops,  \* FillConfig.max_loops
  Funds,     \* units the account can buy, or has to sell, on the spot side
  CanRaise   \* an order may raise instead of being answered

ASSUME FillerAssumption ==
  /\ Total \in Nat /\ MaxLoops \in Nat /\ Funds \in Nat
  /\ MinUnits \in Nat \ {0} /\ MaxChunk \in Nat /\ MaxChunk >= MinUnits
  /\ CanRaise \in BOOLEAN

Legs == {"spot", "perp"}

VARIABLES
  pc,        \* where fill_pair_units is
  buying,    \* direction = "long_spot_short_perp"
  remaining, \* remaining, in steps
  delta,     \* delta_units
  loops,
  chunk,     \* size of the two orders in flight
  pending,   \* legs of the chunk whose order is not answered
  fill,      \* units the chunk's orders filled; then what confirm_leg found
  told,      \* total_spot and total_perp
  venue,     \* units traded on each side
  missed,    \* history: units filled that the look-ups did not find
  naked      \* history: units of a lone perp that its roll back did not fill

ledger == <<told, venue, missed, naked>>
vars == <<pc, buying, remaining, delta, loops, chunk, pending, fill, ledger>>

Nothing == [l \in Legs |-> 0]

Init ==
  /\ pc = "loop"
  /\ buying \in BOOLEAN
  /\ remaining = Total /\ delta = 0 /\ loops = 0 /\ chunk = 0
  /\ pending = {} /\ fill = Nothing /\ told = Nothing /\ venue = Nothing
  /\ missed = Nothing /\ naked = 0

-----------------------------------------------------------------------------
Least(a, b) == IF a < b THEN a ELSE b

Most(a, b) == IF a > b THEN a ELSE b

Size(n) == IF n < 0 THEN -n ELSE n

\* What the spot side still has: USDC to buy with, or units to sell.
Left == Funds - venue["spot"]

\* _max_spot_units; a sale is not limited.
MaxSpotUnits(n) ==
  IF ~buying THEN n ELSE IF Left < MinUnits THEN 0 ELSE Least(n, Left)

\* What an order for n units may fill, none of it included.
MayFill(l, n) == 0 .. IF l = "spot" THEN Least(n, Left) ELSE n

\* confirm_leg's count of an order that filled n units.  The sum over the fills
\* listed so far counts when it is positive, whatever part of the order it is;
\* otherwise the fill the answer reported does.
Found(n) == IF n = 0 THEN {0} ELSE 1 .. n

Shrunk(n) == (n * 9) \div 10 \* residual_shrink, rounded down to the step

\* The chunk the main loop sends, 0 when it ends instead; loops counts this one.
NextChunk ==
  LET whole == Least(remaining, MaxChunk)
      residual == remaining < MaxChunk /\ loops > 0
      wanted == IF residual THEN Shrunk(whole) ELSE whole
  IN IF wanted < MinUnits THEN 0 ELSE MaxSpotUnits(wanted)

More == loops < MaxLoops /\ (remaining > 0 \/ delta # 0)

\* The size of a repair order, 0 when the residual is left.
RepairSize ==
  LET fix == IF delta > 0 THEN Size(delta) ELSE Least(Size(delta), MaxSpotUnits(Size(delta)))
  IN IF fix < MinUnits THEN 0 ELSE fix

Return == pc' = "done"

Raise == CanRaise /\ pc' = "raised"

-----------------------------------------------------------------------------
\* Nothing left to do, too many loops, or a size below the venue's minimum.
Finish ==
  /\ pc = "loop"
  /\ \/ ~More
     \/ delta # 0 /\ RepairSize = 0
     \/ delta = 0 /\ NextChunk = 0
  /\ Return
  /\ UNCHANGED <<buying, remaining, delta, loops, chunk, pending, fill, ledger>>

\* Mutated form of Repair: the sign of a spot repair is that of a perp repair.
RepairOneSign(l) ==
  /\ pc = "loop" /\ More
  /\ IF l = "perp" THEN delta > 0 ELSE delta < 0
  /\ RepairSize > 0
  /\ loops' = loops + 1
  /\ \E n \in MayFill(l, RepairSize) : \E c \in Found(n) :
       /\ c > 0
       /\ venue' = [venue EXCEPT ![l] = @ + n]
       /\ told' = [told EXCEPT ![l] = @ + c]
       /\ missed' = [missed EXCEPT ![l] = @ + n - c]
       /\ delta' = delta - c
  /\ UNCHANGED <<pc, buying, remaining, chunk, pending, fill, naked>>

\* The leg that is behind is topped up; an order that fills nothing ends it.
Repair(l) ==
  /\ pc = "loop" /\ More
  /\ IF l = "perp" THEN delta > 0 ELSE delta < 0
  /\ RepairSize > 0
  /\ loops' = loops + 1
  /\ \E n \in MayFill(l, RepairSize) : \E c \in Found(n) :
       /\ venue' = [venue EXCEPT ![l] = @ + n]
       /\ \/ /\ c = 0 /\ Return
             /\ UNCHANGED <<delta, told, missed>>
          \/ Raise /\ UNCHANGED <<delta, told, missed>>
          \/ /\ c > 0
             /\ told' = [told EXCEPT ![l] = @ + c]
             /\ missed' = [missed EXCEPT ![l] = @ + n - c]
             /\ delta' = IF l = "perp" THEN delta - c ELSE delta + c
             /\ UNCHANGED pc
  /\ UNCHANGED <<buying, remaining, chunk, pending, fill, naked>>

\* Mutated form of SendChunk: an imbalance too small or too hard to repair is
\* left behind.
SendChunkUnrepaired ==
  /\ pc = "loop" /\ More
  /\ NextChunk > 0
  /\ loops' = loops + 1
  /\ chunk' = NextChunk
  /\ pending' = Legs /\ fill' = Nothing
  /\ pc' = "legs"
  /\ UNCHANGED <<buying, remaining, delta, ledger>>

\* Both orders of a chunk go out together.
SendChunk ==
  /\ pc = "loop" /\ More /\ delta = 0
  /\ NextChunk > 0
  /\ loops' = loops + 1
  /\ chunk' = NextChunk
  /\ pending' = Legs /\ fill' = Nothing
  /\ pc' = "legs"
  /\ UNCHANGED <<buying, remaining, delta, ledger>>

Answered(l) ==
  /\ pc = "legs" /\ l \in pending
  /\ \E n \in MayFill(l, chunk) :
       /\ fill' = [fill EXCEPT ![l] = n]
       /\ venue' = [venue EXCEPT ![l] = @ + n]
  /\ pending' = pending \ {l}
  /\ UNCHANGED <<pc, buying, remaining, delta, loops, chunk, told, missed, naked>>

\* One order raises, filled or not, and gather passes it on at once; the other
\* runs on.
LegRaises(l) ==
  /\ pc = "legs" /\ l \in pending
  /\ Raise
  /\ \E n \in MayFill(l, chunk) : venue' = [venue EXCEPT ![l] = @ + n]
  /\ pending' = pending \ {l}
  /\ UNCHANGED <<buying, remaining, delta, loops, chunk, fill, told, missed, naked>>

\* The order gather left behind fills after the caller was told of the failure.
LateFill(l) ==
  /\ pc = "raised" /\ l \in pending
  /\ \E n \in MayFill(l, chunk) : venue' = [venue EXCEPT ![l] = @ + n]
  /\ pending' = pending \ {l}
  /\ UNCHANGED <<pc, buying, remaining, delta, loops, chunk, fill, told, missed, naked>>

\* The fills of both orders are looked up, by the ids the answers gave: a look-up
\* by client id never answers, for get_order_status takes an integer.
Confirm ==
  /\ pc = "legs" /\ pending = {}
  /\ \E s \in Found(fill["spot"]), p \in Found(fill["perp"]) :
       /\ fill' = [fill EXCEPT !["spot"] = s, !["perp"] = p]
       /\ missed' = [missed EXCEPT !["spot"] = @ + fill["spot"] - s,
                                  !["perp"] = @ + fill["perp"] - p]
  /\ pc' = "confirmed"
  /\ UNCHANGED <<buying, remaining, delta, loops, chunk, pending, told, venue, naked>>

NoProgress ==
  /\ pc = "confirmed" /\ fill = Nothing
  /\ Return
  /\ UNCHANGED <<buying, remaining, delta, loops, chunk, pending, fill, ledger>>

LonePerp == pc = "confirmed" /\ fill["perp"] > 0 /\ fill["spot"] = 0

\* Mutated form of RollBackPerp: the fill is dropped, and the position stays.
RollBackPerpNever ==
  /\ LonePerp
  /\ Return
  /\ UNCHANGED <<buying, remaining, delta, loops, chunk, pending, fill, ledger>>

\* Mutated form of RollBackPerp: what is sent back is the chunk, not the fill.
RollBackPerpChunk ==
  /\ LonePerp
  /\ venue' = [venue EXCEPT !["perp"] = @ - chunk]
  /\ Return
  /\ UNCHANGED <<buying, remaining, delta, loops, chunk, pending, fill, told, missed, naked>>

\* Mutated form of RollBackPerp: the break that follows it is missing.
RollBackPerpRetries ==
  /\ LonePerp
  /\ \E n \in 0 .. fill["perp"] :
       /\ venue' = [venue EXCEPT !["perp"] = @ - n]
       /\ naked' = naked + fill["perp"] - n
  /\ pc' = "loop"
  /\ UNCHANGED <<buying, remaining, delta, loops, chunk, pending, fill, told, missed>>

\* A perp without a spot is sent back, and none of it is counted.  The order that
\* does so may fill in part, not at all, or raise: the outcome is only logged, and
\* the loop ends.
RollBackPerp ==
  /\ LonePerp
  /\ \E n \in 0 .. fill["perp"] :
       /\ venue' = [venue EXCEPT !["perp"] = @ - n]
       /\ naked' = naked + fill["perp"] - n
  /\ Return
  /\ UNCHANGED <<buying, remaining, delta, loops, chunk, pending, fill, told, missed>>

\* Mutated form of Count: a chunk is progress whatever of it filled.
CountChunk ==
  /\ pc = "confirmed" /\ fill["spot"] > 0
  /\ told' = [l \in Legs |-> told[l] + fill[l]]
  /\ remaining' = Most(remaining - chunk, 0)
  /\ delta' = delta + fill["spot"] - fill["perp"]
  /\ pc' = "loop"
  /\ UNCHANGED <<buying, loops, chunk, pending, fill, venue, missed, naked>>

\* What both legs filled is progress; what one leg filled more is to repair.
Count ==
  /\ pc = "confirmed" /\ fill["spot"] > 0
  /\ told' = [l \in Legs |-> told[l] + fill[l]]
  /\ remaining' = Most(remaining - Least(fill["spot"], fill["perp"]), 0)
  /\ delta' = delta + fill["spot"] - fill["perp"]
  /\ pc' = "loop"
  /\ UNCHANGED <<buying, loops, chunk, pending, fill, venue, missed, naked>>

Next ==
  \/ Finish \/ SendChunk \/ Confirm \/ NoProgress \/ RollBackPerp \/ Count
  \/ \E l \in Legs : Repair(l) \/ Answered(l) \/ LegRaises(l) \/ LateFill(l)

Spec == Init /\ [][Next]_vars

-----------------------------------------------------------------------------
(* Properties *)

\* The loop's counters and the venues' units hold what their types allow.
TypeOK ==
  /\ pc \in {"loop", "legs", "confirmed", "done", "raised"} /\ buying \in BOOLEAN
  /\ remaining \in Nat /\ delta \in Int /\ loops \in Nat /\ chunk \in Nat
  /\ pending \in SUBSET Legs
  /\ fill \in [Legs -> Nat] /\ told \in [Legs -> Nat] /\ venue \in [Legs -> Nat]
  /\ missed \in [Legs -> Nat] /\ naked \in Nat

\* When the filler returns, the totals it reports leave out of what the venues
\* hold no more than the look-ups missed and a roll back did not take back.
TotalsAreTraded ==
  pc = "done" =>
    /\ venue["spot"] = told["spot"] + missed["spot"]
    /\ venue["perp"] = told["perp"] + missed["perp"] + naked

\* The imbalance the repairs work on is that of the totals, through chunks,
\* partial repairs and failed orders.
DeltaIsImbalance == delta = told["spot"] - told["perp"]

\* When nothing remains and nothing is to repair, both legs filled what was
\* asked for, and the same.
CompletedIsFilled ==
  pc = "done" /\ remaining = 0 /\ delta = 0 =>
    told["spot"] = told["perp"] /\ told["spot"] >= Total

\* Whoever is told that no spot filled, as the harvester that records the lot, has
\* at most one chunk of perp on its own: whether the call returned or raised, and
\* whatever its roll back, its look-ups and late fills did.
NakedPerpIsAChunk == told["spot"] = 0 => venue["perp"] <= MaxChunk

\* Whatever fails, is rolled back or fills late, the legs are never further apart
\* than the chunk that was in flight and what the look-ups missed on one leg.
UnpairedIsAChunk ==
  Size(venue["spot"] - venue["perp"]) <= MaxChunk + Most(missed["spot"], missed["perp"])

\* A perp is never left on its own.  Not so: nobody looks at what the roll back
\* filled.
NoSpotNoPerp == pc = "done" /\ told["spot"] = 0 => venue["perp"] = 0

\* No more is bought or sold than was asked for.
WithinTotal == venue["spot"] <= Total
=============================================================================
