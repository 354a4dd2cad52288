----------------------------- MODULE FillerContract -----------------------------
(***************************************************************************)
(* What the caller of PairedFiller.fill_pair_units relies on: the module   *)
(* FundingHarvester takes these sets for the call, and PairedFillerProofs  *)
(* shows that the filler stays within them.                                *)
(***************************************************************************)
EXTENDS Integers

\* The units a call traded on each leg and the spot units it reports, when no leg
\* trades more than most.
FillsUpTo(most) == [spot : 0 .. most, perp : 0 .. most, told : 0 .. most]

\* When it returns, the spot units reported are those bought, and a perp without a
\* spot has been rolled back: if the call was exact, that is, the look-ups found all
\* that was filled and a roll back was filled whole.  Otherwise they are at most
\* those bought.
ReturnedFills(most, exact) ==
  {f \in FillsUpTo(most) :
     \/ f.told = f.spot /\ (f.spot = 0 => f.perp = 0)
     \/ ~exact /\ f.told <= f.spot}
=============================================================================
