-------------------------- MODULE MCFundingHarvester --------------------------
EXTENDS FundingHarvester, TLC

SymbolSymmetry == Permutations(Symbols)
=============================================================================
