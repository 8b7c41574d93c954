------------------------- MODULE MCFinancialRestore -------------------------
(* The instances TLC checks of FinancialRestore.                           *)
EXTENDS FinancialRestore, TLC

ItemSymmetry == Permutations(Items)
=============================================================================
