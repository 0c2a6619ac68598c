--------------------------- MODULE MCFixedDeposits ---------------------------
(* FixedDeposits on small instances: see the .cfg files for the bounds.    *)
EXTENDS FixedDeposits, TLC

MCAmounts == {1, 2}
MCSingleAmount == {1}
MCManualBalances == {3}
MCSymmetry == Permutations(Accounts)
=============================================================================
