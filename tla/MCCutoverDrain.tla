--------------------------- MODULE MCCutoverDrain ----------------------------
(* The instance of CutoverDrain that TLC checks.                           *)
EXTENDS CutoverDrain, TLC

Symmetry == Permutations(Routes) \cup Permutations(Components)
==============================================================================
