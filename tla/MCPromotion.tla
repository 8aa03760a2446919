----------------------------- MODULE MCPromotion -----------------------------
(* The instance of Promotion that TLC checks.                              *)
EXTENDS Promotion, TLC

Symmetry == Permutations(Ids)
==============================================================================
