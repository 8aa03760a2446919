------------------------------ MODULE MCHotSwap ------------------------------
(* The instance of HotSwap that TLC checks.                                *)
EXTENDS HotSwap, TLC

CONSTANTS a, b, c, u1, u2, d

NoDeltaOrD == {{}, {d}}
Symmetry == Permutations({b, c}) \cup Permutations({u1, u2})
==============================================================================
