--------------------------- MODULE MCGraphVersions ---------------------------
(* The instance of GraphVersions that TLC checks.                          *)
EXTENDS GraphVersions, TLC

Symmetry == Permutations(Graphs) \cup Permutations(Callers) \cup Permutations(Ids)
==============================================================================
