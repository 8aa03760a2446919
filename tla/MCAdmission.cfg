\* Boots of every kind, then up to three calls.
SPECIFICATION Spec
CONSTANTS
  Setups <- MCSetups
  Identities <- MCIdentities
  HighIndex = 3
  CandidateIds = {c1, c2}
  Actors = {ann, bob}
  Approvals = {p1}
  Tier = 1
  MaxDepth = 2
  MaxSick = 1
SYMMETRY Symmetry
INVARIANTS
  BootedInOrder
  AdmittedIsFit
  OfferedIsLegal
PROPERTIES
  ProtectedNeedsApproval
  FirstUseWaits
\* After the last call nothing is left to do.
CHECK_DEADLOCK FALSE
