SPECIFICATION Spec
CONSTANTS
  Kinds = {"octave", "fealpy", "jedi", "deepmd", "boutpp", "pycfd", "moose", "nektar", "qcompute"}
  Tolerance = 1
  Drop = 2
  Flat = 2
  MaxProposals = 2
INVARIANTS
  ReportStands
  FailureStaysInTrial
  NothingLeftRunning
  HandedAsAsked
  ProposalsAreFresh
