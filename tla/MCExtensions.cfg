SPECIFICATION Spec
CONSTANTS
  Exts = {"octave", "fealpy", "jedi", "qcompute", "deepmd", "nektar", "boutpp",
          "abacus", "lean", "pycfd", "moose", "ai4pde"}
  DofLimit = 20
  Rounds = 2
INVARIANTS
  TypeOK
  PromotionIsEarned
  
