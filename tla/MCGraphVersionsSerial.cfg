\* Promotions from fresh stagings under unused identifiers.
SPECIFICATION SerialSpec
SYMMETRY Symmetry
CONSTANTS
    Graphs = {g1, g2}
    NoGraph = NoGraph
    Ids = {i1, i2, i3}
    Callers = {c1, c2}
    NoSnapshot = NoSnapshot
    Retention = 1
    Windows = {0, 1}
    MaxVersion = 3
    MaxCandidates = 3
INVARIANTS
PROPERTIES
    SnapshotsImmutable
    DecidedNoLongerAwaits
    RestoresPrevious
