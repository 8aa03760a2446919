\* Deferred reviews; only the health probes fail after the cutover.
SPECIFICATION PromotionSpec
CONSTANTS
    Graphs = {{k1}, {k1, k2}}
    NoGraph = NoGraph
    Ids = {i1, i2, i3, i4}
    Callers = {1, 2}
    NoSnapshot = NoSnapshot
    NoCandidate = NoCandidate
    Retention = 1
    Windows = {}
    MaxVersion = 4
    MaxCandidates = 4
    MaxCalls = 4
    May = {"defer", "review", "abort", "timeout", "unhealthy"}
SYMMETRY Symmetry
INVARIANTS
    RecoveredIsActive
PROPERTIES
    CommitEvidenceTrue
    UnrecordedKeepsGraph
\* After the last call nothing is left to do.
CHECK_DEADLOCK FALSE
