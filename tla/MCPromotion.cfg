\* Everything may happen.
SPECIFICATION PromotionSpec
CONSTANTS
    Graphs = {{k1}, {k1, k2}}
    NoGraph = NoGraph
    Ids = {i1, i2, i3}
    Callers = {1, 2}
    NoSnapshot = NoSnapshot
    NoCandidate = NoCandidate
    Retention = 1
    Windows = {}
    MaxVersion = 3
    MaxCandidates = 3
    MaxCalls = 3
    May = {"reject", "defer", "review", "nested", "abort", "timeout", "replay", "unhealthy", "window", "mutation", "reuse", "stale"}
SYMMETRY Symmetry
INVARIANTS
    RollbackResolvable
    RunningIsActive
\* After the last call nothing is left to do.
CHECK_DEADLOCK FALSE
