\* A backend that raises on a job it cannot see; everything may go wrong.
SPECIFICATION FairSpec
CONSTANTS
    BaseDelay = 1
    MaxDelay = 2
    MaxTotalWait = 5
    Unlisted = "raise"
    c1 = c1
    c2 = c2
    Cancellers = {c1, c2}
    Faults = {"command", "lag", "interrupt", "store"}
INVARIANTS
    RunTellsOneStory
    VerdictIsTrue
    DelaysAsScheduled
PROPERTIES
    RunEnds
\* After the run, the job and the cancellers have ended nothing is left to do.
CHECK_DEADLOCK FALSE
