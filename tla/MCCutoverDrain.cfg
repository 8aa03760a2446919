\* Everything may go wrong.
SPECIFICATION Spec
CONSTANTS
    Routes = {r1, r2}
    Events = {e1}
    Components = {k1}
    MaxBuffered = 1
    MaxPromotions = 2
    Faults = {"timeout", "suspend", "cutover", "resume", "handler"}
SYMMETRY Symmetry
INVARIANTS
    InflightHonoured
    AtMostOnce
PROPERTIES
    ReplayedBySameEpoch
\* A promotion that raised in begin, or the last one, leaves nothing to do.
CHECK_DEADLOCK FALSE
