\* Nothing goes wrong.
SPECIFICATION Spec
CONSTANTS
    Routes = {r1, r2}
    Events = {e1}
    Components = {k1}
    MaxBuffered = 1
    MaxPromotions = 2
    Faults = {}
SYMMETRY Symmetry
INVARIANTS
    HeldIsHandled
CHECK_DEADLOCK FALSE
